-------------------------- MODULE DataUpdate_proofs --------------------------
(***************************************************************************)
(* Proofs about DataUpdate: the types; the nodes a node needs are updated  *)
(* before it; no wake-up is lost; a wait that succeeds delivers; the       *)
(* frames that are shown stay as they are, are whole and in step with      *)
(* their partners, and every recorder has them after an update.            *)
(***************************************************************************)
EXTENDS DataUpdate, SequenceTheorems, TLAPS

USE DataUpdateAssumption

\* What the proofs below need of the types.
Types ==
  /\ cur \in [Generators -> 0..1]
  /\ visited \in [Nodes -> BOOLEAN]

\* Without a player nothing plays; with one, nobody waits for the event.
WhoPlays ==
  /\ pc = "wait" => played = {}
  /\ played = {} => /\ pc # "play" /\ thread = "wait" /\ ~trigger
                    /\ reader = <<"nobody", "none">>

\* The condition of a call looks at the nodes of that call; of the nodes an Any
\* call has looked at none had advanced, unless an event is on its way.
Looking ==
  pc = "check" =>
    /\ todo \subseteq Conditioned(call)
    /\ call[1] = "Any" /\ played = {} =>
         \/ event \/ raising # {}
         \/ \A n \in Nodes \ todo : ~DidNodeAdvanced(n)

WakeInv == WhoPlays /\ Looking /\ NoLostWakeUp

\* A visited node's needed nodes are visited, and so are those of the node whose
\* new data are being cleared.
NeededVisited ==
  /\ \A n \in Nodes : visited[n] => \A c \in Needs[n] : visited[c]
  /\ pc = "clear" => \A c \in Needs[Node] : visited[c]
-----------------------------------------------------------------------------
(* The needed nodes come first *)

\* One step of InputsFirst.
InputsFirstStep ==
  \A c \in Generators : cur'[c] # cur[c] =>
    \A n \in Nodes : c \in Needs[n] => ~visited[n]

\* A step that leaves the buffers and the visited nodes alone keeps everything.
LEMMA Unvisiting ==
  ASSUME Types, NeededVisited,
         cur' = cur, visited' = visited,
         pc' # "clear" \/ (pc' = pc /\ path' = path)
  PROVE  Types' /\ NeededVisited' /\ InputsFirstStep
BY DEF Types, NeededVisited, InputsFirstStep, Node

\* StartUpdate leaves no node visited.
LEMMA Restarting ==
  ASSUME Types, cur' = cur, StartUpdate
  PROVE  Types' /\ NeededVisited' /\ InputsFirstStep
BY DEF Types, NeededVisited, InputsFirstStep, StartUpdate

\* A node whose needed nodes are visited becomes visited.
LEMMA Visiting ==
  ASSUME Types, NeededVisited, NEW m,
         \A c \in Needs[m] : visited[c],
         cur' = cur, visited' = [visited EXCEPT ![m] = TRUE], pc' # "clear"
  PROVE  Types' /\ NeededVisited' /\ InputsFirstStep
<1>1. Types'
  BY DEF Types
<1>2. \A n \in Nodes : visited[n] => visited'[n]
  BY DEF Types
<1>3. ASSUME NEW n \in Nodes, visited'[n], NEW c \in Needs[n]
      PROVE  visited'[c]
  <2>1. c \in Nodes
    BY <1>3
  <2>2. visited[c]
    <3>1. CASE n = m
      BY <3>1, <1>3
    <3>2. CASE n # m
      BY <3>2, <1>3 DEF Types, NeededVisited
    <3> QED BY <3>1, <3>2
  <2> QED BY <2>1, <2>2, <1>2
<1> QED BY <1>1, <1>3 DEF NeededVisited, InputsFirstStep

\* Every step keeps Types and NeededVisited, and updates no node after a node
\* that needs it.
LEMMA UpdateStep ==
  ASSUME Types, NeededVisited, [Next]_vars
  PROVE  Types' /\ NeededVisited' /\ InputsFirstStep
<1>1. CASE \E c \in Calls : StartWait(c)
  BY <1>1, Unvisiting DEF StartWait, Check, flagVars, frameVars
<1>2. CASE WaitNone
  <2>1. CASE eof
    BY <1>2, <2>1, Unvisiting DEF WaitNone, flagVars, frameVars
  <2>2. CASE ~eof
    BY <1>2, <2>2, Restarting DEF WaitNone, frameVars
  <2> QED BY <2>1, <2>2
<1>3. CASE \E n \in Nodes : CheckNext(n) \/ ConditionNotMet(n)
  BY <1>3, Unvisiting DEF CheckNext, ConditionNotMet, Return, flagVars, frameVars
<1>4. CASE \E n \in Nodes : ConditionMet(n)
  BY <1>4, Restarting DEF ConditionMet, frameVars
<1>5. CASE WakeUp \/ WaitTimesOut \/ FinishUpdate
  BY <1>5, Unvisiting DEF WakeUp, WaitTimesOut, FinishUpdate, Check, Return, flagVars,
                          frameVars
<1>6. CASE \E n \in Nodes : UpdateTree(n) \/ UpdateNeeded(n)
  BY <1>6, Unvisiting DEF UpdateTree, UpdateNeeded, Updating, flagVars, frameVars
<1>7. CASE AlreadyVisited
  BY <1>7, Unvisiting DEF AlreadyVisited, Updating, flagVars, frameVars
<1>8. CASE UpdateData
  <2>1. Types' /\ NeededVisited'
    BY <1>8 DEF UpdateData, Ready, Types, NeededVisited, Node, flagVars
  <2>2. \A c \in Generators : cur'[c] # cur[c] => c = Node
    BY <1>8 DEF UpdateData, Types
  <2>3. \A n \in Nodes : Node \in Needs[n] => ~visited[n]
    BY <1>8 DEF UpdateData, Ready, NeededVisited
  <2> QED BY <2>1, <2>2, <2>3 DEF InputsFirstStep
<1>9. CASE DataUpdated
  <2>1. \A c \in Needs[Node] : visited[c]
    BY <1>9 DEF DataUpdated, NeededVisited
  <2> QED BY <1>9, <2>1, Visiting DEF DataUpdated
<1>10. CASE NothingToUpdate \/ Record
  <2>1. \A c \in Needs[Node] : visited[c]
    BY <1>10 DEF NothingToUpdate, Record, Ready
  <2>2. pc' # "clear"
    BY <1>10 DEF NothingToUpdate, Record, Ready, Updating
  <2> QED BY <1>10, <2>1, <2>2, Visiting DEF NothingToUpdate, Record, frameVars
<1>11. CASE UpdateFails
  BY <1>11, Unvisiting DEF UpdateFails, Return, frameVars
<1>12. CASE \E g \in Generators : NewFrame(g) \/ GeneratorHasNewData(g)
  BY <1>12, Unvisiting DEF NewFrame, GeneratorHasNewData, appVars, flagVars, frameVars
<1>13. CASE TimePasses \/ WakePlayback \/ \E w \in {"app", "playback"} : StartReading(w)
  BY <1>13, Unvisiting DEF TimePasses, WakePlayback, StartReading, appVars, flagVars,
                           frameVars
<1>14. CASE Reading
  <2>1. ASSUME NEW f, EndReading(f)
        PROVE  pc' # "clear" \/ (pc' = pc /\ path' = path)
    BY <2>1 DEF EndReading, Return, Check, appVars
  <2>2. CASE ReadEnd \/ SetNewDataAvailable
    BY <2>1, <2>2, Unvisiting DEF ReadEnd, SetNewDataAvailable, flagVars, frameVars
  <2>3. CASE ReadData \/ WriteStamp \/ NextBuffer \/ CopyData
    BY <2>3, Unvisiting DEF ReadData, WriteStamp, NextBuffer, CopyData, appVars,
                            flagVars, frameVars
  <2> QED BY <1>14, <2>2, <2>3 DEF Reading
<1>15. CASE UNCHANGED vars
  BY <1>15, Unvisiting DEF vars, appVars, flagVars, frameVars
<1> QED
  BY <1>1, <1>2, <1>3, <1>4, <1>5, <1>6, <1>7, <1>8, <1>9, <1>10, <1>11, <1>12, <1>13,
     <1>14, <1>15 DEF Next, Application

\* xnUpdateTreeImpl updates the needed nodes first: in one update, no node's
\* data change after those of a node that needs it.
THEOREM InputsFirstHolds == Spec => InputsFirst
<1>1. Init => Types /\ NeededVisited
  BY DEF Init, Types, NeededVisited
<1>2. Types /\ NeededVisited /\ [Next]_vars => Types' /\ NeededVisited'
  BY UpdateStep
<1>3. Types /\ NeededVisited /\ [Next]_vars =>
        [\A c \in Generators : cur'[c] # cur[c] =>
           \A n \in Nodes : c \in Needs[n] => ~visited[n]]_vars
  BY UpdateStep DEF InputsFirstStep
<1> QED
  BY <1>1, <1>2, <1>3, PTL DEF Spec, InputsFirst
-----------------------------------------------------------------------------
(* No wake-up is lost *)

\* The application neither evaluates a condition nor waits.
LEMMA NotWaiting ==
  ASSUME WhoPlays', pc' \notin {"check", "wait"}
  PROVE  WakeInv'
BY DEF WakeInv, Looking, NoLostWakeUp

\* It starts to evaluate one.
LEMMA StartChecking ==
  ASSUME WhoPlays', Check
  PROVE  WakeInv'
<1>1. pc' = "check" /\ todo' = Conditioned(call')
  BY DEF Check
<1>2. Conditioned(call)' = Conditioned(call')
  BY DEF Conditioned
<1>3. call'[1] = "Any" => Conditioned(call') = Nodes
  BY DEF Conditioned
<1>4. Looking'
  BY <1>1, <1>2, <1>3 DEF Looking
<1> QED BY <1>1, <1>4 DEF WakeInv, NoLostWakeUp

\* It goes on as before, and the event is set or will be.
LEMMA Woken ==
  ASSUME WakeInv, WhoPlays', pc' = pc, call' = call, todo' = todo,
         event' \/ raising' # {}
  PROVE  WakeInv'
<1>1. Conditioned(call)' = Conditioned(call)
  BY DEF Conditioned
<1> QED BY <1>1 DEF WakeInv, Looking, NoLostWakeUp

\* It goes on as before, and so do the generators.
LEMMA SameData ==
  ASSUME WakeInv, WhoPlays', pc' = pc, call' = call, todo' = todo,
         played' = played, frameVars' = frameVars, eventVars' = eventVars
  PROVE  WakeInv'
<1>1. Conditioned(call)' = Conditioned(call)
  BY DEF Conditioned
<1>2. \A n : DidNodeAdvanced(n)' <=> DidNodeAdvanced(n)
  BY DEF DidNodeAdvanced, Pending, Within, frameVars
<1>3. Condition' <=> Condition
  BY <1>1, <1>2 DEF Condition
<1>4. Looking' /\ NoLostWakeUp'
  BY <1>1, <1>2, <1>3 DEF WakeInv, Looking, NoLostWakeUp, eventVars
<1> QED BY <1>4 DEF WakeInv

\* The player does something while the application evaluates a condition.
LEMMA Playing ==
  ASSUME WakeInv, WhoPlays', pc' = pc, call' = call, todo' = todo,
         played # {}, played' = played
  PROVE  WakeInv'
<1>1. Conditioned(call)' = Conditioned(call)
  BY DEF Conditioned
<1> QED BY <1>1 DEF WakeInv, WhoPlays, Looking, NoLostWakeUp

\* The condition of a call does not hold if one node it looks at has not
\* advanced or, for an Any call, if none has.
LEMMA NotCondition ==
  ASSUME \/ call[1] # "Any" /\ \E n \in Conditioned(call) : ~DidNodeAdvanced(n)
         \/ call[1] = "Any" /\ \A n \in Nodes : ~DidNodeAdvanced(n)
  PROVE  ~Condition
BY DEF Condition

\* Every step keeps who plays.
LEMMA WhoPlaysStep ==
  ASSUME WhoPlays, [Next]_vars
  PROVE  WhoPlays'
<1> USE DEF WhoPlays, configVars, appVars, playerVars
<1>1. CASE \E c \in Calls : StartWait(c)
  BY <1>1 DEF StartWait, Check
<1>2. CASE WaitNone
  BY <1>2 DEF WaitNone, StartUpdate
<1>3. CASE \E n \in Nodes : CheckNext(n) \/ ConditionMet(n) \/ ConditionNotMet(n)
  BY <1>3 DEF CheckNext, ConditionMet, ConditionNotMet, Return, StartUpdate
<1>4. CASE WakeUp \/ WaitTimesOut \/ FinishUpdate
  BY <1>4 DEF WakeUp, WaitTimesOut, FinishUpdate, Check, Return
<1>5. CASE \E n \in Nodes : UpdateTree(n) \/ UpdateNeeded(n)
  BY <1>5 DEF UpdateTree, UpdateNeeded
<1>6. CASE AlreadyVisited \/ UpdateData \/ DataUpdated \/ NothingToUpdate \/ Record
  BY <1>6 DEF AlreadyVisited, UpdateData, DataUpdated, NothingToUpdate, Record
<1>7. CASE UpdateFails
  BY <1>7 DEF UpdateFails, Return
<1>8. CASE \E g \in Generators : NewFrame(g) \/ GeneratorHasNewData(g)
  BY <1>8 DEF NewFrame, GeneratorHasNewData
<1>9. CASE TimePasses \/ WakePlayback \/ \E w \in {"app", "playback"} : StartReading(w)
  BY <1>9 DEF TimePasses, WakePlayback, StartReading, Plays
<1>10. CASE Reading
  <2>1. played' = played /\ played # {}
    <3>1. reader[1] # "nobody" /\ played' = played
      BY <1>10 DEF Reading, ReadEnd, ReadData, WriteStamp, NextBuffer, CopyData,
                   SetNewDataAvailable, InStep
    <3> QED BY <3>1
  <2>2. ASSUME NEW f, EndReading(f)
        PROVE  pc' # "wait" \/ pc' = pc
    BY <2>2 DEF EndReading, Return, Check
  <2>3. pc' # "wait" \/ pc' = pc
    BY <1>10, <2>2 DEF Reading, ReadEnd, ReadData, WriteStamp, NextBuffer, CopyData,
                       SetNewDataAvailable
  <2> QED BY <2>1, <2>3
<1>11. CASE UNCHANGED vars
  BY <1>11 DEF vars
<1> QED
  BY <1>1, <1>2, <1>3, <1>4, <1>5, <1>6, <1>7, <1>8, <1>9, <1>10, <1>11
     DEF Next, Application

\* Every step keeps WakeInv.
LEMMA WakeStep ==
  ASSUME WakeInv, [Next]_vars
  PROVE  WakeInv'
<1> WhoPlays'
  BY WhoPlaysStep DEF WakeInv
<1>1. CASE \E c \in Calls : StartWait(c)
  BY <1>1, StartChecking DEF StartWait
<1>2. CASE WaitNone
  <2>1. pc' \in {"idle", "update"}
    BY <1>2 DEF WaitNone, StartUpdate
  <2> QED BY <2>1, NotWaiting
<1>3. ASSUME NEW n \in Nodes, CheckNext(n)
      PROVE  WakeInv'
  <2>1. Conditioned(call)' = Conditioned(call)
    BY <1>3 DEF CheckNext, Conditioned
  <2>2. \A m : DidNodeAdvanced(m)' <=> DidNodeAdvanced(m)
    BY <1>3 DEF CheckNext, DidNodeAdvanced, Pending, Within, frameVars
  <2>3. call[1] = "Any" => ~DidNodeAdvanced(n)
    BY <1>3 DEF CheckNext, Advanced
  <2>4. Looking'
    BY <1>3, <2>1, <2>2, <2>3 DEF CheckNext, WakeInv, Looking, eventVars, configVars
  <2> QED BY <1>3, <2>4 DEF CheckNext, WakeInv, NoLostWakeUp
<1>4. CASE \E n \in Nodes : ConditionMet(n)
  <2>1. pc' = "update"
    BY <1>4 DEF ConditionMet, StartUpdate
  <2> QED BY <2>1, NotWaiting
<1>5. ASSUME NEW n \in Nodes, ConditionNotMet(n)
      PROVE  WakeInv'
  <2>1. CASE pc' # "wait"
    <3>1. pc' \notin {"check", "wait"}
      BY <1>5, <2>1 DEF ConditionNotMet, Return
    <3> QED BY <3>1, NotWaiting
  <2>2. CASE pc' = "wait"
    <3>1. played = {} /\ call' = call /\ pc = "check" /\ n \in todo
      BY <1>5, <2>2 DEF ConditionNotMet, Return
    <3>2. ~Condition \/ event \/ raising # {}
      <4>1. n \in Conditioned(call) /\ ~DidNodeAdvanced(n)
        BY <1>5, <3>1 DEF ConditionNotMet, WakeInv, Looking
      <4>2. CASE call[1] # "Any"
        BY <4>1, <4>2, NotCondition
      <4>3. CASE call[1] = "Any"
        <5>1. todo = {n}
          BY <1>5, <4>3 DEF ConditionNotMet
        <5>2. event \/ raising # {} \/ \A m \in Nodes : ~DidNodeAdvanced(m)
          BY <3>1, <4>1, <4>3, <5>1 DEF WakeInv, Looking
        <5> QED BY <4>3, <5>2, NotCondition
      <4> QED BY <4>2, <4>3
    <3>3. Condition' <=> Condition
      <4>1. Conditioned(call)' = Conditioned(call)
        BY <3>1 DEF Conditioned
      <4>2. \A m : DidNodeAdvanced(m)' <=> DidNodeAdvanced(m)
        BY <1>5 DEF ConditionNotMet, DidNodeAdvanced, Pending, Within, frameVars
      <4> QED BY <3>1, <4>1, <4>2 DEF Condition
    <3>4. NoLostWakeUp'
      BY <1>5, <3>2, <3>3 DEF ConditionNotMet, NoLostWakeUp, eventVars
    <3> QED BY <2>2, <3>4 DEF WakeInv, Looking
  <2> QED BY <2>1, <2>2
<1>6. CASE WakeUp
  BY <1>6, StartChecking DEF WakeUp
<1>7. CASE WaitTimesOut \/ FinishUpdate \/ UpdateFails
  <2>1. pc' = "idle"
    BY <1>7 DEF WaitTimesOut, FinishUpdate, UpdateFails, Return
  <2> QED BY <2>1, NotWaiting
<1>8. CASE \/ \E n \in Nodes : UpdateTree(n) \/ UpdateNeeded(n)
           \/ AlreadyVisited \/ UpdateData \/ DataUpdated \/ NothingToUpdate \/ Record
  <2>1. pc' \in {"update", "clear"}
    BY <1>8 DEF UpdateTree, UpdateNeeded, AlreadyVisited, UpdateData, DataUpdated,
                NothingToUpdate, Record, Ready, Updating
  <2> QED BY <2>1, NotWaiting
<1>9. ASSUME NEW g \in Generators, NewFrame(g)
      PROVE  WakeInv'
  BY <1>9, Woken DEF NewFrame, appVars
<1>10. ASSUME NEW g \in Generators, GeneratorHasNewData(g)
       PROVE  WakeInv'
  BY <1>10, Woken DEF GeneratorHasNewData, appVars
<1>11. CASE TimePasses \/ WakePlayback \/ \E w \in {"app", "playback"} : StartReading(w)
  BY <1>11, SameData DEF TimePasses, WakePlayback, StartReading, configVars, frameVars,
                         eventVars, appVars
<1>12. CASE Reading
  <2>1. played' = played /\ played # {}
    <3>1. reader[1] # "nobody" /\ played' = played
      BY <1>12 DEF Reading, ReadEnd, ReadData, WriteStamp, NextBuffer, CopyData,
                   SetNewDataAvailable, InStep, configVars
    <3> QED BY <3>1 DEF WakeInv, WhoPlays
  <2>2. ASSUME NEW f, EndReading(f)
        PROVE  WakeInv'
    <3>1. CASE reader[1] = "playback"
      BY <2>1, <2>2, <3>1, Playing DEF EndReading, appVars
    <3>2. CASE reader[1] # "playback" /\ f
      <4>1. pc' = "idle"
        BY <2>2, <3>2 DEF EndReading, Return
      <4> QED BY <4>1, NotWaiting
    <3>3. CASE reader[1] # "playback" /\ ~f
      BY <2>2, <3>3, StartChecking DEF EndReading
    <3> QED BY <3>1, <3>2, <3>3
  <2>3. CASE ReadEnd \/ SetNewDataAvailable
    BY <2>2, <2>3 DEF ReadEnd, SetNewDataAvailable
  <2>4. CASE ReadData \/ WriteStamp \/ NextBuffer \/ CopyData
    BY <2>1, <2>4, Playing DEF ReadData, WriteStamp, NextBuffer, CopyData, appVars
  <2> QED BY <1>12, <2>3, <2>4 DEF Reading
<1>13. CASE UNCHANGED vars
  BY <1>13, SameData DEF vars, configVars, frameVars, eventVars, appVars
<1> QED
  BY <1>1, <1>2, <1>3, <1>4, <1>5, <1>6, <1>7, <1>8, <1>9, <1>10, <1>11, <1>12, <1>13
     DEF Next, Application

\* When the condition of a thread that waits for the new-data event holds, the
\* event is set or is about to be.
THEOREM WakeUpsKept == Spec => []NoLostWakeUp
<1>1. Init => WakeInv
  BY DEF Init, WakeInv, WhoPlays, Looking, NoLostWakeUp
<1>2. WakeInv /\ [Next]_vars => WakeInv'
  BY WakeStep
<1>3. WakeInv => NoLostWakeUp
  BY DEF WakeInv
<1> QED
  BY <1>1, <1>2, <1>3, PTL DEF Spec
-----------------------------------------------------------------------------
(* Types *)

\* The parts of TypeOK.
FrameTypes ==
  /\ buf \in [Generators -> [0..1 -> Frames]]
  /\ cur \in [Generators -> 0..1]
  /\ avail \in [Generators -> BOOLEAN]
EventTypes == raising \subseteq Generators \ played /\ event \in BOOLEAN
AppTypes ==
  /\ pc \in {"idle", "check", "wait", "play", "update", "clear"}
  /\ call \in Calls \cup {<<"None", NoNode>>}
  /\ todo \subseteq Nodes /\ path \in Seq(Nodes)
  /\ late \in BOOLEAN
  /\ result \in {"none", "ok", "timeout", "eof", "error"}
FlagTypes ==
  /\ isNew \in [Nodes -> BOOLEAN] /\ visited \in [Nodes -> BOOLEAN]
  /\ last \in [Recorders -> [Generators -> Nat]]
PlayerTypes ==
  /\ pos \in 1..(Len(Recording) + 1) /\ eof \in BOOLEAN
  /\ reader \in {<<"nobody", "none">>} \cup ({"app", "playback"} \X Steps)
  /\ reader[2] \notin {"none", "record"} => pos <= Len(Recording)
  /\ target \in 0..1
  /\ trigger \in BOOLEAN /\ thread \in {"wait", "play"}
ConfigTypes == played \in {{}, Fed} /\ repeat \in BOOLEAN /\ asynch \in BOOLEAN

\* New data are cleared within a tree, a wait is that of a call, and the
\* application only reads a record within a wait.
StageTypes ==
  /\ pc = "clear" => path # <<>> /\ Node \in Generators
  /\ pc \in {"check", "wait", "play"} => call \in Calls
ReaderTypes == reader[1] = "app" => pc = "play"

TypeInv ==
  /\ ConfigTypes /\ FrameTypes /\ EventTypes /\ AppTypes /\ FlagTypes /\ PlayerTypes
  /\ StageTypes /\ ReaderTypes

\* What a generator shows and what is pending are frames, and a frame that is
\* stored keeps the buffers' types.
LEMMA FrameFacts ==
  ASSUME FrameTypes, NEW g \in Generators
  PROVE  /\ Shown[g] \in Frames /\ Pending(g) \in Frames
         /\ Shown[g].ts \in Nat /\ 1 + Latest(g) \in Nat
         /\ 1 - cur[g] \in 0..1
<1>1. cur[g] \in 0..1 /\ 1 - cur[g] \in 0..1
  BY DEF FrameTypes
<1>2. Shown[g] \in Frames /\ Pending(g) \in Frames
  BY <1>1 DEF FrameTypes, Shown, Pending
<1>3. Shown[g].ts \in Nat /\ Pending(g).ts \in Nat
  BY <1>2 DEF Frames
<1>4. Latest(g) \in Nat
  BY <1>3 DEF Latest
<1> QED BY <1>1, <1>2, <1>3, <1>4

\* The blank frame that a generator begins with is a frame.
LEMMA Blanks == Blank \in Frames
BY DEF Blank, Frames

\* Storing a frame, a time stamp or data in a buffer keeps the type of the buffers.
LEMMA StoreTypes ==
  ASSUME FrameTypes, NEW g \in Generators, NEW k \in 0..1, NEW v \in Nat, NEW f \in Frames
  PROVE  /\ [buf EXCEPT ![g][k] = f] \in [Generators -> [0..1 -> Frames]]
         /\ [buf EXCEPT ![g][k].ts = v] \in [Generators -> [0..1 -> Frames]]
         /\ [buf EXCEPT ![g][k].data = v] \in [Generators -> [0..1 -> Frames]]
<1>1. buf[g] \in [0..1 -> Frames] /\ buf[g][k] \in Frames
  BY DEF FrameTypes
<1>2. [buf[g][k] EXCEPT !.ts = v] \in Frames /\ [buf[g][k] EXCEPT !.data = v] \in Frames
  BY <1>1 DEF Frames
<1>3. ASSUME NEW h \in Frames
      PROVE  [buf EXCEPT ![g] = [buf[g] EXCEPT ![k] = h]] \in [Generators -> [0..1 -> Frames]]
  <2>1. [buf[g] EXCEPT ![k] = h] \in [0..1 -> Frames]
    BY <1>1
  <2> QED BY <2>1 DEF FrameTypes
<1> QED BY <1>2, <1>3

\* What a recorder's watchers have taken keeps its type.
LEMMA WatchTypes ==
  ASSUME FrameTypes, FlagTypes, NEW r, NEW W
  PROVE  Watch(r, W) \in [Recorders -> [Generators -> Nat]]
<1>1. CASE r \in Recorders
  <2>1. ASSUME NEW g \in Generators
        PROVE  (IF g \in W THEN Shown[g].ts ELSE last[r][g]) \in Nat
    BY <1>1, FrameFacts DEF FlagTypes
  <2> DEFINE w == [g \in Generators |-> IF g \in W THEN Shown[g].ts ELSE last[r][g]]
  <2>2. w \in [Generators -> Nat]
    BY <2>1
  <2>3. Watch(r, W) = [last EXCEPT ![r] = w]
    BY DEF Watch
  <2> HIDE DEF w
  <2> QED BY <2>2, <2>3 DEF FlagTypes
<1>2. CASE r \notin Recorders
  BY <1>2 DEF Watch, FlagTypes
<1> QED BY <1>1, <1>2

\* Every condition is about nodes of the context.
LEMMA ConditionedNodes ==
  ASSUME NEW c \in Calls
  PROVE  Conditioned(c) \subseteq Nodes
BY DEF Calls, Conditioned

\* The recursion stack holds nodes, and returning from a tree keeps it so.
LEMMA PathNodes ==
  ASSUME path \in Seq(Nodes), path # <<>>
  PROVE  Node \in Nodes /\ Front(path) \in Seq(Nodes)
<1>1. Len(path) \in Nat \ {0} /\ \A i \in 1..Len(path) : path[i] \in Nodes
  BY EmptySeq, LenProperties
<1>2. Node \in Nodes
  BY <1>1 DEF Node, Last
<1>3. Front(path) \in Seq(Nodes)
  BY <1>1 DEF Front
<1> QED BY <1>2, <1>3

\* The data of a record fit the buffers.
LEMMA FedTypes ==
  ASSUME PlayerTypes, reader[2] \in Steps \ {"record"}
  PROVE  FedNode \in Generators /\ Recording[pos][2] \in Nat
<1>1. pos \in 1..Len(Recording)
  BY DEF PlayerTypes, Steps
<1>2. Recording[pos] \in Generators \X (Nat \ {0})
  BY <1>1
<1> QED BY <1>2 DEF FedNode

\* xnWaitForCondition and xnUpdateGraph begin with nodes of the context.
LEMMA StartTypes ==
  ASSUME TypeInv, call' \in Calls \cup {<<"None", NoNode>>}, last' = last, path' = path,
         late' = late, result' \in {"none", "ok", "timeout", "eof", "error"}
  PROVE  /\ StartUpdate => AppTypes' /\ FlagTypes' /\ StageTypes'
         /\ call' \in Calls /\ Check => AppTypes' /\ StageTypes'
<1>1. ASSUME StartUpdate
      PROVE  AppTypes' /\ FlagTypes' /\ StageTypes'
  <2>1. call'[1] = "Data" => call'[2] \in Nodes
    BY DEF Calls
  <2>2. todo' \subseteq Nodes
    BY <1>1, <2>1 DEF StartUpdate
  <2> QED BY <1>1, <2>2 DEF StartUpdate, TypeInv, AppTypes, FlagTypes, StageTypes
<1>2. ASSUME call' \in Calls, Check
      PROVE  AppTypes' /\ StageTypes'
  BY <1>2, ConditionedNodes DEF Check, TypeInv, AppTypes, StageTypes
<1> QED BY <1>1, <1>2

\* EndReading keeps the types, whoever reads.
LEMMA EndReadingTypes ==
  ASSUME TypeInv, reader[1] # "nobody", NEW f \in BOOLEAN, EndReading(f)
  PROVE  /\ AppTypes' /\ StageTypes'
         /\ reader' = <<"nobody", "none">> /\ thread' \in {"wait", "play"}
<1>1. CASE reader[1] = "playback"
  BY <1>1 DEF EndReading, TypeInv, AppTypes, StageTypes, PlayerTypes, appVars, Node
<1>2. CASE reader[1] # "playback" /\ f
  BY <1>2, EmptySeq DEF EndReading, Return, TypeInv, AppTypes, StageTypes, PlayerTypes
<1>3. CASE reader[1] # "playback" /\ ~f
  <2>1. call \in Calls /\ Conditioned(call) \subseteq Nodes
    BY <1>3, ConditionedNodes DEF TypeInv, PlayerTypes, StageTypes, ReaderTypes
  <2> QED
    BY <1>3, <2>1 DEF EndReading, Check, TypeInv, AppTypes, StageTypes, PlayerTypes
<1> QED BY <1>1, <1>2, <1>3

\* Every step keeps where the application reads.
LEMMA ReaderStep ==
  ASSUME TypeInv, [Next]_vars
  PROVE  ReaderTypes'
<1> USE DEF TypeInv, ReaderTypes
<1>1. CASE Application
  <2>1. reader' = reader
    BY <1>1 DEF Application, CheckNext, ConditionMet, ConditionNotMet, WakeUp,
                WaitTimesOut, UpdateTree, UpdateNeeded, AlreadyVisited, UpdateData,
                DataUpdated, NothingToUpdate, Record, UpdateFails, FinishUpdate,
                playerVars
  <2>2. pc # "play"
    BY <1>1 DEF Application, CheckNext, ConditionMet, ConditionNotMet, WakeUp,
                WaitTimesOut, UpdateTree, UpdateNeeded, AlreadyVisited, UpdateData,
                DataUpdated, NothingToUpdate, Record, UpdateFails, FinishUpdate,
                Ready, Updating
  <2> QED BY <2>1, <2>2
<1>2. CASE (\E c \in Calls : StartWait(c)) \/ WaitNone
  BY <1>2 DEF StartWait, WaitNone, playerVars
<1>3. CASE \/ \E g \in Generators : NewFrame(g) \/ GeneratorHasNewData(g)
           \/ TimePasses \/ WakePlayback \/ UNCHANGED vars
  BY <1>3 DEF NewFrame, GeneratorHasNewData, TimePasses, WakePlayback, vars, appVars,
              playerVars
<1>4. CASE \E who \in {"app", "playback"} : StartReading(who)
  BY <1>4 DEF StartReading, Plays, appVars
<1>5. CASE Reading
  <2>1. CASE ReadEnd \/ SetNewDataAvailable
    BY <2>1 DEF ReadEnd, SetNewDataAvailable, EndReading
  <2>2. CASE ReadData \/ WriteStamp \/ NextBuffer \/ CopyData
    BY <2>2 DEF ReadData, WriteStamp, NextBuffer, CopyData, Step, appVars
  <2> QED BY <1>5, <2>1, <2>2 DEF Reading
<1> QED BY <1>1, <1>2, <1>3, <1>4, <1>5 DEF Next

\* Every step keeps the types.
LEMMA TypeStep ==
  ASSUME TypeInv, [Next]_vars
  PROVE  TypeInv'
<1> USE DEF TypeInv
<1>0. ReaderTypes'
  BY ReaderStep
<1>1. ConfigTypes'
  <2>1. UNCHANGED configVars
    BY DEF Next, vars, NewFrame, GeneratorHasNewData, StartWait, WaitNone, Application,
           CheckNext, ConditionMet, ConditionNotMet, WakeUp, WaitTimesOut, UpdateTree,
           UpdateNeeded, AlreadyVisited, UpdateData, DataUpdated, NothingToUpdate,
           Record, UpdateFails, FinishUpdate, TimePasses, WakePlayback, StartReading,
           Reading, ReadEnd, ReadData, WriteStamp, NextBuffer, CopyData,
           SetNewDataAvailable
  <2> QED BY <2>1 DEF configVars, ConfigTypes
<1>2. CASE \E g \in Generators : NewFrame(g) \/ GeneratorHasNewData(g)
  <2>1. ASSUME NEW g \in Generators, NewFrame(g)
        PROVE  TypeInv'
    <3>1. 1 + Latest(g) \in Nat /\ 1 - cur[g] \in 0..1
      BY FrameFacts
    <3>2. [ts |-> 1 + Latest(g), data |-> 1 + Latest(g)] \in Frames
      BY <3>1 DEF Frames
    <3>3. buf' \in [Generators -> [0..1 -> Frames]]
      BY <2>1, <3>1, <3>2, StoreTypes DEF NewFrame
    <3>4. FrameTypes'
      BY <2>1, <3>3 DEF NewFrame, FrameTypes
    <3> QED
      BY <1>0, <1>1, <2>1, <3>4 DEF NewFrame, EventTypes, AppTypes, FlagTypes, PlayerTypes,
                              StageTypes, Node, configVars, appVars, flagVars, playerVars
  <2>2. ASSUME NEW g \in Generators, GeneratorHasNewData(g)
        PROVE  TypeInv'
    BY <1>0, <1>1, <2>2 DEF GeneratorHasNewData, FrameTypes, EventTypes, AppTypes, FlagTypes,
                      PlayerTypes, StageTypes, Node, configVars, frameVars, appVars,
                      flagVars, playerVars
  <2> QED BY <1>2, <2>1, <2>2
<1>3. CASE \E c \in Calls : StartWait(c)
  <2>1. PICK c \in Calls : StartWait(c)
    BY <1>3
  <2>2. AppTypes' /\ StageTypes'
    BY <2>1, StartTypes DEF StartWait, flagVars
  <2> QED
    BY <1>0, <1>1, <2>1, <2>2 DEF StartWait, FrameTypes, EventTypes, FlagTypes, PlayerTypes,
                            configVars, frameVars, eventVars, flagVars, playerVars
<1>4. CASE WaitNone
  <2>1. FrameTypes' /\ EventTypes' /\ PlayerTypes'
    BY <1>4 DEF WaitNone, FrameTypes, EventTypes, PlayerTypes, configVars, frameVars,
                eventVars
  <2>2. CASE eof
    BY <1>0, <1>1, <1>4, <2>1, <2>2 DEF WaitNone, AppTypes, FlagTypes, StageTypes, flagVars
  <2>3. CASE ~eof
    BY <1>0, <1>1, <1>4, <2>1, <2>3, StartTypes DEF WaitNone, StartUpdate
  <2> QED BY <2>2, <2>3
<1>5. CASE Application
  <2>1. PlayerTypes'
    BY <1>5 DEF Application, CheckNext, ConditionMet, ConditionNotMet, WakeUp,
                WaitTimesOut, UpdateTree, UpdateNeeded, AlreadyVisited, UpdateData,
                DataUpdated, NothingToUpdate, Record, UpdateFails, FinishUpdate,
                PlayerTypes, playerVars
  <2>2. EventTypes'
    BY <1>5 DEF Application, CheckNext, ConditionMet, ConditionNotMet, WakeUp,
                WaitTimesOut, UpdateTree, UpdateNeeded, AlreadyVisited, UpdateData,
                DataUpdated, NothingToUpdate, Record, UpdateFails, FinishUpdate,
                EventTypes, eventVars, configVars
  <2>3. CASE \E n \in Nodes : CheckNext(n)
    BY <1>0, <1>1, <2>1, <2>2, <2>3 DEF CheckNext, FrameTypes, AppTypes, FlagTypes, StageTypes,
                                  frameVars, flagVars
  <2>4. CASE \E n \in Nodes : ConditionMet(n)
    <3>1. FrameTypes'
      BY <2>4 DEF ConditionMet, FrameTypes, frameVars
    <3>2. AppTypes' /\ FlagTypes' /\ StageTypes'
      BY <2>4, StartTypes DEF ConditionMet, StartUpdate, AppTypes
    <3> QED BY <1>0, <1>1, <2>1, <2>2, <3>1, <3>2
  <2>5. CASE (\E n \in Nodes : ConditionNotMet(n)) \/ WaitTimesOut \/ FinishUpdate
    <3>1. FrameTypes' /\ FlagTypes'
      BY <2>5 DEF ConditionNotMet, WaitTimesOut, FinishUpdate, FrameTypes, FlagTypes,
                  frameVars, flagVars, playerVars
    <3>2. ASSUME NEW res \in {"ok", "timeout", "eof", "error"}, Return(res)
          PROVE  AppTypes'
      BY <3>2, EmptySeq DEF Return, AppTypes
    <3>3. AppTypes'
      BY <2>5, <3>2 DEF ConditionNotMet, WaitTimesOut, FinishUpdate, AppTypes
    <3>4. StageTypes'
      BY <2>5, <3>1 DEF ConditionNotMet, WaitTimesOut, FinishUpdate, Return, StageTypes
    <3> QED BY <1>0, <1>1, <2>1, <2>2, <3>1, <3>3, <3>4
  <2>6. CASE WakeUp
    <3>1. call \in Calls /\ Conditioned(call) \subseteq Nodes
      BY <2>6, ConditionedNodes DEF WakeUp, StageTypes
    <3> QED
      BY <1>0, <1>1, <2>1, <2>2, <2>6, <3>1 DEF WakeUp, Check, FrameTypes, AppTypes, FlagTypes,
                                          StageTypes, frameVars, flagVars
  <2>7. CASE \E n \in Nodes : UpdateTree(n) \/ UpdateNeeded(n)
    <3>1. PICK n \in Nodes : UpdateTree(n) \/ UpdateNeeded(n)
      BY <2>7
    <3>2. <<n>> \in Seq(Nodes) /\ Append(path, n) \in Seq(Nodes)
      BY DEF AppTypes
    <3>3. pc = "update" /\ pc' = pc /\ path' \in Seq(Nodes) /\ todo' \subseteq Nodes
      BY <3>1, <3>2 DEF UpdateTree, UpdateNeeded, Updating, AppTypes
    <3>4. FrameTypes' /\ FlagTypes'
      BY <3>1 DEF UpdateTree, UpdateNeeded, FrameTypes, FlagTypes, frameVars, flagVars
    <3> QED
      BY <1>0, <1>1, <2>1, <2>2, <3>1, <3>3, <3>4
         DEF UpdateTree, UpdateNeeded, AppTypes, StageTypes
  <2>8. CASE AlreadyVisited
    <3>1. Front(path) \in Seq(Nodes)
      BY <2>8, PathNodes DEF AlreadyVisited, Updating, AppTypes
    <3> QED
      BY <1>0, <1>1, <2>1, <2>2, <2>8, <3>1
         DEF AlreadyVisited, Updating, TreeUpdated, FrameTypes, AppTypes, FlagTypes,
             StageTypes, frameVars, flagVars
  <2>9. CASE UpdateData
    <3>1. FrameTypes'
      BY <2>9 DEF UpdateData, FrameTypes
    <3> QED
      BY <1>0, <1>1, <2>1, <2>2, <2>9, <3>1
         DEF UpdateData, Ready, Updating, AppTypes, FlagTypes, StageTypes, Node, flagVars
  <2>10. CASE DataUpdated
    <3>1. Front(path) \in Seq(Nodes)
      BY <2>10, PathNodes DEF DataUpdated, AppTypes, StageTypes
    <3>2. FrameTypes'
      BY <2>10 DEF DataUpdated, FrameTypes
    <3>3. FlagTypes'
      BY <2>10 DEF DataUpdated, FlagTypes
    <3> QED
      BY <1>0, <1>1, <2>1, <2>2, <2>10, <3>1, <3>2, <3>3
         DEF DataUpdated, TreeUpdated, AppTypes, StageTypes
  <2>11. CASE NothingToUpdate \/ Record
    <3>1. Front(path) \in Seq(Nodes) /\ pc = "update" /\ Node \in Nodes
      BY <2>11, PathNodes DEF NothingToUpdate, Record, Ready, Updating, AppTypes
    <3>2. FrameTypes'
      BY <2>11 DEF NothingToUpdate, Record, FrameTypes, frameVars
    <3>3. visited' \in [Nodes -> BOOLEAN] /\ isNew' \in [Nodes -> BOOLEAN]
      BY <2>11 DEF NothingToUpdate, Record, FlagTypes
    <3>5. last' \in [Recorders -> [Generators -> Nat]]
      BY <2>11, WatchTypes DEF NothingToUpdate, Record, FlagTypes
    <3> QED
      BY <1>0, <1>1, <2>1, <2>2, <2>11, <3>1, <3>2, <3>3, <3>5
         DEF NothingToUpdate, Record, TreeUpdated, AppTypes, FlagTypes, StageTypes
  <2>12. CASE UpdateFails
    <3>1. FrameTypes'
      BY <2>12 DEF UpdateFails, FrameTypes, frameVars
    <3>3. last' \in [Recorders -> [Generators -> Nat]]
      BY <2>12, WatchTypes DEF UpdateFails, FlagTypes
    <3> QED
      BY <1>0, <1>1, <2>1, <2>2, <2>12, <3>1, <3>3, EmptySeq
         DEF UpdateFails, Return, AppTypes, FlagTypes, StageTypes
  <2> QED
    BY <1>5, <2>3, <2>4, <2>5, <2>6, <2>7, <2>8, <2>9, <2>10, <2>11, <2>12
       DEF Application
<1>6. CASE TimePasses
  BY <1>0, <1>1, <1>6 DEF TimePasses, FrameTypes, EventTypes, AppTypes, FlagTypes, PlayerTypes,
                    StageTypes, Node, configVars, frameVars, eventVars, flagVars,
                    playerVars
<1>7. CASE WakePlayback \/ \E who \in {"app", "playback"} : StartReading(who)
  <2>1. PlayerTypes'
    <3>1. CASE WakePlayback
      BY <3>1 DEF WakePlayback, PlayerTypes
    <3>2. ASSUME NEW who \in {"app", "playback"}, StartReading(who)
          PROVE  PlayerTypes'
      <4>1. reader' \in {"app", "playback"} \X Steps /\ reader'[2] = "record"
        BY <3>2 DEF StartReading, Steps
      <4> QED BY <3>2, <4>1 DEF StartReading, PlayerTypes
    <3> QED BY <1>7, <3>1, <3>2
  <2> QED
    BY <1>0, <1>1, <1>7, <2>1 DEF WakePlayback, StartReading, FrameTypes, EventTypes, AppTypes,
                            FlagTypes, StageTypes, Node, configVars, frameVars, eventVars,
                            appVars, flagVars
<1>8. CASE Reading
  <2>0. Len(Recording) \in Nat
    OBVIOUS
  <2>1. FlagTypes'
    BY <1>8 DEF Reading, ReadEnd, ReadData, WriteStamp, NextBuffer, CopyData,
                SetNewDataAvailable, FlagTypes, flagVars
  <2>2. EventTypes'
    BY <1>8 DEF Reading, ReadEnd, ReadData, WriteStamp, NextBuffer, CopyData,
                SetNewDataAvailable, EventTypes, eventVars, configVars
  <2>3. CASE ReadEnd
    <3>1. AppTypes' /\ StageTypes' /\ reader' = <<"nobody", "none">>
            /\ thread' \in {"wait", "play"}
      BY <2>3, EndReadingTypes DEF ReadEnd, InStep, PlayerTypes
    <3>2. PlayerTypes'
      BY <2>0, <2>3, <3>1 DEF ReadEnd, PlayerTypes, ConfigTypes
    <3> QED BY <1>0, <1>1, <2>1, <2>2, <2>3, <3>1, <3>2 DEF ReadEnd, FrameTypes, frameVars
  <2>4. CASE SetNewDataAvailable
    <3>1. AppTypes' /\ StageTypes' /\ reader' = <<"nobody", "none">>
            /\ thread' \in {"wait", "play"}
      BY <2>4, EndReadingTypes DEF SetNewDataAvailable, InStep
    <3>2. PlayerTypes'
      BY <2>0, <2>4, <3>1 DEF SetNewDataAvailable, InStep, PlayerTypes
    <3>3. FrameTypes'
      BY <2>4 DEF SetNewDataAvailable, FrameTypes
    <3> QED BY <1>0, <1>1, <2>1, <2>2, <3>1, <3>2, <3>3
  <2>5. CASE ReadData \/ WriteStamp \/ NextBuffer \/ CopyData
    <3>1. AppTypes' /\ StageTypes'
      BY <2>5 DEF ReadData, WriteStamp, NextBuffer, CopyData, AppTypes, StageTypes, Node,
                  appVars
    <3>2. WriteStamp \/ NextBuffer \/ CopyData =>
            FedNode \in Generators /\ Recording[pos][2] \in Nat
      BY FedTypes DEF WriteStamp, NextBuffer, CopyData, InStep, Steps
    <3>3. FrameTypes'
      <4>1. CASE ReadData \/ NextBuffer
        BY <4>1 DEF ReadData, NextBuffer, FrameTypes, frameVars
      <4>2. CASE WriteStamp
        <5>1. 1 - cur[FedNode] \in 0..1
          BY <3>2, <4>2, FrameFacts
        <5>2. buf' \in [Generators -> [0..1 -> Frames]]
          BY <3>2, <4>2, <5>1, StoreTypes, Blanks DEF WriteStamp
        <5> QED BY <4>2, <5>2 DEF WriteStamp, FrameTypes
      <4>3. CASE CopyData
        <5>1. target \in 0..1
          BY DEF PlayerTypes
        <5>2. buf' \in [Generators -> [0..1 -> Frames]]
          BY <3>2, <4>3, <5>1, StoreTypes, Blanks DEF CopyData
        <5> QED BY <4>3, <5>2 DEF CopyData, FrameTypes
      <4> QED BY <2>5, <4>1, <4>2, <4>3
    <3>4. reader[1] \in {"app", "playback"}
      BY <2>5 DEF ReadData, WriteStamp, NextBuffer, CopyData, InStep, PlayerTypes
    <3>5. target' \in 0..1
      <4>1. CASE NextBuffer
        BY <3>2, <4>1, FrameFacts DEF NextBuffer
      <4>2. CASE ReadData \/ WriteStamp \/ CopyData
        BY <4>2 DEF ReadData, WriteStamp, CopyData, PlayerTypes
      <4> QED BY <2>5, <4>1, <4>2
    <3>6. PlayerTypes'
      BY <2>5, <3>4, <3>5 DEF ReadData, WriteStamp, NextBuffer, CopyData, InStep, Step,
                              Steps, PlayerTypes
    <3> QED BY <1>0, <1>1, <2>1, <2>2, <3>1, <3>3, <3>6
  <2> QED BY <1>8, <2>3, <2>4, <2>5 DEF Reading
<1>9. CASE UNCHANGED vars
  BY <1>0, <1>9 DEF vars, ConfigTypes, FrameTypes, EventTypes, AppTypes, FlagTypes, PlayerTypes,
              StageTypes, Node, configVars, frameVars, eventVars, appVars, flagVars,
              playerVars
<1> QED BY <1>2, <1>3, <1>4, <1>5, <1>6, <1>7, <1>8, <1>9 DEF Next

\* The initial values have their types.
LEMMA InitTypes ==
  ASSUME Init
  PROVE  TypeInv
<1>1. FrameTypes /\ EventTypes
  <2>1. [k \in 0..1 |-> Blank] \in [0..1 -> Frames]
    BY Blanks
  <2>2. buf \in [Generators -> [0..1 -> Frames]]
    BY <2>1 DEF Init
  <2>3. cur \in [Generators -> 0..1] /\ avail \in [Generators -> BOOLEAN]
    BY DEF Init
  <2>4. raising = {} /\ event = FALSE
    BY DEF Init
  <2> QED BY <2>2, <2>3, <2>4 DEF FrameTypes, EventTypes
<1>2. AppTypes /\ FlagTypes
  BY EmptySeq DEF Init, AppTypes, FlagTypes
<1>3. 1 \in 1..(Len(Recording) + 1)
  OBVIOUS
<1>4. ConfigTypes
  BY DEF Init, ConfigTypes
<1>5. PlayerTypes
  <2>1. /\ pos = 1 /\ eof = FALSE /\ reader = <<"nobody", "none">> /\ target = 0
        /\ trigger = FALSE /\ thread = "wait"
    BY DEF Init
  <2>2. reader[2] = "none"
    BY <2>1
  <2>3. eof \in BOOLEAN /\ trigger \in BOOLEAN
    BY <2>1
  <2>4. reader \in {<<"nobody", "none">>} \cup ({"app", "playback"} \X Steps)
    BY <2>1, Zenon
  <2>5. reader[2] \notin {"none", "record"} => pos <= Len(Recording)
    BY <2>2
  <2>6. pos \in 1..(Len(Recording) + 1) /\ target \in 0..1
    BY <1>3, <2>1
  <2>7. thread \in {"wait", "play"}
    BY <2>1
  <2> QED BY <2>3, <2>4, <2>5, <2>6, <2>7 DEF PlayerTypes
<1>6. StageTypes /\ ReaderTypes
  BY DEF Init, StageTypes, ReaderTypes
<1> QED BY <1>1, <1>2, <1>4, <1>5, <1>6 DEF TypeInv

\* The variables have their types.
THEOREM TypeCorrect == Spec => []TypeOK
<1>1. Init => TypeInv
  BY InitTypes
<1>2. TypeInv /\ [Next]_vars => TypeInv'
  BY TypeStep
<1>3. TypeInv => TypeOK
  BY DEF TypeInv, TypeOK, ConfigTypes, FrameTypes, EventTypes, AppTypes, FlagTypes,
         PlayerTypes
<1> QED
  BY <1>1, <1>2, <1>3, PTL DEF Spec
-----------------------------------------------------------------------------
(* A wait delivers *)

\* The nodes the loop of xnUpdateGraph goes over.
Roots == IF call[1] = "Data" THEN {call[2]} ELSE Nodes

\* A generator has new data, or has had its own in this update.
Arrived(g) == IF visited[g] THEN isNew[g] ELSE avail[g]

\* The generators a condition has looked at keep their data until the update ...
Collecting ==
  pc = "check" /\ call[1] # "Any" =>
    \A g \in Conditioned(call) \ todo : g \in Generators /\ avail[g]

\* ... which then finds them ...
Delivering ==
  pc \in {"update", "clear"} =>
    /\ call[1] = "Any" => \E g \in Generators : Arrived(g)
    /\ call[1] \in {"All", "One", "Data"} => \A g \in Conditioned(call) : Arrived(g)

\* ... and comes to every node it goes over.
Coming ==
  pc \in {"update", "clear"} =>
    \A n \in Roots : n \in todo \/ visited[n] \/ (path # <<>> /\ path[1] = n)

DeliverInv == Collecting /\ Delivering /\ Coming /\ WaitDelivers

\* How a call's nodes depend on the call only.
LEMMA SameCall ==
  ASSUME call' = call
  PROVE  Conditioned(call)' = Conditioned(call) /\ Roots' = Roots
BY DEF Conditioned, Roots

\* A node that leaves the recursion stack leaves its bottom alone, unless it is
\* the bottom.
LEMMA PathBottom ==
  ASSUME path \in Seq(Nodes), path # <<>>
  PROVE  /\ path[1] = Node \/ (Front(path) # <<>> /\ Front(path)[1] = path[1])
         /\ \A c \in Nodes : Append(path, c) # <<>> /\ Append(path, c)[1] = path[1]
<1>1. Len(path) \in Nat \ {0} /\ \A i \in 1..Len(path) : path[i] \in Nodes
  BY EmptySeq, LenProperties
<1>2. ASSUME Len(path) = 1
      PROVE  path[1] = Node
  BY <1>2 DEF Node, Last
<1>3. ASSUME Len(path) > 1
      PROVE  Front(path) # <<>> /\ Front(path)[1] = path[1]
  <2>1. Front(path) = SubSeq(path, 1, Len(path) - 1)
    BY DEF Front
  <2>2. Len(Front(path)) = Len(path) - 1 /\ Front(path)[1] = path[1]
    BY <1>1, <1>3, <2>1
  <2>3. Front(path) # <<>>
    BY <1>1, <1>3, <2>2, EmptySeq
  <2> QED BY <2>2, <2>3
<1>4. ASSUME NEW c \in Nodes
      PROVE  Append(path, c) # <<>> /\ Append(path, c)[1] = path[1]
  <2>1. Len(Append(path, c)) = Len(path) + 1 /\ Append(path, c)[1] = path[1]
    BY <1>1
  <2>2. Append(path, c) \in Seq(Nodes)
    OBVIOUS
  <2> QED BY <1>1, <2>1, <2>2, EmptySeq
<1>5. Len(path) = 1 \/ Len(path) > 1
  <2>1. \A n \in Nat \ {0} : n = 1 \/ n > 1
    OBVIOUS
  <2> QED BY <1>1, <2>1, Zenon
<1> QED BY <1>2, <1>3, <1>4, <1>5

\* What a call waits for.
LEMMA CallKinds ==
  ASSUME TypeInv
  PROVE  /\ call[1] \in {"All", "Any", "One", "Data", "None"}
         /\ call[1] \in {"All", "One", "Data"} => Conditioned(call) \subseteq Generators
         /\ call[1] \in {"All", "One"} => Conditioned(call) \subseteq Roots
         /\ call[1] = "Data" => Conditioned(call) = Roots
         /\ call[1] = "Any" => Roots = Nodes
BY DEF TypeInv, AppTypes, Calls, Conditioned, Roots

\* The application stays where it is, and no generator loses its data.
LEMMA KeptData ==
  ASSUME TypeInv, DeliverInv, pc' = pc, call' = call, todo' = todo, path' = path,
         result' = result, isNew' = isNew, visited' = visited,
         \A g \in Generators : avail[g] => avail'[g]
  PROVE  DeliverInv'
<1>1. Conditioned(call)' = Conditioned(call) /\ Roots' = Roots
  BY SameCall
<1>2. Collecting'
  BY <1>1 DEF DeliverInv, Collecting
<1>3. Coming'
  BY <1>1 DEF DeliverInv, Coming
<1>4. \A g \in Generators : Arrived(g) => Arrived(g)'
  BY DEF Arrived
<1>5. Delivering'
  BY <1>1, <1>4, CallKinds DEF DeliverInv, Delivering
<1>6. WaitDelivers'
  BY <1>1 DEF DeliverInv, WaitDelivers, Succeeded
<1> QED BY <1>2, <1>3, <1>5, <1>6 DEF DeliverInv

\* The application is done, without success, or about to evaluate a condition
\* from its start, or waits.
LEMMA NothingCollected ==
  ASSUME \/ pc' = "idle" /\ result' # "ok"
         \/ pc' = "check" /\ todo' = Conditioned(call')
         \/ pc' \in {"wait", "play"}
  PROVE  DeliverInv'
<1>1. Conditioned(call)' = Conditioned(call')
  BY DEF Conditioned
<1> QED
  BY <1>1 DEF DeliverInv, Collecting, Delivering, Coming, WaitDelivers, Succeeded

\* The update begins with what its call waited for.
LEMMA StartDelivering ==
  ASSUME StartUpdate, call' = call, TypeInv,
         call[1] = "Any" => \E g \in Generators : avail'[g],
         call[1] \in {"All", "One", "Data"} => \A g \in Conditioned(call) : avail'[g]
  PROVE  DeliverInv'
<1>1. Conditioned(call)' = Conditioned(call) /\ Roots' = Roots
  BY SameCall
<1>2. pc' = "update" /\ todo' = Roots
  BY DEF StartUpdate, Roots
<1>3. ASSUME NEW g \in Generators, avail'[g]
      PROVE  Arrived(g)'
  BY <1>3 DEF StartUpdate, Arrived
<1>4. Delivering'
  BY <1>1, <1>2, <1>3, CallKinds DEF Delivering
<1>5. Coming'
  BY <1>1, <1>2 DEF Coming
<1> QED BY <1>2, <1>4, <1>5 DEF DeliverInv, Collecting, WaitDelivers, Succeeded

\* Within an update, a step that comes to what it has to and leaves what has
\* arrived there.
LEMMA StillDelivering ==
  ASSUME TypeInv, DeliverInv, pc \in {"update", "clear"}, pc' \in {"update", "clear"},
         call' = call, \A g \in Generators : Arrived(g) => Arrived(g)',
         \A n \in Roots : n \in todo' \/ visited'[n] \/ (path' # <<>> /\ path'[1] = n)
  PROVE  DeliverInv'
<1>1. Conditioned(call)' = Conditioned(call) /\ Roots' = Roots
  BY SameCall
<1>2. Delivering'
  BY <1>1, CallKinds DEF DeliverInv, Delivering
<1>3. Coming'
  BY <1>1 DEF Coming
<1> QED BY <1>2, <1>3 DEF DeliverInv, Collecting, WaitDelivers, Succeeded

\* xnUpdateTreeImpl leaves a node that is visited now.
LEMMA TreeDone ==
  ASSUME TypeInv, DeliverInv, pc \in {"update", "clear"}, path # <<>>, TreeUpdated,
         visited'[Node], \A n \in Nodes : visited[n] => visited'[n]
  PROVE  \A n \in Roots : n \in todo' \/ visited'[n] \/ (path' # <<>> /\ path'[1] = n)
<1>1. path \in Seq(Nodes) /\ path' = Front(path) /\ todo' = todo
  BY DEF TypeInv, AppTypes, TreeUpdated
<1>2. path[1] = Node \/ (path' # <<>> /\ path'[1] = path[1])
  BY <1>1, PathBottom
<1>3. call[1] = "Data" => call[2] \in Nodes
  BY DEF TypeInv, AppTypes, Calls
<1>4. Roots \subseteq Nodes
  BY <1>3 DEF Roots
<1> QED BY <1>1, <1>2, <1>4 DEF DeliverInv, Coming

\* Every step delivers, and keeps the way to what is still to be delivered.
LEMMA DeliverStep ==
  ASSUME TypeInv, DeliverInv, [Next]_vars
  PROVE  DeliverInv'
<1>1. CASE \E c \in Calls : StartWait(c)
  BY <1>1, NothingCollected DEF StartWait, Check
<1>2. CASE WaitNone
  <2>1. CASE eof
    <3>1. pc' = "idle" /\ result' = "eof"
      BY <1>2, <2>1 DEF WaitNone
    <3> QED BY <3>1, NothingCollected
  <2>2. CASE ~eof
    <3>1. StartUpdate /\ call'[1] = "None" /\ pc' = "update"
      BY <1>2, <2>2 DEF WaitNone, StartUpdate
    <3>2. Roots' = Nodes /\ todo' = Nodes
      BY <3>1 DEF StartUpdate, Roots
    <3> QED
      BY <3>1, <3>2 DEF DeliverInv, Collecting, Delivering, Coming, WaitDelivers,
                        Succeeded
  <2> QED BY <2>1, <2>2
<1>3. ASSUME NEW n \in Nodes, CheckNext(n)
      PROVE  DeliverInv'
  <2>1. Conditioned(call)' = Conditioned(call)
    BY <1>3, SameCall DEF CheckNext
  <2>2. call[1] # "Any" => n \in Generators /\ avail[n]
    BY <1>3 DEF CheckNext, Advanced, DidNodeAdvanced
  <2>3. Collecting'
    BY <1>3, <2>1, <2>2 DEF CheckNext, DeliverInv, Collecting, frameVars
  <2> QED BY <1>3, <2>3 DEF CheckNext, DeliverInv, Delivering, Coming, WaitDelivers,
                            Succeeded
<1>4. ASSUME NEW n \in Nodes, ConditionMet(n)
      PROVE  DeliverInv'
  <2>1. n \in Generators /\ avail[n] /\ avail' = avail
    BY <1>4 DEF ConditionMet, DidNodeAdvanced, frameVars
  <2>2. call[1] # "Any" => \A g \in Conditioned(call) : avail[g]
    BY <1>4, <2>1 DEF ConditionMet, DeliverInv, Collecting
  <2> QED BY <1>4, <2>1, <2>2, StartDelivering DEF ConditionMet
<1>5. ASSUME NEW n \in Nodes, ConditionNotMet(n)
      PROVE  DeliverInv'
  BY <1>5, NothingCollected DEF ConditionNotMet, Return
<1>6. CASE WakeUp
  BY <1>6, NothingCollected DEF WakeUp, Check
<1>7. CASE WaitTimesOut \/ UpdateFails
  BY <1>7, NothingCollected DEF WaitTimesOut, UpdateFails, Return
<1>8. ASSUME NEW n \in Nodes, UpdateTree(n) \/ UpdateNeeded(n)
      PROVE  DeliverInv'
  <2>1. pc = "update" /\ pc' = "update" /\ call' = call
    BY <1>8 DEF UpdateTree, UpdateNeeded, Updating
  <2>2. \A g \in Generators : Arrived(g)' <=> Arrived(g)
    BY <1>8 DEF UpdateTree, UpdateNeeded, Arrived, frameVars, flagVars
  <2>3. CASE UpdateTree(n)
    <3>1. path = <<>> /\ path' = <<n>> /\ todo' = todo \ {n} /\ visited' = visited
      BY <2>3 DEF UpdateTree, flagVars
    <3>2. path' # <<>> /\ path'[1] = n
      BY <3>1
    <3>3. \A m \in Roots : m \in todo' \/ visited'[m] \/ (path' # <<>> /\ path'[1] = m)
      BY <2>1, <3>1, <3>2 DEF DeliverInv, Coming
    <3> QED BY <2>1, <2>2, <3>3, StillDelivering
  <2>4. CASE UpdateNeeded(n)
    <3>1. path # <<>> /\ path' = Append(path, n) /\ todo' = todo /\ visited' = visited
      BY <2>4 DEF UpdateNeeded, Updating, flagVars
    <3>2. path' # <<>> /\ path'[1] = path[1]
      BY <3>1, PathBottom DEF TypeInv, AppTypes
    <3>3. \A m \in Roots : m \in todo' \/ visited'[m] \/ (path' # <<>> /\ path'[1] = m)
      BY <2>1, <3>1, <3>2 DEF DeliverInv, Coming
    <3> QED BY <2>1, <2>2, <3>3, StillDelivering
  <2> QED BY <1>8, <2>3, <2>4
<1>9. CASE AlreadyVisited
  <2>1. \A g \in Generators : Arrived(g)' <=> Arrived(g)
    BY <1>9 DEF AlreadyVisited, Arrived, frameVars, flagVars
  <2>2. \A n \in Roots : n \in todo' \/ visited'[n] \/ (path' # <<>> /\ path'[1] = n)
    BY <1>9, TreeDone DEF AlreadyVisited, Updating, flagVars
  <2> QED
    BY <1>9, <2>1, <2>2, StillDelivering DEF AlreadyVisited, Updating, TreeUpdated
<1>10. CASE UpdateData
  <2>1. \A g \in Generators : Arrived(g)' <=> Arrived(g)
    BY <1>10 DEF UpdateData, Arrived, flagVars
  <2>2. \A n \in Roots : n \in todo' \/ visited'[n] \/ (path' # <<>> /\ path'[1] = n)
    BY <1>10 DEF UpdateData, Ready, Updating, DeliverInv, Coming, flagVars
  <2> QED
    BY <1>10, <2>1, <2>2, StillDelivering DEF UpdateData, Ready, Updating
<1>11. CASE DataUpdated
  <2>1. pc = "clear" /\ path # <<>> /\ Node \in Nodes /\ TreeUpdated
    BY <1>11, PathNodes DEF DataUpdated, TypeInv, AppTypes, StageTypes
  <2>2. visited'[Node] /\ \A n \in Nodes : visited[n] => visited'[n]
    BY <1>11, <2>1 DEF DataUpdated, TypeInv, FlagTypes
  <2>3. ASSUME NEW g \in Generators, Arrived(g)
        PROVE  Arrived(g)'
    <3>1. CASE g = Node
      BY <1>11, <2>1, <3>1 DEF DataUpdated, Arrived, TypeInv, FlagTypes
    <3>2. CASE g # Node
      BY <1>11, <2>3, <3>2 DEF DataUpdated, Arrived, TypeInv, FlagTypes, FrameTypes
    <3> QED BY <3>1, <3>2
  <2>4. \A n \in Roots : n \in todo' \/ visited'[n] \/ (path' # <<>> /\ path'[1] = n)
    BY <2>1, <2>2, TreeDone
  <2> QED
    BY <1>11, <2>1, <2>3, <2>4, StillDelivering DEF DataUpdated, TreeUpdated
<1>12. CASE NothingToUpdate \/ Record
  <2>1. pc = "update" /\ pc' = pc /\ path # <<>> /\ Node \in Nodes /\ TreeUpdated
    BY <1>12, PathNodes DEF NothingToUpdate, Record, Ready, Updating, TypeInv, AppTypes
  <2>2. visited'[Node] /\ \A n \in Nodes : visited[n] => visited'[n]
    BY <1>12, <2>1 DEF NothingToUpdate, Record, TypeInv, FlagTypes
  <2>3. Node \in Generators => ~visited[Node] /\ ~avail[Node]
    BY <1>12 DEF NothingToUpdate, Record, Ready
  <2>4. ASSUME NEW g \in Generators, Arrived(g)
        PROVE  Arrived(g)'
    <3>1. g # Node
      BY <2>3, <2>4 DEF Arrived
    <3>2. visited'[g] = visited[g] /\ isNew' = isNew /\ avail' = avail
      BY <1>12, <3>1 DEF NothingToUpdate, Record, TypeInv, FlagTypes, frameVars
    <3> QED BY <2>4, <3>2 DEF Arrived
  <2>5. \A n \in Roots : n \in todo' \/ visited'[n] \/ (path' # <<>> /\ path'[1] = n)
    BY <2>1, <2>2, TreeDone
  <2> QED
    BY <2>1, <2>4, <2>5, StillDelivering DEF TreeUpdated
<1>13. CASE FinishUpdate
  <2>1. pc = "update" /\ path = <<>> /\ todo = {} /\ call' = call /\ pc' = "idle"
          /\ isNew' = isNew
    BY <1>13 DEF FinishUpdate, Return, flagVars
  <2>2. \A n \in Roots : visited[n]
    BY <2>1 DEF DeliverInv, Coming
  <2>3. Conditioned(call)' = Conditioned(call)
    BY <2>1, SameCall
  <2>4. call[1] = "Any" => \E g \in Generators : isNew[g]
    BY <2>1, <2>2, CallKinds DEF DeliverInv, Delivering, Arrived
  <2>5. call[1] \in {"All", "One", "Data"} => \A g \in Conditioned(call) : isNew[g]
    BY <2>1, <2>2, CallKinds DEF DeliverInv, Delivering, Arrived
  <2>6. WaitDelivers'
    BY <2>1, <2>3, <2>4, <2>5, CallKinds DEF WaitDelivers
  <2> QED BY <2>1, <2>6 DEF DeliverInv, Collecting, Delivering, Coming
<1>14. CASE \E g \in Generators : NewFrame(g)
  BY <1>14, KeptData DEF NewFrame, TypeInv, FrameTypes, appVars, flagVars
<1>15. CASE \/ \E g \in Generators : GeneratorHasNewData(g)
            \/ TimePasses \/ WakePlayback \/ UNCHANGED vars
            \/ \E who \in {"app", "playback"} : StartReading(who)
  BY <1>15, KeptData DEF GeneratorHasNewData, TimePasses, WakePlayback, StartReading,
                         vars, appVars, flagVars, frameVars
<1>16. CASE Reading
  <2>1. \A g \in Generators : avail[g] => avail'[g]
    BY <1>16 DEF Reading, ReadEnd, ReadData, WriteStamp, NextBuffer, CopyData,
                 SetNewDataAvailable, TypeInv, FrameTypes, frameVars
  <2>2. isNew' = isNew /\ visited' = visited
    BY <1>16 DEF Reading, ReadEnd, ReadData, WriteStamp, NextBuffer, CopyData,
                 SetNewDataAvailable, flagVars
  <2>3. ASSUME NEW f, EndReading(f)
        PROVE  DeliverInv'
    <3>1. CASE reader[1] = "playback"
      BY <2>1, <2>2, <2>3, <3>1, KeptData DEF EndReading, appVars
    <3>2. CASE reader[1] # "playback" /\ f
      BY <2>3, <3>2, NothingCollected DEF EndReading, Return
    <3>3. CASE reader[1] # "playback" /\ ~f
      BY <2>3, <3>3, NothingCollected DEF EndReading, Check
    <3> QED BY <3>1, <3>2, <3>3
  <2>4. CASE ReadEnd \/ SetNewDataAvailable
    BY <2>3, <2>4 DEF ReadEnd, SetNewDataAvailable
  <2>5. CASE ReadData \/ WriteStamp \/ NextBuffer \/ CopyData
    BY <2>1, <2>2, <2>5, KeptData DEF ReadData, WriteStamp, NextBuffer, CopyData, appVars
  <2> QED BY <1>16, <2>4, <2>5 DEF Reading
<1> QED
  BY <1>1, <1>2, <1>3, <1>4, <1>5, <1>6, <1>7, <1>8, <1>9, <1>10, <1>11, <1>12, <1>13,
     <1>14, <1>15, <1>16 DEF Next, Application

\* A wait that succeeds has delivered what it waited for.
THEOREM WaitsDeliver == Spec => []WaitDelivers
<1>1. Init => TypeInv /\ DeliverInv
  BY InitTypes DEF Init, DeliverInv, Collecting, Delivering, Coming, WaitDelivers, Succeeded
<1>2. TypeInv /\ DeliverInv /\ [Next]_vars => TypeInv' /\ DeliverInv'
  BY TypeStep, DeliverStep
<1>3. DeliverInv => WaitDelivers
  BY DEF DeliverInv
<1> QED
  BY <1>1, <1>2, <1>3, PTL DEF Spec
-----------------------------------------------------------------------------
(* What is shown changes in an update only *)

\* An application that never plays by xnWaitNoneUpdateAll leaves the playback
\* thread waiting.
PlaybackIdle == ~asynch => thread = "wait" /\ ~trigger /\ reader[1] # "playback"

\* SetNextData refers to the buffer that is not shown.
NextIsPending == ~asynch /\ reader[2] = "copy" => target = 1 - cur[FedNode]

QuietInv == TypeInv /\ WhoPlays /\ PlaybackIdle /\ NextIsPending

\* Nothing is fed while the application does anything but play, and what is fed
\* is fed by a player.
LEMMA Feeding ==
  ASSUME QuietInv, ~asynch
  PROVE  /\ pc # "play" => reader = <<"nobody", "none">>
         /\ reader[2] \in Steps => played = Fed /\ played # {}
         /\ reader[2] \in Steps \ {"record"} => pos \in 1..Len(Recording) /\ FedNode \in played
<1>1. reader \in {<<"nobody", "none">>} \cup ({"app", "playback"} \X Steps)
  BY DEF QuietInv, TypeInv, PlayerTypes
<1>2. reader[1] = "app" \/ reader = <<"nobody", "none">>
  BY <1>1 DEF QuietInv, PlaybackIdle
<1>3. pc # "play" => reader = <<"nobody", "none">>
  BY <1>2 DEF QuietInv, TypeInv, ReaderTypes
<1>4. reader[2] \in Steps => played = Fed /\ played # {}
  <2>1. reader[2] \in Steps => reader # <<"nobody", "none">>
    BY DEF Steps
  <2> QED BY <2>1 DEF QuietInv, WhoPlays, TypeInv, ConfigTypes
<1>5. ASSUME reader[2] \in Steps \ {"record"}
      PROVE  pos \in 1..Len(Recording) /\ FedNode \in played
  <2>1. pos \in 1..Len(Recording)
    BY <1>5 DEF QuietInv, TypeInv, PlayerTypes, Steps
  <2> QED BY <1>4, <1>5, <2>1 DEF Fed, FedNode
<1> QED BY <1>3, <1>4, <1>5

\* The configuration is fixed.
LEMMA ConfigFixed ==
  ASSUME [Next]_vars
  PROVE  played' = played /\ repeat' = repeat /\ asynch' = asynch
BY DEF Next, vars, configVars, NewFrame, GeneratorHasNewData, StartWait, WaitNone,
       Application, CheckNext, ConditionMet, ConditionNotMet, WakeUp, WaitTimesOut,
       UpdateTree, UpdateNeeded, AlreadyVisited, UpdateData, DataUpdated, NothingToUpdate,
       Record, UpdateFails, FinishUpdate, TimePasses, WakePlayback, StartReading, Reading,
       ReadEnd, ReadData, WriteStamp, NextBuffer, CopyData, SetNewDataAvailable

\* Storing something in the buffer that is not shown.
LEMMA Stored ==
  ASSUME FrameTypes, NEW g \in Generators, NEW f \in Frames, cur' = cur,
         buf' = [buf EXCEPT ![g] = [buf[g] EXCEPT ![1 - cur[g]] = f]]
  PROVE  /\ \A h \in Generators : Shown'[h] = Shown[h]
         /\ Pending(g)' = f /\ \A h \in Generators \ {g} : Pending(h)' = Pending(h)
<1>1. cur[g] \in 0..1 /\ 1 - cur[g] \in 0..1 /\ 1 - cur[g] # cur[g]
  BY DEF FrameTypes
<1>2. buf[g] \in [0..1 -> Frames] /\ DOMAIN buf = Generators
  BY DEF FrameTypes
<1>3. /\ buf'[g] = [buf[g] EXCEPT ![1 - cur[g]] = f]
      /\ \A h \in Generators \ {g} : buf'[h] = buf[h]
  BY <1>2
<1>4. buf'[g][1 - cur[g]] = f /\ buf'[g][cur[g]] = buf[g][cur[g]]
  BY <1>1, <1>2, <1>3
<1>5. /\ \A h \in Generators : Shown'[h] = buf'[h][cur[h]] /\ Shown[h] = buf[h][cur[h]]
      /\ \A h \in Generators : Pending(h)' = buf'[h][1 - cur[h]] /\ Pending(h) = buf[h][1 - cur[h]]
  BY DEF Shown, Pending
<1>6. ASSUME NEW h \in Generators PROVE Shown'[h] = Shown[h]
  BY <1>3, <1>4, <1>5
<1>7. ASSUME NEW h \in Generators \ {g} PROVE Pending(h)' = Pending(h)
  <2>1. buf'[h][1 - cur[h]] = buf[h][1 - cur[h]]
    BY <1>3
  <2> QED BY <1>5, <2>1
<1>8. Pending(g)' = f
  BY <1>4, <1>5
<1> QED BY <1>6, <1>7, <1>8

\* The frames a step stores: of a live generator, or a time stamp or data that
\* are fed; and what UpdateData shows.
LEMMA FrameSteps ==
  ASSUME [Next]_vars
  PROVE  \/ \E g \in Generators : NewFrame(g)
         \/ UpdateData \/ WriteStamp \/ CopyData
         \/ buf' = buf /\ cur' = cur
BY DEF Next, vars, frameVars, GeneratorHasNewData, StartWait, WaitNone, Application,
       CheckNext, ConditionMet, ConditionNotMet, WakeUp, WaitTimesOut, UpdateTree,
       UpdateNeeded, AlreadyVisited, DataUpdated, NothingToUpdate, Record, UpdateFails,
       FinishUpdate, TimePasses, WakePlayback, StartReading, Reading, ReadEnd, ReadData,
       NextBuffer, SetNewDataAvailable

\* The steps of the reader.
LEMMA ReaderSteps ==
  ASSUME [Next]_vars
  PROVE  \/ reader' = reader /\ pos' = pos /\ target' = target
         \/ (\E who \in {"app", "playback"} : StartReading(who)) /\ reader'[2] = "record"
         \/ ReadData \/ WriteStamp \/ NextBuffer \/ CopyData
         \/ (ReadEnd \/ SetNewDataAvailable) /\ reader' = <<"nobody", "none">>
<1>1. \/ reader' = reader /\ pos' = pos /\ target' = target
      \/ \E who \in {"app", "playback"} : StartReading(who)
      \/ ReadData \/ WriteStamp \/ NextBuffer \/ CopyData \/ ReadEnd \/ SetNewDataAvailable
  BY DEF Next, vars, playerVars, NewFrame, GeneratorHasNewData, StartWait, WaitNone,
         Application, CheckNext, ConditionMet, ConditionNotMet, WakeUp, WaitTimesOut,
         UpdateTree, UpdateNeeded, AlreadyVisited, UpdateData, DataUpdated, NothingToUpdate,
         Record, UpdateFails, FinishUpdate, TimePasses, WakePlayback, Reading
<1>2. ASSUME NEW who \in {"app", "playback"}, StartReading(who)
      PROVE  reader'[2] = "record"
  BY <1>2 DEF StartReading
<1>3. ReadEnd \/ SetNewDataAvailable => reader' = <<"nobody", "none">>
  BY DEF ReadEnd, SetNewDataAvailable, EndReading
<1> QED BY <1>1, <1>2, <1>3

\* Every step leaves the playback thread waiting, and the reference where it is.
LEMMA QuietStep ==
  ASSUME QuietInv, [Next]_vars
  PROVE  QuietInv'
<1>1. TypeInv' /\ WhoPlays'
  BY TypeStep, WhoPlaysStep DEF QuietInv
<1>2. asynch' = asynch /\ played' = played
  BY ConfigFixed
<1>3. PlaybackIdle'
  <2> SUFFICES ASSUME ~asynch
               PROVE  thread' = "wait" /\ ~trigger' /\ reader'[1] # "playback"
    BY <1>2 DEF PlaybackIdle
  <2>1. thread = "wait" /\ ~trigger /\ reader[1] # "playback"
    BY DEF QuietInv, PlaybackIdle
  <2>2. CASE WaitNone
    BY <2>1, <2>2 DEF WaitNone
  <2>3. CASE \E who \in {"app", "playback"} : StartReading(who)
    <3>1. StartReading("app")
      BY <2>1, <2>3 DEF StartReading, Plays
    <3> QED BY <2>1, <3>1 DEF StartReading
  <2>4. CASE Reading
    <3>1. reader'[1] = reader[1] \/ reader' = <<"nobody", "none">>
      BY <2>4 DEF Reading, ReadEnd, ReadData, WriteStamp, NextBuffer, CopyData,
                  SetNewDataAvailable, EndReading, Step
    <3>2. thread' = thread \/ thread' = "wait"
      BY <2>4 DEF Reading, ReadEnd, ReadData, WriteStamp, NextBuffer, CopyData,
                  SetNewDataAvailable, EndReading
    <3>3. trigger' = trigger
      BY <2>4 DEF Reading, ReadEnd, ReadData, WriteStamp, NextBuffer, CopyData,
                  SetNewDataAvailable
    <3> QED BY <2>1, <3>1, <3>2, <3>3
  <2>5. CASE WakePlayback
    BY <2>1, <2>5 DEF WakePlayback
  <2>6. CASE \/ \E g \in Generators : NewFrame(g) \/ GeneratorHasNewData(g)
             \/ (\E c \in Calls : StartWait(c)) \/ TimePasses \/ UNCHANGED vars
    <3>1. UNCHANGED playerVars
      BY <2>6 DEF NewFrame, GeneratorHasNewData, StartWait, TimePasses, vars
    <3> QED BY <2>1, <3>1 DEF playerVars
  <2>7. CASE Application
    BY <2>1, <2>7 DEF Application, CheckNext, ConditionMet, ConditionNotMet, WakeUp,
                      WaitTimesOut, UpdateTree, UpdateNeeded, AlreadyVisited, UpdateData,
                      DataUpdated, NothingToUpdate, Record, UpdateFails, FinishUpdate,
                      playerVars
  <2> QED BY <2>2, <2>3, <2>4, <2>5, <2>6, <2>7 DEF Next
<1>4. NextIsPending'
  <2> SUFFICES ASSUME ~asynch, reader'[2] = "copy"
               PROVE  target' = 1 - cur'[Recording[pos'][1]]
    BY <1>2 DEF NextIsPending, FedNode
  <2>1. CASE NextBuffer
    BY <2>1 DEF NextBuffer, FedNode, frameVars
  <2>2. CASE reader' = reader /\ pos' = pos /\ target' = target
    <3>1. reader[2] = "copy" /\ target = 1 - cur[FedNode]
      BY <2>2 DEF QuietInv, NextIsPending
    <3>2. pc = "play" /\ ~UpdateData
      <4>1. reader # <<"nobody", "none">>
        BY <3>1
      <4>2. pc = "play"
        BY <4>1, Feeding
      <4> QED BY <4>2 DEF UpdateData, Ready, Updating
    <3>3. cur' = cur
      BY <3>2, FrameSteps DEF NewFrame, WriteStamp, CopyData
    <3> QED BY <2>2, <3>1, <3>3 DEF FedNode
  <2>3. CASE ReadData \/ WriteStamp \/ CopyData
    <3>1. reader'[2] # "copy"
      BY <2>3 DEF ReadData, WriteStamp, CopyData, Step
    <3> QED BY <3>1
  <2> QED BY <2>1, <2>2, <2>3, ReaderSteps
<1> QED BY <1>1, <1>3, <1>4 DEF QuietInv

\* A generator that is being fed is one the player feeds.
LEMMA FedPlayed ==
  ASSUME QuietInv, ~asynch, WriteStamp \/ CopyData
  PROVE  /\ FedNode \in played /\ played = Fed /\ FedNode \in Generators
         /\ pos \in 1..Len(Recording) /\ Recording[pos][2] \in Nat
<1>1. reader[2] \in Steps \ {"record"}
  BY DEF WriteStamp, CopyData, InStep, Steps
<1>2. FedNode \in Generators /\ Recording[pos][2] \in Nat
  BY <1>1, FedTypes DEF QuietInv, TypeInv
<1> QED BY <1>1, <1>2, Feeding

\* The frame a live generator stores, and what a feeding player stores.
LEMMA StoredFrames ==
  ASSUME QuietInv, ~asynch, NEW g \in Generators,
         NewFrame(g) \/ (g = FedNode /\ (WriteStamp \/ CopyData))
  PROVE  /\ \A h \in Generators : Shown'[h] = Shown[h]
         /\ \A h \in Generators \ {g} : Pending(h)' = Pending(h)
         /\ NewFrame(g) => Pending(g)' = [ts |-> 1 + Latest(g), data |-> 1 + Latest(g)]
         /\ WriteStamp => Pending(g)'.ts = Recording[pos][2]
         /\ CopyData => /\ Pending(g)'.ts = Pending(g).ts
                        /\ Pending(g)'.data = Recording[pos][2]
<1>1. /\ FrameTypes /\ buf[g] \in [0..1 -> Frames] /\ DOMAIN buf = Generators
      /\ cur[g] \in 0..1 /\ 1 - cur[g] \in 0..1 /\ Pending(g) \in Frames
      /\ Pending(g) = buf[g][1 - cur[g]]
  BY FrameFacts DEF QuietInv, TypeInv, FrameTypes, Pending
<1>2. CASE NewFrame(g)
  <2> DEFINE f == [ts |-> 1 + Latest(g), data |-> 1 + Latest(g)]
  <2>1. f \in Frames
    BY <1>1, FrameFacts DEF Frames
  <2>2. cur' = cur /\ buf' = [buf EXCEPT ![g] = [buf[g] EXCEPT ![1 - cur[g]] = f]]
    BY <1>1, <1>2 DEF NewFrame
  <2>3. ~WriteStamp /\ ~CopyData
    <3>1. g \notin played
      BY <1>2 DEF NewFrame
    <3>2. raising' # raising
      BY <1>2 DEF NewFrame
    <3> QED BY <3>2 DEF WriteStamp, CopyData, eventVars
  <2> HIDE DEF f
  <2>4. /\ \A h \in Generators : Shown'[h] = Shown[h]
        /\ Pending(g)' = f /\ \A h \in Generators \ {g} : Pending(h)' = Pending(h)
    BY <1>1, <2>1, <2>2, Stored
  <2> QED BY <2>3, <2>4 DEF f
<1>3. CASE g = FedNode /\ (WriteStamp \/ CopyData)
  <2>1. ~NewFrame(g)
    BY <1>3, FedPlayed DEF NewFrame
  <2>2. Recording[pos][2] \in Nat
    BY <1>3, FedPlayed
  <2> DEFINE v == Recording[pos][2]
             e == [Pending(g) EXCEPT !.ts = v]
             d == [Pending(g) EXCEPT !.data = v]
  <2>3. e \in Frames /\ e.ts = v /\ d \in Frames /\ d.data = v /\ d.ts = Pending(g).ts
    BY <1>1, <2>2 DEF Frames
  <2>4. WriteStamp => /\ cur' = cur /\ reader'[2] # "available"
                      /\ buf' = [buf EXCEPT ![g] = [buf[g] EXCEPT ![1 - cur[g]] = e]]
    BY <1>1, <1>3 DEF WriteStamp, Step
  <2>5. CopyData => /\ cur' = cur /\ reader'[2] = "available"
                    /\ buf' = [buf EXCEPT ![g] = [buf[g] EXCEPT ![1 - cur[g]] = d]]
    <3>1. CopyData => target = 1 - cur[g]
      BY <1>3 DEF CopyData, InStep, QuietInv, NextIsPending
    <3>2. CopyData => cur' = cur /\ reader'[2] = "available"
      BY DEF CopyData, Step
    <3>3. CopyData => buf' = [buf EXCEPT ![g] = [buf[g] EXCEPT ![target] = [buf[g][target] EXCEPT !.data = v]]]
      BY <1>3 DEF CopyData
    <3> QED BY <1>1, <3>1, <3>2, <3>3
  <2> HIDE DEF e, d, v
  <2>6. CASE WriteStamp
    <3>1. /\ \A h \in Generators : Shown'[h] = Shown[h]
          /\ Pending(g)' = e /\ \A h \in Generators \ {g} : Pending(h)' = Pending(h)
      BY <1>1, <2>3, <2>4, <2>6, Stored
    <3> QED BY <2>1, <2>3, <2>4, <2>5, <2>6, <3>1 DEF v
  <2>7. CASE CopyData
    <3>1. /\ \A h \in Generators : Shown'[h] = Shown[h]
          /\ Pending(g)' = d /\ \A h \in Generators \ {g} : Pending(h)' = Pending(h)
      BY <1>1, <2>3, <2>5, <2>7, Stored
    <3> QED BY <2>1, <2>3, <2>4, <2>5, <2>7, <3>1 DEF v
  <2> QED BY <1>3, <2>6, <2>7
<1> QED BY <1>2, <1>3

\* UpdateData shows what was pending, and the other way round.
LEMMA Swapped ==
  ASSUME QuietInv, UpdateData, NEW g \in Generators
  PROVE  /\ g = Node => Shown'[g] = Pending(g) /\ Pending(g)' = Shown[g]
         /\ g # Node => Shown'[g] = Shown[g] /\ Pending(g)' = Pending(g)
<1>1. cur[g] \in 0..1 /\ DOMAIN cur = Generators
  BY DEF QuietInv, TypeInv, FrameTypes
<1>2. buf' = buf /\ cur' = [cur EXCEPT ![Node] = 1 - cur[Node]]
  BY DEF UpdateData
<1>3. 1 - (1 - cur[g]) = cur[g]
  BY <1>1
<1> QED BY <1>1, <1>2, <1>3 DEF Shown, Pending

\* A frame that is shown changes in UpdateData only.
LEMMA ShownKept ==
  ASSUME QuietInv, ~asynch, [Next]_vars, ~UpdateData
  PROVE  Shown' = Shown
<1>1. CASE \E g \in Generators : NewFrame(g)
  BY <1>1, StoredFrames DEF Shown
<1>2. CASE WriteStamp \/ CopyData
  <2>1. \A h \in Generators : Shown'[h] = Shown[h]
    BY <1>2, FedPlayed, StoredFrames
  <2> QED BY <2>1 DEF Shown
<1>3. CASE buf' = buf /\ cur' = cur
  BY <1>3 DEF Shown
<1> QED BY <1>1, <1>2, <1>3, FrameSteps

\* It starts so.
LEMMA QuietStarts == Init => QuietInv
<1> SUFFICES ASSUME Init PROVE QuietInv
  OBVIOUS
<1>1. TypeInv
  BY InitTypes
<1>2. pc = "idle" /\ thread = "wait" /\ ~trigger /\ reader = <<"nobody", "none">>
  BY DEF Init
<1> QED BY <1>1, <1>2 DEF QuietInv, WhoPlays, PlaybackIdle, NextIsPending

\* As long as the application does not play by xnWaitNoneUpdateAll, nothing but
\* an update changes the frame a generator shows: new frames are stored in the
\* other buffer (of a mock generator, SetNextData's), which only UpdateData makes
\* the current one.
THEOREM ShownStays == Spec => ShownStable
<1>1. Init => QuietInv
  BY QuietStarts
<1>2. QuietInv /\ [Next]_vars => QuietInv'
  BY QuietStep
<1>3. QuietInv /\ [Next]_vars => [~asynch /\ pc # "update" => Shown' = Shown]_vars
  BY ShownKept DEF UpdateData, Ready, Updating
<1> QED BY <1>1, <1>2, <1>3, PTL DEF Spec, ShownStable
-----------------------------------------------------------------------------
(* What is shown is intact *)

\* A frame is intact.
Whole(f) == f.ts = f.data

\* The frames of a generator are intact, but for a pending one that is being
\* fed: it has the time stamp of the record, and then gets its data.
Intact ==
  ~asynch =>
    \A g \in Generators :
      /\ Whole(Shown[g])
      /\ reader[2] \in {"data", "copy"} /\ g = FedNode => Pending(g).ts = Recording[pos][2]
      /\ ~(reader[2] \in {"data", "copy"} /\ g = FedNode) => Whole(Pending(g))

\* Every step keeps the frames intact.
LEMMA IntactStep ==
  ASSUME QuietInv, Intact, [Next]_vars
  PROVE  Intact'
<1> SUFFICES ASSUME ~asynch, NEW g \in Generators
             PROVE  LET fed == reader'[2] \in {"data", "copy"} /\ g = Recording[pos'][1]
                    IN  /\ Whole(Shown'[g])
                        /\ fed => Pending(g)'.ts = Recording[pos'][2]
                        /\ ~fed => Whole(Pending(g)')
  BY ConfigFixed DEF Intact, FedNode, Whole
<1>1. /\ Whole(Shown[g])
      /\ reader[2] \in {"data", "copy"} /\ g = FedNode => Pending(g).ts = Recording[pos][2]
      /\ ~(reader[2] \in {"data", "copy"} /\ g = FedNode) => Whole(Pending(g))
  BY DEF Intact
<1>2. CASE \E h \in Generators : NewFrame(h)
  <2>1. PICK h \in Generators : NewFrame(h)
    BY <1>2
  <2>2. Shown'[g] = Shown[g] /\ (g # h => Pending(g)' = Pending(g))
        /\ (g = h => Pending(g)' = [ts |-> 1 + Latest(h), data |-> 1 + Latest(h)])
    BY <2>1, StoredFrames
  <2>3. reader' = reader /\ pos' = pos
    BY <2>1 DEF NewFrame, playerVars
  <2>4. reader[2] \in {"data", "copy"} => h # FedNode
    <3>1. h \notin played
      BY <2>1 DEF NewFrame
    <3>2. reader[2] \in {"data", "copy"} => FedNode \in played
      BY Feeding DEF Steps
    <3> QED BY <3>1, <3>2
  <2>5. g = h => Whole(Pending(g)')
    BY <2>2 DEF Whole
  <2> QED BY <1>1, <2>2, <2>3, <2>4, <2>5 DEF FedNode
<1>3. CASE UpdateData
  <2>1. reader = <<"nobody", "none">>
    BY <1>3, Feeding DEF UpdateData, Ready, Updating
  <2>2. reader' = reader /\ reader[2] \notin {"data", "copy"}
    BY <1>3, <2>1 DEF UpdateData, playerVars
  <2>3. Whole(Shown[g]) /\ Whole(Pending(g))
    BY <1>1, <2>2
  <2>4. /\ g = Node => Shown'[g] = Pending(g) /\ Pending(g)' = Shown[g]
        /\ g # Node => Shown'[g] = Shown[g] /\ Pending(g)' = Pending(g)
    BY <1>3, Swapped
  <2> QED BY <2>2, <2>3, <2>4
<1>4. CASE WriteStamp
  <2>1. reader'[2] = "data" /\ pos' = pos /\ FedNode \in Generators /\ reader[2] = "stamp"
    BY <1>4, FedPlayed DEF WriteStamp, Step, InStep
  <2>2. Shown'[g] = Shown[g] /\ (g # FedNode => Pending(g)' = Pending(g))
    BY <1>4, <2>1, StoredFrames
  <2>3. g = FedNode => Pending(g)'.ts = Recording[pos][2]
    BY <1>4, StoredFrames
  <2> QED BY <1>1, <2>1, <2>2, <2>3 DEF FedNode
<1>5. CASE CopyData
  <2>1. reader'[2] = "available" /\ FedNode \in Generators /\ reader[2] = "copy"
    BY <1>5, FedPlayed DEF CopyData, Step, InStep
  <2>2. Shown'[g] = Shown[g] /\ (g # FedNode => Pending(g)' = Pending(g))
    BY <1>5, <2>1, StoredFrames
  <2>3. g = FedNode => /\ Pending(g)'.ts = Pending(g).ts
                       /\ Pending(g)'.data = Recording[pos][2]
    BY <1>5, StoredFrames
  <2>4. Whole(Pending(g)')
    BY <1>1, <2>1, <2>2, <2>3 DEF Whole
  <2> QED BY <1>1, <2>1, <2>2, <2>4
<1>6. CASE buf' = buf /\ cur' = cur
  <2>1. Shown'[g] = Shown[g] /\ Pending(g)' = Pending(g)
    BY <1>6 DEF Shown, Pending
  <2>2. CASE reader' = reader /\ pos' = pos
    BY <1>1, <2>1, <2>2 DEF FedNode
  <2>3. CASE NextBuffer
    <3>1. reader[2] = "data" /\ reader'[2] = "copy" /\ pos' = pos
      BY <2>3 DEF NextBuffer, InStep, Step
    <3> QED BY <1>1, <2>1, <3>1 DEF FedNode
  <2>4. CASE ReadData \/ ((\E who \in {"app", "playback"} : StartReading(who)) /\ reader'[2] = "record")
    <3>1. reader[2] \notin {"data", "copy"} /\ reader'[2] \notin {"data", "copy"}
      <4>1. CASE ReadData
        BY <4>1 DEF ReadData, InStep, Step
      <4>2. CASE (\E who \in {"app", "playback"} : StartReading(who)) /\ reader'[2] = "record"
        <5>1. reader[1] = "nobody" /\ reader'[2] = "record"
          BY <4>2 DEF StartReading
        <5>2. reader = <<"nobody", "none">>
          BY <5>1 DEF QuietInv, TypeInv, PlayerTypes
        <5> QED BY <5>1, <5>2
      <4> QED BY <2>4, <4>1, <4>2
    <3> QED BY <1>1, <2>1, <3>1
  <2>5. CASE (ReadEnd \/ SetNewDataAvailable) /\ reader' = <<"nobody", "none">>
    <3>1. reader[2] \notin {"data", "copy"} /\ reader'[2] \notin {"data", "copy"}
      BY <2>5 DEF ReadEnd, SetNewDataAvailable, InStep
    <3> QED BY <1>1, <2>1, <3>1
  <2> QED BY <1>4, <1>5, <2>2, <2>3, <2>4, <2>5, ReaderSteps
<1> QED BY <1>2, <1>3, <1>4, <1>5, <1>6, FrameSteps

-----------------------------------------------------------------------------
(* What is shown is in sync *)

\* The generators of a call that are promised to be in sync with their partner.
Paired ==
  {g \in played : /\ g \in Conditioned(call) /\ Partner[g] \in played
                  /\ call[1] \in {"All", "One"}}

\* The frame that a generator shows at the end of the update.
Due(g) == IF visited[g] \/ (pc = "clear" /\ Node = g) THEN Shown[g] ELSE Pending(g)

\* The condition holds of what it has looked at until the update begins, which
\* brings the frames that met it.
Syncing ==
  ~asynch =>
    \A g \in Paired :
      /\ pc = "check" /\ g \notin todo => DidNodeAdvanced(g)
      /\ pc \in {"update", "clear"} =>
           /\ Within(Due(g).ts, Due(Partner[g]).ts)
           /\ visited[g] \/ avail[g]
           /\ visited[Partner[g]] \/ avail[Partner[g]]
      /\ pc = "idle" /\ result = "ok" => Within(Shown[g].ts, Shown[Partner[g]].ts)

SyncInv == QuietInv /\ DeliverInv /\ Syncing

\* The partner of a node that is fed is another node.
LEMMA Partners ==
  ASSUME SyncInv
  PROVE  /\ \A g \in Paired : /\ g \in played /\ g \in Generators /\ Partner[g] \in played
                              /\ Partner[g] \in Generators /\ Partner[g] # NoNode
         /\ played \subseteq Generators
         /\ call[1] \in {"All", "One"} => Conditioned(call) \subseteq Generators
<1>1. Fed \subseteq Generators
  <2>1. ASSUME NEW k \in DOMAIN Recording PROVE Recording[k][1] \in Generators
    <3>1. Recording[k] \in Generators \X (Nat \ {0})
      BY <2>1
    <3> QED BY <3>1
  <2> QED BY <2>1 DEF Fed
<1>2. played \subseteq Generators
  BY <1>1 DEF SyncInv, QuietInv, TypeInv, ConfigTypes
<1>3. call[1] \in {"All", "One"} => Conditioned(call) \subseteq Generators
  BY CallKinds DEF SyncInv, QuietInv
<1> QED BY <1>2, <1>3 DEF Paired

\* As long as the application does nothing but evaluate conditions and update,
\* nobody touches what the player feeds.
LEMMA FedKept ==
  ASSUME SyncInv, ~asynch, [Next]_vars, pc # "play", ~UpdateData, ~DataUpdated
  PROVE  \A g \in played : Shown'[g] = Shown[g] /\ Pending(g)' = Pending(g) /\ avail'[g] = avail[g]
<1>1. ~Reading
  <2>1. reader = <<"nobody", "none">>
    BY Feeding DEF SyncInv
  <2> QED BY <2>1 DEF Reading, ReadEnd, ReadData, WriteStamp, NextBuffer, CopyData,
                      SetNewDataAvailable, InStep
<1>2. played \subseteq Generators
  BY Partners
<1>3. CASE \E h \in Generators : NewFrame(h)
  <2>1. PICK h \in Generators : NewFrame(h)
    BY <1>3
  <2>2. \A g \in played : g # h /\ avail'[g] = avail[g]
    BY <1>2, <2>1 DEF NewFrame, SyncInv, QuietInv, TypeInv, FrameTypes
  <2> QED BY <1>2, <2>1, <2>2, StoredFrames DEF SyncInv
<1>4. CASE UNCHANGED frameVars
  BY <1>4 DEF frameVars, Shown, Pending
<1>5. CASE ~\E h \in Generators : NewFrame(h)
  <2>1. UNCHANGED frameVars
    BY <1>1, <1>5 DEF Next, vars, GeneratorHasNewData, StartWait, WaitNone, Application,
       CheckNext, ConditionMet, ConditionNotMet, WakeUp, WaitTimesOut, UpdateTree,
       UpdateNeeded, AlreadyVisited, NothingToUpdate, Record, UpdateFails,
       FinishUpdate, TimePasses, WakePlayback, StartReading
  <2> QED BY <1>4, <2>1
<1> QED BY <1>3, <1>5

\* A step that leaves what is fed alone keeps what is promised of it.
LEMMA SyncKept ==
  ASSUME SyncInv, [Next]_vars, pc' = pc, call' = call, result' = result, visited' = visited,
         pc = "check" => todo' = todo, pc = "clear" => path' = path,
         ~asynch /\ pc # "play" =>
           \A g \in played : Shown'[g] = Shown[g] /\ Pending(g)' = Pending(g) /\ avail'[g] = avail[g]
  PROVE  Syncing'
<1>1. played' = played /\ asynch' = asynch /\ Conditioned(call)' = Conditioned(call)
  BY ConfigFixed, SameCall
<1>2. Paired' = Paired
  BY <1>1 DEF Paired
<1> SUFFICES ASSUME ~asynch, NEW g \in Paired
             PROVE  /\ pc' = "check" /\ g \notin todo' => DidNodeAdvanced(g)'
                    /\ pc' \in {"update", "clear"} =>
                         /\ Within(Due(g)'.ts, Due(Partner[g])'.ts)
                         /\ visited'[g] \/ avail'[g]
                         /\ visited'[Partner[g]] \/ avail'[Partner[g]]
                    /\ pc' = "idle" /\ result' = "ok" => Within(Shown'[g].ts, Shown'[Partner[g]].ts)
  BY <1>1, <1>2 DEF Syncing, Within
<1>3. CASE pc = "play"
  BY <1>3
<1>4. CASE pc # "play"
  <2>1. g \in played /\ Partner[g] \in played
    BY Partners
  <2>2. \A h \in {g, Partner[g]} :
          Shown'[h] = Shown[h] /\ Pending(h)' = Pending(h) /\ avail'[h] = avail[h]
    BY <1>4, <2>1
  <2>3. \A h \in {g, Partner[g]} : Due(h)' = Due(h)
    <3> TAKE h \in {g, Partner[g]}
    <3>1. (pc' = "clear" /\ Node' = h) <=> (pc = "clear" /\ Node = h)
      BY DEF Node
    <3> QED BY <2>2, <3>1 DEF Due
  <2>4. DidNodeAdvanced(g) => DidNodeAdvanced(g)'
    BY <2>2 DEF DidNodeAdvanced, Within
  <2>5. /\ pc = "check" /\ g \notin todo => DidNodeAdvanced(g)
        /\ pc \in {"update", "clear"} =>
             /\ Within(Due(g).ts, Due(Partner[g]).ts)
             /\ visited[g] \/ avail[g]
             /\ visited[Partner[g]] \/ avail[Partner[g]]
        /\ pc = "idle" /\ result = "ok" => Within(Shown[g].ts, Shown[Partner[g]].ts)
    BY DEF SyncInv, Syncing
  <2> QED BY <2>2, <2>3, <2>4, <2>5
<1> QED BY <1>3, <1>4

\* A call has just begun to evaluate its condition, or ends without success, or
\* waits, or promises nothing.
LEMMA NotPaired ==
  ASSUME \/ pc' = "idle" /\ result' # "ok"
         \/ pc' = "check" /\ todo' = Conditioned(call')
         \/ pc' \in {"wait", "play"}
         \/ call'[1] = "None"
  PROVE  Syncing'
<1>1. Conditioned(call)' = Conditioned(call')
  BY DEF Conditioned
<1> QED BY <1>1 DEF Syncing, Paired

\* Within an update, a step after which the same frames are due.
LEMMA SyncUpdating ==
  ASSUME SyncInv, [Next]_vars, call' = call, pc \in {"update", "clear"}, pc' \in {"update", "clear"},
         ~asynch => \A g \in played : Due(g)' = Due(g) /\ (visited[g] \/ avail[g] => visited'[g] \/ avail'[g])
  PROVE  Syncing'
<1>1. played' = played /\ asynch' = asynch /\ Conditioned(call)' = Conditioned(call)
  BY ConfigFixed, SameCall
<1>2. Paired' = Paired
  BY <1>1 DEF Paired
<1> SUFFICES ASSUME ~asynch, NEW g \in Paired
             PROVE  /\ Within(Due(g)'.ts, Due(Partner[g])'.ts)
                    /\ visited'[g] \/ avail'[g]
                    /\ visited'[Partner[g]] \/ avail'[Partner[g]]
  BY <1>1, <1>2 DEF Syncing, Within
<1>3. g \in played /\ Partner[g] \in played
  BY Partners
<1>4. /\ Within(Due(g).ts, Due(Partner[g]).ts)
      /\ visited[g] \/ avail[g]
      /\ visited[Partner[g]] \/ avail[Partner[g]]
  BY DEF SyncInv, Syncing
<1> QED BY <1>3, <1>4

\* The condition has been met.
LEMMA SyncMet ==
  ASSUME SyncInv, NEW n \in Nodes, ConditionMet(n)
  PROVE  Syncing'
<1>1. /\ pc = "check" /\ n \in todo /\ DidNodeAdvanced(n) /\ call' = call
      /\ call[1] = "Any" \/ todo = {n}
      /\ StartUpdate /\ UNCHANGED <<configVars, frameVars>>
  BY DEF ConditionMet
<1>2. Paired' = Paired /\ asynch' = asynch
  BY <1>1, SameCall DEF Paired, configVars
<1>3. pc' = "update" /\ \A m \in Nodes : ~visited'[m]
  BY <1>1 DEF StartUpdate
<1> SUFFICES ASSUME ~asynch, NEW g \in Paired
             PROVE  /\ Within(Due(g)'.ts, Due(Partner[g])'.ts)
                    /\ visited'[g] \/ avail'[g]
                    /\ visited'[Partner[g]] \/ avail'[Partner[g]]
  BY <1>2, <1>3 DEF Syncing, Within
<1>4. g \in Generators /\ Partner[g] \in Generators /\ Partner[g] # NoNode /\ call[1] # "Any"
  BY Partners DEF Paired
<1>5. DidNodeAdvanced(g)
  <2>1. g \notin todo => DidNodeAdvanced(g)
    BY <1>1 DEF SyncInv, Syncing
  <2> QED BY <1>1, <1>4, <2>1
<1>6. avail[g] /\ avail[Partner[g]] /\ Within(Pending(g).ts, Pending(Partner[g]).ts)
  BY <1>4, <1>5 DEF DidNodeAdvanced
<1>7. \A h \in {g, Partner[g]} : Due(h)' = Pending(h) /\ avail'[h] = avail[h]
  <2> TAKE h \in {g, Partner[g]}
  <2>1. h \in Nodes
    BY <1>4
  <2>2. Pending(h)' = Pending(h)
    BY <1>1 DEF Pending, frameVars
  <2> QED BY <1>1, <1>3, <2>1, <2>2 DEF Due, frameVars
<1> QED BY <1>6, <1>7

\* The update is finished: every node has been visited.
LEMMA SyncFinished ==
  ASSUME SyncInv, FinishUpdate
  PROVE  Syncing'
<1>1. /\ pc = "update" /\ path = <<>> /\ todo = {} /\ call' = call /\ pc' = "idle" /\ result' = "ok"
      /\ UNCHANGED <<configVars, frameVars>>
  BY DEF FinishUpdate, Return
<1>2. Paired' = Paired /\ asynch' = asynch
  BY <1>1, SameCall DEF Paired, configVars
<1> SUFFICES ASSUME ~asynch, NEW g \in Paired
             PROVE  Within(Shown'[g].ts, Shown'[Partner[g]].ts)
  BY <1>1, <1>2 DEF Syncing, Within
<1>3. g \in Nodes /\ Partner[g] \in Nodes /\ call[1] # "Data"
  BY Partners DEF Paired
<1>4. \A n \in Nodes : visited[n]
  BY <1>1, <1>3 DEF SyncInv, DeliverInv, Coming, Roots
<1>5. Due(g) = Shown[g] /\ Due(Partner[g]) = Shown[Partner[g]]
  BY <1>3, <1>4 DEF Due
<1>6. Shown' = Shown
  BY <1>1 DEF Shown, frameVars
<1> QED BY <1>1, <1>5, <1>6 DEF SyncInv, Syncing

\* The steps of the update do not change what it will show of the others.
LEMMA SyncUpdate ==
  ASSUME SyncInv, [Next]_vars, UpdateData \/ DataUpdated \/ NothingToUpdate \/ Record
  PROVE  Syncing'
<1>0. /\ played \subseteq Generators /\ Node \in Nodes /\ visited \in [Nodes -> BOOLEAN]
      /\ avail \in [Generators -> BOOLEAN]
  <2>1. path \in Seq(Nodes) /\ path # <<>>
    BY DEF UpdateData, DataUpdated, NothingToUpdate, Record, Ready, Updating, SyncInv, QuietInv,
           TypeInv, AppTypes, StageTypes
  <2> QED BY <2>1, PathNodes, Partners DEF SyncInv, QuietInv, TypeInv, FlagTypes, FrameTypes
<1>1. CASE UpdateData
  <2>1. /\ pc = "update" /\ pc' = "clear" /\ call' = call /\ path' = path /\ visited' = visited
        /\ avail' = avail /\ ~visited[Node]
    BY <1>1 DEF UpdateData, Ready, Updating, flagVars
  <2>2. ASSUME NEW g \in played PROVE Due(g)' = Due(g)
    <3>1. /\ g = Node => Shown'[g] = Pending(g)
          /\ g # Node => Shown'[g] = Shown[g] /\ Pending(g)' = Pending(g)
      BY <1>0, <1>1, Swapped DEF SyncInv
    <3>2. Node' = Node
      BY <2>1 DEF Node
    <3> QED BY <2>1, <3>1, <3>2 DEF Due
  <2> QED BY <2>1, <2>2, SyncUpdating
<1>2. CASE DataUpdated
  <2>1. /\ pc = "clear" /\ pc' = "update" /\ call' = call
        /\ visited' = [visited EXCEPT ![Node] = TRUE] /\ avail' = [avail EXCEPT ![Node] = FALSE]
        /\ buf' = buf /\ cur' = cur
    BY <1>2 DEF DataUpdated, TreeUpdated
  <2>2. ASSUME NEW g \in played
        PROVE  Due(g)' = Due(g) /\ (visited[g] \/ avail[g] => visited'[g] \/ avail'[g])
    <3>1. Shown'[g] = Shown[g] /\ Pending(g)' = Pending(g)
      BY <2>1 DEF Shown, Pending
    <3>2. CASE g = Node
      <4>1. visited'[g]
        BY <1>0, <2>1, <3>2
      <4> QED BY <2>1, <3>1, <3>2, <4>1 DEF Due
    <3>3. CASE g # Node
      <4>1. visited'[g] = visited[g] /\ avail'[g] = avail[g]
        BY <1>0, <2>1, <3>3
      <4> QED BY <2>1, <3>1, <3>3, <4>1 DEF Due
    <3> QED BY <3>2, <3>3
  <2> QED BY <2>1, <2>2, SyncUpdating
<1>3. CASE NothingToUpdate \/ Record
  <2>1. /\ pc = "update" /\ pc' = "update" /\ call' = call /\ ~visited[Node]
        /\ visited' = [visited EXCEPT ![Node] = TRUE] /\ avail' = avail
        /\ buf' = buf /\ cur' = cur
        /\ Node \in Generators => ~avail[Node]
    BY <1>3 DEF NothingToUpdate, Record, Ready, Updating, TreeUpdated, frameVars
  <2>2. played' = played /\ asynch' = asynch /\ Paired' = Paired
    BY <2>1, ConfigFixed, SameCall DEF Paired
  <2> SUFFICES ASSUME ~asynch, NEW g \in Paired
               PROVE  /\ Within(Due(g)'.ts, Due(Partner[g])'.ts)
                      /\ visited'[g] \/ avail'[g]
                      /\ visited'[Partner[g]] \/ avail'[Partner[g]]
    BY <2>1, <2>2 DEF Syncing, Within
  <2>3. /\ Within(Due(g).ts, Due(Partner[g]).ts)
        /\ visited[g] \/ avail[g]
        /\ visited[Partner[g]] \/ avail[Partner[g]]
    BY <2>1 DEF SyncInv, Syncing
  <2>4. g \in Generators /\ Partner[g] \in Generators
    BY Partners
  <2>5. g # Node /\ Partner[g] # Node
    BY <2>1, <2>3, <2>4
  <2>6. \A h \in {g, Partner[g]} : visited'[h] = visited[h] /\ Due(h)' = Due(h)
    <3> TAKE h \in {g, Partner[g]}
    <3>1. visited'[h] = visited[h]
      BY <1>0, <2>1, <2>4, <2>5
    <3>2. Shown'[h] = Shown[h] /\ Pending(h)' = Pending(h)
      BY <2>1, <2>4 DEF Shown, Pending
    <3> QED BY <2>1, <3>1, <3>2 DEF Due
  <2> QED BY <2>1, <2>3, <2>6
<1> QED BY <1>1, <1>2, <1>3

\* Every step keeps what is fed in sync.
LEMMA SyncStep ==
  ASSUME SyncInv, [Next]_vars
  PROVE  Syncing'
<1>1. CASE \E c \in Calls : StartWait(c)
  BY <1>1, NotPaired DEF StartWait, Check
<1>2. CASE WaitNone
  BY <1>2, NotPaired DEF WaitNone
<1>3. ASSUME NEW n \in Nodes, CheckNext(n)
      PROVE  Syncing'
  <2>1. /\ pc = "check" /\ pc' = pc /\ call' = call /\ todo' = todo \ {n}
        /\ Advanced(n) /\ UNCHANGED <<configVars, frameVars>>
    BY <1>3 DEF CheckNext
  <2>2. Paired' = Paired /\ asynch' = asynch
    BY <2>1, SameCall DEF Paired, configVars
  <2> SUFFICES ASSUME ~asynch, NEW g \in Paired, g \notin todo'
               PROVE  DidNodeAdvanced(g)'
    BY <2>1, <2>2 DEF Syncing
  <2>3. DidNodeAdvanced(g)
    BY <2>1 DEF SyncInv, Syncing, Advanced, Paired
  <2> QED BY <2>1, <2>3 DEF DidNodeAdvanced, Pending, Within, frameVars
<1>4. CASE \E n \in Nodes : ConditionMet(n)
  BY <1>4, SyncMet
<1>5. CASE \E n \in Nodes : ConditionNotMet(n)
  BY <1>5, NotPaired DEF ConditionNotMet, Return
<1>6. CASE WakeUp \/ WaitTimesOut \/ UpdateFails
  BY <1>6, NotPaired DEF WakeUp, Check, WaitTimesOut, UpdateFails, Return
<1>7. CASE \/ \E n \in Nodes : UpdateTree(n) \/ UpdateNeeded(n)
           \/ AlreadyVisited
  <2>1. /\ pc = "update" /\ pc' = pc /\ call' = call /\ result' = result /\ visited' = visited
        /\ buf' = buf /\ cur' = cur /\ avail' = avail
    BY <1>7 DEF UpdateTree, UpdateNeeded, AlreadyVisited, Updating, TreeUpdated, frameVars, flagVars
  <2>2. \A g \in played : Shown'[g] = Shown[g] /\ Pending(g)' = Pending(g) /\ avail'[g] = avail[g]
    BY <2>1 DEF Shown, Pending
  <2> QED BY <2>1, <2>2, SyncKept
<1>8. CASE UpdateData \/ DataUpdated \/ NothingToUpdate \/ Record
  BY <1>8, SyncUpdate
<1>9. CASE FinishUpdate
  BY <1>9, SyncFinished
<1>10. CASE \/ \E g \in Generators : NewFrame(g) \/ GeneratorHasNewData(g)
            \/ TimePasses \/ WakePlayback \/ UNCHANGED vars
            \/ \E who \in {"app", "playback"} : StartReading(who)
  <2>1. /\ pc' = pc /\ call' = call /\ result' = result /\ visited' = visited
        /\ todo' = todo /\ path' = path
    BY <1>10 DEF NewFrame, GeneratorHasNewData, TimePasses, WakePlayback, StartReading, vars,
                 appVars, flagVars
  <2>2. ~UpdateData
    BY <2>1 DEF UpdateData, Ready, Updating
  <2>3. ~DataUpdated
    BY <2>1 DEF DataUpdated
  <2> QED BY <2>1, <2>2, <2>3, FedKept, SyncKept
<1>11. CASE Reading
  <2>1. asynch' = asynch
    BY ConfigFixed
  <2>2. CASE asynch
    BY <2>1, <2>2 DEF Syncing
  <2>3. CASE ~asynch
    <3>1. reader[1] # "nobody"
      BY <1>11 DEF Reading, ReadEnd, ReadData, WriteStamp, NextBuffer, CopyData,
                   SetNewDataAvailable, InStep
    <3>2. pc = "play" /\ reader[1] # "playback"
      BY <2>3, <3>1, Feeding DEF SyncInv, QuietInv, PlaybackIdle
    <3>3. ASSUME NEW f, EndReading(f)
          PROVE  Syncing'
      BY <3>2, <3>3, NotPaired DEF EndReading, Return, Check
    <3>4. CASE ReadEnd \/ SetNewDataAvailable
      BY <3>3, <3>4 DEF ReadEnd, SetNewDataAvailable
    <3>5. CASE ReadData \/ WriteStamp \/ NextBuffer \/ CopyData
      BY <3>2, <3>5, NotPaired DEF ReadData, WriteStamp, NextBuffer, CopyData, appVars
    <3> QED BY <1>11, <3>4, <3>5 DEF Reading
  <2> QED BY <2>2, <2>3
<1> QED
  BY <1>1, <1>2, <1>3, <1>4, <1>5, <1>6, <1>7, <1>8, <1>9, <1>10, <1>11 DEF Next, Application

\* As long as the application does not play by xnWaitNoneUpdateAll, the frame a
\* generator shows has the data that belong to its time stamp, and two
\* generators in frame sync that are fed are shown in sync after a wait for them.
THEOREM ShownAreIntact == Spec => []ShownIntact
<1>1. Init => SyncInv /\ Intact
  <2> SUFFICES ASSUME Init PROVE SyncInv /\ Intact
    OBVIOUS
  <2>1. QuietInv
    BY QuietStarts
  <2>2. DeliverInv
    BY DEF Init, DeliverInv, Collecting, Delivering, Coming, WaitDelivers, Succeeded
  <2>3. Syncing
    BY DEF Init, Syncing
  <2>4. Intact
    <3>1. reader = <<"nobody", "none">> /\ \A g \in Generators : Shown[g] = Blank /\ Pending(g) = Blank
      BY DEF Init, Shown, Pending
    <3>2. Whole(Blank)
      BY DEF Whole, Blank
    <3> QED BY <3>1, <3>2 DEF Intact
  <2> QED BY <2>1, <2>2, <2>3, <2>4 DEF SyncInv
<1>2. SyncInv /\ Intact /\ [Next]_vars => SyncInv' /\ Intact'
  BY QuietStep, DeliverStep, SyncStep, IntactStep DEF SyncInv, QuietInv
<1>3. SyncInv /\ Intact => ShownIntact
  BY DEF SyncInv, Syncing, Intact, Paired, Whole, ShownIntact, ShownInSync, UpdatedAll, Succeeded
<1> QED BY <1>1, <1>2, <1>3, PTL DEF Spec
-----------------------------------------------------------------------------
(* What is shown is recorded *)

\* The time stamps of a node do not go back in a file. GeneratorWatcher::Watch
\* records a frame that is later than the last recorded one in time stamp or in
\* frame ID, so this holds of a generator whose time stamps rise with its frame
\* IDs.
Ascending ==
  \A i, j \in DOMAIN Recording :
    i < j /\ Recording[i][1] = Recording[j][1] => Recording[i][2] <= Recording[j][2]

\* The runs of the application that RecordsShown is about.
Forward == ~asynch /\ ~repeat

\* No recorder is ahead of what is shown ...
RecordersBehind ==
  Forward => \A r \in Recorders : \A g \in Generators : last[r][g] <= Shown[g].ts

\* ... new data are not older than what is shown ...
NewIsLater ==
  Forward => \A g \in Generators :
    avail[g] /\ ~(pc = "clear" /\ Node = g) => Shown[g].ts <= Pending(g).ts

\* ... nor are the data that are being fed ...
FedIsLater ==
  Forward /\ reader[2] \in {"data", "copy", "available"} =>
    Shown[FedNode].ts <= Pending(FedNode).ts

\* ... nor the records that are still to be read.
RestIsLater ==
  Forward /\ played # {} =>
    \A j \in pos..Len(Recording) :
      LET g == Recording[j][1]
      IN  Shown[g].ts <= Recording[j][2] /\ Pending(g).ts <= Recording[j][2]

\* A recorder that was visited has what the generators it needs show.
Recorded ==
  Forward => \A r \in Recorders : visited[r] =>
    \A g \in Needs[r] \cap Generators : last[r][g] = Shown[g].ts

\* An update of the whole graph that succeeded has visited every node.
AllVisited == UpdatedAll => \A n \in Nodes : visited[n]

Rising == RecordersBehind /\ NewIsLater /\ FedIsLater /\ RestIsLater
RecordInv == QuietInv /\ DeliverInv /\ Types /\ NeededVisited /\ Rising /\ Recorded /\ AllVisited

\* A record's generator and time stamp.
LEMMA Records ==
  ASSUME NEW j \in 1..Len(Recording)
  PROVE  Recording[j][1] \in Fed /\ Recording[j][1] \in Generators /\ Recording[j][2] \in Nat \ {0}
<1>1. j \in DOMAIN Recording /\ Recording[j] \in Generators \X (Nat \ {0})
  OBVIOUS
<1> QED BY <1>1 DEF Fed

\* A player that does not repeat its recording never goes back.
LEMMA NeverBack ==
  ASSUME QuietInv, [Next]_vars, ~repeat
  PROVE  pos \in Nat /\ pos' \in Nat /\ pos >= 1 /\ pos <= pos'
<1>1. pos \in 1..(Len(Recording) + 1) /\ Len(Recording) \in Nat
  BY DEF QuietInv, TypeInv, PlayerTypes
<1>2. pos' = pos \/ pos' = pos + 1
  <2>1. CASE ReadData \/ WriteStamp \/ NextBuffer \/ CopyData \/ ReadEnd \/ SetNewDataAvailable
    BY <2>1 DEF ReadData, WriteStamp, NextBuffer, CopyData, ReadEnd, SetNewDataAvailable
  <2>2. CASE \E who \in {"app", "playback"} : StartReading(who)
    BY <2>2 DEF StartReading
  <2> QED BY <2>1, <2>2, ReaderSteps
<1> QED BY <1>1, <1>2

\* What a generator shows does not go back.
LEMMA ShownRises ==
  ASSUME RecordInv, Forward, [Next]_vars, NEW g \in Generators
  PROVE  /\ Shown[g].ts \in Nat /\ Shown'[g].ts \in Nat /\ Pending(g).ts \in Nat
         /\ Shown[g].ts <= Shown'[g].ts
<1>1. Shown[g] \in Frames /\ Pending(g) \in Frames
  BY FrameFacts DEF RecordInv, QuietInv, TypeInv
<1>2. Shown[g].ts \in Nat /\ Pending(g).ts \in Nat
  BY <1>1 DEF Frames
<1>3. CASE UpdateData
  <2>1. Shown'[g] = Shown[g] \/ (g = Node /\ Shown'[g] = Pending(g))
    BY <1>3, Swapped DEF RecordInv
  <2>2. g = Node => Shown[g].ts <= Pending(g).ts
    BY <1>3 DEF UpdateData, Ready, Updating, RecordInv, Rising, NewIsLater
  <2> QED BY <1>2, <2>1, <2>2
<1>4. CASE ~UpdateData
  <2>1. Shown' = Shown
    BY <1>4, ShownKept DEF RecordInv, Forward
  <2> QED BY <1>2, <2>1
<1> QED BY <1>3, <1>4

\* What recorders have taken changes when they are updated only.
LEMMA WatchSteps ==
  ASSUME [Next]_vars, last' # last
  PROVE  /\ Record \/ UpdateFails
         /\ \E W \in SUBSET Later(Node) : last' = Watch(Node, W)
<1>1. Record \/ UpdateFails
  BY DEF Next, vars, flagVars, NewFrame, GeneratorHasNewData, StartWait, WaitNone, StartUpdate,
         Application, CheckNext, ConditionMet, ConditionNotMet, WakeUp, WaitTimesOut,
         UpdateTree, UpdateNeeded, AlreadyVisited, UpdateData, DataUpdated, NothingToUpdate,
         FinishUpdate, TimePasses, WakePlayback, StartReading, Reading, ReadEnd, ReadData,
         WriteStamp, NextBuffer, CopyData, SetNewDataAvailable
<1>2. Record => \E W \in SUBSET Later(Node) : last' = Watch(Node, W)
  BY DEF Record
<1>3. UpdateFails => \E W \in SUBSET Later(Node) : last' = Watch(Node, W)
  BY DEF UpdateFails
<1> QED BY <1>1, <1>2, <1>3

\* What a watcher has then.
LEMMA Watched ==
  ASSUME FlagTypes, NEW W, NEW r \in Recorders, NEW g \in Generators
  PROVE  /\ r = Node => Watch(Node, W)[r][g] = IF g \in W THEN Shown[g].ts ELSE last[r][g]
         /\ r # Node => Watch(Node, W)[r][g] = last[r][g]
<1> DEFINE w == [h \in Generators |-> IF h \in W THEN Shown[h].ts ELSE last[Node][h]]
<1>1. Watch(Node, W) = [last EXCEPT ![Node] = w]
  BY DEF Watch
<1>2. w[g] = IF g \in W THEN Shown[g].ts ELSE last[Node][g]
  OBVIOUS
<1> HIDE DEF w
<1>3. DOMAIN last = Recorders
  BY DEF FlagTypes
<1>4. r = Node => Watch(Node, W)[r] = w
  BY <1>1, <1>3
<1>5. r # Node => Watch(Node, W)[r] = last[r]
  BY <1>1, <1>3
<1> QED BY <1>2, <1>4, <1>5

\* No recorder gets ahead.
LEMMA BehindStep ==
  ASSUME RecordInv, [Next]_vars
  PROVE  RecordersBehind'
<1> SUFFICES ASSUME Forward, NEW r \in Recorders, NEW g \in Generators
             PROVE  last'[r][g] <= Shown'[g].ts
  BY ConfigFixed DEF RecordersBehind, Forward
<1>1. last[r][g] \in Nat /\ last[r][g] <= Shown[g].ts
  BY DEF RecordInv, QuietInv, TypeInv, FlagTypes, Rising, RecordersBehind
<1>2. Shown[g].ts \in Nat /\ Shown'[g].ts \in Nat /\ Shown[g].ts <= Shown'[g].ts
  BY ShownRises
<1>3. last'[r][g] = last[r][g] \/ last'[r][g] = Shown[g].ts
  <2>1. CASE last' = last
    BY <2>1
  <2>2. CASE last' # last
    <3>1. PICK W \in SUBSET Later(Node) : last' = Watch(Node, W)
      BY <2>2, WatchSteps
    <3> QED BY <3>1, Watched DEF RecordInv, QuietInv, TypeInv
  <2> QED BY <2>1, <2>2
<1> QED BY <1>1, <1>2, <1>3

\* The rest of the recording stays ahead.
LEMMA RestStep ==
  ASSUME Ascending, RecordInv, [Next]_vars
  PROVE  RestIsLater'
<1> SUFFICES ASSUME Forward, played # {}, NEW j \in pos'..Len(Recording),
                    NEW g, g = Recording[j][1]
             PROVE  Shown'[g].ts <= Recording[j][2] /\ Pending(g)'.ts <= Recording[j][2]
  BY ConfigFixed DEF RestIsLater, Forward
<1>0. QuietInv /\ ~asynch /\ ~repeat
  BY DEF RecordInv, Forward
<1>1. j \in pos..Len(Recording) /\ j \in 1..Len(Recording)
  BY <1>0, NeverBack
<1>2. g \in Fed /\ g \in Generators /\ Recording[j][2] \in Nat
  BY <1>1, Records
<1>3. Shown[g].ts <= Recording[j][2] /\ Pending(g).ts <= Recording[j][2]
  BY <1>1 DEF RecordInv, Rising, RestIsLater
<1>4. ASSUME NEW h \in Generators, NewFrame(h)
      PROVE  Shown'[g] = Shown[g] /\ Pending(g)' = Pending(g)
  <2>1. g # h
    BY <1>0, <1>2, <1>4 DEF NewFrame, QuietInv, TypeInv, ConfigTypes
  <2> QED BY <1>0, <1>2, <1>4, <2>1, StoredFrames
<1>5. CASE UpdateData
  <2>1. \/ Shown'[g] = Shown[g] /\ Pending(g)' = Pending(g)
        \/ Shown'[g] = Pending(g) /\ Pending(g)' = Shown[g]
    BY <1>0, <1>2, <1>5, Swapped
  <2> QED BY <1>3, <2>1
<1>6. CASE WriteStamp
  <2>1. FedNode \in Generators /\ pos \in 1..Len(Recording)
    BY <1>0, <1>6, FedPlayed
  <2>2. Shown'[g] = Shown[g] /\ (g # FedNode => Pending(g)' = Pending(g))
    BY <1>0, <1>2, <1>6, <2>1, StoredFrames
  <2>3. g = FedNode => Pending(g)'.ts = Recording[pos][2]
    BY <1>0, <1>2, <1>6, StoredFrames
  <2>4. g = FedNode => Recording[pos][2] <= Recording[j][2]
    <3>1. CASE j = pos
      BY <1>2, <3>1
    <3>2. CASE j # pos
      <4>1. pos < j /\ pos \in DOMAIN Recording /\ j \in DOMAIN Recording
        BY <1>1, <2>1, <3>2
      <4> QED BY <4>1 DEF Ascending, FedNode
    <3> QED BY <3>1, <3>2
  <2> QED BY <1>3, <2>2, <2>3, <2>4
<1>7. CASE CopyData
  <2>1. FedNode \in Generators
    BY <1>0, <1>7, FedPlayed
  <2>2. Shown'[g] = Shown[g] /\ (g # FedNode => Pending(g)' = Pending(g))
    BY <1>0, <1>2, <1>7, <2>1, StoredFrames
  <2>3. g = FedNode => Pending(g)'.ts = Pending(g).ts
    BY <1>0, <1>2, <1>7, StoredFrames
  <2> QED BY <1>3, <2>2, <2>3
<1>8. CASE buf' = buf /\ cur' = cur
  BY <1>3, <1>8 DEF Shown, Pending
<1> QED BY <1>3, <1>4, <1>5, <1>6, <1>7, <1>8, FrameSteps

\* What is being fed stays ahead.
LEMMA FedStep ==
  ASSUME RecordInv, [Next]_vars
  PROVE  FedIsLater'
<1> SUFFICES ASSUME Forward, reader'[2] \in {"data", "copy", "available"},
                    NEW g, g = Recording[pos'][1]
             PROVE  Shown'[g].ts <= Pending(g)'.ts
  BY ConfigFixed DEF FedIsLater, Forward, FedNode
<1>0. QuietInv /\ ~asynch
  BY DEF RecordInv, Forward
<1>1. CASE WriteStamp
  <2>1. g = FedNode /\ g \in Generators /\ pos \in 1..Len(Recording) /\ played # {}
    <3>1. FedNode \in played /\ FedNode \in Generators /\ pos \in 1..Len(Recording)
      BY <1>0, <1>1, FedPlayed
    <3> QED BY <1>1, <3>1 DEF WriteStamp, FedNode
  <2>2. Shown'[g] = Shown[g] /\ Pending(g)'.ts = Recording[pos][2]
    BY <1>0, <1>1, <2>1, StoredFrames
  <2>3. Shown[g].ts <= Recording[pos][2]
    <3>1. pos \in pos..Len(Recording)
      BY <2>1
    <3> QED BY <2>1, <3>1 DEF RecordInv, Rising, RestIsLater, FedNode
  <2> QED BY <2>2, <2>3
<1>2. CASE CopyData
  <2>1. g = FedNode /\ g \in Generators /\ reader[2] = "copy"
    BY <1>0, <1>2, FedPlayed DEF CopyData, FedNode, InStep
  <2>2. Shown'[g] = Shown[g] /\ Pending(g)'.ts = Pending(g).ts
    BY <1>0, <1>2, <2>1, StoredFrames
  <2> QED BY <2>1, <2>2 DEF RecordInv, Rising, FedIsLater
<1>3. CASE NextBuffer
  <2>1. g = FedNode /\ reader[2] = "data" /\ buf' = buf /\ cur' = cur
    BY <1>3 DEF NextBuffer, InStep, FedNode, frameVars
  <2> QED BY <2>1 DEF RecordInv, Rising, FedIsLater, Shown, Pending
<1>4. CASE reader' = reader /\ pos' = pos /\ target' = target
  <2>1. g = FedNode /\ reader[2] \in Steps \ {"record"}
    BY <1>4 DEF FedNode, Steps
  <2>2. g \in played /\ g \in Generators
    BY <1>0, <2>1, Feeding, FedTypes DEF QuietInv, TypeInv
  <2>3. pc = "play" /\ ~UpdateData
    <3>1. reader # <<"nobody", "none">>
      BY <2>1 DEF Steps
    <3>2. pc = "play"
      BY <1>0, <3>1, Feeding
    <3> QED BY <3>2 DEF UpdateData, Ready, Updating
  <2>4. ~WriteStamp /\ ~CopyData
    <3>1. WriteStamp => reader[2] = "stamp" /\ reader'[2] = "data"
      BY DEF WriteStamp, InStep, Step
    <3>2. CopyData => reader[2] = "copy" /\ reader'[2] = "available"
      BY DEF CopyData, InStep, Step
    <3> QED BY <1>4, <3>1, <3>2
  <2>5. Shown'[g] = Shown[g] /\ Pending(g)' = Pending(g)
    <3>1. ASSUME NEW h \in Generators, NewFrame(h)
          PROVE  Shown'[g] = Shown[g] /\ Pending(g)' = Pending(g)
      <4>1. g # h
        BY <2>2, <3>1 DEF NewFrame
      <4> QED BY <1>0, <2>2, <3>1, <4>1, StoredFrames
    <3>2. CASE buf' = buf /\ cur' = cur
      BY <3>2 DEF Shown, Pending
    <3> QED BY <2>3, <2>4, <3>1, <3>2, FrameSteps
  <2> QED BY <1>4, <2>1, <2>5 DEF RecordInv, Rising, FedIsLater
<1>5. CASE ReadData
  <2>1. reader'[2] = "stamp"
    BY <1>5 DEF ReadData, Step
  <2> QED BY <2>1
<1> QED BY <1>1, <1>2, <1>3, <1>4, <1>5, ReaderSteps

\* New data are cleared where they were updated.
LEMMA ClearSteps ==
  ASSUME RecordInv, [Next]_vars, pc = "clear"
  PROVE  DataUpdated \/ (pc' = pc /\ path' = path)
<1>1. CASE Reading
  <2>1. /\ reader[1] = "app" => pc = "play"
        /\ reader \in {<<"nobody", "none">>} \cup ({"app", "playback"} \X Steps)
    BY DEF RecordInv, QuietInv, TypeInv, ReaderTypes, PlayerTypes
  <2>2. reader[1] # "nobody"
    BY <1>1 DEF Reading, ReadEnd, ReadData, WriteStamp, NextBuffer, CopyData,
                SetNewDataAvailable, InStep
  <2>3. reader[1] = "playback"
    BY <2>1, <2>2
  <2> QED
    BY <1>1, <2>3 DEF Reading, ReadEnd, ReadData, WriteStamp, NextBuffer, CopyData,
                      SetNewDataAvailable, EndReading, appVars
<1>2. CASE ~Reading
  BY <1>2 DEF Next, vars, appVars, NewFrame, GeneratorHasNewData, StartWait, WaitNone,
              Application, CheckNext, ConditionMet, ConditionNotMet, WakeUp, WaitTimesOut,
              UpdateTree, UpdateNeeded, AlreadyVisited, UpdateData, NothingToUpdate, Record,
              Ready, Updating, UpdateFails, FinishUpdate, TimePasses, WakePlayback, StartReading
<1> QED BY <1>1, <1>2

\* Data become available where a frame was stored.
LEMMA AvailableSteps ==
  ASSUME [Next]_vars
  PROVE  \/ \E h \in Generators : NewFrame(h)
         \/ DataUpdated \/ SetNewDataAvailable
         \/ avail' = avail
BY DEF Next, vars, frameVars, GeneratorHasNewData, StartWait, WaitNone, Application, CheckNext,
       ConditionMet, ConditionNotMet, WakeUp, WaitTimesOut, UpdateTree, UpdateNeeded,
       AlreadyVisited, UpdateData, NothingToUpdate, Record, UpdateFails, FinishUpdate,
       TimePasses, WakePlayback, StartReading, Reading, ReadEnd, ReadData, WriteStamp,
       NextBuffer, CopyData

\* New data stay ahead.
LEMMA NewStep ==
  ASSUME RecordInv, [Next]_vars
  PROVE  NewIsLater'
<1> SUFFICES ASSUME Forward, NEW g \in Generators, avail'[g], ~(pc' = "clear" /\ Node' = g)
             PROVE  Shown'[g].ts <= Pending(g)'.ts
  BY ConfigFixed DEF NewIsLater, Forward
<1>0. QuietInv /\ ~asynch /\ avail \in [Generators -> BOOLEAN]
  BY DEF RecordInv, Forward, QuietInv, TypeInv, FrameTypes
<1>1. Shown[g].ts \in Nat /\ Pending(g).ts \in Nat
  BY ShownRises
<1>2. ASSUME avail[g], ~(pc = "clear" /\ Node = g)
      PROVE  Shown[g].ts <= Pending(g).ts
  BY <1>2 DEF RecordInv, Rising, NewIsLater
<1>3. CASE \E h \in Generators : NewFrame(h)
  <2>1. PICK h \in Generators : NewFrame(h)
    BY <1>3
  <2>2. /\ Shown'[g] = Shown[g] /\ (g # h => Pending(g)' = Pending(g))
        /\ g = h => Pending(g)' = [ts |-> 1 + Latest(h), data |-> 1 + Latest(h)]
    BY <1>0, <2>1, StoredFrames
  <2>3. CASE g = h
    <3>1. Pending(g)'.ts = 1 + Latest(g)
      BY <2>2, <2>3
    <3>2. Latest(g) \in Nat /\ Shown[g].ts <= Latest(g)
      BY <1>1 DEF Latest
    <3> QED BY <1>1, <2>2, <3>1, <3>2
  <2>4. CASE g # h
    <3>1. avail'[g] = avail[g] /\ pc' = pc /\ path' = path
      BY <1>0, <2>1, <2>4 DEF NewFrame, appVars
    <3>2. Shown[g].ts <= Pending(g).ts
      BY <1>2, <3>1 DEF Node
    <3> QED BY <2>2, <2>4, <3>2
  <2> QED BY <2>3, <2>4
<1>4. CASE DataUpdated
  <2>1. g # Node /\ avail'[g] = avail[g] /\ buf' = buf /\ cur' = cur
    BY <1>0, <1>4 DEF DataUpdated
  <2> QED BY <1>2, <2>1 DEF Shown, Pending
<1>5. CASE SetNewDataAvailable
  <2>1. /\ reader[2] = "available" /\ buf' = buf /\ cur' = cur
        /\ avail' = [avail EXCEPT ![FedNode] = TRUE]
    BY <1>5 DEF SetNewDataAvailable, InStep
  <2>2. Shown'[g] = Shown[g] /\ Pending(g)' = Pending(g)
    BY <2>1 DEF Shown, Pending
  <2>3. CASE g = FedNode
    BY <2>1, <2>2, <2>3 DEF RecordInv, Rising, FedIsLater
  <2>4. CASE g # FedNode
    <3>1. avail[g]
      BY <1>0, <2>1, <2>4
    <3>2. pc # "clear"
      <4>1. reader # <<"nobody", "none">>
        BY <2>1
      <4> QED BY <1>0, <4>1, Feeding
    <3> QED BY <1>2, <2>2, <3>1, <3>2
  <2> QED BY <2>3, <2>4
<1>6. CASE avail' = avail /\ ~DataUpdated /\ ~\E h \in Generators : NewFrame(h)
  <2>1. CASE UpdateData
    <3>1. pc' = "clear" /\ Node' = Node /\ pc = "update"
      BY <2>1 DEF UpdateData, Ready, Updating, Node
    <3>2. g # Node
      BY <3>1
    <3>3. Shown'[g] = Shown[g] /\ Pending(g)' = Pending(g)
      BY <1>0, <2>1, <3>2, Swapped
    <3> QED BY <1>2, <1>6, <3>1, <3>3
  <2>2. CASE ~UpdateData
    <3>1. Shown[g].ts <= Pending(g).ts
      <4>1. pc = "clear" => pc' = pc /\ path' = path
        BY <1>6, ClearSteps
      <4> QED BY <1>2, <1>6, <4>1 DEF Node
    <3>2. Shown' = Shown
      BY <1>0, <2>2, ShownKept
    <3>3. CASE WriteStamp
      <4>1. FedNode \in Generators /\ FedNode \in played /\ pos \in 1..Len(Recording)
        BY <1>0, <3>3, FedPlayed
      <4>2. g # FedNode => Pending(g)' = Pending(g)
        BY <1>0, <3>3, <4>1, StoredFrames
      <4>3. g = FedNode => Pending(g)'.ts = Recording[pos][2]
        BY <1>0, <3>3, StoredFrames
      <4>4. g = FedNode => Shown[g].ts <= Recording[pos][2]
        <5>1. pos \in pos..Len(Recording)
          BY <4>1
        <5> QED BY <4>1, <5>1 DEF RecordInv, Rising, RestIsLater, FedNode
      <4> QED BY <3>1, <3>2, <4>2, <4>3, <4>4
    <3>4. CASE CopyData
      <4>1. FedNode \in Generators
        BY <1>0, <3>4, FedPlayed
      <4>2. g # FedNode => Pending(g)' = Pending(g)
        BY <1>0, <3>4, <4>1, StoredFrames
      <4>3. g = FedNode => Pending(g)'.ts = Pending(g).ts
        BY <1>0, <3>4, StoredFrames
      <4> QED BY <3>1, <3>2, <4>2, <4>3
    <3>5. CASE buf' = buf /\ cur' = cur
      BY <3>1, <3>5 DEF Shown, Pending
    <3> QED BY <1>6, <2>2, <3>3, <3>4, <3>5, FrameSteps
  <2> QED BY <2>1, <2>2
<1> QED BY <1>3, <1>4, <1>5, <1>6, AvailableSteps

\* A node becomes visited when it is updated only.
LEMMA VisitSteps ==
  ASSUME [Next]_vars
  PROVE  \/ visited' = visited
         \/ visited' = [n \in Nodes |-> FALSE]
         \/ (DataUpdated \/ NothingToUpdate \/ Record)
              /\ visited' = [visited EXCEPT ![Node] = TRUE]
BY DEF Next, vars, flagVars, NewFrame, GeneratorHasNewData, StartWait, WaitNone, StartUpdate,
       Application, CheckNext, ConditionMet, ConditionNotMet, WakeUp, WaitTimesOut, UpdateTree,
       UpdateNeeded, AlreadyVisited, UpdateData, DataUpdated, NothingToUpdate, Record,
       UpdateFails, FinishUpdate, TimePasses, WakePlayback, StartReading, Reading, ReadEnd,
       ReadData, WriteStamp, NextBuffer, CopyData, SetNewDataAvailable

\* A recorder that was visited keeps what is shown: neither changes until the
\* next update.
LEMMA RecordedStep ==
  ASSUME RecordInv, [Next]_vars
  PROVE  Recorded'
<1> SUFFICES ASSUME Forward, NEW r \in Recorders, visited'[r], NEW g \in Needs[r] \cap Generators
             PROVE  last'[r][g] = Shown'[g].ts
  BY ConfigFixed DEF Recorded, Forward
<1>0. QuietInv /\ ~asynch /\ FlagTypes /\ visited \in [Nodes -> BOOLEAN]
  BY DEF RecordInv, Forward, QuietInv, TypeInv, FlagTypes
<1>1. r \in Nodes /\ r \notin Generators
  OBVIOUS
<1>2. last[r][g] \in Nat /\ Shown[g].ts \in Nat /\ last[r][g] <= Shown[g].ts
  BY <1>0, ShownRises DEF FlagTypes, RecordInv, Rising, RecordersBehind
<1>3. CASE visited[r]
  <2>1. last[r][g] = Shown[g].ts
    BY <1>3 DEF RecordInv, Recorded
  <2>2. last'[r][g] = last[r][g]
    <3>1. CASE last' = last
      BY <3>1
    <3>2. CASE last' # last
      <4>1. ~visited[Node]
        BY <3>2, WatchSteps DEF Record, UpdateFails, Ready
      <4>2. PICK W \in SUBSET Later(Node) : last' = Watch(Node, W)
        BY <3>2, WatchSteps
      <4> QED BY <1>0, <1>3, <4>1, <4>2, Watched
    <3> QED BY <3>1, <3>2
  <2>3. Shown'[g] = Shown[g]
    <3>1. CASE UpdateData
      <4>1. g # Node
        BY <1>1, <1>3, <3>1 DEF UpdateData, Ready, RecordInv, NeededVisited
      <4> QED BY <1>0, <3>1, <4>1, Swapped
    <3>2. CASE ~UpdateData
      BY <1>0, <3>2, ShownKept
    <3> QED BY <3>1, <3>2
  <2> QED BY <2>1, <2>2, <2>3
<1>4. CASE ~visited[r]
  <2>1. (DataUpdated \/ NothingToUpdate \/ Record) /\ r = Node
    BY <1>0, <1>1, <1>4, VisitSteps
  <2>2. Record
    <3>1. ~DataUpdated
      BY <1>0, <1>1, <2>1 DEF DataUpdated, QuietInv, TypeInv, StageTypes
    <3>2. ~NothingToUpdate
      BY <2>1 DEF NothingToUpdate
    <3> QED BY <2>1, <3>1, <3>2
  <2>3. last' = Watch(Node, Later(Node)) /\ buf' = buf /\ cur' = cur
    BY <2>2 DEF Record, frameVars
  <2>4. last'[r][g] = IF g \in Later(Node) THEN Shown[g].ts ELSE last[r][g]
    BY <1>0, <2>1, <2>3, Watched
  <2>5. g \in Later(Node) <=> Shown[g].ts > last[r][g]
    BY <2>1 DEF Later
  <2>6. last'[r][g] = Shown[g].ts
    BY <1>2, <2>4, <2>5
  <2> QED BY <2>3, <2>6 DEF Shown
<1> QED BY <1>3, <1>4

\* An update that succeeds ends in FinishUpdate, and what it visited stays until
\* the next call.
LEMMA SuccessSteps ==
  ASSUME [Next]_vars, pc' = "idle", result' = "ok"
  PROVE  FinishUpdate \/ (pc' = pc /\ call' = call /\ result' = result /\ visited' = visited)
<1>1. CASE Reading
  <2>1. visited' = visited
    BY <1>1 DEF Reading, ReadEnd, ReadData, WriteStamp, NextBuffer, CopyData,
                SetNewDataAvailable, flagVars
  <2> QED
    BY <1>1, <2>1 DEF Reading, ReadEnd, ReadData, WriteStamp, NextBuffer, CopyData,
                      SetNewDataAvailable, EndReading, Return, Check, appVars
<1>2. CASE \/ \E n \in Nodes : CheckNext(n) \/ ConditionMet(n) \/ ConditionNotMet(n)
           \/ WakeUp \/ WaitTimesOut \/ UpdateFails \/ FinishUpdate
           \/ \E n \in Nodes : UpdateTree(n) \/ UpdateNeeded(n)
           \/ AlreadyVisited \/ UpdateData \/ DataUpdated \/ NothingToUpdate \/ Record
  BY <1>2 DEF CheckNext, ConditionMet, ConditionNotMet, StartUpdate, Return, Check,
              WakeUp, WaitTimesOut, UpdateFails, UpdateTree, UpdateNeeded, AlreadyVisited,
              UpdateData, DataUpdated, NothingToUpdate, Record, Ready, Updating, flagVars
<1>3. CASE (\E c \in Calls : StartWait(c)) \/ WaitNone
  BY <1>3 DEF StartWait, WaitNone, StartUpdate, Check
<1>4. CASE \/ \E g \in Generators : NewFrame(g) \/ GeneratorHasNewData(g)
           \/ TimePasses \/ WakePlayback \/ UNCHANGED vars
           \/ \E who \in {"app", "playback"} : StartReading(who)
  BY <1>4 DEF NewFrame, GeneratorHasNewData, TimePasses, WakePlayback, StartReading, vars,
              appVars, flagVars
<1> QED BY <1>1, <1>2, <1>3, <1>4 DEF Next, Application

\* Every step leaves every node visited after an update of the graph.
LEMMA VisitedStep ==
  ASSUME RecordInv, [Next]_vars
  PROVE  AllVisited'
<1> SUFFICES ASSUME pc' = "idle", result' = "ok", call'[1] # "Data", NEW n \in Nodes
             PROVE  visited'[n]
  BY DEF AllVisited, UpdatedAll, Succeeded
<1>1. CASE FinishUpdate
  <2>1. pc = "update" /\ path = <<>> /\ todo = {} /\ call' = call /\ visited' = visited
    BY <1>1 DEF FinishUpdate, Return, flagVars
  <2> QED BY <2>1 DEF RecordInv, DeliverInv, Coming, Roots
<1>2. CASE pc' = pc /\ call' = call /\ result' = result /\ visited' = visited
  BY <1>2 DEF RecordInv, AllVisited, UpdatedAll, Succeeded
<1> QED BY <1>1, <1>2, SuccessSteps

\* It starts so.
LEMMA RecordStarts == Init => RecordInv
<1> SUFFICES ASSUME Init PROVE RecordInv
  OBVIOUS
<1>1. QuietInv /\ Types /\ NeededVisited
  BY QuietStarts DEF Init, Types, NeededVisited
<1>2. DeliverInv /\ AllVisited
  BY DEF Init, DeliverInv, Collecting, Delivering, Coming, WaitDelivers, AllVisited, UpdatedAll,
         Succeeded
<1>3. \A g \in Generators : Shown[g].ts = 0 /\ Pending(g).ts = 0
  <2>1. \A g \in Generators : Shown[g] = Blank /\ Pending(g) = Blank
    BY DEF Init, Shown, Pending
  <2> QED BY <2>1 DEF Blank
<1>4. RecordersBehind /\ NewIsLater
  BY <1>3 DEF Init, RecordersBehind, NewIsLater
<1>5. FedIsLater
  BY DEF Init, FedIsLater
<1>6. RestIsLater
  <2> SUFFICES ASSUME NEW j \in pos..Len(Recording), NEW g, g = Recording[j][1]
               PROVE  Shown[g].ts <= Recording[j][2] /\ Pending(g).ts <= Recording[j][2]
    BY DEF RestIsLater
  <2>1. j \in 1..Len(Recording)
    BY DEF Init
  <2> QED BY <1>3, <2>1, Records
<1>7. Recorded
  BY DEF Init, Recorded
<1> QED BY <1>1, <1>2, <1>4, <1>5, <1>6, <1>7 DEF RecordInv, Rising

\* Every step keeps RecordInv.
LEMMA RecordStep ==
  ASSUME Ascending, RecordInv, [Next]_vars
  PROVE  RecordInv'
<1>1. QuietInv' /\ DeliverInv' /\ Types' /\ NeededVisited'
  BY QuietStep, DeliverStep, UpdateStep DEF RecordInv, QuietInv
<1> QED
  BY <1>1, BehindStep, RestStep, FedStep, NewStep, RecordedStep, VisitedStep
     DEF RecordInv, Rising

\* After an update of the whole graph every recorder has the frames that are
\* shown, if the player goes through its recording once, within the waits of the
\* application: xnUpdateTreeImpl comes to a recorder after the nodes it needs,
\* and to every node; GeneratorWatcher::Watch leaves a frame out only if it is
\* not later than the last one it took, and none that is shown is.
THEOREM ShownAreRecorded ==
  ASSUME Ascending
  PROVE  Spec => []RecordsShown
<1>1. Init => RecordInv
  BY RecordStarts
<1>2. RecordInv /\ [Next]_vars => RecordInv'
  BY RecordStep
<1>3. RecordInv => RecordsShown
  <2> SUFFICES ASSUME RecordInv, UpdatedAll, Forward, NEW r \in Recorders,
                      NEW g \in Needs[r] \cap Generators
               PROVE  last[r][g] = Shown[g].ts
    BY DEF RecordsShown, Forward
  <2>1. visited[r]
    BY DEF RecordInv, AllVisited
  <2> QED BY <2>1 DEF RecordInv, Recorded
<1> QED BY <1>1, <1>2, <1>3, PTL DEF Spec
=============================================================================
