------------------------------ MODULE DataUpdate ------------------------------
(***************************************************************************)
(* The data path of a context: generators that produce frames on threads   *)
(* of their own, the xnWaitXUpdateY calls of the application, the update   *)
(* of the graph and what a recorder takes from it, and a player that feeds *)
(* mock generators, within the wait or on its playback thread              *)
(* (Source/OpenNI/XnOpenNI.cpp, XnOS.cpp, XnPlayerImpl.cpp and the mock    *)
(* generator of Source/Modules/nimMockNodes).                              *)
(*                                                                         *)
(* A frame is its time stamp and its data; data that belong to time stamp  *)
(* t are t, so a frame is intact if its two fields agree.                  *)
(***************************************************************************)
EXTENDS Integers, Sequences, SequencesExt

CONSTANTS
  Nodes,       \* the nodes of the context
  Generators,  \* those that are generators
  Recorders,   \* those that are recorders
  Needs,       \* for each node, the nodes of its pNeededTrees
  Partner,     \* for each generator, hFrameSyncedWith or NoNode
  Threshold,   \* XN_FRAME_SYNC_THRESHOLD
  Recording,   \* the data records of a file: <<generator, time stamp>>
  MaxStamp,    \* bound: the frames a live generator produces
  LoopAsynch,  \* bound: whether a repeated recording is played asynchronously
  NoNode       \* a NULL handle

ASSUME DataUpdateAssumption ==
  /\ Generators \subseteq Nodes /\ Recorders \subseteq Nodes \ Generators
  /\ NoNode \notin Nodes
  /\ Needs \in [Nodes -> SUBSET Nodes]
  /\ Partner \in [Generators -> Generators \cup {NoNode}]
  /\ \A g \in Generators : Partner[g] # NoNode =>
       Partner[g] # g /\ Partner[Partner[g]] = g
  /\ Threshold \in Nat /\ MaxStamp \in Nat /\ LoopAsynch \in BOOLEAN
  /\ Recording \in Seq(Generators \X (Nat \ {0}))

VARIABLES
  played,     \* the generators the player feeds; {}: there is no player
  repeat,     \* m_bRepeat of the player
  asynch,     \* the application plays by xnWaitNoneUpdateAll too
  buf,        \* m_data of each generator: two frames
  cur,        \* m_nCurrentDataIdx
  avail,      \* m_bNewDataAvailable
  raising,    \* live generators about to raise their new-data event
  event,      \* hNewDataEvent is signalled
  pc,         \* what the application's thread does next
  call,       \* its call: <<which one, the node it waits for>>
  todo,       \* the nodes a loop over the nodes has still to look at
  path,       \* the recursion of xnUpdateTreeImpl
  late,       \* the wait's time-out has passed
  result,     \* what the last call returned
  isNew,      \* bIsNewData
  visited,    \* bWasVisited
  last,       \* m_nLastDataTimeStamp of each recorder's watchers
  pos, eof,   \* the record to read next; m_bEOF
  reader,     \* who holds m_hPlaybackLock, and in which step of ReadNext
  target,     \* the buffer SetNextData refers to
  trigger,    \* m_hPlaybackEvent is signalled
  thread      \* what the playback thread does next

configVars == <<played, repeat, asynch>>
frameVars == <<buf, cur, avail>>
eventVars == <<raising, event>>
appVars == <<pc, call, todo, path, late, result>>
flagVars == <<isNew, visited, last>>
playerVars == <<pos, eof, reader, target, trigger, thread>>
vars == <<configVars, frameVars, eventVars, appVars, flagVars, playerVars>>

Fed == {Recording[k][1] : k \in DOMAIN Recording}
Blank == [ts |-> 0, data |-> 0]

Init ==
  /\ played \in {{}, Fed}
  /\ repeat \in BOOLEAN /\ asynch \in BOOLEAN
  /\ played = {} => ~repeat /\ ~asynch
  /\ repeat /\ asynch => LoopAsynch
  /\ buf = [g \in Generators |-> [k \in 0..1 |-> Blank]]
  /\ cur = [g \in Generators |-> 0]
  /\ avail = [g \in Generators |-> FALSE]
  /\ raising = {} /\ event = FALSE
  /\ pc = "idle" /\ call = <<"None", NoNode>> /\ todo = {} /\ path = <<>>
  /\ late = FALSE /\ result = "none"
  /\ isNew = [n \in Nodes |-> FALSE]
  /\ visited = [n \in Nodes |-> FALSE]
  /\ last = [r \in Recorders |-> [g \in Generators |-> 0]]
  /\ pos = 1 /\ eof = FALSE
  /\ reader = <<"nobody", "none">> /\ target = 0
  /\ trigger = FALSE /\ thread = "wait"
-----------------------------------------------------------------------------
(* Frames *)

Shown == [g \in Generators |-> buf[g][cur[g]]]
Pending(g) == buf[g][1 - cur[g]]

\* The time stamp of the last frame that was stored.
Latest(g) == IF Shown[g].ts > Pending(g).ts THEN Shown[g].ts ELSE Pending(g).ts

Within(s, t) == s - t <= Threshold /\ t - s <= Threshold

\* xnDidNodeAdvanced; a node that is not a generator never has new data.
DidNodeAdvanced(n) ==
  /\ n \in Generators /\ avail[n]
  /\ Partner[n] # NoNode =>
       avail[Partner[n]] /\ Within(Pending(n).ts, Pending(Partner[n]).ts)

\* A live generator stores a frame and marks it as available ...
NewFrame(g) ==
  /\ g \notin played /\ g \notin raising
  /\ LET t == 1 + Latest(g) IN
     /\ t <= MaxStamp
     /\ buf' = [buf EXCEPT ![g][1 - cur[g]] = [ts |-> t, data |-> t]]
  /\ avail' = [avail EXCEPT ![g] = TRUE]
  /\ raising' = raising \cup {g}
  /\ UNCHANGED <<configVars, cur, event, appVars, flagVars, playerVars>>

\* ... and then raises its event: xnGeneratorHasNewData.
GeneratorHasNewData(g) ==
  /\ g \in raising
  /\ raising' = raising \ {g}
  /\ event' = TRUE
  /\ UNCHANGED <<configVars, frameVars, appVars, flagVars, playerVars>>
-----------------------------------------------------------------------------
(* The wait *)

\* The nodes over which the condition of a call goes.
Conditioned(c) ==
  CASE c[1] = "All" -> Generators
    [] c[1] = "Any" -> Nodes
    [] OTHER        -> {c[2]}

Calls == ({"All", "Any"} \X {NoNode}) \cup ({"One", "Data"} \X Generators)

Return(res) ==
  /\ pc' = "idle" /\ result' = res
  /\ todo' = {} /\ path' = <<>> /\ late' = FALSE
  /\ UNCHANGED call

\* xnWaitForCondition evaluates its condition.
Check ==
  /\ pc' = "check"
  /\ todo' = Conditioned(call')

\* xnWaitAndUpdateAll, xnWaitAnyUpdateAll, xnWaitOneUpdateAll, xnWaitAndUpdateData.
StartWait(c) ==
  /\ pc = "idle"
  /\ call' = c
  /\ Check
  /\ result' = "none"
  /\ UNCHANGED <<configVars, frameVars, eventVars, path, late, flagVars, playerVars>>

\* xnUpdateGraph: no node has new data, none is visited.
StartUpdate ==
  /\ pc' = "update"
  /\ todo' = IF call'[1] = "Data" THEN {call'[2]} ELSE Nodes
  /\ isNew' = [n \in Nodes |-> FALSE]
  /\ visited' = [n \in Nodes |-> FALSE]
  /\ UNCHANGED <<last, path, late>>

\* xnWaitNoneUpdateAll: xnPlayRecording only triggers the playback thread.
WaitNone ==
  /\ pc = "idle"
  /\ played # {} => asynch
  /\ call' = <<"None", NoNode>>
  /\ IF eof
       THEN /\ result' = "eof"
            /\ UNCHANGED <<pc, todo, path, late, flagVars, trigger>>
       ELSE /\ StartUpdate
            /\ result' = "none"
            /\ trigger' = (played # {})
  /\ UNCHANGED <<configVars, frameVars, eventVars, pos, eof, reader, target, thread>>

\* xnDidAllNodesAdvanced and xnDidAnyNodeAdvanced look at one node after the
\* other until they know.
Advanced(n) == IF call[1] = "Any" THEN ~DidNodeAdvanced(n) ELSE DidNodeAdvanced(n)

CheckNext(n) ==
  /\ pc = "check" /\ n \in todo
  /\ todo # {n} /\ Advanced(n)
  /\ todo' = todo \ {n}
  /\ UNCHANGED <<configVars, frameVars, eventVars, pc, call, path, late, result,
                 flagVars, playerVars>>

\* The condition holds: the wait is over.
ConditionMet(n) ==
  /\ pc = "check" /\ n \in todo
  /\ DidNodeAdvanced(n)
  /\ call[1] = "Any" \/ todo = {n}
  /\ UNCHANGED <<call, result>>
  /\ StartUpdate
  /\ UNCHANGED <<configVars, frameVars, eventVars, playerVars>>

\* Mutant: the event is reset before the wait.
ConditionNotMetReset(n) ==
  /\ pc = "check" /\ n \in todo
  /\ ~DidNodeAdvanced(n)
  /\ call[1] # "Any" \/ todo = {n}
  /\ IF played # {} /\ eof THEN Return("eof")
     ELSE IF played = {} /\ late THEN Return("timeout")
     ELSE /\ pc' = IF played # {} THEN "play" ELSE "wait"
          /\ todo' = {}
          /\ UNCHANGED <<call, path, late, result>>
  /\ event' = FALSE
  /\ UNCHANGED <<configVars, frameVars, raising, flagVars, playerVars>>

\* It does not: with a player, play the next record; without, look at the clock
\* (xnOSWaitForCondition) and wait for the event for the time that is left.
ConditionNotMet(n) ==
  /\ pc = "check" /\ n \in todo
  /\ ~DidNodeAdvanced(n)
  /\ call[1] # "Any" \/ todo = {n}
  /\ IF played # {} /\ eof THEN Return("eof")
     ELSE IF played = {} /\ late THEN Return("timeout")
     ELSE /\ pc' = IF played # {} THEN "play" ELSE "wait"
          /\ todo' = {}
          /\ UNCHANGED <<call, path, late, result>>
  /\ UNCHANGED <<configVars, frameVars, eventVars, flagVars, playerVars>>

\* Mutant: the event alone ends the wait.
WakeUpUpdate ==
  /\ pc = "wait" /\ event
  /\ event' = FALSE
  /\ UNCHANGED <<call, result>>
  /\ StartUpdate
  /\ UNCHANGED <<configVars, frameVars, raising, playerVars>>

\* The auto-reset event is signalled.
WakeUp ==
  /\ pc = "wait" /\ event
  /\ event' = FALSE
  /\ UNCHANGED call
  /\ Check
  /\ UNCHANGED <<configVars, frameVars, raising, path, late, result, flagVars,
                 playerVars>>

\* The wait's time-out passes, measured from its start.
TimePasses ==
  /\ pc \in {"check", "wait"} /\ played = {} /\ ~late
  /\ late' = TRUE
  /\ UNCHANGED <<configVars, frameVars, eventVars, pc, call, todo, path, result,
                 flagVars, playerVars>>

\* xnOSWaitEvent returns XN_STATUS_OS_EVENT_TIMEOUT; the condition is not
\* evaluated again.
WaitTimesOut ==
  /\ pc = "wait" /\ late
  /\ Return("timeout")
  /\ UNCHANGED <<configVars, frameVars, eventVars, flagVars, playerVars>>
-----------------------------------------------------------------------------
(* xnUpdateGraph *)

Node == Last(path)
Updating == pc = "update" /\ path # <<>>
\* Mutant: the node is updated before the nodes it needs.
ReadyEarly == Updating /\ ~visited[Node]

Ready == Updating /\ ~visited[Node] /\ \A c \in Needs[Node] : visited[c]

\* xnUpdateTreeImpl returns to its caller.
TreeUpdated ==
  /\ path' = Front(path)
  /\ UNCHANGED <<call, todo, late, result>>

\* The loop of xnUpdateGraph takes the next node.
UpdateTree(n) ==
  /\ pc = "update" /\ path = <<>> /\ n \in todo
  /\ path' = <<n>>
  /\ todo' = todo \ {n}
  /\ UNCHANGED <<configVars, frameVars, eventVars, pc, call, late, result, flagVars,
                 playerVars>>

AlreadyVisited ==
  /\ Updating /\ visited[Node]
  /\ TreeUpdated
  /\ UNCHANGED <<configVars, frameVars, eventVars, pc, flagVars, playerVars>>

\* The needed nodes come first; the recursion returns at once from those that
\* were visited.
UpdateNeeded(c) ==
  /\ Updating /\ ~visited[Node] /\ c \in Needs[Node] /\ ~visited[c]
  /\ path' = Append(path, c)
  /\ UNCHANGED <<configVars, frameVars, eventVars, pc, call, todo, late, result,
                 flagVars, playerVars>>

\* A generator with new data: UpdateData swaps the buffers ...
UpdateData ==
  /\ Ready /\ Node \in Generators /\ avail[Node]
  /\ cur' = [cur EXCEPT ![Node] = 1 - @]
  /\ pc' = "clear"
  /\ UNCHANGED <<configVars, buf, avail, eventVars, call, todo, path, late, result,
                 flagVars, playerVars>>

\* ... and then has no new data any more.
DataUpdated ==
  /\ pc = "clear"
  /\ avail' = [avail EXCEPT ![Node] = FALSE]
  /\ isNew' = [isNew EXCEPT ![Node] = TRUE]
  /\ visited' = [visited EXCEPT ![Node] = TRUE]
  /\ pc' = "update"
  /\ TreeUpdated
  /\ UNCHANGED <<configVars, buf, cur, eventVars, last, playerVars>>

\* A generator without new data, or a node that is neither generator nor recorder.
NothingToUpdate ==
  /\ Ready /\ Node \notin Recorders /\ (Node \in Generators => ~avail[Node])
  /\ visited' = [visited EXCEPT ![Node] = TRUE]
  /\ TreeUpdated
  /\ UNCHANGED <<configVars, frameVars, eventVars, pc, isNew, last, playerVars>>

\* Mutant: only what this update made new.
LaterNew(r) == {g \in Needs[r] \cap Generators : isNew[g]}

\* xnRecord: the watchers that GeneratorWatcher::Watch finds with a later frame.
Later(r) == {g \in Needs[r] \cap Generators : Shown[g].ts > last[r][g]}
Watch(r, W) == [last EXCEPT ![r] = [g \in Generators |->
                                      IF g \in W THEN Shown[g].ts ELSE @[g]]]

Record ==
  /\ Ready /\ Node \in Recorders
  /\ last' = Watch(Node, Later(Node))
  /\ visited' = [visited EXCEPT ![Node] = TRUE]
  /\ TreeUpdated
  /\ UNCHANGED <<configVars, frameVars, eventVars, pc, isNew, playerVars>>

\* The module's UpdateData, or a watcher, fails: the whole update ends there.
UpdateFails ==
  /\ Ready
  /\ \/ Node \in Generators \ played /\ avail[Node] /\ UNCHANGED last
     \/ Node \in Recorders /\ \E W \in SUBSET Later(Node) : last' = Watch(Node, W)
  /\ Return("error")
  /\ UNCHANGED <<configVars, frameVars, eventVars, isNew, visited, playerVars>>

FinishUpdate ==
  /\ pc = "update" /\ path = <<>> /\ todo = {}
  /\ Return("ok")
  /\ UNCHANGED <<configVars, frameVars, eventVars, flagVars, playerVars>>
-----------------------------------------------------------------------------
(* The player *)

\* PlaybackThread wakes up.
WakePlayback ==
  /\ thread = "wait" /\ trigger
  /\ trigger' = FALSE
  /\ thread' = "play"
  /\ UNCHANGED <<configVars, frameVars, eventVars, appVars, flagVars, pos, eof, reader,
                 target>>

\* xnPlayerReadNext takes m_hPlaybackLock, in the wait of the application and
\* on the playback thread.
Plays(who) == IF who = "app" THEN pc = "play" ELSE thread = "play"

StartReading(who) ==
  /\ Plays(who) /\ reader[1] = "nobody"
  /\ reader' = <<who, "record">>
  /\ UNCHANGED <<configVars, frameVars, eventVars, appVars, flagVars, pos, eof, target,
                 trigger, thread>>

InStep(step) == reader[1] # "nobody" /\ reader[2] = step
Step(step) == reader' = <<reader[1], step>>

\* ReadNext returns: the application evaluates its condition again, the
\* playback thread waits for the next trigger (and only logs a failure).
EndReading(failed) ==
  /\ reader' = <<"nobody", "none">>
  /\ IF reader[1] = "playback"
       THEN thread' = "wait" /\ UNCHANGED appVars
       ELSE /\ IF failed THEN Return("error")
               ELSE UNCHANGED <<call, path, late, result>> /\ Check
            /\ UNCHANGED thread

\* Mutants: the end of the file goes unnoticed; a rewind goes to record 0.
ReadEndUnnoticed ==
  /\ InStep("record") /\ pos > Len(Recording)
  /\ pos' = IF repeat THEN 1 ELSE pos
  /\ EndReading(eof)
  /\ UNCHANGED <<configVars, frameVars, eventVars, flagVars, eof, target, trigger>>

ReadEndRewind0 ==
  /\ InStep("record") /\ pos > Len(Recording)
  /\ pos' = IF repeat THEN 0 ELSE pos
  /\ eof' = ~repeat
  /\ EndReading(eof)
  /\ UNCHANGED <<configVars, frameVars, eventVars, flagVars, target, trigger>>

\* ProcessRecord; the end record rewinds or closes the stream, and a stream
\* that is closed cannot be read.
ReadEnd ==
  /\ InStep("record") /\ pos > Len(Recording)
  /\ pos' = IF repeat THEN 1 ELSE pos
  /\ eof' = ~repeat
  /\ EndReading(eof)
  /\ UNCHANGED <<configVars, frameVars, eventVars, flagVars, target, trigger>>

ReadData ==
  /\ InStep("record") /\ pos <= Len(Recording)
  /\ Step("stamp")
  /\ UNCHANGED <<configVars, frameVars, eventVars, appVars, flagVars, pos, eof, target,
                 trigger, thread>>

\* The node the record is for.
FedNode == Recording[pos][1]

\* Mutant: the time stamp goes into the frame that is shown.
WriteStampCurrent ==
  /\ InStep("stamp")
  /\ buf' = [buf EXCEPT ![FedNode][cur[FedNode]].ts = Recording[pos][2]]
  /\ Step("data")
  /\ UNCHANGED <<configVars, cur, avail, eventVars, appVars, flagVars, pos, eof, target,
                 trigger, thread>>

\* SetNodeNewData: the time stamp goes into the next buffer of the mock node ...
WriteStamp ==
  /\ InStep("stamp")
  /\ buf' = [buf EXCEPT ![FedNode][1 - cur[FedNode]].ts = Recording[pos][2]]
  /\ Step("data")
  /\ UNCHANGED <<configVars, cur, avail, eventVars, appVars, flagVars, pos, eof, target,
                 trigger, thread>>

\* Mutant: SetNextData refers to the frame that is shown.
NextBufferCurrent ==
  /\ InStep("data")
  /\ target' = cur[FedNode]
  /\ Step("copy")
  /\ UNCHANGED <<configVars, frameVars, eventVars, appVars, flagVars, pos, eof, trigger,
                 thread>>

\* ... SetNextData refers to what is the next buffer now ...
NextBuffer ==
  /\ InStep("data")
  /\ target' = 1 - cur[FedNode]
  /\ Step("copy")
  /\ UNCHANGED <<configVars, frameVars, eventVars, appVars, flagVars, pos, eof, trigger,
                 thread>>

\* ... copies the data there ...
CopyData ==
  /\ InStep("copy")
  /\ buf' = [buf EXCEPT ![FedNode][target].data = Recording[pos][2]]
  /\ Step("available")
  /\ UNCHANGED <<configVars, cur, avail, eventVars, appVars, flagVars, pos, eof, target,
                 trigger, thread>>

\* ... and has new data, which raises the event.
SetNewDataAvailable ==
  /\ InStep("available")
  /\ avail' = [avail EXCEPT ![FedNode] = TRUE]
  /\ event' = TRUE
  /\ pos' = pos + 1
  /\ EndReading(FALSE)
  /\ UNCHANGED <<configVars, buf, cur, raising, flagVars, eof, target, trigger>>
-----------------------------------------------------------------------------
Application ==
  \/ \E n \in Nodes : CheckNext(n) \/ ConditionMet(n) \/ ConditionNotMet(n)
  \/ WakeUp \/ WaitTimesOut
  \/ \E n \in Nodes : UpdateTree(n) \/ UpdateNeeded(n)
  \/ AlreadyVisited \/ UpdateData \/ DataUpdated \/ NothingToUpdate \/ Record
  \/ UpdateFails \/ FinishUpdate

Reading ==
  ReadEnd \/ ReadData \/ WriteStamp \/ NextBuffer \/ CopyData \/ SetNewDataAvailable

Next ==
  \/ \E g \in Generators : NewFrame(g) \/ GeneratorHasNewData(g)
  \/ \E c \in Calls : StartWait(c)
  \/ WaitNone
  \/ Application
  \/ TimePasses
  \/ WakePlayback
  \/ \E who \in {"app", "playback"} : StartReading(who)
  \/ Reading

Spec == Init /\ [][Next]_vars

\* Every thread that can go on does, and time passes.  The application need not
\* call, and a live generator need not produce a frame.
Fairness ==
  /\ WF_vars(Application)
  /\ WF_vars(TimePasses)
  /\ WF_vars(\E g \in Generators : GeneratorHasNewData(g))
  /\ WF_vars(WakePlayback)
  /\ WF_vars(StartReading("app")) /\ WF_vars(StartReading("playback"))
  /\ WF_vars(Reading)

FairSpec == Spec /\ Fairness
-----------------------------------------------------------------------------
(* Properties *)

Frames == [ts : Nat, data : Nat]
Steps == {"record", "stamp", "data", "copy", "available"}

\* The values the variables can have.
TypeOK ==
  /\ played \in {{}, Fed} /\ repeat \in BOOLEAN /\ asynch \in BOOLEAN
  /\ buf \in [Generators -> [0..1 -> Frames]]
  /\ cur \in [Generators -> 0..1]
  /\ avail \in [Generators -> BOOLEAN]
  /\ raising \subseteq Generators \ played /\ event \in BOOLEAN
  /\ pc \in {"idle", "check", "wait", "play", "update", "clear"}
  /\ call \in Calls \cup {<<"None", NoNode>>}
  /\ todo \subseteq Nodes /\ path \in Seq(Nodes)
  /\ late \in BOOLEAN
  /\ result \in {"none", "ok", "timeout", "eof", "error"}
  /\ isNew \in [Nodes -> BOOLEAN] /\ visited \in [Nodes -> BOOLEAN]
  /\ last \in [Recorders -> [Generators -> Nat]]
  /\ pos \in 1..(Len(Recording) + 1) /\ eof \in BOOLEAN
  /\ reader \in {<<"nobody", "none">>} \cup ({"app", "playback"} \X Steps)
  /\ target \in 0..1
  /\ trigger \in BOOLEAN /\ thread \in {"wait", "play"}

\* The condition of the call in progress, evaluated at once.
Condition ==
  IF call[1] = "Any" THEN \E n \in Nodes : DidNodeAdvanced(n)
                     ELSE \A n \in Conditioned(call) : DidNodeAdvanced(n)

\* No wake-up is lost: when the condition of a thread that waits for the event
\* holds, the event is set or is about to be (xnGeneratorHasNewData sets it
\* after the data are available; xnOSWaitForCondition evaluates the condition
\* before it waits and after every wake-up).
NoLostWakeUp == pc = "wait" /\ Condition => event \/ raising # {}

Succeeded == pc = "idle" /\ result = "ok"
UpdatedAll == Succeeded /\ call[1] # "Data"

\* A wait that succeeds delivers what it waited for: the update finds the data
\* that met the condition, whatever the generators and the player did since.
WaitDelivers ==
  Succeeded =>
    CASE call[1] = "None" -> TRUE
      [] call[1] = "Any"  -> \E g \in Generators : isNew[g]
      [] OTHER            -> \A g \in Conditioned(call) : isNew[g]

\* After an update of the whole graph every recorder has the frames that are
\* shown: it comes after the nodes it needs, and no frame is left behind by an
\* update that skipped or failed before it.  A repeated recording goes back in
\* time, and its frames are then not recorded.
RecordsShown ==
  UpdatedAll /\ ~repeat /\ ~asynch =>
    \A r \in Recorders : \A g \in Needs[r] \cap Generators : last[r][g] = Shown[g].ts

\* In one update, no node's data change after a node that needs it was updated.
InputsFirst ==
  [][\A c \in Generators : cur'[c] # cur[c] =>
       \A n \in Nodes : c \in Needs[n] => ~visited[n]]_vars

\* Two generators in frame sync that the player feeds are shown in sync after a
\* wait for them (xnDidNodeAdvanced).  A live generator may replace its pending
\* frame between the condition and the update, and the playback thread may too.
ShownInSync ==
  \A g \in played :
    UpdatedAll /\ ~asynch /\ g \in Conditioned(call) /\ Partner[g] \in played
      /\ call[1] \in {"All", "One"} =>
        Within(Shown[g].ts, Shown[Partner[g]].ts)

\* As long as the application does not play by xnWaitNoneUpdateAll, the frame a
\* generator shows has the data that belong to its time stamp ...
ShownIntact == ShownInSync /\ (~asynch => \A g \in Generators : Shown[g].ts = Shown[g].data)

\* ... and changes in an update only.
ShownStable == [][~asynch /\ pc # "update" => Shown' = Shown]_vars

\* src/Include/XnCppWrapper.h:3327, for every application.
SameDataUntilUpdate == [][pc = "idle" => Shown' = Shown]_vars

\* Every wait ends, by the time-out, at the latest, or at the end of the
\* recording; a repeated one may never hold what the wait is for.
WaitsEnd == pc # "idle" /\ ~repeat ~> pc = "idle"
=============================================================================
