# A verification of OpenNI in TLA+

This directory holds TLA+ models of the OpenNI framework (`src/Source`,
`src/Include`), the TLC configurations that check them on small instances, and
proofs checked by TLAPS. OpenNI is a C library. An application asks a *context*
for *production nodes* (depth, image, user generators, players, recorders, ...),
which modules implement, and the framework keeps the graph of nodes, their
lifetimes, their data and their configuration.

    tlc -workers 2 -config NodeGraph_calls.cfg MCNodeGraph
    tlc -workers 2 -config Recording_plays.cfg MCPlayerNode
    tlapm PlayerNode_proofs.tla

## 1. Inventory

### The core: `src/Source/OpenNI`

| Part | Source | State | Operations | What makes it correct |
|---|---|---|---|---|
| Production graph | `XnOpenNI.cpp` | node infos and the lists that reference them, nodes and their reference counts, needed-node edges, the map of names, the player slot, the context's count | allocate and free infos, create a tree, reference and release nodes, add and remove needed nodes, look up by name or type, hand a node to the context, release or shut down the context | counts are exact in every intermediate state of a cascade; no handle, list entry or slot dangles; the graph has no loop; nodes go down from top to bottom; a shutdown ends |
| Node locks | `XnOpenNI.cpp` | the lock handle and the changing thread of each node, the context's last handle, the module's lock | lock, unlock, start and end changes, lock-change callback | a lock is exclusive and its handle unique (which it is not when calls overlap); only the locker changes a locked node |
| Scheduler | `XnScheduler.cpp` | the list of tasks, the wake-up event, the thread | add, remove, reschedule, shut down, the thread's loop | no task is lost or listed twice, no wake-up is missed, every task runs, a shutdown returns |
| Data update | `XnOpenNI.cpp` | the new-data event, the data of each generator | wait for one, any, all or no node, update the graph | data that arrived is not missed, a wait that succeeds delivers, needed nodes are read before those that need them, what is shown does not change between updates |
| Player | `XnPlayerImpl.cpp` | played nodes with their locks, the playback thread, speed and time reference | open, play, seek, end of file, destroy | played nodes stay alive and locked, the speed survives a seek, no trigger is lost, the thread never runs on a destroyed player |
| Recorder and node watcher | `XnRecorderImpl.cpp`, `XnNodeWatcher.cpp` | recorded nodes and their watchers | add and remove a node, record, property changes | a node is announced before its data, each change is recorded once |
| Events | `XnEventT.h`, `XnEvent.h` | handler lists with pending additions and removals, the lock of a raise | register, unregister, raise, clear | a removed handler is not called, one that is added during a raise is not lost, a raise calls all it found and never reads a freed list node |
| Frame synchronisation | `XnOpenNI.cpp` | the partner of each node | start, stop, partner's data | partners point to each other or to nobody |
| Module loader, licences, types | `XnModuleLoader.cpp`, `XnLicensing.cpp`, `XnTypeManager.cpp` | loaded generators, licences, type hierarchies | load, enumerate, register | loaded once, before the first context is used |
| Scripts and queries | `XnXmlScriptNode.cpp`, `XnXml.cpp`, `XnQueries.cpp` | none that outlives a call | parse and configure, filter a list of infos | the first match of a query is created |
| Logs, dumps, profiling | `XnLog.cpp`, `XnDump.cpp`, `XnProfiling.cpp`, ... | writers and files | write | no effect on the rest |
| Operating-system layer | `Linux/*.cpp` | handles of threads, events, mutexes | create, wait, set, lock | each is a wrapper of a system call |

### The modules: `src/Source/Modules`

| Part | Source | What it is |
|---|---|---|
| Recording format | `nimRecorder`, `Common/DataRecords.cpp` | the player and recorder nodes that read and write records of nodes, properties and data. A seek must show what playing up to the frame would have shown; a file that was not finished must not be played |
| Mock nodes | `nimMockNodes` | generators whose data and properties a player sets |
| Codecs | `nimCodecs` | compression of frames, in particular the 16-bit difference coding of `XnStreamCompression.cpp` |
| Device modules | `neolix*` | drivers over vendor libraries that are not in the repository as source |

The rest (`Externals`, `Platform`, `Samples`, `Wrappers`, `Testing`) is vendored
code, build files, examples and wrappers that forward to the C API.

### How they interact

* The application calls the C API on any of its threads. Nothing in the
  framework locks the graph, so one thread is the intended use. A few counters and
  lists have a critical section of their own.
* A node holds references on its info, on the nodes it needs and on its context;
  the lists of infos reference infos. A release of one node therefore cascades
  through all of them, and the application may hold any mixture of the three.
* Modules call back into the framework: a generator's own thread sets the
  context's new-data event, a lock-aware module reports that its lock changed
  (also when another process did it), and a module may add and remove needed nodes.
* The player runs a playback thread that creates, locks and changes the nodes of
  a recording while the application uses them; the scheduler runs a thread that
  calls the application back.

### What is hard

Cascades and errors half-way through a recursive creation; references of three
kinds that must add up after any mix of calls; a shutdown that takes a graph down
in the right order; the scheduler's check-then-wait outside its critical section,
with callbacks that call the scheduler; lock handles used across threads
with no synchronisation, and the speed of the player set by several of them; another process behind a module; time-outs that
terminate a thread; generators and a playback thread that store frames while the
application decides whether to wait and while it updates; seeks that follow seek tables or
undo chains in any order, over a file whose recorder may have died; handlers that change the
list they are called from, and raise the event again. `PROJECT.json` lists every hazard at its line, with the
properties that cover it or the reason why none does yet.

## 2. The modules

### NodeGraph: the production graph

`NodeGraph.tla` models the calls of `XnOpenNI.cpp` on infos, nodes and the
context. One application thread makes them. A call that recurses (creating a tree,
releasing a node, freeing an info) is a series of internal steps over the
explicit `stack`, whose frames are:

| Frame | Function |
|---|---|
| `create` | `xnCreateProductionTreeImpl` and `xnCreateProductionNodeImpl` |
| `undo` | the error path of `xnCreateProductionTreeImpl` |
| `destroy` | `xnDestroyProductionNodeImpl`: release what the node needs, then its info |
| `free` | `xnFreeProductionNodeImpl`: the player slot and the context's reference |
| `infofree` | the tail of `xnNodeInfoFree` for a count of 0 |

So every state in the middle of a cascade is a state of the model, and the
invariants hold there too. The state corresponds to the code as follows:

| Variable | Code |
|---|---|
| `infoRef`, `name`, `hNode` | `XnNodeInfo::nRefCount`, `strInstanceName`, `hNode` |
| `cells` | the cells of all `XnNodeInfoList`s: the needed trees of each info and the context's owned nodes; `Slots` bounds how often one list holds the same info |
| `nRef`, `mem` | `XnInternalNodeData::nRefCount`, and whether the data is allocated |
| `held` | the list entries for which the owner holds a node reference; the code has no such field, it is implied by the loop that is running |
| `nodesMap`, `hPlayer`, `ctxRef` | the fields of `XnContext` |
| `user`, `userInfo`, `userCtx`, `lost` | ghost counts: who owes a release |

Names are pairs of a type and a number, which is what
`xnCreateProductionNodeImpl` makes of an info without a name. The module's own
behaviour is a choice: it creates the node, or it fails. Out-of-memory
failures of list insertions are left out, and so are the callbacks an
application registers and what a call from within one would do.

### Scheduler

`Scheduler.tla` models `XnScheduler.cpp`: the application's thread and the
callback in progress both call the API; a critical section is one step,
everything the code does outside it is a step of its own. Times are kept
relative to now: `Tick` decrements them. `MaxLate` bounds how far behind the
machine gets, so `Tick` waits for a thread that has work. A thread that is
terminated after the one-second limit is `"killed"`; the limit itself is not
measured: only a thread in a callback or in a wait nobody ends can reach it.
A call that the callback had begun ends with its thread (`InCall`).
Task memory is reused: a `Tasks` value is added again only after the callback
that uses it returned. An interval of 0, which would keep a task first for ever,
is excluded (no caller passes it).

### NodeLock

`NodeLock.tla` models locks and changes, with a step for each access to shared
state: nothing in `xnLockNodeForChanges` or the other calls keeps two threads apart, so they
interleave at every step. `++nLastLockID` is a read and a write, as it is in a build without atomics.
Another process may lock a lock-aware module at any time, and `xnNodeLockChanged`
then stores the handle `XN_MAX_UINT32` (`Foreign`). No module in `src` implements `LockAware`; as its interface
asks, the model's module refuses a second lock and reports each change before its call returns.

The ghosts say what the callers were promised: `locks` are the locks that were returned and that no unlock
has taken back, each with the thread that got it; `changes` are those started and not ended, which an unlock leaves
open; and `raced` are the nodes on which a call to lock or unlock began inside of another one. The properties
are about what overlapping calls can do and what they cannot. The callers are assumed to pass only handles that they
were given and that are not yet unlocked, and to end only changes that they started:

* `LocksExclusive`: a lock-aware node has one owner at most however the calls overlap, since its module decides; other nodes
  have one as long as no two calls overlapped on them.
* `HolderKeepsLock`: a lock stays its node's lock unless calls overlapped on that node. Where they do, one of two locks of a node is
  replaced by the other, and the last store of an unlock (`UnlockReset`) can wipe a lock that
  another thread took after the module was unlocked. Calls on *other* nodes do no harm, although they share `nLastLockID` and can
  turn it back.
* `HandlesUnique` is violated: two threads that lock at the same time, the same node or two, can get one handle.
* `ChangesByLocker`: a thread that may change a locked node has changes open on it. They may be open from
  an earlier lock: an unlock keeps `nCurrentThread`, so a thread that unlocks without ending its changes can change the node
  under the next lock.

A lock of another process that is reported between the two last steps of an unlock is
overwritten, and the node then looks unlocked although its module is not: `LocksExclusive` therefore speaks
of the module and of our locks, not of the node's handle.

### DataUpdate

`DataUpdate.tla` models the way of a frame: from a generator, or from a recording, through
the wait of the application and the update of the graph to what `GetData` returns and
what a recorder takes.

| Variable | Code |
|---|---|
| `buf`, `cur`, `avail` | `m_data`, `m_nCurrentDataIdx`, `m_bNewDataAvailable` of a mock generator (a live module keeps a shown and a pending frame too) |
| `raising`, `event` | a generator between its flag and its event; `hNewDataEvent` |
| `pc`, `call`, `todo`, `path` | the application's thread in `xnWaitForCondition`, `xnOSWaitForCondition` and `xnUpdateGraph`, with the loop over the nodes and the recursion of `xnUpdateTreeImpl` |
| `late` | whether the time-out, counted from the start of the wait, has passed |
| `isNew`, `visited` | `bIsNewData`, `bWasVisited` |
| `last` | `m_nLastDataTimeStamp` of the watchers of each recorder |
| `pos`, `eof`, `reader`, `target` | the player's place in the recording, `m_bEOF`, `m_hPlaybackLock` with the step of `ReadNext`, and the buffer `SetNextData` has a reference to |
| `trigger`, `thread` | `m_hPlaybackEvent` and the playback thread |

The conditions look at one node after the other, so a generator may store a frame between
two looks; a live generator first marks its data as available and then raises the event;
`SetNodeNewData` writes the time stamp, takes the next buffer, copies the data and sets the
flag in four steps, and `UpdateData` swaps the buffers and clears the flag in two. A frame is
its time stamp and its data, and data that belong to time stamp *t* are *t*: a torn frame is
one whose fields differ. An update may fail at each node with new data and at each recorder after
any of its watchers.

Abstracted: the contents and size of frames, frame ids (a watcher takes a later time stamp *or*
frame id; both grow together here), the sleep of the playback speed. Live
modules are external: `NewFrame` takes the order of `NiSampleModule` (flag, then
event) with the buffers of a mock generator. The generators a player feeds are those with a
record in the file. The graph does not change while an update runs; its changes are in
`NodeGraph`.

### Recording: Timeline, RecorderNode, PlayerNode

`Timeline.tla` is the abstract specification: a recording is a sequence of events that only
grows; a player has a place in it and shows, of each node, the last frame and the last
property value before that place. Playing skips nothing, and a seek leads to the place after a frame with
every node showing what it showed there.

`RecorderNode.tla` models `nimRecorder/RecorderNode.cpp`: the records that each notification writes.
It also states what a file promises its player (`FileExact`): undo places, configuration IDs and seek tables are exact.
`PlayerNode.tla` extends it with `nimRecorder/PlayerNode.cpp`, which opens such a file, handles one
record after the other, repeats the file, and seeks. The functions of the player are operators from its state
before to its state after, since one call runs under the playback lock from beginning to end.

`HandleNodeAdded`, `Rewind` and a seek forward handle records until something is reached, and may be in the middle of
each other (a seek that reads a node's added record waits for that node to be ready). The state has these loops in `waits`, the
innermost first: `Turn` is what the innermost one does next, it handles a record or is left, and `Run` makes
`Enough` turns, which is more than the records of the file and the loops they start. A call that is not done by then
would never return: its status is `"endless"`, and `NeverCorrupt` says that there is none in a good file.

| Variable | Code |
|---|---|
| `file` | the stream: records, with the place of a record as its offset |
| `header` | `nMaxNodeID` of the header, all ones until the recording is finished |
| `recorded`, `numNodes`, `configID` | `m_recordedNodesInfo`, `m_nNumNodes`, `m_nConfigurationID` |
| `announcing` | the node for which `RecorderImpl::AddNode` has not yet said that its state is ready |
| `stage` | the calls of `CloseStream`, or that the recording process died |
| `player.info`, `player.temp`, `player.pos`, `player.begun` | `m_pNodeInfoMap`, `m_aSeekTempArray`, the place in the stream, `m_bDataBegun` |
| `player.status`, `player.waits` | how the calls ended so far; the loops of the call in progress (none between two calls) |
| `player.shown` | what the notifications made of the nodes |

`Follows` is the refinement: `T == INSTANCE Timeline` maps the records to events, the place of the
player to `at`, and what its notifications made to `shown`. A record that is no event
(a table, the state-ready and data-begin records) is an event that changes nothing. `SeekToFrame` is the
abstract seek whichever of its four ways it takes: a reread of the current frame, the seek tables,
the undo chains backward, or reading forward without the data.

Three kinds of seek do not refine it, named in `Spoils`: to the current frame after something else was played, since
only that frame is read again; after the removal of a node was played, since nothing undoes a removal;
and a fast seek across a property change that came after the current frame (the finding of
`Recording_fast_seek`). The ghost `spoiled` switches the promises off from then on. Each of the three is necessary:
without it TLC finds `Follows` violated. `SoughtShown`, what a seek must show of the node it is for,
holds of the first such seek too, but not of the seeks after it: they start from nodes that are no longer at one place.

Abstracted: a frame and a value are named by the place of their record; each node has one property; a node is
its ID, and a name that is added again gets a new one, as in the code. Left out: time stamps and
with them the data records the player ignores as too early, `SeekToTimeStamp`, the payload's codec, formats
before 1.0.1, I/O errors, and what a player does after a call has failed. `Crash` is the death of
the recording process between any two writes; a write itself is whole.

### Events

`Events.tla` models `XnEventT.h` (and the older `XnEvent.h`, which has the same lists and lock). A thread holds
`m_hLock` while it raises the event, the lock is recursive, and handlers may register,
unregister and raise.

| Variable | Code |
|---|---|
| `owner` | who is in `m_hLock`; a registration holds it for one step only |
| `toAdd`, `callbacks`, `toRemove` | `m_toAdd`, `m_callbacks`, `m_toRemove` |
| `depth`, `raise[i].cur` | the raises inside of each other, and the handler the iterator of each stands on |
| `raise[i].due`, `called`, `gone`, `nested`, `unregistered` | ghosts: what a raise found and called, who was unregistered before it began, whether its handler raised the event again, and who was unregistered |
| `wild` | an iterator went on from a list node that had been freed |

A raise inside of another applies the pending changes while the outer iterator stands on a list node. The one
mix that frees the node under it is a handler that is unregistered and raises the event, both in
its own call; `IteratorAlive` says that there is no other. `NeverCalledAfter` is about each raise by itself: one from inside
of a handler, too, calls nobody who was unregistered before it began, also in the middle of the outer one. A handler's list node is a number that is
not used again: the allocator may reuse the address, in which case the code calls a wrong handler
instead of reading freed memory. Copying an event is left out, and a handle is unregistered once.

### Player

`Player.tla` models `XnPlayerImpl.cpp` around the module's player, which is open: a call of the module is any
sequence of notifications.

| Variable | Code |
|---|---|
| `lock`, `speed` | `m_hPlaybackLock`, `m_dPlaybackSpeed` |
| `call` | the calls each thread is inside of, the outermost first, with the speed each will set back |
| `thread`, `event`, `shutdown` | the steps of `PlaybackThread`, `m_hPlaybackEvent`, `m_bPlaybackThreadShutdown` |
| `stage` | `BeforeNodeDestroy`, `Destroy` and the module's destruction |
| `notice` | the node an `AddNode` or `RemoveNode` is at, and which of its steps comes next |
| `played`, `needed` | `m_playedNodes`, and the mock nodes the player created and needs |
| `refs`, `locked`, `held` | the reference count and lock of each node, and the application's references |

A call of the module's player may end in a callback of the application, which may call the player again: the lock is
recursive, so `call` is a stack, and a seek can be made inside of a read or of another seek, on the
playback thread too. A speed that is set from inside of a seek slows that seek down (`"slowed"`) and is put back by its end.
`AddNode` and `RemoveNode` are a step for each call they make of the library: the lookup or the creation, `NeedNode`, `LockPlayed`,
`ListNode`, and the unlock, `UnlistNode`. The application gets, locks and releases the node
between any two of them. A mock node that the application locks before the player does is released but stays
a needed node, as in the code.

`xnOSWaitAndTerminateThread` is `Join` or, for a thread that is in a read for more than its
second, `JoinTimesOut`, which cancels the thread and does not wait for it.

The code loses a speed in cases that the ghost `excused` names, and `SpeedKept` says that there is no other: `SetSource` reads
the speed before it takes the lock and sets it back later, so what another thread sets in between is
lost; when it fails, it leaves the fastest speed behind; a speed set from inside of a seek or of an
opening is overwritten when that ends; and a seek whose thread is cancelled sets nothing back.

Simplified: a lookup and its reference are one step, so are a creation and its reference; one
thread notifies at a time, although opening a file plays without the playback lock up to its first frame; one file is
opened at a time and not from a callback; an application unlocks a node before it releases it,
and a forced shutdown, which destroys nodes against their counts, is in `NodeGraph` only. Left out: the
time reference that spaces frames out, the file stream, a list of played nodes that cannot be extended, and the properties a notification sets.

## 3. The runs

| Run | Checks | States | Bounds |
|---|---|---|---|
| `NodeGraph_calls` | exact counts, valid handles and lists, no loop, top-down destruction, the map and the player slot; only nodes whose reference was lost outlive it; calls return, a shutdown ends | 1,410,927 | three infos, one of them a player, one cell per list entry; the application takes up to three references at a time, on any nodes, infos (one each) and the context, and playing loses one |
| `Scheduler_runs` | the list is exact, no wake-up is missed, a waiting thread stops by itself, every task runs again and again, a shutdown returns | 537,283 | three tasks, intervals 1 and 2, one millisecond late |
| `DataUpdate_waits` | no wake-up is lost, a wait that succeeds delivers, every shown frame is recorded, needed nodes come first, what is shown is intact, in sync and stable, waits end | 495,832 | a generator, a user generator that needs it and is in frame sync with it, a recorder of both; three records or two live frames of each; a repeated recording is not played asynchronously |
| `NodeLock_overlap` | a lock stays with its holder, one owner per node, the module is locked for it, changes by the locker | 7,420,016 | two threads, two nodes, one of them lock-aware, three handles |
| `Recording_plays` | the recorder and player implement a timeline, what the recorder tells of its file is exact, an unfinished file is refused, a seek shows its frame, no good file is found corrupt, a seek reads a freed seek table only in a file that adds or removes a node among its frames | 1,183,004 | every file of two generators and five frames, property changes and removals, or what a crash leaves of it; two seeks |
| `Events_raise` | no handler is lost or called after it is gone, a raise calls all it found and ends | 496,783 | two threads, four handlers, four raises, three of them inside of each other |
| `Player_plays` | the speed comes back, played nodes are alive and locked, no trigger is lost, the thread ends before the player | 669,699 | two application threads and the playback thread, one node, three speeds, four calls, three notifications |
| `NodeGraph_lost_reference` | *violated*: `UnreferencedDestroyed` when a recording is played | | |
| `Scheduler_next_task` | *violated*: `WakesForNextTask` | | |
| `DataUpdate_playback` | *violated*: `SameDataUntilUpdate` with `xnWaitNoneUpdateAll` | | |
| `NodeLock_unique_handle` | *violated*: `HandlesUnique` | | |
| `Recording_fast_seek` | *violated*: `FastSeekSameConfiguration` | | |

Why the bounds are enough. *NodeGraph*: three infos make chains, shared needed
nodes, attempted loops of length three and a cascade in which a node below is reached on two
paths; with up to three references of the application, one that was lost and those of the lists and of the nodes that
need it, a node's count is reached and left in every order. The bound on references (`MaxHeld`) only drops states in which the
application holds more at once; the invariants are proved without it.
*Scheduler*: the list needs three tasks to be out of order behind its head; with a
fourth nothing new can be compared, since the insertion looks at one
task at a time. Two intervals are enough for a task that is due before one that was
added earlier. *DataUpdate*: two generators are the least that can be in sync, in order and
reached on two paths (the recorder needs both). Each has two buffers, so two frames
already replace a pending frame, and the three records of the file have a frame that is out of sync with its
partner, one that is in sync, and one that replaces data nobody has taken. `LoopAsynch` only leaves out the
repeated asynchronous playback, which adds no order of steps that either of the two does not have;
the safety properties were checked once with it too (18.4 million states). The theorems have
none of these bounds. *NodeLock*: two threads are enough for every pair of calls to overlap, on one node and on two,
and three handles let the last one be turned back and given again; the theorems have no bound.
*Recording*: the five events are any mix of frames, values and removals of the two nodes, so
a seek can go back and forth over a change that lies before, between or after the frames of both nodes, and a second seek
starts from what the first one left, also after a repetition. Two nodes are the least for tables of
which one is looked up and the other not. The recording is always repeated, since a file that
is not has the same states up to its end and stops there; with both (`Repeats = {TRUE, FALSE}`) it was checked once
(1,955,261 states). *Events*: four handlers are one that a raise stands on,
one before and one after it, and one that is added meanwhile; of two threads one raises and the other waits. *Player*:
two threads and the playback thread race for one speed, and the third speed tells the one that was set
from the fastest and the first; four calls are a seek inside of a call, a call of another thread and one after both. One
node is enough, since additions and removals do not look at other nodes; whether it is found or
created depends on whether the application holds it. Three notifications add, remove and add it again.

`CHECK_DEADLOCK FALSE` (not in the runs of `DataUpdate`, which has no deadlock): the application may stop
calling, a context or player that is gone makes no step, and a bound may be used up.

### Fairness

* `NodeGraph`: weak fairness of `Internal`. A thread inside a call keeps
  running, because no step of a cascade waits for anything. The application need not
  call again.
* `Scheduler`: weak fairness of the steps of the thread, of the steps of a call after
  its first one and of the shutdown's steps, since the scheduler's critical section is only held for one
  step; of `Tick`, since time passes. `CallbackReturns` is strongly fair:
  a callback ends although it makes calls in between. `TerminateThread` is not
  fair: without it the shutdown still returns.
* `DataUpdate`: weak fairness of the application's thread inside a call, of the clock
  (`TimePasses`), of a live generator that has marked data and has to raise its event, of the playback
  thread, and of whoever holds `m_hPlaybackLock` (`Reading`), since no step under the lock waits for
  anything but the bounded sleep of the playback speed. A thread that wants the lock is only weakly
  fair: the other one may take it again, but only as often as there are triggers or records. Nothing
  is assumed of how often a generator produces a frame or the application calls.
* `Events`: weak fairness of `Proceed`, that is, handlers return. A raise is not assumed to
  be the last one: the bound on raises is what ends a handler that raises the event again and again.
* `Player`: weak fairness of the playback thread, of the destruction, of the end of the innermost call of each
  thread, and of the steps of an addition or removal, since a call of the module or of a callback returns. The
  wait for the lock is only weakly fair: another thread may take the lock again, as often as the bound on calls allows.
* The recording is checked without fairness: all its properties are about safety.

### What the violated runs show

Each quotes the line that says otherwise (`findings` of `PROJECT.json`).

1. `xnPlayRecording` references the player on each update and never releases it, so a player that was
   once played survives all releases.
2. `xnSchedulerAddTaskInternal` compares the wrong task, so the list is not sorted and
   a task is called later than the time the thread should have woken up at. The run
   `Scheduler_runs` shows that it is still called.
3. `xnWaitNoneUpdateAll` triggers the playback thread and does not wait for it. The thread
   takes a reference to the next buffer of a mock generator and copies into it; when an update swaps the
   buffers in between, the copy goes into the frame the application is looking at. The passing run
   shows that without `xnWaitNoneUpdateAll` a frame is intact and stable (`ShownIntact`,
   `ShownStable`).
4. A property, two frames and a change of the property are recorded and all of it is played. A seek to
   frame 1 compares the configurations of the two frames, which are equal, and reads
   frame 1 from the table: the node keeps the later value of the property.
5. `xnLockNodeForChanges` gives "a unique lock handle" by incrementing the context's last one, with nothing that keeps two
   threads apart. Both take the same handle; on one node both then believe that they have it locked, and one
   unlock takes the lock of both. `NodeLock_overlap` shows what overlapping calls do not break.

One more disagreement is kept out of the runs by an assumption: a creation that fails leaves its default
name behind, a second node of the type takes the name, and the retry replaces that node in the map,
so it exists but cannot be found. `NodeGraph_calls` gives each info a type of its own for that reason.

## 4. What is proved

All theorems are for every number of infos, stack frames, tasks, threads, handlers, records and
nodes, and for every bound. The assumptions are those about constants that the modules name
(`ConstantsAssumption`, `SchedulerAssumption`, `LockAssumption`, `DataUpdateAssumption`, `RecorderAssumption`,
`EventsAssumption`, `PlayerAssumption`), which TLC evaluates in every run. Some theorems have a
hypothesis of their own:

* `DistinctNames` (four theorems on `NodeGraph`): two infos can never be given the same name. The run has it, since each
  of its infos has a type of its own. The code does not ensure it: a creation that fails leaves its default name
  behind (`XnOpenNI.cpp:1600`), and a second node of the type takes the name and drops out of the map when the
  first is retried. TLC shows what depends on it: with two infos of one type the map misses
  a node (`ExistingNodesMapped`), and a forced shutdown then destroys a node under one that needs it
  (`GraphOrdered`). While the context is in use nothing but the map depends on it, and
  the theorems that say so (`RefsStayExact`, `NothingEverDangles`, `OrderKept`) do not assume it.
* `Ascending` (`ShownAreRecorded`): the time stamps of a node do not go back in the file that is played. A recorder
  takes a frame that is later in time stamp or in frame ID, and `DataUpdate` has one number for both, so this
  is what the abstraction assumes anyway.

### NodeGraph (`NodeGraph_proofs`)

`TypeCorrect` is the type invariant. `GraphCorrect` shows that `GraphInv` is an
invariant, and the three properties follow from it, each part by a theorem of its own: `RefsStayExact` (counts), `NothingEverDangles`
(handles, needed lists, list entries) and `OrderKept` (no loops, top-down destruction). `NodeRefExact` alone is not inductive:
to see that a release in the middle of a cascade keeps it, one must know what the
calls further down the stack still owe. `GraphInv` adds exactly that:

* `GoodGraph`: counts are exact (`NodesCounted`, `InfoRefExact`), the graph has no
  loop, only existing nodes are counted and an existing node without a count has a
  `destroy` frame (`DeadUncounted`, `UncountedDying`); a node is destroyed by one
  frame only, a creation is never beneath a frame that takes something down, and what is
  being created does not exist (`DestroyFrames`, `CreateFrames`); all list
  entries of a counted node are counted (`ListsCounted`, `MapCounted`);
* `GoodLists`: what an entry stands for. A counted entry belongs to a node that exists or
  is being created or undone, an uncounted info is not in a list, and a node is created
  for the application or for the creation that needs it.

The module begins with the lemmas about cells, cardinalities and reachability
(a new edge closes no loop unless the target already reached the source) and the
type invariant, then shows `GoodGraph` and `GoodLists` preserved by the calls and by the steps of a cascade. The count of the context needs one more invariant, `ContextCounted`: the context is
referenced once by each node whose memory is allocated, and a node's memory is allocated from before it
exists until after its destruction. `NothingForgotten` (`OnlyLostStay`) reads the counts the
other way: with no call under way, a node of count 0 would need a `destroy` frame that is not there, so what nobody holds or needs has a lost reference.

`GraphInv` speaks of a context in use (`ctx = "up"`). A forced shutdown takes nodes down that the application
still has references on, so `NodesCounted` ends there. `LifeInv` follows a context through its shutdown and past its end:

* `MappedAll`: every node with a count is in the map, under a name of its own (`NamesOwn`). This is what a
  shutdown starts from, since it works through the map.
* `ShutInv`, during the shutdown: what exists is in the map or has a `destroy` frame (`MappedOrDying`); the
  nodes still in the map have all their references (`MappedCounted`), and nobody but existing nodes and the context
  counts references, only on nodes of the map (`MappedHeld`). So a node is destroyed when it is
  needed by none, and never twice, although its count is ignored. The caller's reference keeps the context's count from reaching 0 in
  the middle (`ContextHeld`).
* `GoneInv`, after it: no node is left, and the infos that outlive the context are still counted (`InfosGood`).
* `BuilderHoldsContext`: the last reference on the context never goes in the middle of a creation, so the shutdown
  that a release of it starts finds no half-made node.

From it `RefsAlwaysExact`, `NothingDanglesLater`, `OrderAlwaysKept` and `ContextStaysConsistent` state the run's four
invariants as they are, for every phase. `SlotStaysValid` (the player slot holds no freed node) needs only
`PlayerKept` and no hypothesis.

### Scheduler (`Scheduler_proofs`)

`TasksListedOnce` and `FirstTaskWakes` follow from `SchedulerInv`. The list is a sequence with insertions in the
middle: lemmas say that an insertion adds one place and keeps the order of the others, whatever the order
of the times is, and that a removal takes the only place of a task. `ListedOnce` also needs `AddingNew`: a task that was given its
memory but is not yet in the list is not about to be added by anybody else. `WakesForFirst` is inductive together with it: a change of the
head of the list is made by a call that has yet to set the event (`Notified`), or by the thread itself, which then
looks again; a change behind the head does not matter to it. That the *first* task is not the one
that is due next is the finding of `Scheduler_next_task`, and no contradiction.

### NodeLock (`NodeLock_proofs`)

`LocksCorrect` shows that `LockInv` is an invariant of every interleaving; `HolderKeeps`, `LocksStayExclusive` and `OnlyLockerChanges`
follow. No theorem assumes that calls do not overlap. `LockInv` is an invariant of each node
(`NodeInv`) and of each call (`CallInv`). On a node on which no calls overlapped, the one call that locks or unlocks it
found it without a lock or took back its only one; this is why its last store replaces nothing. On a lock-aware node the module is
locked exactly as long as there is one owner, a lock or a call between its two module calls; a second call is
refused because the first still owns it, and another process cannot report a change in between. `OnlyLockerChanges` adds `ThreadChanges`:
the thread that a node remembers has changes open on it.

### DataUpdate (`DataUpdate_proofs`)

* `InputsFirstHolds`: in one update no node's data change after those of a node that needs it.
  The invariant `NeededVisited` says that the needed nodes of a visited node are visited; it
  holds because a node is marked only when `Ready`, and one update marks and never unmarks.
* `WakeUpsKept`: `NoLostWakeUp` is inductive only with what the thread knows while it is
  still looking. `Looking` says that the nodes an Any call has looked at have not advanced or an event
  is on its way, so that the last look of a failed condition proves there is nothing to sleep through;
  for the other calls one node that has not advanced is enough. `WhoPlays` says that without a player nobody
  but the generators changes frames, each of which raises the event after it.
* `WaitsDeliver`: a wait that succeeds has made new what it waited for. `DeliverInv` follows the data from
  the condition to the end of the update: what a finished look has found stays available, since only an
  update takes it (`Collecting`); in the update, a node that was waited for still has its data
  or is already new (`Delivering`), and is still to be visited or was (`Coming`: it is in the loop, or at
  the bottom of the recursion).
* `ShownStays`: outside of an update no shown frame changes. `QuietInv` says that without asynchronous playback
  the playback thread never leaves its wait (`PlaybackIdle`) and that a reader writes to the buffer that is not
  shown (`NextIsPending`), although it took its reference to it some steps before.
* `ShownAreIntact`: `Intact` is about both buffers of each generator. A pending frame is torn in the middle of
  `SetNextData`, but then the flag is not set and no update takes it. `Syncing` follows a pair in frame sync from the
  condition, which looks at one of them at a time, to the end of the update, where one is
  shown before the other (`Due`).
* `ShownAreRecorded`: what is shown, pending, being fed and still in the file is in ascending order
  (`Rising`), and no recorder is ahead of what is shown, so no watcher leaves a shown frame out; a
  visited recorder has what its generators show (`Recorded`), which stays true since the generators come first
  (`NeededVisited`); and an update that succeeds has visited all nodes (`AllVisited`).
* `TypeCorrect`: the type invariant, through `TypeInv`, which adds that a reader beyond the
  first step has a record under it.

### RecorderNode (`RecorderNode_proofs`)

`RecordedExact`: `FileExact` holds of every file, however many nodes and events it has and wherever the recorder
dies. It relates records that were written at different times, some of them over others (the added record of a node is
overwritten with its table, the header last), so `RecorderInv` says what the recorder remembers between two notifications:

* `NodesKnown`: the last property and data records of each node in the file are the ones its info
  points to, and its added record is where the info says;
* `EntriesPlaced`: the entries of all indexes and tables point into the file, and since an entry of the present configuration
  was made only frames were written, so the configuration ID of a frame tells its configuration;
* `TablesKept`: a node with frames is still being recorded or has its table, and the header becomes valid when
  no node is being recorded.

### PlayerNode (`PlayerNode_proofs`)

What the player does with a record depends on all that was recorded before it, and a call is a
loop over records until what it awaits has come. The proof is built in layers, each of which
uses only those below.

* *The file* (`FileOk`): the recorder's invariant, of which `RecordedExact` speaks, and
  `FileShape`, which adds what only a reader needs: a node is added before its other records and removed after
  its frames; frames come behind a first-frame record; an added node is said to be ready, with nothing but properties in between;
  behind the end are only removals and tables.
* *The player's state* (`Sound`): what an info, a seek table and a wait hold are places of records of that node; the
  position is before the end as long as it plays (`BeforeEnd`).
* *The loops*: `Run` and `FindFrame` are recursive functions, about which the library's induction says nothing
  (its theorems take an operator). `NatInductionSet` is an induction for a *set* of numbers, from `WFMin`;
  with it `RunTurns` shows that a set of states which every turn keeps is kept by a run, and `FramesFollowed` that
  `FindFrame` goes along the undo places.
* *What turns keep*: what a loop waits for has not been read yet (`Waiting`); only the node whose seek
  table is awaited can be without it (`Indexed`); a freed table belongs to a generator or to a node that is
  yet to be added (`Alive`); the frames of a node before the position are none beyond its current one (`Kept`), as long as
  no seek is made of the kinds that `Spoils` names.

`PlayerInv` says all of this of the state between two calls. From it follow `PlayerTyped` (`TypeOK`), `PlayedExact` (the file
stays what `RecordedExact` says), `Refused` (a file whose recorder died is not played at all:
its header has no highest node, so the first record is refused), `TablesAlive` (a freed table is only read in files which add or
remove a node between the first frame and the end) and the action property `SeekShown` (`SoughtShown`): a seek which
succeeds, forward, backward or by the seek tables, shows the frame it was asked for and ends directly behind it.
That a table is exact (`FileExact`) is what makes the fast seek land on the frame; that the slow ones do needs
`Kept`; the hypothesis `~spoiled` is that of the property, not of the proof.

### Events (`Events_proofs`)

`TypeCorrect`, `ListsAreSafe`, `UnregisteredIsQuiet` and the action property `EveryHandlerCalled` follow from one
invariant. `HandlersKept` (each handler is on exactly one list) is inductive alone. That an unregistered handler is not
called needs `GoneAway`: during a raise, those who were unregistered before it began are not in `callbacks`, since
every raise applies the lists first, the nested ones too, and `HandlersKept` says that who is unregistered and still listed is on `toRemove`. That an iterator is only
freed under a handler that raised the event needs `NestedBelow` (every raise but the innermost one stands on such a
handler). That a raise calls all it found needs `Covered`: what it found is still listed or was
unregistered, and what it has passed was called, although lists are applied in the middle of it.

### Player (`Player_proofs`)

The invariant has three parts that hardly touch each other: `PlayInv` (calls, lock, speed and destruction),
`NodeInv` (references and node locks) and `BoundsOK`. `LockHeld` says that the playback lock is held exactly by the thread
one of whose calls locks, however many of them are inside of each other. `SpeedIsKept` needs `SpeedRestored`: of the threads one at
most restores a speed, the outermost of its calls that do so puts back the speed the application set last, and those inside of it put back the
fastest; and `SeekFast`, which says the latter under every seek, also where a speed was lost, so that no end of an inner seek slows the outer one down.
`PlayedAreHeld` counts one reference each for what is played, needed, held and being added (`Counted`). `ThreadIsGone` needs
that a joined thread never runs again.

### What is only model-checked

* Liveness under fairness, which the prover has no means for: `CallsEnd`, `SchedulerLives`, `WaitsEnd`, `RaiseEnds`,
  `ThreadServes`.
* `NeverCorrupt` and the refinement `Follows` (of `Timeline`) of `Recording_plays`. Both speak of what every
  node shows or holds after any path through the file, and would need, beyond `PlayerInv`, that undoing records restores the
  infos of *all* nodes, including those a seek does not name; `TLC` checks them for all files of the bounds.

## 5. What could come next

The invariant that undoing restores every node's info, with which `NeverCorrupt` and `Follows` could be proved; the pair of
frame-sync partners with the callbacks of the modules; the data update of a mock
generator, with the properties a notification sets, as a refinement of `DataUpdate`'s; the
16-bit difference coding as operators checked against its inverse on short inputs.

## 6. Not modelled

* Frame synchronisation: modules report a change of partners through a callback; `DataUpdate` takes the
  partners as a constant.
* Codecs: a sequential encoding of bytes.
* The properties of mock nodes and of the recorder's watchers: each is one callback that forwards one value. What
  matters of their order is in `RecorderNode`.
* Module loading, licences and the type manager: run once before the first context; they
  are file and library I/O.
* Queries, XML parsing and scripts: sequential and without state that outlives a
  call; their effect on the graph is `MarkOwnedNode` and the calls they make.
* Logs, dumps, profiling, memory profiling: nothing reads them.
* The operating-system layer and USB: wrappers around system calls. What the threads need of an auto-reset
  event, a recursive mutex and the termination of a thread is in `Scheduler`, `DataUpdate`, `Events` and `Player`.
* Device modules, wrappers, samples, vendored libraries and build files.
* Several application threads on one graph: the framework does not support them.
* Running out of memory, in all modules.
