-------------------------------- MODULE Player --------------------------------
(***************************************************************************)
(* The player of the production graph (Source/OpenNI/XnPlayerImpl.cpp):    *)
(* the playback thread and the application's threads that play and seek    *)
(* with it, its speed, the nodes that it plays into and locks, and its     *)
(* destruction.                                                            *)
(*                                                                         *)
(* What the recording holds is open: a call to the module's player is a    *)
(* sequence of any notifications, and the application's callbacks that     *)
(* they end in may call the player again, under the lock that the thread   *)
(* has already.  One thread notifies at a time, although                   *)
(* xnContextOpenFileRecording plays up to the first frame without the      *)
(* playback lock.                                                          *)
(***************************************************************************)
EXTENDS Integers, SequencesExt

CONSTANTS
  Apps,        \* the application's threads
  Playback,    \* the playback thread
  NoThread,
  Names,       \* names of recorded nodes, which name nodes of the context
  NoName,
  Speeds,      \* playback speeds, 0 is XN_PLAYBACK_SPEED_FASTEST
  MaxCalls,    \* bound: calls of the application's threads
  MaxNotified  \* bound: notifications

FASTEST == 0

ASSUME PlayerAssumption ==
  /\ NoThread \notin Apps \cup {Playback} /\ Playback \notin Apps
  /\ NoName \notin Names
  /\ Speeds \subseteq Nat /\ {FASTEST, 1} \subseteq Speeds
  /\ MaxCalls \in Nat /\ MaxNotified \in Nat

VARIABLES
  lock,       \* the thread in m_hPlaybackLock, or NoThread
  speed,      \* m_dPlaybackSpeed
  call,       \* each thread's calls, the outermost first, with the speeds they restore
  thread,     \* where the playback thread is
  event,      \* m_hPlaybackEvent, which resets itself
  shutdown,   \* m_bPlaybackThreadShutdown
  stage,      \* "alive", "joining", "joined" (to be destroyed) or "destroyed"
  notice,     \* the node that a thread is adding or removing, and how far it is
  played,     \* m_playedNodes
  needed,     \* the nodes that the player created, and needs
  held,       \* the nodes that the application holds a reference to
  refs,       \* each node's reference count; 0: there is no such node
  locked,     \* each node's lock: "no", "player" or "app"
  calls, notified,  \* counters, for the bounds
  asked,      \* ghost: the speed that the application set last
  excused,    \* ghost: the cases in which the code loses a speed (SpeedKept)
  due,        \* ghost: playback was triggered and was not begun since
  cancelled   \* ghost: the playback thread did not end in time

nodeVars == <<notice, played, needed, held, refs, locked>>
speedVars == <<speed, asked, excused>>
threadVars == <<thread, event, shutdown, stage, due, cancelled>>
playVars == <<lock, call, speedVars, threadVars>>
vars == <<playVars, nodeVars, calls, notified>>

Threads == Apps \cup {Playback}
NoNotice == [by |-> NoThread, node |-> NoName, at |-> "none"]

Init ==
  /\ lock = NoThread /\ speed = 1 /\ asked = 1 /\ excused = FALSE
  /\ call = [t \in Threads |-> <<>>]
  /\ thread = "check" /\ event = FALSE /\ shutdown = FALSE /\ due = FALSE
  /\ stage = "alive" /\ cancelled = FALSE
  /\ notice = NoNotice /\ played = {} /\ needed = {}
  /\ \E H \in SUBSET Names :
       held = H /\ refs = [n \in Names |-> IF n \in H THEN 1 ELSE 0]
  /\ locked = [n \in Names |-> "no"]
  /\ calls = 0 /\ notified = 0
-----------------------------------------------------------------------------
\* A thread is inside a call that sets the speed again when it ends.
Restores(f) == f.op \in {"seeking", "slowed", "starting", "opening"}
Restoring(t) == \E k \in DOMAIN call[t] : Restores(call[t][k])

\* A call holds the playback lock, which its thread can take once more.
Locks(f) == f.op \in {"seeking", "slowed", "reading"}
CanLock(t) == lock \in {NoThread, t}

\* A call of the module may notify, and call the application back.
CalledBack(t) ==
  /\ call[t] # <<>> /\ Last(call[t]).op # "starting"
  /\ notice.by # t /\ stage # "destroyed"

\* A thread begins a call: the application on its own thread, or a callback of
\* it that is called inside of another call.
Calls(t) ==
  /\ \/ call[t] = <<>> /\ t \in Apps /\ stage = "alive"
     \/ CalledBack(t)
  /\ calls < MaxCalls
  /\ calls' = calls + 1
Enter(t, op) == call' = [call EXCEPT ![t] = Append(@, [op |-> op, saved |-> speed])]

\* A thread is about to end its innermost call.
Ends(t, op) == call[t] # <<>> /\ Last(call[t]).op = op /\ notice.by # t
Leave(t) == call' = [call EXCEPT ![t] = Front(@)]
Unlock(t) ==
  lock' = IF \E k \in DOMAIN Front(call[t]) : Locks(call[t][k]) THEN t ELSE NoThread

\* A speed that is set from inside of a seek slows the seek down, and the end of
\* the seek puts it back.
Slow(s) == [k \in DOMAIN s |-> IF s[k].op = "seeking" THEN [s[k] EXCEPT !.op = "slowed"] ELSE s[k]]

SetPlaybackSpeed(t, v) ==
  /\ Calls(t)
  /\ CanLock(t)
  /\ speed' = v /\ asked' = v
  /\ excused' = \E u \in Threads : Restoring(u)
  /\ call' = [call EXCEPT ![t] = Slow(@)]
  /\ UNCHANGED <<lock, threadVars, nodeVars, notified>>

\* Mutant: the lock is taken only after the speed is set.
SeekUnlocked(t) ==
  /\ Calls(t)
  /\ Enter(t, "seeking")
  /\ speed' = FASTEST
  /\ excused' = (excused \/ \E u \in Threads \ {t} : Restoring(u))
  /\ UNCHANGED <<lock, asked, threadVars, nodeVars, notified>>

\* SeekToFrame and SeekToTimestamp, up to the call of the module.
Seek(t) ==
  /\ Calls(t)
  /\ CanLock(t) /\ lock' = t
  /\ Enter(t, "seeking")
  /\ speed' = FASTEST
  /\ excused' = (excused \/ \E u \in Threads \ {t} : Restoring(u))
  /\ UNCHANGED <<asked, threadVars, nodeVars, notified>>

\* The rest of them, whether or not the seek failed.
SeekEnds(t) ==
  /\ Ends(t, "seeking") \/ Ends(t, "slowed")
  /\ speed' = Last(call[t]).saved
  /\ Unlock(t)
  /\ Leave(t)
  /\ UNCHANGED <<asked, excused, threadVars, nodeVars, calls, notified>>

\* SetSource, from xnContextOpenFileRecording and not from a callback, reads the
\* speed without the lock ...
SetSource(t) ==
  /\ Calls(t) /\ call[t] = <<>>
  /\ \A u \in Threads : call[u] # <<>> => call[u][1].op \notin {"starting", "opening"}
  /\ Enter(t, "starting")
  /\ excused' = (excused \/ \E u \in Threads : Restoring(u))
  /\ UNCHANGED <<lock, speed, asked, threadVars, nodeVars, notified>>

\* ... sets the fastest, and has the module open the file ...
SourceSpeed(t) ==
  /\ Ends(t, "starting") /\ CanLock(t)
  /\ speed' = FASTEST
  /\ call' = [call EXCEPT ![t][1].op = "opening"]
  /\ UNCHANGED <<lock, asked, excused, threadVars, nodeVars, calls, notified>>

\* ... and sets the speed again, or returns an error as it is.
SourceOpened(t) ==
  /\ Ends(t, "opening") /\ CanLock(t)
  /\ speed' = Last(call[t]).saved
  /\ Leave(t)
  /\ UNCHANGED <<lock, asked, excused, threadVars, nodeVars, calls, notified>>

SourceFails(t) ==
  /\ Ends(t, "opening")
  /\ excused' = TRUE
  /\ Leave(t)
  /\ UNCHANGED <<lock, speed, asked, threadVars, nodeVars, calls, notified>>
-----------------------------------------------------------------------------
\* ReadNext, by the application.
ReadNext(t) ==
  /\ Calls(t)
  /\ CanLock(t) /\ lock' = t
  /\ Enter(t, "reading")
  /\ UNCHANGED <<speedVars, threadVars, nodeVars, notified>>

\* The playback thread's own ReadNext, its outermost call, ends with PlaybackRead.
ReadEnds(t) ==
  /\ Ends(t, "reading")
  /\ t = Playback => Len(call[t]) > 1
  /\ Unlock(t)
  /\ Leave(t)
  /\ UNCHANGED <<speedVars, threadVars, nodeVars, calls, notified>>

\* TriggerPlayback, by xnWaitNoneUpdateAll.
TriggerPlayback(t) ==
  /\ Calls(t)
  /\ event' = TRUE /\ due' = TRUE
  /\ UNCHANGED <<lock, call, speedVars, thread, shutdown, stage, cancelled, nodeVars, notified>>

\* PlaybackThread: it checks the flag,
CheckShutdown ==
  /\ thread = "check"
  /\ thread' = IF shutdown THEN "exited" ELSE "wait"
  /\ UNCHANGED <<lock, call, speedVars, event, shutdown, stage, due, cancelled, nodeVars, calls, notified>>

\* waits for the event and checks the flag again,
WaitEvent ==
  /\ thread = "wait" /\ event
  /\ event' = FALSE
  /\ thread' = IF shutdown THEN "exited" ELSE "read"
  /\ UNCHANGED <<lock, call, speedVars, shutdown, stage, due, cancelled, nodeVars, calls, notified>>

\* calls ReadNext,
PlaybackReads ==
  /\ thread = "read"
  /\ lock = NoThread /\ lock' = Playback
  /\ thread' = "reading" /\ due' = FALSE
  /\ Enter(Playback, "reading")
  /\ UNCHANGED <<speedVars, event, shutdown, stage, cancelled, nodeVars, calls, notified>>

\* and goes on, whether or not that failed.
PlaybackRead ==
  /\ thread = "reading" /\ Len(call[Playback]) = 1 /\ notice.by # Playback
  /\ lock' = NoThread
  /\ thread' = "check"
  /\ Leave(Playback)
  /\ UNCHANGED <<speedVars, event, shutdown, stage, due, cancelled, nodeVars, calls, notified>>
-----------------------------------------------------------------------------
\* The notifications that the module makes inside of a call.
Notifies(t) ==
  /\ CalledBack(t) /\ notice = NoNotice
  /\ notified < MaxNotified
  /\ notified' = notified + 1

\* A thread goes on with the node it adds or removes.
At(n, s) == notice.node = n /\ notice.at = s /\ call[notice.by] # <<>> /\ stage # "destroyed"
GoTo(s) == notice' = [notice EXCEPT !.at = s]

\* AddNode of a name that is not played yet gets a reference on the node of that
\* name, or creates a mock node, with a reference for the caller ...
AddNode(t, n) ==
  /\ Notifies(t) /\ n \notin played
  /\ \/ /\ refs' = [refs EXCEPT ![n] = @ + 1]
        /\ notice' = [by |-> t, node |-> n, at |-> IF refs[n] > 0 THEN "lock" ELSE "need"]
     \/ refs[n] = 0 /\ UNCHANGED <<refs, notice>>
  /\ UNCHANGED <<playVars, played, needed, held, locked, calls>>

\* ... xnAddNeededNode references a node that was created once more; if that
\* fails, the node is released ...
NeedNode(n) ==
  /\ At(n, "need")
  /\ \/ /\ needed' = needed \cup {n} /\ refs' = [refs EXCEPT ![n] = @ + 1]
        /\ GoTo("lock")
     \/ /\ refs' = [refs EXCEPT ![n] = @ - 1] /\ UNCHANGED needed
        /\ notice' = NoNotice
  /\ UNCHANGED <<playVars, played, held, locked, calls, notified>>

\* Mutant: a node that cannot be locked is not released.
LockNeverReleases(n) ==
  /\ At(n, "lock")
  /\ IF locked[n] = "no"
       THEN locked' = [locked EXCEPT ![n] = "player"] /\ GoTo("list")
       ELSE notice' = NoNotice /\ UNCHANGED locked
  /\ UNCHANGED <<playVars, played, needed, held, refs, calls, notified>>

\* ... the node is locked; if it is locked already, its reference is released,
\* and a node that was created stays as a needed node ...
LockPlayed(n) ==
  /\ At(n, "lock")
  /\ IF locked[n] = "no"
       THEN locked' = [locked EXCEPT ![n] = "player"] /\ GoTo("list") /\ UNCHANGED refs
       ELSE refs' = [refs EXCEPT ![n] = @ - 1] /\ notice' = NoNotice /\ UNCHANGED locked
  /\ UNCHANGED <<playVars, played, needed, held, calls, notified>>

\* ... and listed.
ListNode(n) ==
  /\ At(n, "list")
  /\ played' = played \cup {n} /\ notice' = NoNotice
  /\ UNCHANGED <<playVars, needed, held, refs, locked, calls, notified>>

\* RemoveNode unlocks the node ...
RemoveNode(t, n) ==
  /\ Notifies(t) /\ n \in played
  /\ locked' = [locked EXCEPT ![n] = "no"]
  /\ notice' = [by |-> t, node |-> n, at |-> "unlist"]
  /\ UNCHANGED <<playVars, played, needed, held, refs, calls>>

\* Mutant: the node stays in the list of played nodes.
UnlistNever(n) ==
  /\ At(n, "unlist")
  /\ refs' = [refs EXCEPT ![n] = @ - 1] /\ notice' = NoNotice
  /\ UNCHANGED <<playVars, played, needed, held, locked, calls, notified>>

\* ... takes it out of the list and releases it: it stays while the player needs
\* it, for a rewind.
UnlistNode(n) ==
  /\ At(n, "unlist")
  /\ played' = played \ {n} /\ refs' = [refs EXCEPT ![n] = @ - 1] /\ notice' = NoNotice
  /\ UNCHANGED <<playVars, needed, held, locked, calls, notified>>

\* What the application does with the nodes: it gets a node by its name,
\* releases it, locks it and unlocks it.
GetNode(n) ==
  /\ refs[n] > 0 /\ n \notin held
  /\ held' = held \cup {n} /\ refs' = [refs EXCEPT ![n] = @ + 1]
  /\ UNCHANGED <<playVars, notice, played, needed, locked, calls, notified>>

ReleaseNode(n) ==
  /\ n \in held /\ locked[n] # "app"
  /\ held' = held \ {n} /\ refs' = [refs EXCEPT ![n] = @ - 1]
  /\ UNCHANGED <<playVars, notice, played, needed, locked, calls, notified>>

LockNode(n) ==
  /\ n \in held /\ locked[n] = "no"
  /\ locked' = [locked EXCEPT ![n] = "app"]
  /\ UNCHANGED <<playVars, notice, played, needed, held, refs, calls, notified>>

UnlockNode(n) ==
  /\ locked[n] = "app"
  /\ locked' = [locked EXCEPT ![n] = "no"]
  /\ UNCHANGED <<playVars, notice, played, needed, held, refs, calls, notified>>
-----------------------------------------------------------------------------
\* Mutant: the thread is not woken.
DestroyUnsignalled ==
  /\ stage = "alive" /\ \A a \in Apps : call[a] = <<>>
  /\ shutdown' = TRUE
  /\ stage' = "joining"
  /\ UNCHANGED <<lock, call, speedVars, thread, event, due, cancelled, nodeVars, calls, notified>>

\* BeforeNodeDestroy, when the last reference to the player is released.
BeforeNodeDestroy ==
  /\ stage = "alive" /\ \A a \in Apps : call[a] = <<>>
  /\ shutdown' = TRUE /\ event' = TRUE
  /\ stage' = "joining"
  /\ UNCHANGED <<lock, call, speedVars, thread, due, cancelled, nodeVars, calls, notified>>

\* Mutant: the thread is not waited for.
JoinNot ==
  /\ stage = "joining"
  /\ stage' = "joined"
  /\ UNCHANGED <<lock, call, speedVars, thread, event, shutdown, due, cancelled, nodeVars, calls, notified>>

Join ==
  /\ stage = "joining" /\ thread = "exited"
  /\ stage' = "joined"
  /\ UNCHANGED <<lock, call, speedVars, thread, event, shutdown, due, cancelled, nodeVars, calls, notified>>

\* xnOSWaitAndTerminateThread gives up after a second, and cancels the thread
\* without waiting for it. Only a read can take that long.
JoinTimesOut ==
  /\ stage = "joining" /\ thread = "reading"
  /\ stage' = "joined" /\ cancelled' = TRUE
  /\ UNCHANGED <<lock, call, speedVars, thread, event, shutdown, due, nodeVars, calls, notified>>

\* The cancelled thread leaves its calls at the next cancellation point. What it
\* was adding or removing stays as it is.
Cancelled ==
  /\ cancelled /\ thread = "reading"
  /\ thread' = "exited" /\ lock' = NoThread
  /\ call' = [call EXCEPT ![Playback] = <<>>]
  /\ excused' = (excused \/ Restoring(Playback))
  /\ UNCHANGED <<speed, asked, event, shutdown, stage, due, cancelled, nodeVars, calls, notified>>

\* The module's player is destroyed, then PlayerImpl, which unlocks (with its own
\* lock) and releases the nodes it plays into, then the needed nodes are released.
DestroyNode ==
  /\ stage = "joined" /\ stage' = "destroyed"
  /\ locked' = [n \in Names |-> IF n \in played /\ locked[n] = "player" THEN "no" ELSE locked[n]]
  /\ refs' = [n \in Names |-> refs[n] - Cardinality({n} \cap played) - Cardinality({n} \cap needed)]
  /\ played' = {} /\ needed' = {}
  /\ UNCHANGED <<lock, call, speedVars, thread, event, shutdown, due, cancelled, notice, held,
                 calls, notified>>

ThreadNext == CheckShutdown \/ WaitEvent \/ PlaybackReads \/ PlaybackRead \/ Cancelled

CallEnds(t) == SeekEnds(t) \/ SourceSpeed(t) \/ SourceOpened(t) \/ SourceFails(t) \/ ReadEnds(t)

NoticeNext(n) == NeedNode(n) \/ LockPlayed(n) \/ ListNode(n) \/ UnlistNode(n)

DestroyNext == Join \/ JoinTimesOut \/ DestroyNode

Next ==
  \/ \E t \in Threads :
       \/ \E v \in Speeds : SetPlaybackSpeed(t, v)
       \/ Seek(t) \/ SetSource(t) \/ ReadNext(t) \/ TriggerPlayback(t)
       \/ CallEnds(t)
       \/ \E n \in Names : AddNode(t, n) \/ RemoveNode(t, n)
  \/ \E n \in Names :
       \/ NoticeNext(n)
       \/ GetNode(n) \/ ReleaseNode(n) \/ LockNode(n) \/ UnlockNode(n)
  \/ BeforeNodeDestroy
  \/ ThreadNext \/ DestroyNext

\* The threads run, calls of the module return, and a thread that waits for the
\* lock gets it when the calls of the others are over.
Fairness ==
  /\ WF_vars(ThreadNext) /\ WF_vars(DestroyNext)
  /\ \A t \in Threads : WF_vars(CallEnds(t))
  /\ \A n \in Names : WF_vars(NoticeNext(n))

Spec == Init /\ [][Next]_vars /\ Fairness
-----------------------------------------------------------------------------
Frames == [op : {"seeking", "slowed", "starting", "opening", "reading"}, saved : Speeds]

\* The types; a player that is going has no call of the application under way.
TypeOK ==
  /\ lock \in Threads \cup {NoThread}
  /\ speed \in Speeds /\ asked \in Speeds
  /\ call \in [Threads -> Seq(Frames)]
  /\ thread \in {"check", "wait", "read", "reading", "exited"}
  /\ stage \in {"alive", "joining", "joined", "destroyed"}
  /\ stage # "alive" => \A a \in Apps : call[a] = <<>>
  /\ \A b \in {event, shutdown, excused, due, cancelled} : b \in BOOLEAN
  /\ notice \in [by : Threads, node : Names, at : {"need", "lock", "list", "unlist"}] \cup {NoNotice}
  /\ played \subseteq Names /\ needed \subseteq Names /\ held \subseteq Names
  /\ refs \in [Names -> Nat] /\ locked \in [Names -> {"no", "player", "app"}]
  /\ calls \in 0..MaxCalls /\ notified \in 0..MaxNotified

\* While a seek plays what it needs, no notification sleeps until a frame's
\* time has come, also after a seek or a read that a callback made inside of it:
\* only the thread that seeks can slow it down. And the speed survives: after any
\* mix of seeks and openings of a file, one inside of the other or not, it is the
\* one that the application set last. The exceptions are a SetSource that fails, one that
\* another thread's seek or setting comes between, a setting made inside of a seek
\* or of an opening, which puts the old speed back, and a seek that is cancelled.
SpeedKept ==
  /\ \A t \in Threads : \A k \in DOMAIN call[t] :
       call[t][k].op = "seeking" => speed = FASTEST
  /\ \/ excused \/ speed = asked
     \/ \E t \in Threads : \E k \in DOMAIN call[t] :
          Restores(call[t][k]) /\ call[t][k].saved = asked

\* Every node that is played is alive and locked for the player alone, through
\* additions, removals, rewinds, their failures half-way and what the application
\* does to the node in between; a node that is not played is not locked by the
\* player; and each reference is the application's, that of a played node, that of a
\* needed one or that of the addition under way.
Adding(n) == notice.node = n /\ notice.at \in {"need", "lock", "list"}
LockedFor(n) ==
  \/ n \in played /\ ~(notice.node = n /\ notice.at = "unlist")
  \/ notice.node = n /\ notice.at = "list"
PlayedHeld ==
  \A n \in Names :
    /\ locked[n] = "player" <=> LockedFor(n)
    /\ refs[n] = Cardinality({n} \cap played) + Cardinality({n} \cap needed)
                   + Cardinality({n} \cap held) + (IF Adding(n) THEN 1 ELSE 0)

\* "We need to close the thread before the node is destroyed (as the thread
\* uses it)": a thread that is still in the player was cancelled, because its
\* read took more than a second.
ThreadGone == stage \in {"joined", "destroyed"} => thread = "exited" \/ cancelled

\* The thread serves: a trigger is never lost, a read begins after it, also when
\* it comes while the thread is between its read and its wait, unless the player
\* goes; and the destruction of the player, which waits for the thread, ends.
ThreadServes ==
  /\ due ~> (~due \/ shutdown)
  /\ stage = "joining" ~> stage = "destroyed"
=============================================================================
