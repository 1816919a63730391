-------------------------------- MODULE Events --------------------------------
(***************************************************************************)
(* The events of OpenNI (Include/XnEventT.h, and its older form            *)
(* Include/XnEvent.h): lists of handlers that threads register and         *)
(* unregister, also from inside a handler, while the event is raised.      *)
(*                                                                         *)
(* A handler is a number, in the order of its registration. Registered     *)
(* handlers join m_callbacks in that order, so a list is the set of its    *)
(* members and its order that of the numbers. An address that the          *)
(* allocator hands out again is not a number that is used again.           *)
(***************************************************************************)
EXTENDS Integers, FiniteSets

CONSTANTS
  Threads, NoThread,
  MaxHandlers,   \* bound: registrations
  MaxRaises,     \* bound: raises
  MaxDepth       \* bound: raises inside of each other

ASSUME EventsAssumption ==
  /\ NoThread \notin Threads
  /\ MaxHandlers \in Nat /\ MaxRaises \in Nat /\ MaxDepth \in Nat

VARIABLES
  owner,       \* the thread that is in m_hLock, which it may enter again
  toAdd, callbacks, toRemove,  \* m_toAdd, m_callbacks, m_toRemove
  registered,  \* the last number that was given to a handler
  depth,       \* the raises that are under way, one inside of the other
  raise,       \* for each of them: cur, the handler that it is at (0: none yet);
               \*   and the ghosts due, the handlers that it found, called, the
               \*   handlers that it called, gone, those that were unregistered
               \*   before it began, and nested: cur raised the event
  raises,      \* counts raises, for the bound
  unregistered,\* ghost: the handlers that were unregistered
  wild         \* a raise went on from a handler that had been freed

vars == <<owner, toAdd, callbacks, toRemove, registered, depth, raise, raises,
          unregistered, wild>>

Handlers == 1..MaxHandlers

Frame == [cur : 0..MaxHandlers, due : SUBSET Handlers, called : SUBSET Handlers,
          gone : SUBSET Handlers, nested : BOOLEAN]

NoFrame == [cur |-> 0, due |-> {}, called |-> {}, gone |-> {}, nested |-> FALSE]

Init ==
  /\ owner = NoThread
  /\ toAdd = {} /\ callbacks = {} /\ toRemove = {}
  /\ registered = 0
  /\ depth = 0 /\ raise = [i \in 1..MaxDepth |-> NoFrame] /\ raises = 0
  /\ unregistered = {}
  /\ wild = FALSE
-----------------------------------------------------------------------------
\* A thread enters the critical section if no other is in it. The thread of a
\* raise calls from inside a handler.
Enter(t) ==
  /\ ~wild
  /\ owner \in {NoThread, t}
  /\ depth > 0 => raise[depth].cur # 0

Register(t) ==
  /\ Enter(t)
  /\ registered < MaxHandlers
  /\ registered' = registered + 1
  /\ toAdd' = toAdd \cup {registered'}
  /\ UNCHANGED <<owner, callbacks, toRemove, depth, raise, raises, unregistered, wild>>

\* Mutant: a handler is taken out of the list at once.
UnregisterAtOnce(t, h) ==
  /\ Enter(t)
  /\ h \in 1..registered \ unregistered
  /\ toAdd' = toAdd \ {h}
  /\ callbacks' = callbacks \ {h}
  /\ unregistered' = unregistered \cup {h}
  /\ UNCHANGED <<owner, toRemove, registered, depth, raise, raises, wild>>

\* A handle is unregistered once.
Unregister(t, h) ==
  /\ Enter(t)
  /\ h \in 1..registered \ unregistered
  /\ toAdd' = toAdd \ {h}
  /\ toRemove' = IF h \in toAdd THEN toRemove ELSE toRemove \cup {h}
  /\ unregistered' = unregistered \cup {h}
  /\ UNCHANGED <<owner, callbacks, registered, depth, raise, raises, wild>>

ApplyListChanges ==
  /\ callbacks' = (callbacks \cup toAdd) \ toRemove
  /\ toAdd' = {} /\ toRemove' = {}

\* Mutant: the list changes are not applied before.
RaiseUnapplied(t) ==
  /\ Enter(t)
  /\ depth < MaxDepth /\ raises < MaxRaises
  /\ raises' = raises + 1
  /\ owner' = t
  /\ depth' = depth + 1
  /\ raise' = [i \in 1..MaxDepth |->
                 IF i = depth' THEN [NoFrame EXCEPT !.due = callbacks, !.gone = unregistered]
                 ELSE [raise[i] EXCEPT !.nested = @ \/ i = depth]]
  /\ UNCHANGED <<toAdd, callbacks, toRemove, registered, unregistered, wild>>

Raise(t) ==
  /\ Enter(t)
  /\ depth < MaxDepth /\ raises < MaxRaises
  /\ raises' = raises + 1
  /\ owner' = t
  /\ ApplyListChanges
  /\ depth' = depth + 1
  /\ raise' = [i \in 1..MaxDepth |->
                 IF i = depth' THEN [NoFrame EXCEPT !.due = callbacks', !.gone = unregistered]
                 ELSE [raise[i] EXCEPT !.nested = @ \/ i = depth]]
  /\ UNCHANGED <<registered, unregistered, wild>>

Cur == raise[depth].cur

\* Whether the handler that the innermost raise is at is still in the list.
Intact == Cur = 0 \/ Cur \in callbacks

\* Mutant: the iterator stays at the handler.
CallAgain ==
  /\ depth > 0 /\ ~wild /\ Intact
  /\ \E d \in callbacks :
       /\ d >= Cur
       /\ \A e \in callbacks : e >= Cur => d <= e
       /\ raise' = [raise EXCEPT ![depth].cur = d, ![depth].called = @ \cup {d},
                                 ![depth].nested = FALSE]
  /\ UNCHANGED <<owner, toAdd, callbacks, toRemove, registered, depth, raises, unregistered, wild>>

\* The handler returns and the next one of the list is called.
CallNext ==
  /\ depth > 0 /\ ~wild /\ Intact
  /\ \E d \in callbacks :
       /\ d > Cur
       /\ \A e \in callbacks : e > Cur => d <= e
       /\ raise' = [raise EXCEPT ![depth].cur = d, ![depth].called = @ \cup {d},
                                 ![depth].nested = FALSE]
  /\ UNCHANGED <<owner, toAdd, callbacks, toRemove, registered, depth, raises, unregistered, wild>>

\* The raise of an event returns: the innermost one that is under way.
Leave ==
  /\ ApplyListChanges
  /\ depth' = depth - 1
  /\ owner' = IF depth = 1 THEN NoThread ELSE owner
  /\ raise' = [raise EXCEPT ![depth] = NoFrame]
  /\ UNCHANGED <<registered, raises, unregistered, wild>>

\* Mutants: a handler can end the raise; the critical section is left for good.
EndEarly == depth > 0 /\ ~wild /\ Intact /\ Leave

LeaveAll ==
  /\ depth > 0 /\ ~wild /\ Intact
  /\ \A e \in callbacks : e <= Cur
  /\ ApplyListChanges
  /\ depth' = depth - 1
  /\ owner' = NoThread
  /\ raise' = [raise EXCEPT ![depth] = NoFrame]
  /\ UNCHANGED <<registered, raises, unregistered, wild>>

\* The last handler of the list returns.
EndRaise ==
  /\ depth > 0 /\ ~wild /\ Intact
  /\ \A e \in callbacks : e <= Cur
  /\ Leave

\* The handler returns, and the iterator points to a list node that is freed.
ReadFreed ==
  /\ depth > 0 /\ ~wild /\ ~Intact
  /\ wild' = TRUE
  /\ UNCHANGED <<owner, toAdd, callbacks, toRemove, registered, depth, raise, raises, unregistered>>

\* Clear, also by the destructor: nobody raises the event.
Clear(t) ==
  /\ ~wild /\ owner = NoThread
  /\ callbacks' = {} /\ toAdd' = {} /\ toRemove' = {}
  /\ unregistered' = 1..registered
  /\ UNCHANGED <<owner, registered, depth, raise, raises, wild>>

Proceed == CallNext \/ EndRaise \/ ReadFreed

Next ==
  \/ \E t \in Threads :
       \/ Register(t) \/ Raise(t) \/ Clear(t)
       \/ \E h \in Handlers : Unregister(t, h)
  \/ Proceed

\* A handler returns, and the raise goes on.
Fairness == WF_vars(Proceed)

Spec == Init /\ [][Next]_vars /\ Fairness
-----------------------------------------------------------------------------
\* The types; the critical section is held exactly while a raise is under way,
\* also after one that was made inside of another has returned.
TypeOK ==
  /\ owner \in Threads \cup {NoThread} /\ (owner = NoThread <=> depth = 0)
  /\ toAdd \subseteq Handlers /\ callbacks \subseteq Handlers /\ toRemove \subseteq Handlers
  /\ registered \in 0..MaxHandlers
  /\ depth \in 0..MaxDepth /\ raise \in [1..MaxDepth -> Frame] /\ raises \in 0..MaxRaises
  /\ unregistered \subseteq 1..registered
  /\ wild \in BOOLEAN

\* The three lists lose no handler and keep none: whatever mix of calls and
\* raises, a registered handler is in exactly one of m_toAdd and m_callbacks,
\* and an unregistered one is freed or waits in m_toRemove to be freed, so
\* RemoveCallback finds it.
HandlersKept ==
  /\ toAdd \cap callbacks = {}
  /\ (toAdd \cup callbacks) \ toRemove = (1..registered) \ unregistered
  /\ toRemove = callbacks \cap unregistered

\* Unregister only puts the handler on a list, and still no raise that begins
\* after it returned calls the handler, which may be gone with its cookie: also
\* not one that is made inside of the raise from which it was unregistered. Only
\* the raises that were under way may still come to it.
NeverCalledAfter == \A i \in 1..depth : raise[i].cur \notin raise[i].gone

\* Handlers may register and unregister handlers, themselves too, during a
\* raise: "always add to list of added [...] to allow registering from a
\* callback". The handler that a raise is at is freed under it only if it was
\* unregistered during its call and raised the event again in that call, since
\* a raise inside of another applies the lists.
IteratorAlive ==
  /\ \A i \in 1..depth :
       LET f == raise[i] IN f.cur = 0 \/ f.cur \in callbacks \/ (f.cur \in unregistered /\ f.nested)
  /\ wild => Cur \in unregistered /\ raise[depth].nested

ListsSafe == HandlersKept /\ IteratorAlive

\* When a raise ends, it has called every handler that was registered when it
\* began, except those that were unregistered meanwhile, although the list grew
\* and shrank during it.
AllCalled ==
  [][depth' < depth => raise[depth].due \subseteq raise[depth].called \cup unregistered]_vars

\* Every raise ends, if handlers return, with the critical section left for the
\* threads that wait to register or to unregister.
RaiseEnds == depth > 0 ~> (owner = NoThread \/ wild)
=============================================================================
