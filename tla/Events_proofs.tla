----------------------------- MODULE Events_proofs -----------------------------
(***************************************************************************)
(* Proofs of the safety properties of Events, for any number of threads,   *)
(* handlers, raises and raises inside of raises.                           *)
(***************************************************************************)
EXTENDS Events, TLAPS

\* What was unregistered before a raise began is out of the list that it walks.
GoneAway ==
  /\ \A i \in 1..depth : raise[i].gone \subseteq unregistered /\ raise[i].gone \cap callbacks = {}
  /\ NeverCalledAfter

\* Every raise but the innermost is in a handler that raised the event.
NestedBelow == \A i \in 1..(depth - 1) : raise[i].nested

\* A raise has passed no handler that it found without calling it.
Covered ==
  \A i \in 1..depth :
    /\ raise[i].due \subseteq callbacks \cup unregistered
    /\ \A h \in raise[i].due : h <= raise[i].cur => h \in raise[i].called \cup unregistered

IInv == TypeOK /\ HandlersKept /\ GoneAway /\ NestedBelow /\ IteratorAlive /\ Covered

\* An event without handlers satisfies the invariant.
LEMMA InitInv == Init => IInv
<1> SUFFICES ASSUME Init PROVE IInv
  OBVIOUS
<1>1. NoFrame \in Frame
  BY EventsAssumption DEF NoFrame, Frame
<1>2. raise \in [1..MaxDepth -> Frame]
  BY <1>1 DEF Init
<1>3. TypeOK
  <2>1. owner = NoThread /\ depth = 0 /\ wild \in BOOLEAN
    BY DEF Init
  <2> QED
    BY <1>2, <2>1, EventsAssumption DEF Init, TypeOK
<1>4. HandlersKept /\ GoneAway /\ NestedBelow /\ IteratorAlive /\ Covered
  BY DEF Init, HandlersKept, GoneAway, NeverCalledAfter, NestedBelow, IteratorAlive, Covered, Cur
<1> QED
  BY <1>3, <1>4 DEF IInv

\* The lists after ApplyListChanges.
LEMMA Applied ==
  ASSUME TypeOK, HandlersKept, ApplyListChanges,
         UNCHANGED <<registered, unregistered>>
  PROVE  /\ HandlersKept'
         /\ callbacks' \subseteq Handlers
         /\ callbacks' \subseteq callbacks \cup toAdd
         /\ callbacks' \cap unregistered = {}
         /\ toAdd \cap unregistered = {}
         /\ callbacks \subseteq callbacks' \cup unregistered
  BY DEF TypeOK, HandlersKept, ApplyListChanges

\* Registering keeps the invariant: the new handler is only in m_toAdd, and no
\* raise owes it a call.
LEMMA RegisterInv ==
  ASSUME IInv, NEW t \in Threads, Register(t)
  PROVE  IInv'
<1> USE DEF IInv, Register, Enter
<1>1. TypeOK'
  BY EventsAssumption DEF TypeOK, Handlers
<1>2. HandlersKept'
  <2>1. /\ registered \in Nat /\ registered' = registered + 1 /\ toAdd' = toAdd \cup {registered'}
        /\ unregistered \subseteq 1..registered
    BY EventsAssumption DEF TypeOK
  <2>2. (toAdd \cup callbacks) \ toRemove = (1..registered) \ unregistered
    BY DEF HandlersKept
  <2>6. toAdd \cup callbacks \subseteq 1..registered
    <3>1. toAdd \cup callbacks \subseteq ((toAdd \cup callbacks) \ toRemove) \cup unregistered
      BY DEF HandlersKept
    <3> QED
      BY <3>1, <2>1, <2>2
  <2>3. registered' \notin 1..registered /\ 1..registered' = (1..registered) \cup {registered'}
    BY <2>1
  <2> HIDE DEF Register
  <2>4. callbacks' = callbacks /\ toRemove' = toRemove /\ unregistered' = unregistered
    BY DEF Register
  <2>5. toRemove \subseteq 1..registered
    BY <2>6 DEF HandlersKept
  <2> QED
    BY <2>1, <2>2, <2>3, <2>4, <2>5, <2>6, SMT DEF HandlersKept
<1>3. GoneAway' /\ NestedBelow' /\ IteratorAlive' /\ Covered'
  BY DEF GoneAway, NeverCalledAfter, NestedBelow, IteratorAlive, Covered, Cur
<1> QED
  BY <1>1, <1>2, <1>3

\* Unregistering keeps the invariant: the handler leaves m_toAdd or enters
\* m_toRemove, and a raise that is at it stays on a list node that exists.
LEMMA UnregisterInv ==
  ASSUME IInv, NEW t \in Threads, NEW h \in Handlers, Unregister(t, h)
  PROVE  IInv'
<1> USE DEF IInv, Unregister, Enter
<1>1. TypeOK'
  BY EventsAssumption DEF TypeOK, Handlers
<1>2. HandlersKept'
  <2>1. h \in toAdd \cup callbacks /\ h \notin toRemove
    BY DEF HandlersKept
  <2>2. CASE h \in toAdd
    BY <2>1, <2>2 DEF HandlersKept, TypeOK
  <2>3. CASE h \notin toAdd
    BY <2>1, <2>3 DEF HandlersKept, TypeOK
  <2> QED
    BY <2>2, <2>3
<1>3. GoneAway'
  BY DEF GoneAway, NeverCalledAfter
<1>4. NestedBelow' /\ IteratorAlive' /\ Covered'
  BY DEF NestedBelow, IteratorAlive, Covered, Cur
<1> QED
  BY <1>1, <1>2, <1>3, <1>4

\* A raise keeps the invariant: it applies the lists, which can free the handler
\* of the raise that it is made in only if that handler was unregistered.
LEMMA RaiseInv ==
  ASSUME IInv, NEW t \in Threads, Raise(t)
  PROVE  IInv'
<1> USE DEF IInv
<1>a. /\ depth \in Nat /\ depth < MaxDepth /\ depth' = depth + 1 /\ MaxDepth \in Nat
      /\ raise \in [1..MaxDepth -> Frame]
      /\ ~wild /\ wild' = wild
      /\ ApplyListChanges /\ UNCHANGED <<registered, unregistered>>
  BY EventsAssumption DEF Raise, Enter, TypeOK
<1>b. raise' = [i \in 1..MaxDepth |->
                 IF i = depth' THEN [NoFrame EXCEPT !.due = callbacks', !.gone = unregistered]
                 ELSE [raise[i] EXCEPT !.nested = @ \/ i = depth]]
  BY DEF Raise
<1>c. /\ raise'[depth'] = [cur |-> 0, due |-> callbacks', called |-> {}, gone |-> unregistered, nested |-> FALSE]
      /\ \A i \in 1..depth :
           /\ raise'[i].cur = raise[i].cur /\ raise'[i].due = raise[i].due
           /\ raise'[i].called = raise[i].called /\ raise'[i].gone = raise[i].gone
           /\ raise'[i].nested = (raise[i].nested \/ i = depth)
      /\ \A i \in 1..MaxDepth : raise'[i] \in Frame
  <2>1. depth' \in 1..MaxDepth
    BY <1>a
  <2>2. raise'[depth'] = [cur |-> 0, due |-> callbacks', called |-> {}, gone |-> unregistered, nested |-> FALSE]
    BY <1>b, <2>1 DEF NoFrame
  <2>3. ASSUME NEW i \in 1..MaxDepth, i # depth'
        PROVE  /\ raise[i] \in Frame
               /\ raise'[i] = [raise[i] EXCEPT !.nested = @ \/ i = depth]
    BY <1>a, <1>b, <2>3
  <2>4. ASSUME NEW i \in 1..MaxDepth, i # depth'
        PROVE  /\ raise'[i].cur = raise[i].cur /\ raise'[i].due = raise[i].due
               /\ raise'[i].called = raise[i].called /\ raise'[i].gone = raise[i].gone
               /\ raise'[i].nested = (raise[i].nested \/ i = depth)
               /\ raise'[i] \in Frame
    <3> DEFINE b == raise[i].nested \/ i = depth
    <3>1. b \in BOOLEAN /\ raise[i] \in Frame /\ raise'[i] = [raise[i] EXCEPT !.nested = b]
      BY <2>3, <2>4
    <3> HIDE DEF b
    <3>2. /\ raise'[i].cur = raise[i].cur /\ raise'[i].due = raise[i].due
          /\ raise'[i].called = raise[i].called /\ raise'[i].gone = raise[i].gone
          /\ raise'[i].nested = b
      BY <3>1 DEF Frame
    <3>3. raise'[i] \in Frame
      BY <3>1 DEF Frame
    <3> QED BY <3>2, <3>3 DEF b
  <2>5. callbacks' \subseteq Handlers
    BY <1>a, Applied
  <2>6. raise'[depth'] \in Frame
    <3>1. unregistered \subseteq Handlers
      BY EventsAssumption DEF TypeOK, Handlers
    <3> QED BY <2>2, <2>5, <3>1, EventsAssumption DEF Frame
  <2>7. \A i \in 1..depth : i \in 1..MaxDepth /\ i # depth'
    BY <1>a
  <2> QED
    BY <2>1, <2>2, <2>4, <2>6, <2>7
<1>d. /\ HandlersKept' /\ callbacks' \subseteq Handlers
      /\ callbacks' \cap unregistered = {}
      /\ callbacks \subseteq callbacks' \cup unregistered
      /\ toAdd' = {} /\ toRemove' = {}
  BY <1>a, Applied DEF ApplyListChanges
<1>1. TypeOK'
  <2>1. raise' \in [1..MaxDepth -> Frame]
    BY <1>b, <1>c
  <2>2. raises' \in 0..MaxRaises /\ owner' = t /\ t # NoThread
    BY EventsAssumption DEF Raise, TypeOK
  <2> QED
    BY <1>a, <1>d, <2>1, <2>2 DEF TypeOK
<1>2. GoneAway'
  <2>1. 0 \notin unregistered
    BY EventsAssumption DEF TypeOK
  <2>2. ASSUME NEW i \in 1..depth'
        PROVE  /\ raise'[i].gone \subseteq unregistered /\ raise'[i].gone \cap callbacks' = {}
               /\ raise'[i].cur \notin raise'[i].gone
    <3>1. CASE i = depth'
      BY <3>1, <2>1, <1>c, <1>d
    <3>2. CASE i \in 1..depth
      BY <3>2, <1>c, <1>d DEF GoneAway, NeverCalledAfter
    <3> QED
      BY <3>1, <3>2, <1>a
  <2> QED
    BY <2>2, <1>a DEF GoneAway, NeverCalledAfter
<1>e. \A i \in 1..depth : raise'[i].nested
  <2>1. ASSUME NEW i \in 1..depth PROVE raise'[i].nested
    <3>1. CASE i = depth
      BY <3>1, <1>c
    <3>2. CASE i \in 1..(depth - 1)
      BY <3>2, <1>c DEF NestedBelow
    <3> QED
      BY <3>1, <3>2, <1>a
  <2> QED
    BY <2>1
<1>3. NestedBelow'
  BY <1>a, <1>e DEF NestedBelow
<1>4. IteratorAlive'
  <2>1. \A i \in 1..depth : raise'[i].nested
    BY <1>e
  <2>2. \A i \in 1..depth : raise'[i].cur = 0 \/ raise'[i].cur \in callbacks' \cup unregistered
    BY <1>c, <1>d DEF IteratorAlive
  <2>3. ASSUME NEW i \in 1..depth'
        PROVE  raise'[i].cur = 0 \/ raise'[i].cur \in callbacks'
               \/ (raise'[i].cur \in unregistered' /\ raise'[i].nested)
    <3>1. CASE i = depth'
      BY <3>1, <1>c
    <3>2. CASE i \in 1..depth
      BY <3>2, <2>1, <2>2, <1>a
    <3> QED
      BY <3>1, <3>2, <1>a
  <2> QED
    BY <2>3, <1>a DEF IteratorAlive
<1>5. Covered'
  <2>1. ASSUME NEW i \in 1..depth'
        PROVE  /\ raise'[i].due \subseteq callbacks' \cup unregistered'
               /\ \A h \in raise'[i].due : h <= raise'[i].cur => h \in raise'[i].called \cup unregistered'
    <3>1. CASE i = depth'
      <4>1. raise'[i].cur = 0 /\ raise'[i].due = callbacks' /\ \A h \in callbacks' : ~(h <= 0)
        BY <3>1, <1>c, <1>d, EventsAssumption DEF Handlers
      <4> QED
        BY <4>1
    <3>2. CASE i \in 1..depth
      BY <3>2, <1>a, <1>c, <1>d DEF Covered
    <3> QED
      BY <3>1, <3>2, <1>a
  <2> QED
    BY <2>1 DEF Covered
<1> QED
  BY <1>1, <1>2, <1>3, <1>4, <1>5, <1>d

\* Going to the next handler keeps the invariant: it passes none that is due.
LEMMA CallNextInv ==
  ASSUME IInv, CallNext
  PROVE  IInv'
<1> USE DEF IInv
<1>a. /\ depth \in 1..MaxDepth /\ depth \in Nat /\ MaxDepth \in Nat /\ ~wild
      /\ raise \in [1..MaxDepth -> Frame]
      /\ UNCHANGED <<owner, toAdd, callbacks, toRemove, registered, depth, raises,
                     unregistered, wild>>
  BY EventsAssumption DEF CallNext, TypeOK
<1>b. PICK d \in callbacks :
        /\ d > raise[depth].cur
        /\ \A e \in callbacks : e > raise[depth].cur => d <= e
        /\ raise' = [raise EXCEPT ![depth].cur = d, ![depth].called = @ \cup {d},
                                  ![depth].nested = FALSE]
  BY DEF CallNext, Cur
<1>c. d \in Handlers /\ raise[depth] \in Frame
  BY <1>a, <1>b DEF TypeOK
<1>d. /\ raise'[depth] = [cur |-> d, due |-> raise[depth].due,
                          called |-> raise[depth].called \cup {d}, gone |-> raise[depth].gone,
                          nested |-> FALSE]
      /\ \A i \in 1..depth : i # depth => raise'[i] = raise[i]
  <2>1. raise'[depth] = [raise[depth] EXCEPT !.cur = d,
                           !.called = raise[depth].called \cup {d}, !.nested = FALSE]
    BY <1>a, <1>b
  <2>2. raise'[depth] = [cur |-> d, due |-> raise[depth].due,
                          called |-> raise[depth].called \cup {d}, gone |-> raise[depth].gone,
                          nested |-> FALSE]
    BY <2>1, <1>c DEF Frame
  <2>3. \A i \in 1..depth : i # depth => raise'[i] = raise[i]
    BY <1>a, <1>b
  <2> QED
    BY <2>2, <2>3
<1>1. TypeOK'
  <2>1. raise'[depth] \in Frame
    BY <1>c, <1>d DEF Frame, Handlers
  <2>2. raise' \in [1..MaxDepth -> Frame]
    BY <2>1, <1>a, <1>b
  <2> QED
    BY <1>a, <2>2 DEF TypeOK
<1>2. HandlersKept'
  BY <1>a DEF HandlersKept
<1>3. GoneAway'
  <2>1. ASSUME NEW i \in 1..depth
        PROVE  /\ raise'[i].gone = raise[i].gone
               /\ raise'[i].cur = raise[i].cur \/ raise'[i].cur \in callbacks
    <3>1. CASE i = depth
      <4>1. raise'[i].gone = raise[i].gone /\ raise'[i].cur = d
        BY <3>1, <1>d
      <4> QED BY <4>1
    <3>2. CASE i # depth
      BY <3>2, <1>d
    <3> QED BY <3>1, <3>2
  <2> QED
    BY <1>a, <2>1 DEF GoneAway, NeverCalledAfter
<1>4. NestedBelow'
  BY <1>a, <1>d DEF NestedBelow
<1>5. IteratorAlive'
  BY <1>a, <1>b, <1>d DEF IteratorAlive
<1>6. Covered'
  <2>1. ASSUME NEW i \in 1..depth, NEW h \in raise'[i].due
        PROVE  h \in callbacks \cup unregistered
               /\ (h <= raise'[i].cur => h \in raise'[i].called \cup unregistered)
    <3>1. CASE i # depth
      BY <3>1, <1>a, <1>d DEF Covered
    <3>2. CASE i = depth
      <4>1. h \in raise[depth].due /\ h \in callbacks \cup unregistered /\ h \in Int
            /\ raise[depth].cur \in Int /\ d \in Int
        BY <3>2, <1>a, <1>c, <1>d DEF Covered, Frame, Handlers
      <4>2. h <= raise[depth].cur => h \in raise[depth].called \cup unregistered
        BY <4>1, <1>a DEF Covered
      <4>3. h > raise[depth].cur /\ h <= d /\ h \in callbacks => h = d
        BY <4>1, <1>b
      <4> QED
        BY <3>2, <4>1, <4>2, <4>3, <1>d
    <3> QED
      BY <3>1, <3>2
  <2> QED
    BY <2>1, <1>a DEF Covered
<1> QED
  BY <1>1, <1>2, <1>3, <1>4, <1>5, <1>6

\* The end of a raise keeps the invariant: the lists are applied while the
\* raises around it are still in their handlers.
LEMMA EndRaiseInv ==
  ASSUME IInv, EndRaise
  PROVE  IInv'
<1> USE DEF IInv
<1>a. /\ depth \in 1..MaxDepth /\ depth \in Nat /\ depth' = depth - 1 /\ MaxDepth \in Nat
      /\ ~wild /\ wild' = wild
      /\ raise \in [1..MaxDepth -> Frame] /\ raise' = [raise EXCEPT ![depth] = NoFrame]
      /\ ApplyListChanges /\ UNCHANGED <<registered, unregistered, raises>>
      /\ owner' = IF depth = 1 THEN NoThread ELSE owner
  BY EventsAssumption DEF EndRaise, Leave, TypeOK
<1>b. \A i \in 1..depth' : i \in 1..(depth - 1) /\ i \in 1..depth /\ raise'[i] = raise[i]
  BY <1>a
<1>c. /\ HandlersKept' /\ callbacks' \subseteq Handlers
      /\ callbacks' \subseteq callbacks \cup toAdd
      /\ toAdd \cap unregistered = {}
      /\ callbacks \subseteq callbacks' \cup unregistered
      /\ toAdd' = {} /\ toRemove' = {}
  BY <1>a, Applied DEF ApplyListChanges
<1>1. TypeOK'
  <2>1. raise' \in [1..MaxDepth -> Frame]
    BY <1>a, EventsAssumption DEF Frame, NoFrame
  <2> QED
    BY <1>a, <1>c, <2>1 DEF TypeOK
<1>2. GoneAway'
  <2>1. ASSUME NEW i \in 1..depth'
        PROVE  /\ raise'[i].gone \subseteq unregistered /\ raise'[i].gone \cap callbacks' = {}
               /\ raise'[i].cur \notin raise'[i].gone
    <3>1. /\ raise[i].gone \subseteq unregistered /\ raise[i].gone \cap callbacks = {}
          /\ raise[i].cur \notin raise[i].gone
      BY <1>b DEF GoneAway, NeverCalledAfter
    <3> QED
      BY <1>b, <1>c, <3>1
  <2> QED
    BY <2>1, <1>a DEF GoneAway, NeverCalledAfter
<1>3. NestedBelow'
  BY <1>a, <1>b DEF NestedBelow
<1>4. IteratorAlive'
  BY <1>a, <1>b, <1>c DEF IteratorAlive, NestedBelow
<1>5. Covered'
  BY <1>a, <1>b, <1>c DEF Covered
<1> QED
  BY <1>1, <1>2, <1>3, <1>4, <1>5, <1>c

\* Clearing the lists keeps the invariant, since nobody raises the event.
LEMMA ClearInv ==
  ASSUME IInv, NEW t \in Threads, Clear(t)
  PROVE  IInv'
<1>1. depth = 0 /\ depth' = 0
  BY DEF IInv, TypeOK, Clear
<1>2. TypeOK'
  BY <1>1 DEF IInv, TypeOK, Clear
<1>3. HandlersKept'
  BY DEF IInv, TypeOK, HandlersKept, Clear
<1>4. GoneAway' /\ NestedBelow' /\ IteratorAlive' /\ Covered'
  BY <1>1 DEF IInv, GoneAway, NeverCalledAfter, NestedBelow, IteratorAlive, Covered, Clear, Cur
<1> QED
  BY <1>2, <1>3, <1>4 DEF IInv

\* Going on from a freed handler keeps the invariant: it was unregistered.
LEMMA ReadFreedInv ==
  ASSUME IInv, ReadFreed
  PROVE  IInv'
<1>1. depth \in 1..depth
  BY DEF IInv, TypeOK, ReadFreed
<1>2. raise[depth].cur \in unregistered /\ raise[depth].nested
  BY <1>1 DEF IInv, IteratorAlive, ReadFreed, Intact, Cur
<1> QED
  BY <1>2 DEF IInv, TypeOK, HandlersKept, GoneAway, NeverCalledAfter, NestedBelow, IteratorAlive,
     Covered, ReadFreed, Cur

\* Every step of the event keeps the invariant.
LEMMA StepInv == IInv /\ [Next]_vars => IInv'
<1> SUFFICES ASSUME IInv, [Next]_vars PROVE IInv'
  OBVIOUS
<1>1. CASE UNCHANGED vars
  BY <1>1 DEF vars, IInv, TypeOK, HandlersKept, GoneAway, NeverCalledAfter, NestedBelow,
     IteratorAlive, Covered, Cur
<1>2. CASE Next
  BY <1>2, RegisterInv, UnregisterInv, RaiseInv, CallNextInv, EndRaiseInv, ClearInv, ReadFreedInv
     DEF Next, Proceed
<1> QED
  BY <1>1, <1>2

\* The invariant holds in every state of every execution.
LEMMA Invariance == Spec => []IInv
  BY InitInv, StepInv, PTL DEF Spec

\* The lists, the lock and the raises always have their types, and the critical
\* section is held exactly while a raise is under way.
THEOREM TypeCorrect == Spec => []TypeOK
  BY Invariance, PTL DEF IInv

\* After Unregister has returned, no raise that begins calls the handler, made
\* inside of another raise or not.
THEOREM UnregisteredIsQuiet == Spec => []NeverCalledAfter
  BY Invariance, PTL DEF IInv, GoneAway

\* No handler is lost or kept, however registrations, unregistrations and raises
\* mix, and only a handler that was unregistered in its own call and raised the
\* event again is freed under the raise that called it.
THEOREM ListsAreSafe == Spec => []ListsSafe
  BY Invariance, PTL DEF IInv, ListsSafe

\* A raise that ends has called every handler it found that was not
\* unregistered meanwhile.
THEOREM EveryHandlerCalled == Spec => AllCalled
<1>1. ASSUME IInv, [Next]_vars, depth' < depth
      PROVE  raise[depth].due \subseteq raise[depth].called \cup unregistered
  <2>0. depth \in Int /\ depth' < depth /\ depth' # depth
    BY <1>1 DEF IInv, TypeOK
  <2>1. EndRaise
    <3>1. ASSUME NEW t \in Threads, Register(t) \/ Clear(t) \/ \E h \in Handlers : Unregister(t, h)
          PROVE  FALSE
      BY <3>1, <2>0 DEF Register, Clear, Unregister
    <3>2. ASSUME NEW t \in Threads, Raise(t) PROVE FALSE
      BY <3>2, <2>0 DEF Raise
    <3>3. ~CallNext /\ ~ReadFreed /\ ~UNCHANGED vars
      BY <2>0 DEF CallNext, ReadFreed, vars
    <3> QED
      BY <1>1, <3>1, <3>2, <3>3 DEF Next, Proceed
  <2>2. depth \in 1..depth
    BY <1>1, <2>1 DEF EndRaise, IInv, TypeOK
  <2>3. ASSUME NEW h \in raise[depth].due PROVE h \in raise[depth].called \cup unregistered
    <3>1. h \in callbacks \cup unregistered
          /\ (h <= raise[depth].cur => h \in raise[depth].called \cup unregistered)
      BY <1>1, <2>2 DEF IInv, Covered
    <3> QED
      BY <3>1, <2>1 DEF EndRaise, Cur
  <2> QED
    BY <2>3
<1>2. IInv /\ [Next]_vars =>
        [depth' < depth => raise[depth].due \subseteq raise[depth].called \cup unregistered]_vars
  BY <1>1
<1> QED
  BY <1>2, Invariance, PTL DEF Spec, AllCalled
=============================================================================
