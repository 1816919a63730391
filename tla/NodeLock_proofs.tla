--------------------------- MODULE NodeLock_proofs ---------------------------
(***************************************************************************)
(* Proofs about NodeLock for every set of threads and nodes, however the   *)
(* threads interleave: a lock stays with its holder and a node has one     *)
(* owner as long as no two calls overlap on that node, a lock-aware node   *)
(* has one owner even then, and a node is changed only by threads that     *)
(* started changes on it.                                                  *)
(***************************************************************************)
EXTENDS NodeLock, TLAPS

\* The handles that the steps use.
LEMMA HandleFacts ==
  /\ 0 \in Handles /\ Foreign \in Handles
  /\ \A h \in Handles : h + 1 \in Handles /\ h + 1 # 0
BY LockAssumption DEF Handles

\* What a step of a call does to the variables of the calls.
LEMMA GoToFacts ==
  ASSUME TypeOK, NEW t \in Threads, NEW s, NEW n, NEW h, GoTo(t, s, n, h)
  PROVE  /\ \A u \in Threads : u # t =>
              pc'[u] = pc[u] /\ hInstance'[u] = hInstance[u] /\ nLockID'[u] = nLockID[u]
         /\ pc'[t] = s /\ hInstance'[t] = n /\ nLockID'[t] = h
BY DEF GoTo, TypeOK

\* The variables of the calls keep their types.
CallTypes ==
  /\ pc \in [Threads -> {"outside", "start changes", "end changes"} \cup LockSteps \cup UnlockSteps]
  /\ hInstance \in [Threads -> Nodes \cup {NoNode}]
  /\ \A t \in Threads : pc[t] # "outside" => hInstance[t] \in Nodes
  /\ nLockID \in [Threads -> Handles]

\* A call that goes on keeps the types.
LEMMA GoToTypes ==
  ASSUME TypeOK, NEW t \in Threads, NEW n \in Nodes, NEW h \in Handles,
         NEW s \in {"start changes", "end changes"} \cup LockSteps \cup UnlockSteps, GoTo(t, s, n, h)
  PROVE  CallTypes'
BY DEF GoTo, TypeOK, CallTypes

\* A call that returns keeps the types.
LEMMA ReturnTypes ==
  ASSUME TypeOK, NEW t \in Threads, Return(t)
  PROVE  CallTypes'
BY HandleFacts DEF Return, GoTo, TypeOK, CallTypes

\* A lock has a node, a handle and a thread.
LEMMA LockFacts ==
  ASSUME TypeOK, NEW l \in locks
  PROVE  l.node \in Nodes /\ l.handle \in Handles /\ l.thread \in Threads
BY DEF TypeOK

\* The fields of a lock.
LEMMA LockFields ==
  ASSUME NEW n \in Nodes, NEW h \in Handles, NEW t \in Threads
  PROVE  /\ Lock(n, h, t) \in [node : Nodes, handle : Handles, thread : Threads]
         /\ Lock(n, h, t).node = n /\ Lock(n, h, t).handle = h
BY DEF Lock

\* A call on a node that overlaps none leaves the node out of raced.
LEMMA OverlapFacts ==
  ASSUME TypeOK, NEW n \in Nodes, Overlap(n)
  PROVE  /\ raced \subseteq raced' /\ raced' \subseteq raced \cup {n}
         /\ n \notin raced' => \A u \in Threads : ~CallOn(u, n)
BY DEF Overlap

\* The variables keep their types.
LEMMA TypeStep == TypeOK /\ [Next]_vars => TypeOK'
<1> SUFFICES ASSUME TypeOK, [Next]_vars PROVE TypeOK'
  OBVIOUS
<1> USE DEF lockVars, callVars, ghostVars
<1>1. ASSUME NEW t \in Threads, NEW n \in Nodes, LockCheck(t, n) PROVE TypeOK'
  <2>1. PICK s \in LockSteps : GoTo(t, s, n, 0)
    BY <1>1 DEF LockCheck, LockSteps
  <2>2. CallTypes'
    BY <2>1, GoToTypes, HandleFacts
  <2> QED BY <1>1, <2>2 DEF LockCheck, Overlap, TypeOK, CallTypes
<1>2. ASSUME NEW t \in Threads, LockModule(t) PROVE TypeOK'
  <2> DEFINE n == hInstance[t]
  <2>1. n \in Nodes /\ UNCHANGED <<nCurrentThread, nLastLockID, locks, changes, raced>>
    BY <1>2 DEF LockModule, TypeOK
  <2>2. CASE module[n] = "nobody"
    <3>1. /\ module' = [module EXCEPT ![n] = "us"] /\ GoTo(t, "take handle", n, 0)
          /\ nCurrentLock' = [nCurrentLock EXCEPT ![n] = Foreign]
      BY <1>2, <2>2 DEF LockModule
    <3>2. CallTypes'
      BY <2>1, <3>1, GoToTypes, HandleFacts DEF LockSteps
    <3> QED BY <2>1, <3>1, <3>2, HandleFacts DEF TypeOK, CallTypes
  <2>3. CASE module[n] # "nobody"
    <3>1. Return(t) /\ UNCHANGED <<nCurrentLock, module>>
      BY <1>2, <2>3 DEF LockModule
    <3>2. CallTypes'
      BY <3>1, ReturnTypes
    <3> QED BY <2>1, <3>1, <3>2 DEF TypeOK, CallTypes
  <2> QED BY <2>2, <2>3
<1>3. ASSUME NEW t \in Threads, LockTakeHandle(t) PROVE TypeOK'
  <2>1. hInstance[t] \in Nodes /\ nLastLockID + 1 \in Handles
    BY <1>3, HandleFacts DEF LockTakeHandle, TypeOK
  <2>2. CallTypes'
    BY <1>3, <2>1, GoToTypes DEF LockTakeHandle, LockSteps
  <2> QED BY <1>3, <2>2 DEF LockTakeHandle, TypeOK, CallTypes
<1>4. ASSUME NEW t \in Threads, LockStoreHandle(t) PROVE TypeOK'
  <2>1. hInstance[t] \in Nodes /\ nLockID[t] \in Handles
    BY <1>4 DEF LockStoreHandle, TypeOK
  <2>2. CallTypes'
    BY <1>4, <2>1, GoToTypes DEF LockStoreHandle, LockSteps
  <2> QED BY <1>4, <2>1, <2>2 DEF LockStoreHandle, TypeOK, CallTypes
<1>5. ASSUME NEW t \in Threads, LockSet(t) PROVE TypeOK'
  <2>1. hInstance[t] \in Nodes /\ nLockID[t] \in Handles
    BY <1>5 DEF LockSet, TypeOK
  <2>2. Lock(hInstance[t], nLockID[t], t) \in [node : Nodes, handle : Handles, thread : Threads]
    BY <2>1, LockFields
  <2>3. CallTypes'
    BY <1>5, ReturnTypes DEF LockSet
  <2> QED BY <1>5, <2>1, <2>2, <2>3 DEF LockSet, TypeOK, CallTypes
<1>6. ASSUME NEW t \in Threads, NEW l \in locks, UnlockCheck(t, l) PROVE TypeOK'
  <2>1. PICK s \in UnlockSteps : GoTo(t, s, l.node, l.handle)
    BY <1>6 DEF UnlockCheck, UnlockSteps
  <2>2. CallTypes'
    BY <2>1, GoToTypes, LockFacts
  <2> QED BY <1>6, <2>2, LockFacts DEF UnlockCheck, Overlap, TypeOK, CallTypes
<1>7. ASSUME NEW t \in Threads, UnlockModule(t) PROVE TypeOK'
  <2>1. hInstance[t] \in Nodes /\ nLockID[t] \in Handles
    BY <1>7 DEF UnlockModule, TypeOK
  <2>2. CallTypes'
    BY <1>7, <2>1, GoToTypes DEF UnlockModule, UnlockSteps
  <2> QED BY <1>7, <2>1, <2>2, HandleFacts DEF UnlockModule, TypeOK, CallTypes
<1>8. ASSUME NEW t \in Threads, UnlockReset(t) PROVE TypeOK'
  <2>1. CallTypes'
    BY <1>8, ReturnTypes DEF UnlockReset
  <2> QED BY <1>8, <2>1, HandleFacts DEF UnlockReset, TypeOK, CallTypes
<1>9. ASSUME NEW t \in Threads, NEW l \in locks, StartCheck(t, l) PROVE TypeOK'
  <2>1. CallTypes'
    BY <1>9, GoToTypes, LockFacts DEF StartCheck
  <2> QED BY <1>9, <2>1 DEF StartCheck, TypeOK, CallTypes
<1>10. ASSUME NEW t \in Threads, NEW l \in locks, EndCheck(t, l) PROVE TypeOK'
  <2>1. CallTypes'
    BY <1>10, GoToTypes, LockFacts DEF EndCheck
  <2> QED BY <1>10, <2>1 DEF EndCheck, TypeOK, CallTypes
<1>11. ASSUME NEW t \in Threads, StartStore(t) PROVE TypeOK'
  <2>1. CallTypes'
    BY <1>11, ReturnTypes DEF StartStore
  <2>2. Change(hInstance[t], t) \in [node : Nodes, thread : Threads]
    BY <1>11 DEF StartStore, TypeOK, Change
  <2> QED BY <1>11, <2>1, <2>2 DEF StartStore, TypeOK, CallTypes
<1>12. ASSUME NEW t \in Threads, EndStore(t) PROVE TypeOK'
  <2>1. CallTypes'
    BY <1>12, ReturnTypes DEF EndStore
  <2> QED BY <1>12, <2>1 DEF EndStore, TypeOK, CallTypes
<1>13. ASSUME NEW n \in Nodes, NodeLockChanged(n) PROVE TypeOK'
  BY HandleFacts, <1>13 DEF NodeLockChanged, TypeOK
<1>14. CASE UNCHANGED vars
  BY <1>14 DEF vars, TypeOK
<1> QED BY <1>1, <1>2, <1>3, <1>4, <1>5, <1>6, <1>7, <1>8, <1>9, <1>10, <1>11, <1>12, <1>13,
           <1>14 DEF Next

\* A node keeps its invariant when its lock, its module, its locks and the calls on
\* it stay, except for threads that pass from one step of its owner to another.
LEMMA SameNode ==
  ASSUME NEW n \in Nodes, NodeInv(n), nCurrentLock'[n] = nCurrentLock[n],
         module'[n] = module[n], LocksOn(n)' = LocksOn(n), n \in raced => n \in raced',
         \A t \in Threads : CallOn(t, n)' => CallOn(t, n), Owners(n)' = Owners(n)
  PROVE  NodeInv(n)'
BY DEF NodeInv, OneOwner

\* The calls on a node and its owners after a step of thread t at another node.
LEMMA OtherNode ==
  ASSUME TypeOK, NEW t \in Threads, NEW s, NEW m, NEW h, GoTo(t, s, m, h),
         NEW n \in Nodes, n # m, hInstance[t] # n \/ pc[t] = "outside"
  PROVE  (\A u \in Threads : CallOn(u, n)' <=> CallOn(u, n)) /\ Owners(n)' = Owners(n)
<1>1. \A u \in Threads : u # t => pc'[u] = pc[u] /\ hInstance'[u] = hInstance[u]
  BY GoToFacts
<1>2. hInstance'[t] = m
  BY GoToFacts
<1> QED BY <1>1, <1>2 DEF CallOn, Owners, LockSteps, UnlockSteps, OwnerSteps

\* Calls of other threads keep their invariant.
LEMMA OtherCalls ==
  ASSUME TypeOK, \A u \in Threads : CallInv(u), NEW t \in Threads, NEW s, NEW n, NEW h,
         GoTo(t, s, n, h), CallInv(t)'
  PROVE  \A u \in Threads : CallInv(u)'
BY GoToFacts DEF CallInv

\* A step of a call inside which the thread neither comes to own its node nor stops
\* owning it, on the node it is at.
LEMMA SameOwner ==
  ASSUME TypeOK, NEW t \in Threads, NEW n \in Nodes, hInstance[t] = n, NEW s, NEW h, GoTo(t, s, n, h),
         CallOn(t, n), s \in OwnerSteps <=> pc[t] \in OwnerSteps
  PROVE  (\A u \in Threads : CallOn(u, n)' => CallOn(u, n)) /\ Owners(n)' = Owners(n)
BY GoToFacts DEF CallOn, Owners

\* xnLockNodeForChanges starts on a node that has no lock.
LEMMA CheckStep ==
  ASSUME TypeOK, LockInv, NEW t \in Threads, NEW n \in Nodes, LockCheck(t, n)
  PROVE  LockInv'
<1> DEFINE s == IF n \in LockAware THEN "lock module" ELSE "take handle"
<1>1. /\ pc[t] = "outside" /\ nCurrentLock[n] = 0 /\ GoTo(t, s, n, 0) /\ Overlap(n)
      /\ UNCHANGED <<nCurrentLock, module, locks>>
  BY DEF LockCheck, CanCall, lockVars
<1>2. /\ \A u \in Threads : u # t => pc'[u] = pc[u] /\ hInstance'[u] = hInstance[u]
      /\ pc'[t] = s /\ hInstance'[t] = n
  BY <1>1, GoToFacts
<1>3. \A u \in Threads : CallInv(u)'
  <2>1. CallInv(t)'
    BY <1>2 DEF CallInv
  <2> QED BY <1>1, <2>1, OtherCalls DEF LockInv
<1>4. raced \subseteq raced' /\ (n \notin raced' => \A u \in Threads : ~CallOn(u, n))
      /\ raced' \subseteq raced \cup {n}
  BY <1>1, OverlapFacts
<1>5. ASSUME NEW m \in Nodes, m # n PROVE NodeInv(m)'
  <2>1. (\A u \in Threads : CallOn(u, m)' <=> CallOn(u, m)) /\ Owners(m)' = Owners(m)
    BY <1>1, <1>5, OtherNode
  <2> QED BY <1>1, <1>4, <2>1, SameNode DEF LockInv, LocksOn
<1>6. NodeInv(n)'
  <2>1. NodeInv(n) /\ LocksOn(n)' = LocksOn(n)
    BY <1>1 DEF LockInv, LocksOn
  <2>2. n \notin raced' => LocksOn(n) = {} /\ \A u \in Threads : CallOn(u, n)' => u = t
    BY <1>1, <1>2, <1>4, <2>1 DEF NodeInv, CallOn
  <2>3. n \in LockAware => Owners(n)' = Owners(n)
    BY <1>1, <1>2 DEF Owners, OwnerSteps
  <2> QED BY <1>1, <2>1, <2>2, <2>3 DEF NodeInv, OneOwner
<1> QED BY <1>3, <1>5, <1>6 DEF LockInv

\* A call goes on at its node: what the other calls and the other nodes keep.
LEMMA OnStep ==
  ASSUME TypeOK, LockInv, NEW t \in Threads, NEW s, NEW h, NEW n \in Nodes, n = hInstance[t],
         pc[t] # "outside", GoTo(t, s, n, h) \/ Return(t), UNCHANGED <<locks, raced>>,
         \A m \in Nodes : m # n => nCurrentLock'[m] = nCurrentLock[m] /\ module'[m] = module[m]
  PROVE  \A m \in Nodes : m # n => NodeInv(m)'
<1>1. \A u \in Threads : u # t => pc'[u] = pc[u] /\ hInstance'[u] = hInstance[u]
  BY GoToFacts DEF Return
<1>2. hInstance'[t] = n \/ hInstance'[t] = NoNode
  BY GoToFacts DEF Return
<1> SUFFICES ASSUME NEW m \in Nodes, m # n PROVE NodeInv(m)'
  OBVIOUS
<1>3. (\A u \in Threads : CallOn(u, m)' <=> CallOn(u, m)) /\ Owners(m)' = Owners(m)
  BY <1>1, <1>2, LockAssumption DEF CallOn, Owners
<1> QED BY <1>3, SameNode DEF LockInv, LocksOn

\* Locking the module: it was locked for nobody, so the node has no owner yet.
LEMMA ModuleStep ==
  ASSUME TypeOK, LockInv, NEW t \in Threads, LockModule(t)
  PROVE  LockInv'
<1>0. PICK n \in Nodes : n = hInstance[t]
  BY DEF LockModule, TypeOK
<1>1. pc[t] = "lock module" /\ n \in Nodes /\ n \in LockAware /\ UNCHANGED <<locks, raced>>
  BY <1>0 DEF LockModule, TypeOK, ghostVars, LockInv, CallInv
<1>2. NodeInv(n) /\ LocksOn(n)' = LocksOn(n) /\ CallOn(t, n)
  BY <1>0, <1>1 DEF LockInv, LocksOn, CallOn, LockSteps
<1>3. CASE module[n] = "nobody"
  <2>1. /\ module' = [module EXCEPT ![n] = "us"] /\ GoTo(t, "take handle", n, 0)
        /\ nCurrentLock' = [nCurrentLock EXCEPT ![n] = Foreign]
    BY <1>0, <1>3 DEF LockModule
  <2>2. /\ \A u \in Threads : u # t => pc'[u] = pc[u] /\ hInstance'[u] = hInstance[u]
        /\ pc'[t] = "take handle" /\ hInstance'[t] = n
    BY <2>1, GoToFacts
  <2>3. \A u \in Threads : CallInv(u)'
    <3>1. CallInv(t)'
      BY <2>2 DEF CallInv
    <3> QED BY <2>1, <3>1, OtherCalls DEF LockInv
  <2>4. \A m \in Nodes : m # n => NodeInv(m)'
    BY <1>0, <1>1, <2>1, OnStep DEF TypeOK
  <2>5. LocksOn(n) = {} /\ Owners(n) = {} /\ module'[n] = "us"
    BY <1>0, <1>1, <1>2, <1>3, <2>1 DEF NodeInv, TypeOK
  <2>6. Owners(n)' = {t} /\ \A u \in Threads : CallOn(u, n)' => CallOn(u, n)
    BY <1>2, <2>2, <2>5 DEF Owners, OwnerSteps, CallOn, LockSteps
  <2>7. NodeInv(n)'
    BY <1>0, <1>1, <1>2, <2>5, <2>6 DEF NodeInv, OneOwner
  <2> QED BY <2>3, <2>4, <2>7 DEF LockInv
<1>4. CASE module[n] # "nobody"
  <2>1. Return(t) /\ UNCHANGED <<nCurrentLock, module>>
    BY <1>0, <1>4 DEF LockModule
  <2>2. /\ \A u \in Threads : u # t => pc'[u] = pc[u] /\ hInstance'[u] = hInstance[u]
        /\ pc'[t] = "outside"
    BY <2>1, GoToFacts DEF Return
  <2>3. \A u \in Threads : CallInv(u)'
    <3>1. CallInv(t)'
      BY <2>2 DEF CallInv
    <3> QED BY <2>1, <3>1, OtherCalls DEF LockInv, Return
  <2>4. \A m \in Nodes : m # n => NodeInv(m)'
    BY <1>0, <1>1, <2>1, OnStep
  <2>5. Owners(n)' = Owners(n) /\ \A u \in Threads : CallOn(u, n)' => CallOn(u, n)
    BY <1>0, <1>1, <2>2 DEF Owners, OwnerSteps, CallOn, LockSteps, UnlockSteps
  <2>6. NodeInv(n)'
    BY <1>0, <1>1, <1>2, <2>1, <2>5, SameNode
  <2> QED BY <2>3, <2>4, <2>6 DEF LockInv
<1> QED BY <1>3, <1>4

\* Taking and storing a handle leaves the node with its owner, and the handle is not 0.
LEMMA HandleStep ==
  ASSUME TypeOK, LockInv, NEW t \in Threads, LockTakeHandle(t) \/ LockStoreHandle(t)
  PROVE  LockInv'
<1>0. PICK n \in Nodes : n = hInstance[t]
  BY DEF LockTakeHandle, LockStoreHandle, TypeOK
<1>1. PICK s \in {"store handle", "set lock"}, h \in Handles :
        GoTo(t, s, n, h) /\ h # 0 /\ pc[t] \in {"take handle", "store handle"}
  <2>1. CASE LockTakeHandle(t)
    <3>1. nLastLockID + 1 \in Handles /\ nLastLockID + 1 # 0
      BY HandleFacts DEF TypeOK
    <3> QED BY <1>0, <2>1, <3>1 DEF LockTakeHandle
  <2>2. CASE LockStoreHandle(t)
    <3>1. nLockID[t] \in Handles /\ nLockID[t] # 0
      BY <2>2 DEF LockStoreHandle, TypeOK, LockInv, CallInv
    <3> QED BY <1>0, <2>2, <3>1 DEF LockStoreHandle
  <2> QED BY <2>1, <2>2
<1>2. UNCHANGED <<nCurrentLock, module, locks, raced>>
  BY DEF LockTakeHandle, LockStoreHandle, lockVars, ghostVars
<1>3. n \in Nodes
  BY <1>0, <1>1 DEF TypeOK
<1>4. \A u \in Threads : CallInv(u)'
  <2>1. CallInv(t)'
    BY <1>0, <1>1, GoToFacts DEF CallInv
  <2> QED BY <1>0, <1>1, <2>1, OtherCalls DEF LockInv
<1>5. \A m \in Nodes : m # n => NodeInv(m)'
  BY <1>0, <1>1, <1>2, <1>3, OnStep
<1>6. NodeInv(n)'
  <2>1. CallOn(t, n) /\ (s \in OwnerSteps <=> pc[t] \in OwnerSteps)
    BY <1>0, <1>1 DEF CallOn, LockSteps, OwnerSteps
  <2>2. (\A u \in Threads : CallOn(u, n)' => CallOn(u, n)) /\ Owners(n)' = Owners(n)
    BY <1>0, <1>1, <1>3, <2>1, SameOwner
  <2> QED BY <1>2, <1>3, <2>2, SameNode DEF LockInv, LocksOn
<1> QED BY <1>4, <1>5, <1>6 DEF LockInv

\* Returning a lock: the call that owned the node gives it to the lock.
LEMMA SetStep ==
  ASSUME TypeOK, LockInv, NEW t \in Threads, LockSet(t)
  PROVE  LockInv'
<1>0. PICK n \in Nodes : n = hInstance[t]
  BY DEF LockSet, TypeOK
<1>9. PICK h \in Handles : h = nLockID[t]
  BY DEF TypeOK
<1> DEFINE l == Lock(n, h, t)
<1>1. /\ pc[t] = "set lock" /\ n \in Nodes /\ h # 0
      /\ Return(t) /\ UNCHANGED <<module, raced>> /\ locks' = locks \cup {l}
      /\ nCurrentLock' = [nCurrentLock EXCEPT ![n] = h]
  BY <1>0, <1>9 DEF LockSet, TypeOK, LockInv, CallInv
<1>2. l.node = n /\ l.handle = h
  BY DEF Lock
<1>3. /\ \A u \in Threads : u # t => pc'[u] = pc[u] /\ hInstance'[u] = hInstance[u]
      /\ pc'[t] = "outside" /\ hInstance'[t] = NoNode
  BY <1>0, <1>1, GoToFacts DEF Return
<1>4. \A u \in Threads : CallInv(u)'
  <2>1. CallInv(t)'
    BY <1>3 DEF CallInv
  <2> QED BY <1>0, <1>1, <2>1, OtherCalls DEF LockInv, Return
<1>5. \A m \in Nodes : m # n => LocksOn(m)' = LocksOn(m)
  BY <1>0, <1>1, <1>2 DEF LocksOn
<1>6. ASSUME NEW m \in Nodes, m # n PROVE NodeInv(m)'
  <2>1. (\A u \in Threads : CallOn(u, m)' => CallOn(u, m)) /\ Owners(m)' = Owners(m)
    BY <1>0, <1>1, <1>3, <1>6, LockAssumption DEF CallOn, Owners
  <2>2. nCurrentLock'[m] = nCurrentLock[m]
    BY <1>0, <1>1, <1>6 DEF TypeOK
  <2> QED BY <1>0, <1>1, <1>5, <1>6, <2>1, <2>2, SameNode DEF LockInv
<1>7. NodeInv(n)'
  <2>1. NodeInv(n) /\ LocksOn(n)' = LocksOn(n) \cup {l} /\ nCurrentLock'[n] = h
    BY <1>0, <1>1, <1>2 DEF LockInv, LocksOn, TypeOK
  <2>2. CallOn(t, n) /\ t \in Owners(n)
    BY <1>0, <1>1 DEF CallOn, LockSteps, Owners, OwnerSteps
  <2>3. /\ Owners(n)' = Owners(n) \ {t}
        /\ \A u \in Threads : CallOn(u, n)' <=> CallOn(u, n) /\ u # t
    BY <1>0, <1>1, <1>3 DEF Owners, OwnerSteps, CallOn, LockSteps, UnlockSteps
  <2>4. n \notin raced' =>
          LocksOn(n)' = {l} /\ \A u \in Threads : ~CallOn(u, n)'
    BY <1>0, <1>1, <2>1, <2>2, <2>3 DEF NodeInv
  <2>5. n \in LockAware => LocksOn(n)' = {l} /\ Owners(n)' = {} /\ module[n] = "us"
    BY <2>1, <2>2, <2>3 DEF NodeInv, OneOwner
  <2> QED BY <1>0, <1>1, <1>2, <2>1, <2>4, <2>5 DEF NodeInv, OneOwner
<1> QED BY <1>4, <1>6, <1>7 DEF LockInv

\* Taking a lock back: the call that unlocks it owns the node in its place.
LEMMA UnlockStep ==
  ASSUME TypeOK, LockInv, NEW t \in Threads, NEW l \in locks, UnlockCheck(t, l)
  PROVE  LockInv'
<1> DEFINE n == l.node
<1> DEFINE s == IF n \in LockAware THEN "unlock module" ELSE "reset lock"
<1>1. /\ pc[t] = "outside" /\ GoTo(t, s, n, l.handle) /\ Overlap(n)
      /\ UNCHANGED <<nCurrentLock, module>> /\ locks' = locks \ {l}
  BY DEF UnlockCheck, CanCall, lockVars
<1>2. n \in Nodes
  BY LockFacts
<1>3. /\ \A u \in Threads : u # t => pc'[u] = pc[u] /\ hInstance'[u] = hInstance[u]
      /\ pc'[t] = s /\ hInstance'[t] = n
  BY <1>1, GoToFacts
<1>4. \A u \in Threads : CallInv(u)'
  <2>1. CallInv(t)'
    BY <1>3 DEF CallInv
  <2> QED BY <1>1, <2>1, OtherCalls DEF LockInv
<1>5. /\ raced \subseteq raced' /\ raced' \subseteq raced \cup {n}
      /\ n \notin raced' => \A u \in Threads : ~CallOn(u, n)
  BY <1>1, <1>2, OverlapFacts
<1>6. ASSUME NEW m \in Nodes, m # n PROVE NodeInv(m)'
  <2>1. (\A u \in Threads : CallOn(u, m)' <=> CallOn(u, m)) /\ Owners(m)' = Owners(m)
    BY <1>1, <1>6, OtherNode
  <2>2. LocksOn(m)' = LocksOn(m)
    BY <1>1, <1>6 DEF LocksOn
  <2> QED BY <1>1, <1>5, <1>6, <2>1, <2>2, SameNode DEF LockInv
<1>7. NodeInv(n)'
  <2>1. NodeInv(n) /\ l \in LocksOn(n) /\ LocksOn(n)' = LocksOn(n) \ {l}
    BY <1>1, <1>2 DEF LockInv, LocksOn
  <2>2. n \notin raced' => LocksOn(n)' = {} /\ \A u \in Threads : CallOn(u, n)' => u = t
    BY <1>3, <1>5, <2>1 DEF NodeInv, CallOn
  <2>3. n \in LockAware => LocksOn(n)' = {} /\ Owners(n)' = {t} /\ module[n] = "us"
    <3>1. n \in LockAware => LocksOn(n) = {l} /\ Owners(n) = {} /\ module[n] = "us"
      BY <2>1 DEF NodeInv, OneOwner
    <3> QED BY <1>3, <2>1, <3>1 DEF Owners, OwnerSteps
  <2> QED BY <1>1, <2>1, <2>2, <2>3 DEF NodeInv, OneOwner
<1> QED BY <1>4, <1>6, <1>7 DEF LockInv

\* Unlocking the module: the call was the owner, and the node has none any more.
LEMMA UnlockModuleStep ==
  ASSUME TypeOK, LockInv, NEW t \in Threads, UnlockModule(t)
  PROVE  LockInv'
<1>0. PICK n \in Nodes : n = hInstance[t]
  BY DEF UnlockModule, TypeOK
<1>1. /\ pc[t] = "unlock module" /\ n \in Nodes /\ n \in LockAware /\ UNCHANGED <<locks, raced>>
      /\ GoTo(t, "reset lock", n, nLockID[t]) /\ module' = [module EXCEPT ![n] = "nobody"]
      /\ nCurrentLock' = [nCurrentLock EXCEPT ![n] = 0]
  BY <1>0 DEF UnlockModule, TypeOK, ghostVars, LockInv, CallInv
<1>2. NodeInv(n) /\ LocksOn(n)' = LocksOn(n) /\ CallOn(t, n) /\ t \in Owners(n)
  BY <1>0, <1>1 DEF LockInv, LocksOn, CallOn, UnlockSteps, Owners, OwnerSteps
<1>3. /\ \A u \in Threads : u # t => pc'[u] = pc[u] /\ hInstance'[u] = hInstance[u]
      /\ pc'[t] = "reset lock" /\ hInstance'[t] = n
  BY <1>0, <1>1, GoToFacts
<1>4. \A u \in Threads : CallInv(u)'
  <2>1. CallInv(t)'
    BY <1>3 DEF CallInv
  <2> QED BY <1>0, <1>1, <2>1, OtherCalls DEF LockInv
<1>5. \A m \in Nodes : m # n => NodeInv(m)'
  BY <1>0, <1>1, OnStep DEF TypeOK
<1>6. LocksOn(n) = {} /\ Owners(n)' = {} /\ \A u \in Threads : CallOn(u, n)' => CallOn(u, n)
  <2>1. LocksOn(n) = {} /\ Owners(n) = {t}
    BY <1>1, <1>2 DEF NodeInv, OneOwner
  <2>2. Owners(n)' = Owners(n) \ {t}
    BY <1>3 DEF Owners, OwnerSteps
  <2>3. \A u \in Threads : CallOn(u, n)' => CallOn(u, n)
    BY <1>2, <1>3 DEF CallOn
  <2> QED BY <2>1, <2>2, <2>3
<1>7. module'[n] = "nobody"
  BY <1>0, <1>1 DEF TypeOK
<1>8. NodeInv(n)'
  BY <1>0, <1>1, <1>2, <1>6, <1>7 DEF NodeInv, OneOwner
<1> QED BY <1>4, <1>5, <1>8 DEF LockInv

\* Resetting the lock: unless calls overlapped, the node has no lock to lose.
LEMMA ResetStep ==
  ASSUME TypeOK, LockInv, NEW t \in Threads, UnlockReset(t)
  PROVE  LockInv'
<1>0. PICK n \in Nodes : n = hInstance[t]
  BY DEF UnlockReset, TypeOK
<1>1. /\ pc[t] = "reset lock" /\ n \in Nodes /\ Return(t) /\ UNCHANGED <<module, locks, raced>>
      /\ nCurrentLock' = [nCurrentLock EXCEPT ![n] = 0]
  BY <1>0 DEF UnlockReset, TypeOK, ghostVars
<1>2. NodeInv(n) /\ LocksOn(n)' = LocksOn(n) /\ CallOn(t, n)
  BY <1>0, <1>1 DEF LockInv, LocksOn, CallOn, UnlockSteps
<1>3. /\ \A u \in Threads : u # t => pc'[u] = pc[u] /\ hInstance'[u] = hInstance[u]
      /\ pc'[t] = "outside"
  BY <1>0, <1>1, GoToFacts DEF Return
<1>4. \A u \in Threads : CallInv(u)'
  <2>1. CallInv(t)'
    BY <1>3 DEF CallInv
  <2> QED BY <1>0, <1>1, <2>1, OtherCalls DEF LockInv, Return
<1>5. \A m \in Nodes : m # n => NodeInv(m)'
  BY <1>0, <1>1, OnStep DEF TypeOK
<1>6. Owners(n)' = Owners(n) /\ \A u \in Threads : CallOn(u, n)' => CallOn(u, n)
  BY <1>0, <1>1, <1>3 DEF Owners, OwnerSteps, CallOn, LockSteps, UnlockSteps
<1>7. NodeInv(n)'
  BY <1>0, <1>1, <1>2, <1>6 DEF NodeInv, OneOwner
<1> QED BY <1>4, <1>5, <1>7 DEF LockInv

\* Another process locks a module that this one has not, and unlocks its own.
LEMMA ForeignStep ==
  ASSUME TypeOK, LockInv, NEW n \in Nodes, NodeLockChanged(n)
  PROVE  LockInv'
<1>1. /\ n \in LockAware /\ module[n] \in {"nobody", "other"} /\ module'[n] \in {"nobody", "other"}
      /\ \A m \in Nodes : m # n => nCurrentLock'[m] = nCurrentLock[m] /\ module'[m] = module[m]
      /\ UNCHANGED <<pc, hInstance, nLockID, locks, raced>>
  BY DEF NodeLockChanged, TypeOK, callVars, ghostVars
<1>2. \A u \in Threads : CallInv(u)'
  BY <1>1 DEF LockInv, CallInv
<1>3. \A m \in Nodes :
        /\ LocksOn(m)' = LocksOn(m) /\ Owners(m)' = Owners(m)
        /\ \A u \in Threads : CallOn(u, m)' => CallOn(u, m)
  BY <1>1 DEF LocksOn, Owners, CallOn
<1>4. \A m \in Nodes : m # n => NodeInv(m)'
  BY <1>1, <1>3, SameNode DEF LockInv
<1>5. NodeInv(n)'
  <2>1. NodeInv(n) /\ LocksOn(n) = {} /\ Owners(n) = {}
    BY <1>1 DEF LockInv, NodeInv
  <2> QED BY <1>1, <1>3, <2>1 DEF NodeInv, OneOwner
<1> QED BY <1>2, <1>4, <1>5 DEF LockInv

\* Starting and ending changes leaves the locks and the calls that lock alone.
LEMMA ChangeStep ==
  ASSUME TypeOK, LockInv, NEW t \in Threads, NEW s, NEW n, NEW h, GoTo(t, s, n, h),
         pc[t] \notin LockSteps \cup UnlockSteps, s \in {"outside", "start changes", "end changes"},
         UNCHANGED <<nCurrentLock, module, locks, raced>>
  PROVE  LockInv'
<1>1. \A u \in Threads : CallInv(u)'
  <2>1. CallInv(t)'
    BY GoToFacts DEF CallInv
  <2> QED BY <2>1, OtherCalls DEF LockInv
<1>2. /\ \A u \in Threads : u # t => pc'[u] = pc[u] /\ hInstance'[u] = hInstance[u]
      /\ pc'[t] \notin LockSteps \cup UnlockSteps
  BY GoToFacts DEF LockSteps, UnlockSteps
<1>3. OwnerSteps \subseteq LockSteps \cup UnlockSteps
  BY DEF OwnerSteps, LockSteps, UnlockSteps
<1>4. \A m \in Nodes :
        /\ LocksOn(m)' = LocksOn(m) /\ Owners(m)' = Owners(m)
        /\ \A u \in Threads : CallOn(u, m)' => CallOn(u, m)
  BY <1>2, <1>3 DEF LocksOn, Owners, CallOn
<1> QED BY <1>1, <1>4, SameNode DEF LockInv

\* No step breaks the invariant.
LEMMA LockStep ==
  ASSUME TypeOK, LockInv, [Next]_vars
  PROVE  LockInv'
<1>1. ASSUME NEW t \in Threads, NEW n \in Nodes, LockCheck(t, n) PROVE LockInv'
  BY <1>1, CheckStep
<1>2. ASSUME NEW t \in Threads, LockModule(t) PROVE LockInv'
  BY <1>2, ModuleStep
<1>3. ASSUME NEW t \in Threads, LockTakeHandle(t) \/ LockStoreHandle(t) PROVE LockInv'
  BY <1>3, HandleStep
<1>4. ASSUME NEW t \in Threads, LockSet(t) PROVE LockInv'
  BY <1>4, SetStep
<1>5. ASSUME NEW t \in Threads, NEW l \in locks, UnlockCheck(t, l) PROVE LockInv'
  BY <1>5, UnlockStep
<1>6. ASSUME NEW t \in Threads, UnlockModule(t) PROVE LockInv'
  BY <1>6, UnlockModuleStep
<1>7. ASSUME NEW t \in Threads, UnlockReset(t) PROVE LockInv'
  BY <1>7, ResetStep
<1>8. ASSUME NEW t \in Threads, NEW l \in locks, StartCheck(t, l) \/ EndCheck(t, l) PROVE LockInv'
  <2>1. /\ pc[t] \notin LockSteps \cup UnlockSteps
        /\ \E s \in {"start changes", "end changes"} : GoTo(t, s, l.node, l.handle)
        /\ UNCHANGED <<nCurrentLock, module, locks, raced>>
    BY <1>8 DEF StartCheck, EndCheck, CanCall, LockSteps, UnlockSteps, lockVars, ghostVars
  <2> QED BY <2>1, ChangeStep
<1>9. ASSUME NEW t \in Threads, StartStore(t) \/ EndStore(t) PROVE LockInv'
  <2>1. /\ pc[t] \notin LockSteps \cup UnlockSteps /\ GoTo(t, "outside", NoNode, 0)
        /\ UNCHANGED <<nCurrentLock, module, locks, raced>>
    BY <1>9 DEF StartStore, EndStore, LockSteps, UnlockSteps, Return
  <2> QED BY <2>1, ChangeStep
<1>10. ASSUME NEW n \in Nodes, NodeLockChanged(n) PROVE LockInv'
  BY <1>10, ForeignStep
<1>11. CASE UNCHANGED vars
  <2>1. UNCHANGED <<nCurrentLock, module, pc, hInstance, nLockID, locks, raced>>
    BY <1>11 DEF vars, lockVars, callVars, ghostVars
  <2>2. \A m \in Nodes :
          /\ LocksOn(m)' = LocksOn(m) /\ Owners(m)' = Owners(m)
          /\ \A u \in Threads : CallOn(u, m)' => CallOn(u, m)
    BY <2>1 DEF LocksOn, Owners, CallOn
  <2>3. \A u \in Threads : CallInv(u)'
    BY <2>1 DEF LockInv, CallInv
  <2> QED BY <2>1, <2>2, <2>3, SameNode DEF LockInv
<1> QED BY <1>1, <1>2, <1>3, <1>4, <1>5, <1>6, <1>7, <1>8, <1>9, <1>10, <1>11 DEF Next

\* The locks of a context, under every interleaving of the threads: the module of a
\* lock-aware node is locked for the one owner of the node, and a node on which no two
\* calls overlapped keeps the lock its holder was given and has no other.
THEOREM LocksCorrect == Spec => [](TypeOK /\ LockInv)
<1>1. Init => TypeOK
  BY HandleFacts DEF Init, TypeOK
<1>2. Init => LockInv
  BY DEF Init, LockInv, NodeInv, CallInv, OneOwner, LocksOn, Owners, OwnerSteps, CallOn, LockSteps,
         UnlockSteps
<1>3. TypeOK /\ LockInv /\ [Next]_vars => (TypeOK /\ LockInv)'
  BY TypeStep, LockStep
<1> QED BY <1>1, <1>2, <1>3, PTL DEF Spec

\* The variables keep their types.
THEOREM TypeCorrect == Spec => []TypeOK
BY LocksCorrect, PTL

\* A lock that xnLockNodeForChanges returned stays its node's lock until it is unlocked,
\* unless two calls locked or unlocked that node at the same time.
THEOREM HolderKeeps == Spec => []HolderKeepsLock
<1>1. TypeOK /\ LockInv => HolderKeepsLock
  BY LockFacts DEF LockInv, NodeInv, LocksOn, HolderKeepsLock
<1> QED BY <1>1, LocksCorrect, PTL

\* A lock-aware node has one owner at most and its module is locked for exactly that
\* one, however the calls overlap; any other node shares its lock only after two calls
\* overlapped on it.
THEOREM LocksStayExclusive == Spec => []LocksExclusive
<1>1. TypeOK /\ LockInv => LocksExclusive
  <2> SUFFICES ASSUME TypeOK, LockInv, NEW n \in Nodes, n \notin raced PROVE OneOwner(n)
    BY DEF LockInv, NodeInv, LocksExclusive
  <2>1. \A t \in Owners(n) : t \in Threads /\ CallOn(t, n)
    BY DEF Owners, OwnerSteps, CallOn, LockSteps, UnlockSteps
  <2> QED BY <2>1 DEF LockInv, NodeInv, OneOwner
<1> QED BY <1>1, LocksCorrect, PTL

\* No step breaks the invariant of the changes: a thread is stored when it starts
\* changes, and no thread when it ends them.
LEMMA ChangesStep == TypeOK /\ ThreadChanges /\ [Next]_vars => ThreadChanges'
<1> SUFFICES ASSUME TypeOK, ThreadChanges, [Next]_vars PROVE ThreadChanges'
  OBVIOUS
<1>1. ASSUME NEW t \in Threads, StartStore(t) PROVE ThreadChanges'
  BY <1>1 DEF StartStore, TypeOK, ThreadChanges
<1>2. ASSUME NEW t \in Threads, EndStore(t) PROVE ThreadChanges'
  <2> DEFINE n == hInstance[t]
  <2>1. /\ \A m \in Nodes : nCurrentThread'[m] = IF m = n THEN NoThread ELSE nCurrentThread[m]
        /\ changes' = changes \ {Change(n, t)}
    BY <1>2 DEF EndStore, TypeOK
  <2>2. \A m \in Nodes, u \in Threads : m # n => Change(m, u) # Change(n, t)
    BY DEF Change
  <2> QED BY <2>1, <2>2 DEF ThreadChanges, TypeOK
<1>3. CASE UNCHANGED <<nCurrentThread, changes>>
  BY <1>3 DEF ThreadChanges
<1> QED BY <1>1, <1>2, <1>3 DEF Next, LockCheck, LockModule, LockTakeHandle, LockStoreHandle, LockSet,
           UnlockCheck, UnlockModule, UnlockReset, StartCheck, EndCheck, NodeLockChanged,
           vars, lockVars, callVars, ghostVars

\* A thread that xnAreChangesAllowed lets through to a locked node started changes on the
\* node and did not end them, unless two calls locked or unlocked the node at the same time.
THEOREM OnlyLockerChanges == Spec => []ChangesByLocker
<1>1. Init => ThreadChanges
  BY DEF Init, ThreadChanges
<1>2. TypeOK /\ LockInv /\ ThreadChanges => ChangesByLocker
  <2> SUFFICES ASSUME TypeOK, LockInv, ThreadChanges, NEW l \in locks, l.node \notin raced,
                      NEW t \in Threads, ChangesAllowed(t, l.node)
               PROVE  Change(l.node, t) \in changes
    BY DEF ChangesByLocker
  <2>1. l.node \in Nodes /\ nCurrentLock[l.node] = l.handle /\ l.handle # 0
    BY LockFacts DEF LockInv, NodeInv, LocksOn
  <2>2. nCurrentThread[l.node] = t /\ t # NoThread
    BY <2>1, LockAssumption DEF ChangesAllowed
  <2> QED BY <2>1, <2>2 DEF ThreadChanges
<1> QED BY <1>1, <1>2, ChangesStep, LocksCorrect, PTL DEF Spec
=============================================================================
