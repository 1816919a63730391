------------------------------ MODULE NodeLock ------------------------------
(***************************************************************************)
(* Locking a production node against changes (Source/OpenNI/XnOpenNI.cpp): *)
(* xnLockNodeForChanges, xnUnlockNodeForChanges, the changes a locker      *)
(* starts and ends, and the lock state of a lock-aware module, which       *)
(* another process may lock as well.                                       *)
(*                                                                         *)
(* Nothing synchronises the threads that call: they interleave at every    *)
(* access to the node's lock and to the context's last handle.  A lock     *)
(* handle is passed around freely: the player locks its nodes on the       *)
(* thread that opens the recording and changes them on the playback        *)
(* thread.                                                                 *)
(***************************************************************************)
EXTENDS Integers, FiniteSets

CONSTANTS
  Threads,     \* the threads that call
  Nodes,       \* the nodes of one context
  LockAware,   \* the nodes whose module has XN_CAPABILITY_LOCK_AWARE
  MaxLockID,   \* bound: the handles
  Foreign,     \* XN_MAX_UINT32, the handle of a lock the module reports
  NoThread,    \* thread 0
  NoNode       \* a NULL node handle

ASSUME LockAssumption ==
  /\ LockAware \subseteq Nodes
  /\ MaxLockID \in Nat
  /\ Foreign \in Nat /\ Foreign > MaxLockID
  /\ NoThread \notin Threads
  /\ NoNode \notin Nodes

VARIABLES
  nCurrentLock,    \* LockData.nCurrentLock of each node; 0 is no lock
  nCurrentThread,  \* LockData.nCurrentThread of each node
  nLastLockID,     \* the context's last lock handle
  module,          \* who locked the module: "nobody", "us" or "other"
  pc,              \* where each thread is in its call
  hInstance,       \* the node of each thread's call
  nLockID,         \* the handle in each thread's call
  locks,           \* the locks that were returned and that no unlock took back
  changes,         \* the changes that were started and not ended
  raced            \* the nodes with two calls to lock or unlock at the same time

lockVars == <<nCurrentLock, nCurrentThread, nLastLockID, module>>
callVars == <<pc, hInstance, nLockID>>
ghostVars == <<locks, changes, raced>>
vars == <<lockVars, callVars, ghostVars>>

Init ==
  /\ nCurrentLock = [n \in Nodes |-> 0]
  /\ nCurrentThread = [n \in Nodes |-> NoThread]
  /\ nLastLockID = 0
  /\ module = [n \in Nodes |-> "nobody"]
  /\ pc = [t \in Threads |-> "outside"]
  /\ hInstance = [t \in Threads |-> NoNode]
  /\ nLockID = [t \in Threads |-> 0]
  /\ locks = {}
  /\ changes = {}
  /\ raced = {}
-----------------------------------------------------------------------------
\* The lock of node n that thread t got, and the changes it makes.
Lock(n, h, t) == [node |-> n, handle |-> h, thread |-> t]
Change(n, t) == [node |-> n, thread |-> t]

\* The steps of a call that locks or unlocks, and those at which the thread alone
\* has the module's lock: it locked it, or it is about to unlock it.
LockSteps == {"lock module", "take handle", "store handle", "set lock"}
UnlockSteps == {"unlock module", "reset lock"}
OwnerSteps == {"take handle", "store handle", "set lock", "unlock module"}

\* Thread t starts a call.
CanCall(t) == pc[t] = "outside"

\* Thread t goes on at step s of its call, with node n and handle h.
GoTo(t, s, n, h) ==
  /\ pc' = [pc EXCEPT ![t] = s]
  /\ hInstance' = [hInstance EXCEPT ![t] = n]
  /\ nLockID' = [nLockID EXCEPT ![t] = h]
Return(t) == GoTo(t, "outside", NoNode, 0)

\* A thread that locks or unlocks n.
CallOn(t, n) == pc[t] \in LockSteps \cup UnlockSteps /\ hInstance[t] = n

\* A call on n begins, while another one goes on or not.
Overlap(n) == raced' = IF \E t \in Threads : CallOn(t, n) THEN raced \cup {n} ELSE raced

\* xnLockNodeForChanges refuses a locked node ...
LockCheck(t, n) ==
  /\ CanCall(t)
  /\ nCurrentLock[n] = 0
  /\ GoTo(t, IF n \in LockAware THEN "lock module" ELSE "take handle", n, 0)
  /\ Overlap(n)
  /\ UNCHANGED <<lockVars, locks, changes>>

\* Mutant: the error of a module that is locked is ignored.
LockModuleAnyway(t) ==
  /\ pc[t] = "lock module"
  /\ LET n == hInstance[t] IN
     /\ module' = [module EXCEPT ![n] = IF @ = "nobody" THEN "us" ELSE @]
     /\ nCurrentLock' = [nCurrentLock EXCEPT ![n] = Foreign]
     /\ GoTo(t, "take handle", n, 0)
  /\ UNCHANGED <<nCurrentThread, nLastLockID, ghostVars>>

\* ... locks the module, which reports the change to xnNodeLockChanged; an
\* error of a module that is locked already is returned ...
LockModule(t) ==
  /\ pc[t] = "lock module"
  /\ LET n == hInstance[t] IN
       IF module[n] = "nobody"
         THEN /\ module' = [module EXCEPT ![n] = "us"]
              /\ nCurrentLock' = [nCurrentLock EXCEPT ![n] = Foreign]
              /\ GoTo(t, "take handle", n, 0)
         ELSE /\ Return(t)
              /\ UNCHANGED <<nCurrentLock, module>>
  /\ UNCHANGED <<nCurrentThread, nLastLockID, ghostVars>>

\* ... takes the handle after the context's last one ...
LockTakeHandle(t) ==
  /\ pc[t] = "take handle" /\ nLastLockID < MaxLockID
  /\ GoTo(t, "store handle", hInstance[t], nLastLockID + 1)
  /\ UNCHANGED <<lockVars, ghostVars>>

\* ... which becomes the last one ...
LockStoreHandle(t) ==
  /\ pc[t] = "store handle"
  /\ nLastLockID' = nLockID[t]
  /\ GoTo(t, "set lock", hInstance[t], nLockID[t])
  /\ UNCHANGED <<nCurrentLock, nCurrentThread, module, ghostVars>>

\* Mutant: the handle is stored before the module is locked, whose report replaces it.
LockSetBefore(t) ==
  /\ pc[t] = "set lock"
  /\ IF hInstance[t] \in LockAware
       THEN UNCHANGED nCurrentLock
       ELSE nCurrentLock' = [nCurrentLock EXCEPT ![hInstance[t]] = nLockID[t]]
  /\ locks' = locks \cup {Lock(hInstance[t], nLockID[t], t)}
  /\ Return(t)
  /\ UNCHANGED <<nCurrentThread, nLastLockID, module, changes, raced>>

\* ... and stores and returns it.
LockSet(t) ==
  /\ pc[t] = "set lock"
  /\ nCurrentLock' = [nCurrentLock EXCEPT ![hInstance[t]] = nLockID[t]]
  /\ locks' = locks \cup {Lock(hInstance[t], nLockID[t], t)}
  /\ Return(t)
  /\ UNCHANGED <<nCurrentThread, nLastLockID, module, changes, raced>>

\* xnUnlockNodeForChanges, by any thread the lock was given to, refuses a handle
\* that is not the node's ...
UnlockCheck(t, l) ==
  /\ CanCall(t)
  /\ nCurrentLock[l.node] = l.handle
  /\ locks' = locks \ {l}
  /\ GoTo(t, IF l.node \in LockAware THEN "unlock module" ELSE "reset lock", l.node, l.handle)
  /\ Overlap(l.node)
  /\ UNCHANGED <<lockVars, changes>>

\* ... unlocks the module, which reports the change ...
UnlockModule(t) ==
  /\ pc[t] = "unlock module"
  /\ module' = [module EXCEPT ![hInstance[t]] = "nobody"]
  /\ nCurrentLock' = [nCurrentLock EXCEPT ![hInstance[t]] = 0]
  /\ GoTo(t, "reset lock", hInstance[t], nLockID[t])
  /\ UNCHANGED <<nCurrentThread, nLastLockID, ghostVars>>

\* ... and resets the lock, but not the thread that makes changes.
UnlockReset(t) ==
  /\ pc[t] = "reset lock"
  /\ nCurrentLock' = [nCurrentLock EXCEPT ![hInstance[t]] = 0]
  /\ Return(t)
  /\ UNCHANGED <<nCurrentThread, nLastLockID, module, ghostVars>>

\* xnLockedNodeStartChanges refuses a handle that is not the node's ...
StartCheck(t, l) ==
  /\ CanCall(t)
  /\ nCurrentLock[l.node] = l.handle
  /\ GoTo(t, "start changes", l.node, l.handle)
  /\ UNCHANGED <<lockVars, ghostVars>>

\* Mutant: the handle is stored in place of the thread.
StartStoreHandle(t) ==
  /\ pc[t] = "start changes"
  /\ nCurrentThread' = [nCurrentThread EXCEPT ![hInstance[t]] = nLockID[t]]
  /\ changes' = changes \cup {Change(hInstance[t], t)}
  /\ Return(t)
  /\ UNCHANGED <<nCurrentLock, nLastLockID, module, locks, raced>>

\* ... and lets the thread that calls change the node.
StartStore(t) ==
  /\ pc[t] = "start changes"
  /\ nCurrentThread' = [nCurrentThread EXCEPT ![hInstance[t]] = t]
  /\ changes' = changes \cup {Change(hInstance[t], t)}
  /\ Return(t)
  /\ UNCHANGED <<nCurrentLock, nLastLockID, module, locks, raced>>

\* xnLockedNodeEndChanges refuses a handle that is not the node's ...
EndCheck(t, l) ==
  /\ CanCall(t)
  /\ Change(l.node, t) \in changes
  /\ nCurrentLock[l.node] = l.handle
  /\ GoTo(t, "end changes", l.node, l.handle)
  /\ UNCHANGED <<lockVars, ghostVars>>

\* Mutant: the thread may go on changing the node.
EndStoreOpen(t) ==
  /\ pc[t] = "end changes"
  /\ changes' = changes \ {Change(hInstance[t], t)}
  /\ Return(t)
  /\ UNCHANGED <<lockVars, locks, raced>>

\* ... and lets no thread change the node.
EndStore(t) ==
  /\ pc[t] = "end changes"
  /\ nCurrentThread' = [nCurrentThread EXCEPT ![hInstance[t]] = NoThread]
  /\ changes' = changes \ {Change(hInstance[t], t)}
  /\ Return(t)
  /\ UNCHANGED <<nCurrentLock, nLastLockID, module, locks, raced>>

\* Another process locks or unlocks the module: xnNodeLockChanged.
NodeLockChanged(n) ==
  /\ n \in LockAware
  /\ \/ /\ module[n] = "nobody"
        /\ module' = [module EXCEPT ![n] = "other"]
        /\ nCurrentLock' = [nCurrentLock EXCEPT ![n] = Foreign]
     \/ /\ module[n] = "other"
        /\ module' = [module EXCEPT ![n] = "nobody"]
        /\ nCurrentLock' = [nCurrentLock EXCEPT ![n] = 0]
  /\ UNCHANGED <<nCurrentThread, nLastLockID, callVars, ghostVars>>
-----------------------------------------------------------------------------

Next ==
  \/ \E t \in Threads :
       \/ \E n \in Nodes : LockCheck(t, n)
       \/ LockModule(t) \/ LockTakeHandle(t) \/ LockStoreHandle(t) \/ LockSet(t)
       \/ \E l \in locks : UnlockCheck(t, l) \/ StartCheck(t, l) \/ EndCheck(t, l)
       \/ UnlockModule(t) \/ UnlockReset(t)
       \/ StartStore(t) \/ EndStore(t)
  \/ \E n \in Nodes : NodeLockChanged(n)

Spec == Init /\ [][Next]_vars
-----------------------------------------------------------------------------
(* Properties *)

\* XnLockHandle; 0 is no lock.
Handles == Nat

TypeOK ==
  /\ nCurrentLock \in [Nodes -> Handles]
  /\ nCurrentThread \in [Nodes -> Threads \cup {NoThread}]
  /\ nLastLockID \in Handles
  /\ module \in [Nodes -> {"nobody", "us", "other"}]
  /\ pc \in [Threads -> {"outside", "start changes", "end changes"} \cup LockSteps \cup UnlockSteps]
  /\ hInstance \in [Threads -> Nodes \cup {NoNode}]
  /\ \A t \in Threads : pc[t] # "outside" => hInstance[t] \in Nodes
  /\ nLockID \in [Threads -> Handles]
  /\ locks \subseteq [node : Nodes, handle : Handles, thread : Threads]
  /\ changes \subseteq [node : Nodes, thread : Threads]
  /\ raced \subseteq Nodes

\* xnAreChangesAllowed: a set function of thread t is let through.
ChangesAllowed(t, n) == nCurrentLock[n] = 0 \/ nCurrentThread[n] = t

\* The locks of n, and the threads that have it to themselves in a call.
LocksOn(n) == {l \in locks : l.node = n}
Owners(n) == {t \in Threads : pc[t] \in OwnerSteps /\ hInstance[t] = n}

\* A lock that was returned stays its node's lock until it is unlocked, so its
\* holder can start changes and unlock, whatever other processes do and whatever
\* threads do to other nodes, whose calls take handles of the same context.  Two
\* calls that lock or unlock this node at the same time can break it: one call's
\* store replaces the lock the other one returned, and the last store of an unlock
\* wipes a lock taken since the module was unlocked.
HolderKeepsLock == \A l \in locks : l.node \in raced \/ nCurrentLock[l.node] = l.handle

\* Nobody shares a node: it has one lock, or one call that is about to return or
\* take back one.
OneOwner(n) ==
  /\ \A k, l \in LocksOn(n) : k = l
  /\ \A t, u \in Owners(n) : t = u
  /\ LocksOn(n) = {} \/ Owners(n) = {}

\* A lock-aware node has one owner at most, and its module is locked for this process
\* exactly as long as it has one, however the calls overlap: the module decides, and
\* no lock of ours is on a module that another process has.  A node that is not
\* lock-aware has two owners only after two calls overlapped on it.
LocksExclusive ==
  \A n \in Nodes :
    /\ n \in LockAware =>
         OneOwner(n) /\ (module[n] = "us" <=> LocksOn(n) # {} \/ Owners(n) # {})
    /\ n \notin raced => OneOwner(n)

\* While a node is locked, a thread that can change it started changes on it and did
\* not end them ("it is locked, but the locker started a change, and the change comes
\* from the same thread"): under this lock, or under an earlier one that was unlocked
\* with the changes open, because an unlock keeps the thread.
ChangesByLocker ==
  \A l \in locks : l.node \in raced \/
    \A t \in Threads : ChangesAllowed(t, l.node) => Change(l.node, t) \in changes

\* "give it a unique lock handle": no two locks have the same handle.
HandlesUnique == \A k, l \in locks : k.handle = l.handle => k = l
-----------------------------------------------------------------------------
(* The inductive invariant *)

\* A node: no lock has handle 0, the value that stands for no lock.  On a node on
\* which no calls overlapped, a lock is the node's lock and the only one, and the one
\* call found it without a lock, or took back the only one.  The module of a
\* lock-aware node is locked for its one owner; other modules are not called.
NodeInv(n) ==
  /\ \A l \in LocksOn(n) : l.handle # 0
  /\ n \notin raced =>
       /\ \A l \in LocksOn(n) : nCurrentLock[n] = l.handle
       /\ \A k, l \in LocksOn(n) : k = l
       /\ \A t \in Threads : CallOn(t, n) => LocksOn(n) = {}
       /\ \A t, u \in Threads : CallOn(t, n) /\ CallOn(u, n) => t = u
  /\ n \in LockAware =>
       OneOwner(n) /\ (module[n] = "us" <=> LocksOn(n) # {} \/ Owners(n) # {})
  /\ module[n] # "nobody" => n \in LockAware

\* A call: its handle is not 0, and it calls the module of lock-aware nodes only.
CallInv(t) ==
  /\ pc[t] \in {"store handle", "set lock"} => nLockID[t] # 0
  /\ pc[t] \in {"lock module", "unlock module"} => hInstance[t] \in LockAware

LockInv == (\A n \in Nodes : NodeInv(n)) /\ (\A t \in Threads : CallInv(t))

\* The thread a node remembers has changes on it that it did not end.
ThreadChanges ==
  \A n \in Nodes : nCurrentThread[n] # NoThread => Change(n, nCurrentThread[n]) \in changes
=============================================================================
