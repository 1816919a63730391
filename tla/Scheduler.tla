------------------------------ MODULE Scheduler ------------------------------
(***************************************************************************)
(* The task scheduler of Source/OpenNI/XnScheduler.cpp: a linked list of   *)
(* periodic tasks under a critical section, the thread that calls them     *)
(* back outside of it, and the auto-reset event that wakes the thread.     *)
(*                                                                         *)
(* The application's thread and the callback in progress both call the     *)
(* API.  Times are kept relative to the present one, which Tick moves.     *)
(***************************************************************************)
EXTENDS Integers, Sequences, SequencesExt

CONSTANTS
  Tasks,      \* the XnScheduledTask objects
  Intervals,  \* the intervals the application asks for
  MaxLate,    \* bound: how late a task can get before its callback is made
  NoTask,     \* a NULL task
  Infinite    \* XN_WAIT_INFINITE

ASSUME SchedulerAssumption ==
  /\ Intervals \subseteq Nat \ {0}
  /\ MaxLate \in Nat \ {0}
  /\ NoTask \notin Tasks
  /\ Infinite \notin Int

\* Who calls the API: the application's thread, or the scheduler's own thread
\* from within a callback.
Callers == {"app", "callback"}

VARIABLES
  list,      \* the linked list from pFirst on
  due,       \* nNextTime of each task, minus the present time
  interval,  \* nInterval of each task
  alive,     \* the tasks that were added and not yet removed
  thread,    \* what the thread does next
  wait,      \* what is left of nWait
  running,   \* the task whose callback is in progress
  wake,      \* hWakeThreadEvent is signalled
  stop,      \* bStopThread
  call       \* the API call each caller is in: <<step it does next, task>>

tasksVars == <<list, due, interval, alive>>
threadVars == <<thread, wait, running>>
vars == <<tasksVars, threadVars, wake, stop, call>>

None == <<"none", NoTask>>

Init ==
  /\ list = <<>>
  /\ due = [t \in Tasks |-> 0]
  /\ interval = [t \in Tasks |-> 0]
  /\ alive = {}
  /\ thread = "check"
  /\ wait = Infinite
  /\ running = NoTask
  /\ wake = FALSE
  /\ stop = FALSE
  /\ call = [a \in Callers |-> None]
-----------------------------------------------------------------------------
(* The list *)

\* xnSchedulerAddTaskInternal: before the first task if that one is later;
\* otherwise after the first task that is not earlier, or after the last one.
AddTaskInternal(s, t, d) ==
  IF s = <<>> \/ d[Head(s)] > d[t]
    THEN <<t>> \o s
    ELSE LET k == CHOOSE k \in 1..Len(s) :
                    /\ k = Len(s) \/ d[s[k]] >= d[t]
                    /\ \A l \in 1..(k - 1) : d[s[l]] < d[t]
         IN  InsertAt(s, k + 1, t)

\* XnSchedulerRemoveTaskInternal, for a task that is in the list: unlinks the
\* first entry for it.
RemoveTaskInternal(s, t) == RemoveFirst(s, t)
-----------------------------------------------------------------------------
(* The API *)

\* A caller is between two calls; nobody calls once the scheduler is shut down.
CanCall(a) ==
  /\ call[a] = None
  /\ IF a = "app" THEN ~stop ELSE thread = "callback"

\* No call on t is in progress.
Unused(t) == \A a \in Callers : call[a][2] # t
Continue(a, step, t) == call' = [call EXCEPT ![a] = <<step, t>>]

\* A caller goes on with the call it is in, unless its thread was terminated.
InCall(a, step) == call[a][1] = step /\ (a = "callback" => thread = "callback")

\* xnSchedulerAddTask reads the time before it enters the critical section ...
AddTask(a, t, n) ==
  /\ CanCall(a)
  /\ t \notin alive /\ Unused(t) /\ running # t
  /\ interval' = [interval EXCEPT ![t] = n]
  /\ due' = [due EXCEPT ![t] = n]
  /\ Continue(a, "insert", t)
  /\ UNCHANGED <<list, alive, threadVars, wake, stop>>

\* ... adds the task there, and then sets the event.
InsertTask(a) ==
  /\ InCall(a, "insert")
  /\ LET t == call[a][2] IN
     /\ list' = AddTaskInternal(list, t, due)
     /\ alive' = alive \cup {t}
     /\ Continue(a, "notify", t)
  /\ UNCHANGED <<due, interval, threadVars, wake, stop>>

\* xnSchedulerRemoveTask up to the end of the critical section.
RemoveTask(a, t) ==
  /\ CanCall(a) /\ t \in alive /\ Unused(t)
  /\ list' = RemoveTaskInternal(list, t)
  /\ alive' = alive \ {t}
  /\ due' = [due EXCEPT ![t] = 0]
  /\ interval' = [interval EXCEPT ![t] = 0]
  /\ Continue(a, "notify", t)
  /\ UNCHANGED <<threadVars, wake, stop>>

\* Mutants: the task is not taken out before it is added again; the event is
\* not set after it moved.
RescheduleTaskAgain(a, t, n) ==
  /\ CanCall(a) /\ t \in alive /\ Unused(t)
  /\ interval' = [interval EXCEPT ![t] = n]
  /\ due' = [due EXCEPT ![t] = n]
  /\ list' = AddTaskInternal(list, t, due')
  /\ Continue(a, "notify", t)
  /\ UNCHANGED <<alive, threadVars, wake, stop>>

RescheduleTaskSilently(a, t, n) ==
  /\ CanCall(a) /\ t \in alive /\ Unused(t)
  /\ interval' = [interval EXCEPT ![t] = n]
  /\ due' = [due EXCEPT ![t] = n]
  /\ list' = AddTaskInternal(RemoveTaskInternal(list, t), t, due')
  /\ UNCHANGED <<alive, threadVars, wake, stop, call>>

\* xnSchedulerRescheduleTask up to the end of the critical section.
RescheduleTask(a, t, n) ==
  /\ CanCall(a) /\ t \in alive /\ Unused(t)
  /\ interval' = [interval EXCEPT ![t] = n]
  /\ due' = [due EXCEPT ![t] = n]
  /\ list' = AddTaskInternal(RemoveTaskInternal(list, t), t, due')
  /\ Continue(a, "notify", t)
  /\ UNCHANGED <<alive, threadVars, wake, stop>>

\* The event is set outside the critical section; the call returns.
SetEvent(a) ==
  /\ InCall(a, "notify")
  /\ wake' = TRUE
  /\ call' = [call EXCEPT ![a] = None]
  /\ UNCHANGED <<tasksVars, threadVars, stop>>

\* xnSchedulerShutdown, FreeScheduler: mark the thread to stop ...
Shutdown ==
  /\ CanCall("app")
  /\ stop' = TRUE
  /\ Continue("app", "stop", NoTask)
  /\ UNCHANGED <<tasksVars, threadVars, wake>>

\* ... wake it ...
WakeToStop ==
  /\ call["app"][1] = "stop"
  /\ wake' = TRUE
  /\ Continue("app", "join", NoTask)
  /\ UNCHANGED <<tasksVars, threadVars, stop>>

\* ... wait a second for its exit and terminate it if it does not stop: only
\* a thread that is blocked or in a callback can take that long ...
TerminateThread ==
  /\ call["app"][1] = "join"
  /\ thread = "callback" \/ (thread = "wait" /\ ~wake /\ wait # 0)
  /\ thread' = "killed"
  /\ UNCHANGED <<tasksVars, wait, running, wake, stop, call>>

\* ... and free the tasks.
FreeScheduler ==
  /\ call["app"][1] = "join"
  /\ thread \in {"exited", "killed"}
  /\ list' = <<>> /\ alive' = {}
  /\ Continue("app", "gone", NoTask)
  /\ UNCHANGED <<due, interval, threadVars, wake, stop>>
-----------------------------------------------------------------------------
(* xnSchedulerThreadFunc *)

\* The top of the loop reads bStopThread and pFirst outside the critical section.
Check ==
  /\ thread = "check"
  /\ thread' = IF stop THEN "exited" ELSE IF list = <<>> THEN "wait" ELSE "work"
  /\ wait' = Infinite
  /\ UNCHANGED <<tasksVars, running, wake, stop, call>>

\* Mutants: the thread computes how long to wait for a task it is late for; the
\* task that runs is not put back.
WorkLate ==
  /\ thread = "work"
  /\ IF list # <<>> /\ due[Head(list)] < -1
       THEN LET t == Head(list) IN
            /\ due' = [due EXCEPT ![t] = @ + interval[t]]
            /\ list' = AddTaskInternal(Tail(list), t, due')
            /\ running' = t
            /\ thread' = "callback"
            /\ UNCHANGED wait
       ELSE /\ wait' = IF list = <<>> THEN Infinite ELSE due[Head(list)]
            /\ thread' = "wait"
            /\ UNCHANGED <<list, due, running>>
  /\ UNCHANGED <<interval, alive, wake, stop, call>>

WorkOnce ==
  /\ thread = "work"
  /\ IF list # <<>> /\ due[Head(list)] < 0
       THEN LET t == Head(list) IN
            /\ due' = [due EXCEPT ![t] = @ + interval[t]]
            /\ list' = Tail(list)
            /\ running' = t
            /\ thread' = "callback"
            /\ UNCHANGED wait
       ELSE /\ wait' = IF list = <<>> THEN Infinite ELSE due[Head(list)]
            /\ thread' = "wait"
            /\ UNCHANGED <<list, due, running>>
  /\ UNCHANGED <<interval, alive, wake, stop, call>>

\* Inside the critical section: a first task whose time has passed is put back
\* for its next time and called back, else the thread waits for its time.
Work ==
  /\ thread = "work"
  /\ IF list # <<>> /\ due[Head(list)] < 0
       THEN LET t == Head(list) IN
            /\ due' = [due EXCEPT ![t] = @ + interval[t]]
            /\ list' = AddTaskInternal(Tail(list), t, due')
            /\ running' = t
            /\ thread' = "callback"
            /\ UNCHANGED wait
       ELSE /\ wait' = IF list = <<>> THEN Infinite ELSE due[Head(list)]
            /\ thread' = "wait"
            /\ UNCHANGED <<list, due, running>>
  /\ UNCHANGED <<interval, alive, wake, stop, call>>

\* The callback returns; the thread polls the event.
CallbackReturns ==
  /\ thread = "callback" /\ call["callback"] = None
  /\ running' = NoTask
  /\ wait' = 0
  /\ thread' = "wait"
  /\ UNCHANGED <<tasksVars, wake, stop, call>>

\* xnOSWaitEvent returns when the event is set, which resets it, or on timeout.
WaitReturns ==
  /\ thread = "wait"
  /\ wake \/ wait = 0
  /\ wake' = FALSE
  /\ wait' = Infinite
  /\ thread' = "check"
  /\ UNCHANGED <<tasksVars, running, stop, call>>

\* A millisecond passes, also between the steps of the calls.  The machine is
\* fast enough to start a call, and the first task of the list, within MaxLate.
Tick ==
  LET adding == {call[a][2] : a \in {b \in Callers : call[b][1] = "insert"}} IN
  /\ call["app"][1] # "gone"
  /\ \A t \in adding : due[t] > -MaxLate
  /\ list # <<>> => due[Head(list)] > -MaxLate
  /\ due' = [t \in Tasks |-> IF t \in ToSet(list) \cup adding THEN due[t] - 1 ELSE due[t]]
  /\ wait' = IF thread = "wait" /\ wait # Infinite /\ wait > 0 THEN wait - 1 ELSE wait
  /\ UNCHANGED <<list, interval, alive, thread, running, wake, stop, call>>
-----------------------------------------------------------------------------

Call(a) ==
  \/ \E t \in Tasks, n \in Intervals : AddTask(a, t, n) \/ RescheduleTask(a, t, n)
  \/ \E t \in Tasks : RemoveTask(a, t)

Thread == Check \/ Work \/ CallbackReturns \/ WaitReturns
Stopping == WakeToStop \/ FreeScheduler

Next ==
  \/ \E a \in Callers : Call(a) \/ InsertTask(a) \/ SetEvent(a)
  \/ Shutdown \/ Stopping \/ TerminateThread
  \/ Thread
  \/ Tick

Spec == Init /\ [][Next]_vars

\* Both threads keep running inside the scheduler and time passes; a callback
\* returns, whatever calls it makes before; the application may stop calling.
Fairness ==
  /\ WF_vars(Check \/ Work \/ WaitReturns) /\ SF_vars(CallbackReturns)
  /\ WF_vars(Stopping) /\ WF_vars(Tick)
  /\ \A a \in Callers : WF_vars(InsertTask(a)) /\ WF_vars(SetEvent(a))

FairSpec == Spec /\ Fairness
-----------------------------------------------------------------------------
(* Properties *)

TypeOK ==
  /\ list \in Seq(Tasks)
  /\ due \in [Tasks -> Int]
  /\ interval \in [Tasks -> Intervals \cup {0}]
  /\ alive \subseteq Tasks
  /\ thread \in {"check", "work", "callback", "wait", "exited", "killed"}
  /\ wait \in Nat \cup {Infinite}
  /\ running \in Tasks \cup {NoTask}
  /\ wake \in BOOLEAN
  /\ stop \in BOOLEAN
  /\ call \in [Callers -> {"none", "insert", "notify", "stop", "join", "gone"}
                          \X (Tasks \cup {NoTask})]

\* Each task the application added and did not remove is in the list exactly
\* once, whoever changes the list while its callback is in progress, so the
\* walk of XnSchedulerRemoveTaskInternal always finds the task.
ListedOnce == ToSet(list) = alive /\ IsInjective(list)

\* A change of the list is never missed: a thread that stays in its wait, with
\* nobody about to wake it, wakes up no later than the first task is due.
Notified == wake \/ \E a \in Callers : call[a][1] \in {"notify", "stop"}
WakesForFirst ==
  thread = "wait" /\ ~Notified /\ list # <<>> =>
    wait # Infinite /\ (wait = 0 \/ wait <= due[Head(list)])

\* The thread wakes up no later than the earliest task is due ("wait for a
\* change of the list, or the time of the next task").
WakesForNextTask ==
  thread = "wait" /\ ~Notified =>
    \A t \in alive : wait # Infinite /\ (wait = 0 \/ wait <= due[t])

\* Until the shutdown, every task that stays and is not rescheduled is called
\* back again and again, also behind later tasks the list puts in front of it.
TasksRun ==
  \A t \in Tasks :
    \/ <>stop \/ []<>(running = t) \/ []<>(t \notin alive)
    \/ []<><<\E a \in Callers, n \in Intervals : RescheduleTask(a, t, n)>>_vars

\* A shutdown returns.
ShutdownReturns == stop ~> call["app"][1] = "gone"

SchedulerLives == TasksRun /\ ShutdownReturns
=============================================================================
