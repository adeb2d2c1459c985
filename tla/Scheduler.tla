----------------------------- MODULE Scheduler -----------------------------
(***************************************************************************)
(* CScheduler (src/scheduler.cpp): threads in serviceQueue wait for the    *)
(* first task of a queue that is ordered by time, and run it.              *)
(*                                                                         *)
(* A section of newTaskMutex is one step.  A thread that wakes up, for     *)
(* whatever reason, and a thread that has run its task are at the head of  *)
(* the outer loop: all inner loops lead there.  Only a wait that timed out *)
(* leads to a task.  Notifications are sent after the lock was released,   *)
(* as a step of their own.  Clients are one thread.                        *)
(***************************************************************************)
EXTENDS Integers, Sequences, FiniteSets, SequencesExt

CONSTANTS
  ServiceThreads,     \* threads that call serviceQueue
  Delta,       \* the period of tasks of scheduleEvery
  MaxTime,     \* bound: the clock
  MaxTasks,    \* bound: calls of schedule by clients
  None         \* no task

ASSUME SchedulerAssumption ==
  /\ IsFiniteSet(ServiceThreads) /\ Delta \in Nat \ {0}
  /\ MaxTime \in Nat /\ MaxTasks \in Nat

VARIABLES
  now,
  taskQueue, stopRequested, stopWhenEmpty, nThreadsServicingQueue,
  place,       \* "start", "head", "wait", "wait_until", "woken", "run", "notify" or "exit"
  deadline,    \* timeToWaitFor of each thread
  task,        \* the task it runs
  client,      \* "out", or about to call "notify_one" or "notify_all"
  calls,       \* calls of schedule so far; a task is identified by its call
  ran          \* history: the tasks that were run

queueVars == <<taskQueue, stopRequested, stopWhenEmpty, nThreadsServicingQueue>>
schedulerVars == <<now, queueVars, place, deadline, task, client, calls, ran>>

SchedulerInit ==
  /\ now = 0
  /\ taskQueue = <<>> /\ stopRequested = FALSE /\ stopWhenEmpty = FALSE
  /\ nThreadsServicingQueue = 0
  /\ place = [t \in ServiceThreads |-> "start"] /\ deadline = [t \in ServiceThreads |-> 0]
  /\ task = [t \in ServiceThreads |-> None]
  /\ client = "out"
  /\ calls = 0 /\ ran = {}

-----------------------------------------------------------------------------
Waiting == {t \in ServiceThreads : place[t] \in {"wait", "wait_until"}}

(* A multimap: among tasks of the same time, the first one in is first.    *)
Inserted(q, new) ==
  InsertAt(q, Cardinality({i \in DOMAIN q : q[i].time <= new.time}) + 1, new)

(* schedule, scheduleFromNow and scheduleEvery, called by clients until    *)
(* they ask for the stop.  (A mutant notifies only if the queue was empty.)*)
ScheduleQuietly(time, repeat) ==
  /\ client = "out" /\ calls < MaxTasks /\ ~stopRequested /\ ~stopWhenEmpty
  /\ calls' = calls + 1
  /\ taskQueue' = Inserted(taskQueue, [id |-> calls + 1, time |-> time, repeat |-> repeat])
  /\ client' = IF taskQueue = <<>> THEN "notify_one" ELSE "out"
  /\ UNCHANGED <<now, stopRequested, stopWhenEmpty, nThreadsServicingQueue, place, deadline, task, ran>>

Schedule(time, repeat) ==
  /\ client = "out" /\ calls < MaxTasks /\ ~stopRequested /\ ~stopWhenEmpty
  /\ calls' = calls + 1
  /\ taskQueue' = Inserted(taskQueue, [id |-> calls + 1, time |-> time, repeat |-> repeat])
  /\ client' = "notify_one"
  /\ UNCHANGED <<now, stopRequested, stopWhenEmpty, nThreadsServicingQueue, place, deadline, task, ran>>

(* Used by tests; bounded by moving only tasks that are in the future.     *)
MockForward(d) ==
  /\ client = "out" /\ taskQueue # <<>> /\ Head(taskQueue).time > now
  /\ taskQueue' = [i \in DOMAIN taskQueue |-> [taskQueue[i] EXCEPT !.time = @ - d]]
  /\ client' = "notify_one"
  /\ UNCHANGED <<now, stopRequested, stopWhenEmpty, nThreadsServicingQueue, place, deadline, task,
                 calls, ran>>

(* (A mutant lets the threads find out.)                                   *)
StopSilently ==
  /\ client = "out" /\ ~stopRequested /\ ~stopWhenEmpty
  /\ stopRequested' = TRUE
  /\ UNCHANGED <<now, taskQueue, stopWhenEmpty, nThreadsServicingQueue, place, deadline, task,
                 client, calls, ran>>

StopRequest ==
  /\ client = "out" /\ ~stopRequested /\ ~stopWhenEmpty
  /\ stopRequested' = TRUE /\ client' = "notify_all"
  /\ UNCHANGED <<now, taskQueue, stopWhenEmpty, nThreadsServicingQueue, place, deadline, task,
                 calls, ran>>

StopWhenDrained ==
  /\ client = "out" /\ ~stopRequested /\ ~stopWhenEmpty
  /\ stopWhenEmpty' = TRUE /\ client' = "notify_all"
  /\ UNCHANGED <<now, taskQueue, stopRequested, nThreadsServicingQueue, place, deadline, task,
                 calls, ran>>

-----------------------------------------------------------------------------
(* The condition variable newTaskScheduled, and time.  wait_until reports  *)
(* a timeout if its time has come when it returns, also if it was notified.*)

Woken(p, t) == [p EXCEPT ![t] = IF @ = "wait" THEN "head" ELSE "woken"]

(* One of the threads that wait, if any does, after p.                     *)
WokenOne(p) ==
  IF Waiting = {} THEN {p} ELSE {Woken(p, t) : t \in Waiting}

ClientNotifies ==
  /\ \/ client = "notify_one" /\ place' \in WokenOne(place)
     \/ /\ client = "notify_all"
        /\ place' = [t \in ServiceThreads |-> IF t \in Waiting THEN Woken(place, t)[t] ELSE place[t]]
  /\ client' = "out"
  /\ UNCHANGED <<now, queueVars, deadline, task, calls, ran>>

SpuriousWake(t) ==
  /\ t \in Waiting
  /\ place' = Woken(place, t)
  /\ UNCHANGED <<now, queueVars, deadline, task, client, calls, ran>>

Tick ==
  /\ now < MaxTime
  /\ now' = now + 1
  /\ UNCHANGED <<queueVars, place, deadline, task, client, calls, ran>>

-----------------------------------------------------------------------------
(* serviceQueue.                                                           *)

shouldStop == stopRequested \/ (stopWhenEmpty /\ taskQueue = <<>>)

AtHead(t) == place[t] \in {"start", "head"} \/ (place[t] = "woken" /\ now < deadline[t])
Counted(t) == IF place[t] = "start" THEN nThreadsServicingQueue + 1 ELSE nThreadsServicingQueue

ServiceWait(t) ==
  /\ AtHead(t) /\ ~shouldStop /\ taskQueue = <<>>
  /\ place' = [place EXCEPT ![t] = "wait"]
  /\ nThreadsServicingQueue' = Counted(t)
  /\ UNCHANGED <<now, taskQueue, stopRequested, stopWhenEmpty, deadline, task, client,
                 calls, ran>>

ServiceWaitUntil(t) ==
  /\ AtHead(t) /\ ~shouldStop /\ taskQueue # <<>>
  /\ place' = [place EXCEPT ![t] = "wait_until"]
  /\ deadline' = [deadline EXCEPT ![t] = Head(taskQueue).time]
  /\ nThreadsServicingQueue' = Counted(t)
  /\ UNCHANGED <<now, taskQueue, stopRequested, stopWhenEmpty, task, client, calls, ran>>

ServiceExit(t) ==
  /\ AtHead(t) /\ shouldStop
  /\ place' \in WokenOne([place EXCEPT ![t] = "exit"])
  /\ nThreadsServicingQueue' = Counted(t) - 1
  /\ UNCHANGED <<now, taskQueue, stopRequested, stopWhenEmpty, deadline, task, client,
                 calls, ran>>

(* The wait timed out: the first task is taken, if there is one.  (A       *)
(* mutant takes it also when the thread was notified.)                     *)
TimedOutOrWoken(t) == place[t] = "woken" \/ (place[t] = "wait_until" /\ now >= deadline[t])

TimedOut(t) == place[t] \in {"wait_until", "woken"} /\ now >= deadline[t]

ServiceTake(t) ==
  /\ TimedOut(t) /\ ~shouldStop /\ taskQueue # <<>>
  /\ task' = [task EXCEPT ![t] = Head(taskQueue)]
  /\ taskQueue' = Tail(taskQueue)
  /\ place' = [place EXCEPT ![t] = "run"]
  /\ ran' = ran \cup {Head(taskQueue).id}
  /\ UNCHANGED <<now, stopRequested, stopWhenEmpty, nThreadsServicingQueue, deadline, client,
                 calls>>

ServiceContinue(t) ==
  /\ TimedOut(t) /\ (shouldStop \/ taskQueue = <<>>)
  /\ place' = [place EXCEPT ![t] = "head"]
  /\ UNCHANGED <<now, queueVars, deadline, task, client, calls, ran>>

(* The task returns.                                                       *)
TaskReturns(t) ==
  /\ place[t] = "run" /\ ~task[t].repeat
  /\ place' = [place EXCEPT ![t] = "head"]
  /\ task' = [task EXCEPT ![t] = None]
  /\ UNCHANGED <<now, queueVars, deadline, client, calls, ran>>

(* Repeat: it schedules itself again, and notifies, before it returns.     *)
Repeat(t) ==
  /\ place[t] = "run" /\ task[t].repeat
  /\ taskQueue' = Inserted(taskQueue, [task[t] EXCEPT !.time = now + Delta])
  /\ place' = [place EXCEPT ![t] = "notify"]
  /\ task' = [task EXCEPT ![t] = None]
  /\ UNCHANGED <<now, stopRequested, stopWhenEmpty, nThreadsServicingQueue, deadline, client,
                 calls, ran>>

RepeatNotifies(t) ==
  /\ place[t] = "notify"
  /\ place' \in WokenOne([place EXCEPT ![t] = "head"])
  /\ UNCHANGED <<now, queueVars, deadline, task, client, calls, ran>>

-----------------------------------------------------------------------------
ServiceStep(t) ==
  \/ ServiceWait(t)
  \/ ServiceWaitUntil(t)
  \/ ServiceExit(t)
  \/ ServiceTake(t)
  \/ ServiceContinue(t)
  \/ TaskReturns(t)
  \/ Repeat(t)
  \/ RepeatNotifies(t)

Joined == (\A t \in ServiceThreads : place[t] = "exit") /\ UNCHANGED schedulerVars

(* The clock has reached its bound.                                        *)
EndOfTime == now = MaxTime /\ UNCHANGED schedulerVars

SchedulerNext ==
  \/ \E time \in 0 .. MaxTime, repeat \in BOOLEAN : Schedule(time, repeat)
  \/ MockForward(1)
  \/ StopRequest
  \/ StopWhenDrained
  \/ ClientNotifies
  \/ \E t \in ServiceThreads : SpuriousWake(t)
  \/ Tick
  \/ \E t \in ServiceThreads : ServiceStep(t)
  \/ Joined
  \/ EndOfTime

SchedulerSpec == SchedulerInit /\ [][SchedulerNext]_schedulerVars

(* Time passes, notifications arrive, tasks return, threads go on.         *)
SchedulerFairness ==
  /\ WF_schedulerVars(ClientNotifies) /\ WF_schedulerVars(Tick)
  /\ \A t \in ServiceThreads : WF_schedulerVars(ServiceStep(t))

FairSchedulerSpec == SchedulerSpec /\ SchedulerFairness

-----------------------------------------------------------------------------
(* Properties.                                                             *)

(* "Call func at/after time t": as long as one thread serves the queue, as *)
(* in the node, no task is running before its time, however the queue      *)
(* changed while that thread waited.                                       *)
NotEarly ==
  \A t \in ServiceThreads :
    place[t] = "run" /\ (\A s \in ServiceThreads \ {t} : place[s] = "start") => task[t].time <= now

(* ~CScheduler's assertion: threads that were told to stop when there is   *)
(* no work left have left none, not even what a running task scheduled     *)
(* after another thread had already ended.                                 *)
DrainedEmpty ==
  stopWhenEmpty /\ (\A t \in ServiceThreads : place[t] = "exit") =>
    taskQueue = <<>> /\ nThreadsServicingQueue = 0

(* Every task whose time comes is run unless the scheduler is stopped.     *)
TasksRun ==
  \A n \in 1 .. MaxTasks :
    (\E i \in DOMAIN taskQueue : taskQueue[i].id = n /\ taskQueue[i].time <= MaxTime) ~>
      (n \in ran \/ stopRequested)

(* stop() returns: its join does not wait for ever, and a scheduler that   *)
(* was drained has left nothing behind.                                    *)
StopReturns ==
  /\ stopRequested ~> (\A t \in ServiceThreads : place[t] = "exit")
  /\ []DrainedEmpty
=============================================================================
