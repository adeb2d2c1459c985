--------------------------- MODULE SchedulerProofs ---------------------------
(***************************************************************************)
(* The two classes of scheduler.cpp, for any number of threads.            *)
(*                                                                         *)
(* 1. SerialTaskRunner: callbacks run one at a time and in order, and none *)
(* is stranded.  The invariant is inductive as it stands: a thread that    *)
(* turns away finds either nothing to do or another thread in a callback,  *)
(* which looks again after it.                                             *)
(*                                                                         *)
(* 2. CScheduler: a thread that serves the queue alone runs no task before *)
(* its time, since the first task can only become earlier while the thread *)
(* waits for it; and a queue that is to be drained is empty when the last  *)
(* thread ends.                                                            *)
(***************************************************************************)
EXTENDS SerialTaskRunner, Scheduler, FiniteSetTheorems, TLAPS

TypeOK ==
  /\ m_callbacks_pending \in Seq(Nat)
  /\ m_are_callbacks_running \in BOOLEAN
  /\ scheduled \in Nat /\ inserted \in Nat
  /\ pc \in [Threads -> {"out", "process", "callback", "release", "maybe", "schedule", "check"}]
  /\ ins \in [Threads -> {"out", "maybe", "schedule"}]
  /\ callback \in [Threads -> Nat]
  /\ serving \subseteq Servers

(* The flushing thread is not in ProcessQueue before it flushes.           *)
FlusherOut == flushed = "no" => pc[Flusher] = "out"

IInv == TypeOK /\ FlusherOut /\ RunningExact /\ NoneStranded

-----------------------------------------------------------------------------
LEMMA TypeStep == TypeOK /\ [Next]_vars => TypeOK'
<1> SUFFICES ASSUME TypeOK, [Next]_vars PROVE TypeOK'
  OBVIOUS
<1> USE DEF TypeOK
<1>1. CASE UNCHANGED vars
  BY <1>1 DEF vars
<1>2. ASSUME NEW t \in Threads, Insert(t) PROVE TypeOK'
  BY <1>2 DEF Insert
<1>3. ASSUME NEW t \in Threads, InsertStep(t) PROVE TypeOK'
  BY <1>3 DEF InsertStep, InsertMaybe, InsertSchedule
<1>4. ASSUME NEW t \in Threads, Serve(t) PROVE TypeOK'
  BY <1>4 DEF Serve
<1>5. ASSUME NEW t \in Threads, ProcessQueue(t) PROVE TypeOK'
  <2>1. Head(m_callbacks_pending) \in Nat /\ Tail(m_callbacks_pending) \in Seq(Nat)
    BY <1>5 DEF ProcessQueue
  <2> QED BY <1>5, <2>1 DEF ProcessQueue
<1>6. ASSUME NEW t \in Threads,
             ProcessNothing(t) \/ CallbackReturns(t) \/ Release(t) \/ ProcessMaybe(t)
               \/ ProcessSchedule(t)
      PROVE TypeOK'
  <2>1. CASE ProcessNothing(t)
    BY <2>1 DEF ProcessNothing, Back
  <2>2. CASE CallbackReturns(t)
    BY <2>2 DEF CallbackReturns
  <2>3. CASE Release(t)
    BY <2>3 DEF Release
  <2>4. CASE ProcessMaybe(t)
    BY <2>4 DEF ProcessMaybe, Back
  <2>5. CASE ProcessSchedule(t)
    BY <2>5 DEF ProcessSchedule, Back
  <2> QED BY <1>6, <2>1, <2>2, <2>3, <2>4, <2>5
<1>7. ASSUME NEW t \in Threads, Stop(t) PROVE TypeOK'
  BY <1>7 DEF Stop
<1>8. CASE Flush \/ FlushCheck \/ Finished
  BY <1>8 DEF Flush, FlushCheck, Finished, vars, Threads
<1> QED BY <1>1, <1>2, <1>3, <1>4, <1>5, <1>6, <1>7, <1>8 DEF Next, ProcessStep

(* Steps that leave the callbacks and the flag alone.                      *)
LEMMA SameRunning ==
  ASSUME TypeOK, RunningExact, m_are_callbacks_running' = m_are_callbacks_running,
         InCallback' = InCallback
  PROVE  RunningExact'
  BY DEF RunningExact

LEMMA RunningStep ==
  TypeOK /\ FlusherOut /\ RunningExact /\ [Next]_vars => RunningExact'
<1> SUFFICES ASSUME TypeOK, FlusherOut, RunningExact, [Next]_vars PROVE RunningExact'
  OBVIOUS
<1>1. CASE UNCHANGED vars
  BY <1>1, SameRunning DEF vars, InCallback
<1>2. ASSUME NEW t \in Threads, Insert(t) PROVE RunningExact'
  BY <1>2, SameRunning DEF Insert, InCallback
<1>3. ASSUME NEW t \in Threads, InsertStep(t) PROVE RunningExact'
  BY <1>3, SameRunning DEF InsertStep, InsertMaybe, InsertSchedule, InCallback
<1>4. ASSUME NEW t \in Threads, Serve(t) PROVE RunningExact'
  BY <1>4, SameRunning DEF Serve, InCallback, TypeOK
<1>5. ASSUME NEW t \in Threads, ProcessQueue(t) PROVE RunningExact'
  <2>1. InCallback = {}
    BY <1>5 DEF ProcessQueue, RunningExact
  <2>2. InCallback' = {t}
    BY <1>5, <2>1 DEF ProcessQueue, InCallback, TypeOK
  <2> QED BY <1>5, <2>2 DEF ProcessQueue, RunningExact
<1>6. ASSUME NEW t \in Threads, Release(t) PROVE RunningExact'
  <2>1. t \in InCallback
    BY <1>6 DEF Release, InCallback
  <2>2. InCallback' = {}
    BY <1>6, <2>1 DEF Release, InCallback, RunningExact, TypeOK
  <2> QED BY <1>6, <2>2 DEF Release, RunningExact
<1>7. ASSUME NEW t \in Threads,
             ProcessNothing(t) \/ CallbackReturns(t) \/ ProcessMaybe(t) \/ ProcessSchedule(t)
      PROVE RunningExact'
  <2>1. InCallback' = InCallback
    BY <1>7 DEF ProcessNothing, CallbackReturns, ProcessMaybe, ProcessSchedule, Back,
       InCallback, TypeOK
  <2> QED BY <1>7, <2>1, SameRunning
          DEF ProcessNothing, CallbackReturns, ProcessMaybe, ProcessSchedule
<1>8. ASSUME NEW t \in Threads, Stop(t) PROVE RunningExact'
  BY <1>8, SameRunning DEF Stop, InCallback
<1>9. CASE Flush \/ FlushCheck \/ Finished
  <2>1. CASE Finished
    BY <2>1, SameRunning DEF Finished, vars, InCallback
  <2>2. CASE FlushCheck
    BY <2>2, SameRunning DEF FlushCheck, InCallback, TypeOK, Threads
  <2>3. CASE Flush
    <3>1. Flusher \in Threads /\ pc[Flusher] = "out"
      BY <2>3 DEF Flush, FlusherOut, Threads
    <3> QED BY <2>3, <3>1, SameRunning DEF Flush, InCallback, TypeOK
  <2> QED BY <1>9, <2>1, <2>2, <2>3
<1> QED BY <1>1, <1>2, <1>3, <1>4, <1>5, <1>6, <1>7, <1>8, <1>9 DEF Next, ProcessStep

LEMMA FlusherStep == TypeOK /\ FlusherOut /\ [Next]_vars => FlusherOut'
<1> SUFFICES ASSUME TypeOK, FlusherOut, [Next]_vars, flushed' = "no"
             PROVE  pc'[Flusher] = "out"
  BY DEF FlusherOut
<1>1. flushed = "no" /\ pc[Flusher] = "out"
  BY DEF FlusherOut, Next, vars, Insert, InsertStep, InsertMaybe, InsertSchedule, Serve,
     ProcessStep, ProcessNothing, ProcessQueue, CallbackReturns, Release, ProcessMaybe,
     ProcessSchedule, Stop, Flush, FlushCheck, Finished
<1>2. Flusher \in Threads /\ Flusher \notin serving
  BY RunnerAssumption DEF Threads, TypeOK
<1> QED
  BY <1>1, <1>2 DEF TypeOK, Next, vars, Insert, InsertStep, InsertMaybe, InsertSchedule, Serve,
     ProcessStep, ProcessNothing, ProcessQueue, CallbackReturns, Release, ProcessMaybe,
     ProcessSchedule, Stop, Flush, FlushCheck, Finished

(* While a callback runs, its thread is on the way.                        *)
LEMMA RunningOnTheWay ==
  ASSUME RunningExact', m_are_callbacks_running'
  PROVE  OnTheWay'
<1>1. PICK t \in Threads : pc'[t] \in {"callback", "release"}
  BY DEF RunningExact, InCallback
<1> QED BY <1>1 DEF OnTheWay

LEMMA StrandedStep ==
  TypeOK /\ RunningExact' /\ NoneStranded /\ [Next]_vars => NoneStranded'
<1> SUFFICES ASSUME TypeOK, RunningExact', NoneStranded, [Next]_vars,
                    m_callbacks_pending' # <<>>
             PROVE  OnTheWay'
  BY DEF NoneStranded
<1>1. CASE UNCHANGED vars
  BY <1>1 DEF vars, NoneStranded, OnTheWay
<1>2. ASSUME NEW t \in Threads, Insert(t) PROVE OnTheWay'
  <2>1. ins'[t] = "maybe"
    BY <1>2 DEF Insert, TypeOK
  <2> QED BY <2>1 DEF OnTheWay
<1>3. ASSUME NEW t \in Threads, InsertMaybe(t) PROVE OnTheWay'
  <2>1. CASE NeedsSchedule
    <3>1. ins'[t] = "schedule"
      BY <1>3, <2>1 DEF InsertMaybe, TypeOK
    <3> QED BY <3>1 DEF OnTheWay
  <2>2. CASE ~NeedsSchedule
    <3>1. m_are_callbacks_running'
      BY <1>3, <2>2 DEF InsertMaybe, NeedsSchedule
    <3> QED BY <3>1, RunningOnTheWay
  <2> QED BY <2>1, <2>2
<1>4. ASSUME NEW t \in Threads, InsertSchedule(t) \/ ProcessSchedule(t) PROVE OnTheWay'
  <2>1. scheduled' > 0
    BY <1>4 DEF InsertSchedule, ProcessSchedule, TypeOK
  <2> QED BY <2>1 DEF OnTheWay
<1>5. ASSUME NEW t \in Threads, Serve(t) PROVE OnTheWay'
  <2>1. pc'[t] = "process"
    BY <1>5 DEF Serve, TypeOK
  <2> QED BY <2>1 DEF OnTheWay
<1>6. ASSUME NEW t \in Threads, ProcessNothing(t) PROVE OnTheWay'
  <2>1. m_are_callbacks_running'
    BY <1>6 DEF ProcessNothing
  <2> QED BY <2>1, RunningOnTheWay
<1>7. ASSUME NEW t \in Threads, ProcessQueue(t) \/ CallbackReturns(t) \/ Release(t)
      PROVE OnTheWay'
  <2>1. pc'[t] \in {"callback", "release", "maybe"}
    BY <1>7 DEF ProcessQueue, CallbackReturns, Release, TypeOK
  <2> QED BY <2>1 DEF OnTheWay
<1>8. ASSUME NEW t \in Threads, ProcessMaybe(t) PROVE OnTheWay'
  <2>1. CASE NeedsSchedule
    <3>1. pc'[t] = "schedule"
      BY <1>8, <2>1 DEF ProcessMaybe, TypeOK
    <3> QED BY <3>1 DEF OnTheWay
  <2>2. CASE ~NeedsSchedule
    <3>1. m_are_callbacks_running'
      BY <1>8, <2>2 DEF ProcessMaybe, NeedsSchedule
    <3> QED BY <3>1, RunningOnTheWay
  <2> QED BY <2>1, <2>2
<1>9. ASSUME NEW t \in Threads, Stop(t) PROVE OnTheWay'
  BY <1>9 DEF Stop, NoneStranded, OnTheWay
<1>10. CASE Flush \/ FlushCheck
  <2>1. pc'[Flusher] = "process" /\ Flusher \in Threads
    BY <1>10 DEF Flush, FlushCheck, TypeOK, Threads
  <2> QED BY <2>1 DEF OnTheWay
<1>11. CASE Finished
  BY <1>11 DEF Finished, vars, NoneStranded, OnTheWay
<1> QED BY <1>1, <1>2, <1>3, <1>4, <1>5, <1>6, <1>7, <1>8, <1>9, <1>10, <1>11
        DEF Next, InsertStep, ProcessStep

-----------------------------------------------------------------------------
(* The inductive invariant.                                                *)
THEOREM Inductive == Spec => []IInv
<1>1. Init => IInv
  <2> SUFFICES ASSUME Init PROVE IInv
    OBVIOUS
  <2>1. TypeOK
    <3>1. m_callbacks_pending \in Seq(Nat) /\ scheduled \in Nat /\ inserted \in Nat
      BY DEF Init
    <3>2. m_are_callbacks_running \in BOOLEAN /\ serving \subseteq Servers
      BY DEF Init
    <3>3. /\ pc \in [Threads -> {"out", "process", "callback", "release", "maybe", "schedule", "check"}]
          /\ ins \in [Threads -> {"out", "maybe", "schedule"}]
          /\ callback \in [Threads -> Nat]
      BY DEF Init
    <3> QED BY <3>1, <3>2, <3>3 DEF TypeOK
  <2>2. FlusherOut
    BY DEF Init, FlusherOut, Threads
  <2>3. RunningExact
    BY DEF Init, RunningExact, InCallback
  <2>4. NoneStranded
    BY DEF Init, NoneStranded
  <2> QED BY <2>1, <2>2, <2>3, <2>4 DEF IInv
<1>2. IInv /\ [Next]_vars => IInv'
  BY TypeStep, FlusherStep, RunningStep, StrandedStep DEF IInv
<1> QED BY <1>1, <1>2, PTL DEF Spec

(* m_are_callbacks_running tells exactly whether a callback runs, and at   *)
(* most one does.                                                          *)
THEOREM RunningCorrect == Spec => []RunningExact
<1>1. IInv => RunningExact
  BY DEF IInv
<1> QED BY <1>1, Inductive, PTL

(* Whatever threads insert, serve, stop and flush, a waiting callback has  *)
(* somebody who comes for it.                                              *)
THEOREM NoneLeftBehind == Spec => []NoneStranded
<1>1. IInv => NoneStranded
  BY DEF IInv
<1> QED BY <1>1, Inductive, PTL

-----------------------------------------------------------------------------
(* Refinement of SerialQueue.                                              *)

Current == {callback[t] : t \in Running}
AbstractVars == <<m_callbacks_pending, Current, inserted>>

(* Steps that neither start nor end a callback.                            *)
LEMMA SameCurrent ==
  ASSUME callback' = callback, Running' = Running
  PROVE  Current' = Current
  BY DEF Current

LEMMA RefinedStep == IInv /\ [Next]_vars => [Serial!Next]_AbstractVars
<1> SUFFICES ASSUME IInv, [Next]_vars PROVE [Serial!Next]_AbstractVars
  OBVIOUS
<1> USE DEF AbstractVars
<1>1. ASSUME UNCHANGED <<m_callbacks_pending, callback, inserted>>, Running' = Running
      PROVE  UNCHANGED AbstractVars
  BY <1>1, SameCurrent
<1>2. CASE UNCHANGED vars \/ Finished
  BY <1>1, <1>2 DEF vars, Finished, Running
<1>3. ASSUME NEW t \in Threads, Insert(t) PROVE Serial!Next
  <2>1. Current' = Current
    BY <1>3, SameCurrent DEF Insert, Running
  <2> QED BY <1>3, <2>1 DEF Insert, Serial!Next, Serial!Insert, Current
<1>4. ASSUME NEW t \in Threads, InsertStep(t) \/ Stop(t) PROVE UNCHANGED AbstractVars
  BY <1>1, <1>4 DEF InsertStep, InsertMaybe, InsertSchedule, Stop, Running
<1>5. ASSUME NEW t \in Threads, ProcessQueue(t) PROVE Serial!Next
  <2>1. InCallback = {} /\ t \in Threads
    BY <1>5 DEF IInv, ProcessQueue, RunningExact
  <2>2. Running = {} /\ Running' = {t}
    BY <1>5, <2>1 DEF IInv, TypeOK, ProcessQueue, Running, InCallback
  <2>3. callback'[t] = Head(m_callbacks_pending)
    BY <1>5 DEF IInv, TypeOK, ProcessQueue
  <2>4. Current = {} /\ Current' = {Head(m_callbacks_pending)}
    BY <2>2, <2>3 DEF Current
  <2> QED BY <1>5, <2>4 DEF ProcessQueue, Serial!Next, Serial!Start, Current
<1>6. ASSUME NEW t \in Threads, CallbackReturns(t) PROVE Serial!Next
  <2>1. \A s \in InCallback : s = t
    BY <1>6 DEF IInv, CallbackReturns, RunningExact, InCallback
  <2>2. t \in Running /\ Running' = {}
    BY <1>6, <2>1 DEF IInv, TypeOK, CallbackReturns, Running, InCallback
  <2>3. Current # {} /\ Current' = {}
    BY <2>2 DEF Current
  <2> QED BY <1>6, <2>3 DEF CallbackReturns, Serial!Next, Serial!Finish, Current
<1>7. ASSUME NEW t \in Threads,
             Serve(t) \/ ProcessNothing(t) \/ Release(t) \/ ProcessMaybe(t) \/ ProcessSchedule(t)
      PROVE UNCHANGED AbstractVars
  <2>1. Running' = Running
    BY <1>7 DEF IInv, TypeOK, Serve, ProcessNothing, Release, ProcessMaybe, ProcessSchedule,
       Back, Running
  <2> QED BY <1>1, <1>7, <2>1 DEF Serve, ProcessNothing, Release, ProcessMaybe, ProcessSchedule
<1>8. CASE Flush \/ FlushCheck
  <2>1. Flusher \in Threads /\ pc[Flusher] # "callback"
    BY <1>8 DEF IInv, FlusherOut, Flush, FlushCheck, Threads
  <2>2. Running' = Running
    BY <1>8, <2>1 DEF IInv, TypeOK, Flush, FlushCheck, Running
  <2> QED BY <1>1, <1>8, <2>2 DEF Flush, FlushCheck
<1> QED BY <1>2, <1>3, <1>4, <1>5, <1>6, <1>7, <1>8 DEF Next, ProcessStep

(* The task runner keeps the promise of its class comment: every step of   *)
(* its threads is a step of SerialQueue or invisible there.                *)
THEOREM Refinement == Spec => ImplementsSerialQueue
<1>1. Init => Serial!Init
  BY DEF Init, Serial!Init, Running
<1> QED BY <1>1, RefinedStep, Inductive, PTL
        DEF Spec, ImplementsSerialQueue, Serial!Spec, AbstractVars, Current

-----------------------------------------------------------------------------
(* The scheduler.                                                          *)

Tasks == [id : Nat, time : Int, repeat : BOOLEAN]

Places == {"start", "head", "wait", "wait_until", "woken", "run", "notify", "exit"}

SchedulerTypeOK ==
  /\ now \in Nat /\ calls \in Nat
  /\ taskQueue \in Seq(Tasks)
  /\ stopRequested \in BOOLEAN /\ stopWhenEmpty \in BOOLEAN
  /\ place \in [ServiceThreads -> Places]
  /\ deadline \in [ServiceThreads -> Int]
  /\ task \in [ServiceThreads -> Tasks \cup {None}]
  /\ \A t \in ServiceThreads : place[t] = "run" => task[t] \in Tasks

(* Of the threads that serve the queue, t is the only one.                 *)
Alone(t) == \A s \in ServiceThreads \ {t} : place[s] = "start"

(* As long as one thread serves the queue nobody else takes the first task *)
(* away, so that it is there and due when the thread's wait is over.       *)
FirstTaskDue ==
  \A t \in ServiceThreads :
    Alone(t) /\ place[t] \in {"wait_until", "woken"} =>
      taskQueue # <<>> /\ Head(taskQueue).time <= deadline[t]

DueInv == SchedulerTypeOK /\ FirstTaskDue /\ NotEarly

LEMMA InsertedIs ==
  ASSUME NEW q \in Seq(Tasks), NEW new \in Tasks
  PROVE  /\ Inserted(q, new) \in Seq(Tasks)
         /\ Inserted(q, new) # <<>>
         /\ q # <<>> => Head(Inserted(q, new)).time <= Head(q).time
<1> DEFINE earlier == {i \in DOMAIN q : q[i].time <= new.time}
           n == Cardinality(earlier)
<1>1. IsFiniteSet(earlier) /\ n \in Nat /\ n <= Len(q)
  <2>1. IsFiniteSet(1..Len(q)) /\ Cardinality(1..Len(q)) = Len(q) /\ earlier \subseteq 1..Len(q)
    <3>1. Len(q) \in Nat /\ DOMAIN q = 1..Len(q)
      OBVIOUS
    <3>2. IsFiniteSet(1..Len(q)) /\ Cardinality(1..Len(q)) = Len(q)
      BY <3>1, FS_Interval
    <3> QED BY <3>1, <3>2
  <2> QED BY <2>1, FS_Subset, FS_CardinalityType
<1>2. n = 0 => earlier = {}
  BY <1>1, FS_EmptySet
<1> HIDE DEF n
<1> DEFINE before == SubSeq(q, 1, n)
           after == SubSeq(q, n + 1, Len(q))
<1>3. Inserted(q, new) = before \o <<new>> \o after
  <2>1. Inserted(q, new) = InsertAt(q, n + 1, new)
    BY DEF Inserted, n
  <2>2. (n + 1) - 1 = n
    BY <1>1
  <2> QED BY <2>1, <2>2 DEF InsertAt
<1>4. before \in Seq(Tasks) /\ Len(before) = n /\ after \in Seq(Tasks)
      /\ (n > 0 => before[1] = q[1])
  BY <1>1
<1> HIDE DEF before, after
<1>5. /\ before \o <<new>> \o after \in Seq(Tasks)
      /\ Len(before \o <<new>> \o after) > 0
      /\ (before \o <<new>> \o after)[1] = IF n > 0 THEN before[1] ELSE new
  BY <1>1, <1>4
<1>6. ASSUME q # <<>>, n = 0 PROVE new.time <= q[1].time
  <2>1. 1 \in DOMAIN q /\ q[1] \in Tasks
    BY <1>6
  <2>2. ~(q[1].time <= new.time)
    BY <1>2, <1>6, <2>1
  <2> QED BY <2>1, <2>2 DEF Tasks
<1>7. ASSUME q # <<>> PROVE q[1].time \in Int
  <2>1. q[1] \in Tasks
    BY <1>7
  <2> QED BY <2>1 DEF Tasks
<1> QED BY <1>1, <1>3, <1>4, <1>5, <1>6, <1>7

(* notify_one: the others stay where they are, the one that was woken looks *)
(* again.                                                                  *)
Moved(p, x) ==
  \A s \in ServiceThreads :
    \/ x[s] = p[s]
    \/ p[s] = "wait" /\ x[s] = "head"
    \/ p[s] = "wait_until" /\ x[s] = "woken"

LEMMA WokenOneIs ==
  ASSUME NEW p \in [ServiceThreads -> Places], NEW x \in WokenOne(p), place \in [ServiceThreads -> Places],
         \A s \in ServiceThreads : place[s] \in {"wait", "wait_until"} => p[s] = place[s]
  PROVE  x \in [ServiceThreads -> Places] /\ Moved(p, x)
<1>1. CASE x = p
  BY <1>1 DEF Moved
<1>2. CASE \E t \in Waiting : x = Woken(p, t)
  <2>1. PICK t \in ServiceThreads : place[t] \in {"wait", "wait_until"} /\ x = Woken(p, t)
    BY <1>2 DEF Waiting
  <2>2. x = [p EXCEPT ![t] = IF p[t] = "wait" THEN "head" ELSE "woken"]
    BY <2>1 DEF Woken
  <2> QED BY <2>1, <2>2 DEF Moved, Places
<1> QED BY <1>1, <1>2 DEF WokenOne

-----------------------------------------------------------------------------
(* Types, and NotEarly.                                                    *)

LEMMA DueInit == SchedulerInit => DueInv
<1> SUFFICES ASSUME SchedulerInit PROVE DueInv
  OBVIOUS
<1> USE DEF SchedulerInit
<1>1. SchedulerTypeOK
  <2>1. taskQueue \in Seq(Tasks)
    OBVIOUS
  <2>2. place \in [ServiceThreads -> Places] /\ \A t \in ServiceThreads : place[t] # "run"
    BY DEF Places
  <2>3. deadline \in [ServiceThreads -> Int] /\ task \in [ServiceThreads -> Tasks \cup {None}]
    OBVIOUS
  <2> QED BY <2>1, <2>2, <2>3 DEF SchedulerTypeOK
<1>2. FirstTaskDue /\ NotEarly
  BY DEF FirstTaskDue, NotEarly
<1> QED BY <1>1, <1>2 DEF DueInv

(* A step that moves threads only as a notification does, takes nothing    *)
(* from the queue and brings no later task to its front.                   *)
LEMMA QueueOnly ==
  ASSUME DueInv, SchedulerTypeOK', Moved(place, place'), deadline' = deadline, task' = task,
         now' >= now, taskQueue' = taskQueue \/
           (taskQueue # <<>> => taskQueue' # <<>> /\ Head(taskQueue').time <= Head(taskQueue).time)
  PROVE  DueInv'
<1>1. ASSUME NEW t \in ServiceThreads, Alone(t)' PROVE Alone(t)
  BY <1>1 DEF Alone, Moved, DueInv, SchedulerTypeOK, Places
<1>2. FirstTaskDue'
  <2> SUFFICES ASSUME NEW t \in ServiceThreads, Alone(t)', place'[t] \in {"wait_until", "woken"}
               PROVE  taskQueue' # <<>> /\ Head(taskQueue').time <= deadline'[t]
    BY DEF FirstTaskDue, Alone
  <2>1. place[t] \in {"wait_until", "woken"} /\ Alone(t)
    BY <1>1 DEF Moved
  <2>2. taskQueue # <<>> /\ Head(taskQueue).time <= deadline[t]
    BY <2>1 DEF DueInv, FirstTaskDue
  <2>3. CASE taskQueue' = taskQueue
    BY <2>2, <2>3
  <2>4. CASE taskQueue' # taskQueue
    <3>1. taskQueue' # <<>> /\ Head(taskQueue').time <= Head(taskQueue).time
      BY <2>2, <2>4
    <3>2. Head(taskQueue) \in Tasks /\ Head(taskQueue') \in Tasks /\ deadline[t] \in Int
      BY <2>2, <3>1 DEF DueInv, SchedulerTypeOK
    <3> QED BY <2>2, <3>1, <3>2 DEF Tasks
  <2> QED BY <2>3, <2>4
<1>3. NotEarly'
  <2> SUFFICES ASSUME NEW t \in ServiceThreads, Alone(t)', place'[t] = "run"
               PROVE  task'[t].time <= now'
    BY DEF NotEarly, Alone
  <2>1. place[t] = "run" /\ Alone(t)
    BY <1>1 DEF Moved
  <2>2. task[t].time <= now /\ task[t] \in Tasks
    BY <2>1 DEF DueInv, NotEarly, Alone, SchedulerTypeOK
  <2> QED BY <2>2 DEF Tasks, DueInv, SchedulerTypeOK
<1> QED BY <1>2, <1>3 DEF DueInv

LEMMA Notified ==
  ASSUME SchedulerTypeOK, ClientNotifies \/ \E t \in ServiceThreads : SpuriousWake(t)
  PROVE  place' \in [ServiceThreads -> Places] /\ Moved(place, place')
<1> USE DEF SchedulerTypeOK
<1>1. CASE place' \in WokenOne(place)
  BY <1>1, WokenOneIs
<1>2. CASE place' = [t \in ServiceThreads |-> IF t \in Waiting THEN Woken(place, t)[t] ELSE place[t]]
  BY <1>2 DEF Moved, Waiting, Woken, Places
<1>3. ASSUME NEW t \in ServiceThreads, SpuriousWake(t)
      PROVE  place' \in [ServiceThreads -> Places] /\ Moved(place, place')
  BY <1>3 DEF SpuriousWake, Moved, Waiting, Woken, Places
<1> QED BY <1>1, <1>2, <1>3 DEF ClientNotifies

LEMMA ClientStep ==
  ASSUME DueInv,
         \/ \E time \in 0 .. MaxTime, repeat \in BOOLEAN : Schedule(time, repeat)
         \/ MockForward(1) \/ StopRequest \/ StopWhenDrained \/ ClientNotifies
         \/ Tick \/ \E t \in ServiceThreads : SpuriousWake(t)
  PROVE  DueInv'
<1>0. SchedulerTypeOK
  BY DEF DueInv
<1> USE DEF SchedulerTypeOK
<1>1. ASSUME NEW time \in 0 .. MaxTime, NEW repeat \in BOOLEAN, Schedule(time, repeat)
      PROVE  DueInv'
  <2> DEFINE new == [id |-> calls + 1, time |-> time, repeat |-> repeat]
  <2>1. new \in Tasks
    BY <1>0, SchedulerAssumption DEF SchedulerAssumption, Tasks
  <2>2. /\ taskQueue' = Inserted(taskQueue, new) /\ calls' = calls + 1
        /\ UNCHANGED <<now, stopRequested, stopWhenEmpty, place, deadline, task>>
    BY <1>1 DEF Schedule
  <2> HIDE DEF new
  <2>3. /\ taskQueue' \in Seq(Tasks) /\ taskQueue' # <<>>
        /\ taskQueue # <<>> => Head(taskQueue').time <= Head(taskQueue).time
    BY <1>0, <2>1, <2>2, InsertedIs
  <2>4. SchedulerTypeOK'
    BY <1>0, <2>2, <2>3
  <2>5. Moved(place, place')
    BY <2>2 DEF Moved
  <2> QED BY <1>0, <2>2, <2>3, <2>4, <2>5, QueueOnly
<1>2. CASE MockForward(1)
  <2> DEFINE later(x) == [x EXCEPT !.time = @ - 1]
  <2>1. /\ taskQueue # <<>> /\ taskQueue' = [i \in DOMAIN taskQueue |-> later(taskQueue[i])]
        /\ UNCHANGED <<now, calls, stopRequested, stopWhenEmpty, place, deadline, task>>
    BY <1>2 DEF MockForward
  <2>2. \A x \in Tasks : later(x) \in Tasks /\ later(x).time <= x.time
    BY DEF Tasks
  <2> HIDE DEF later
  <2>3. DOMAIN taskQueue = 1..Len(taskQueue) /\ Len(taskQueue) \in Nat /\ Len(taskQueue) > 0
        /\ \A i \in 1..Len(taskQueue) : taskQueue[i] \in Tasks
    BY <1>0, <2>1
  <2>4. taskQueue' \in Seq(Tasks) /\ Len(taskQueue') = Len(taskQueue)
        /\ taskQueue'[1] = later(taskQueue[1])
    BY <2>1, <2>2, <2>3
  <2>5. taskQueue' # <<>> /\ Head(taskQueue').time <= Head(taskQueue).time
    BY <2>2, <2>3, <2>4
  <2>6. SchedulerTypeOK' /\ Moved(place, place')
    BY <1>0, <2>1, <2>4 DEF Moved
  <2> QED BY <1>0, <2>1, <2>5, <2>6, QueueOnly
<1>3. CASE StopRequest \/ StopWhenDrained
  <2>1. /\ stopRequested' \in BOOLEAN /\ stopWhenEmpty' \in BOOLEAN
        /\ UNCHANGED <<now, calls, taskQueue, place, deadline, task>>
    BY <1>0, <1>3 DEF StopRequest, StopWhenDrained
  <2>2. SchedulerTypeOK' /\ Moved(place, place')
    BY <1>0, <2>1 DEF Moved
  <2> QED BY <1>0, <2>1, <2>2, QueueOnly
<1>4. CASE ClientNotifies \/ \E t \in ServiceThreads : SpuriousWake(t)
  <2>1. UNCHANGED <<now, calls, taskQueue, stopRequested, stopWhenEmpty, deadline, task>>
    BY <1>4 DEF ClientNotifies, SpuriousWake, queueVars
  <2>2. place' \in [ServiceThreads -> Places] /\ Moved(place, place')
    BY <1>0, <1>4, Notified
  <2>3. SchedulerTypeOK'
    BY <1>0, <2>1, <2>2 DEF Moved
  <2> QED BY <1>0, <2>1, <2>2, <2>3, QueueOnly
<1>5. CASE Tick
  <2>1. now' = now + 1 /\ UNCHANGED <<calls, taskQueue, stopRequested, stopWhenEmpty, place, deadline, task>>
    BY <1>5 DEF Tick, queueVars
  <2>2. SchedulerTypeOK' /\ Moved(place, place') /\ now' >= now
    BY <1>0, <2>1 DEF Moved
  <2> QED BY <1>0, <2>1, <2>2, QueueOnly
<1> QED BY <1>1, <1>2, <1>3, <1>4, <1>5

(* Of the other threads a step of t moves only those that it notifies.     *)
OthersMoved(t) == \A s \in ServiceThreads \ {t} : place'[s] = "start" => place[s] = "start"

LEMMA AfterService ==
  ASSUME DueInv, NEW t \in ServiceThreads, SchedulerTypeOK', OthersMoved(t), place'[t] # "start",
         (Alone(t) /\ place'[t] \in {"wait_until", "woken"}) =>
            taskQueue' # <<>> /\ Head(taskQueue').time <= deadline'[t],
         Alone(t) /\ place'[t] = "run" => task'[t].time <= now'
  PROVE  DueInv'
<1>1. ASSUME NEW u \in ServiceThreads, Alone(u)' PROVE u = t /\ Alone(t)
  BY <1>1 DEF Alone, OthersMoved
<1>2. FirstTaskDue'
  <2> SUFFICES ASSUME NEW u \in ServiceThreads, Alone(u)', place'[u] \in {"wait_until", "woken"}
               PROVE  taskQueue' # <<>> /\ Head(taskQueue').time <= deadline'[u]
    BY DEF FirstTaskDue, Alone
  <2> QED BY <1>1
<1>3. NotEarly'
  <2> SUFFICES ASSUME NEW u \in ServiceThreads, Alone(u)', place'[u] = "run"
               PROVE  task'[u].time <= now'
    BY DEF NotEarly, Alone
  <2> QED BY <1>1
<1> QED BY <1>2, <1>3 DEF DueInv

LEMMA ServiceStepDue ==
  ASSUME DueInv, NEW t \in ServiceThreads, ServiceStep(t)
  PROVE  DueInv'
<1>0. SchedulerTypeOK
  BY DEF DueInv
<1> USE DEF SchedulerTypeOK, OthersMoved
<1>1. CASE ServiceWait(t) \/ ServiceContinue(t)
  <2>1. /\ place' = [place EXCEPT ![t] = "wait"] \/ place' = [place EXCEPT ![t] = "head"]
        /\ UNCHANGED <<now, calls, taskQueue, stopRequested, stopWhenEmpty, deadline, task>>
    BY <1>1 DEF ServiceWait, ServiceContinue, queueVars
  <2>2. SchedulerTypeOK' /\ OthersMoved(t) /\ place'[t] \in {"wait", "head"}
    BY <1>0, <2>1 DEF Places
  <2> QED BY <2>2, AfterService
<1>2. CASE ServiceWaitUntil(t)
  <2>1. /\ taskQueue # <<>> /\ place' = [place EXCEPT ![t] = "wait_until"]
        /\ deadline' = [deadline EXCEPT ![t] = Head(taskQueue).time]
        /\ UNCHANGED <<now, calls, taskQueue, stopRequested, stopWhenEmpty, task>>
    BY <1>2 DEF ServiceWaitUntil
  <2>2. Head(taskQueue) \in Tasks
    BY <1>0, <2>1
  <2>3. Head(taskQueue).time \in Int
    BY <2>2 DEF Tasks
  <2>4. SchedulerTypeOK' /\ OthersMoved(t) /\ place'[t] = "wait_until"
    BY <1>0, <2>1, <2>3 DEF Places
  <2>5. deadline'[t] = Head(taskQueue).time
    BY <1>0, <2>1
  <2> QED BY <2>1, <2>3, <2>4, <2>5, AfterService
<1>3. CASE ServiceExit(t) \/ RepeatNotifies(t)
  <2>1. PICK x \in {"exit", "head"} : place' \in WokenOne([place EXCEPT ![t] = x])
    BY <1>3 DEF ServiceExit, RepeatNotifies
  <2>2. place[t] \in {"start", "head", "woken", "notify"}
    BY <1>3 DEF ServiceExit, RepeatNotifies, AtHead
  <2> DEFINE p == [place EXCEPT ![t] = x]
  <2>3. p \in [ServiceThreads -> Places] /\ p[t] = x
        /\ \A s \in ServiceThreads \ {t} : p[s] = place[s]
    BY <1>0 DEF Places
  <2>4. place' \in WokenOne(p)
    BY <2>1
  <2> HIDE DEF p
  <2>5. place' \in [ServiceThreads -> Places] /\ Moved(p, place')
    BY <1>0, <2>2, <2>3, <2>4, WokenOneIs
  <2>6. /\ UNCHANGED <<now, calls, taskQueue, stopRequested, stopWhenEmpty, deadline, task>>
    BY <1>3 DEF ServiceExit, RepeatNotifies, queueVars
  <2>7. /\ place'[t] = x
        /\ \A s \in ServiceThreads \ {t} : place'[s] \in {"start", "run"} => place'[s] = place[s]
    BY <2>3, <2>5 DEF Moved
  <2>8. SchedulerTypeOK'
    BY <1>0, <2>5, <2>6, <2>7
  <2> QED BY <2>7, <2>8, AfterService
<1>4. CASE ServiceTake(t)
  <2>1. /\ taskQueue # <<>> /\ place' = [place EXCEPT ![t] = "run"]
        /\ task' = [task EXCEPT ![t] = Head(taskQueue)] /\ taskQueue' = Tail(taskQueue)
        /\ UNCHANGED <<now, calls, stopRequested, stopWhenEmpty, deadline>>
    BY <1>4 DEF ServiceTake
  <2>2. place[t] \in {"wait_until", "woken"} /\ now >= deadline[t]
    BY <1>4 DEF ServiceTake, TimedOut
  <2>3. Head(taskQueue) \in Tasks /\ Tail(taskQueue) \in Seq(Tasks)
    BY <1>0, <2>1
  <2>4. SchedulerTypeOK' /\ OthersMoved(t) /\ place'[t] = "run" /\ task'[t] = Head(taskQueue)
    BY <1>0, <2>1, <2>3 DEF Places
  <2>5. ASSUME Alone(t) PROVE Head(taskQueue).time <= now
    <3>1. Head(taskQueue).time <= deadline[t]
      BY <2>2, <2>5 DEF DueInv, FirstTaskDue
    <3> QED BY <1>0, <2>2, <2>3, <3>1 DEF Tasks
  <2> QED BY <2>1, <2>4, <2>5, AfterService
<1>5. CASE TaskReturns(t)
  <2>1. /\ place' = [place EXCEPT ![t] = "head"] /\ task' = [task EXCEPT ![t] = None]
        /\ UNCHANGED <<now, calls, taskQueue, stopRequested, stopWhenEmpty, deadline>>
    BY <1>5 DEF TaskReturns, queueVars
  <2>2. SchedulerTypeOK' /\ OthersMoved(t) /\ place'[t] = "head"
    BY <1>0, <2>1 DEF Places
  <2> QED BY <2>2, AfterService
<1>6. CASE Repeat(t)
  <2> DEFINE again == [task[t] EXCEPT !.time = now + Delta]
  <2>1. /\ place[t] = "run" /\ place' = [place EXCEPT ![t] = "notify"] /\ task' = [task EXCEPT ![t] = None]
        /\ taskQueue' = Inserted(taskQueue, again)
        /\ UNCHANGED <<now, calls, stopRequested, stopWhenEmpty, deadline>>
    BY <1>6 DEF Repeat
  <2>2. task[t] \in Tasks /\ now + Delta \in Int
    BY <1>0, <2>1, SchedulerAssumption DEF SchedulerAssumption
  <2>3. again \in Tasks
    BY <2>2 DEF Tasks
  <2> HIDE DEF again
  <2>4. taskQueue' \in Seq(Tasks)
    BY <1>0, <2>1, <2>3, InsertedIs
  <2>5. SchedulerTypeOK' /\ OthersMoved(t) /\ place'[t] = "notify"
    BY <1>0, <2>1, <2>4 DEF Places
  <2> QED BY <2>5, AfterService
<1> QED BY <1>1, <1>2, <1>3, <1>4, <1>5, <1>6 DEF ServiceStep

LEMMA DueStep == ASSUME DueInv, [SchedulerNext]_schedulerVars PROVE DueInv'
<1>1. CASE UNCHANGED schedulerVars
  <2>1. UNCHANGED <<now, calls, taskQueue, stopRequested, stopWhenEmpty, place, deadline, task>>
    BY <1>1 DEF schedulerVars, queueVars
  <2> QED BY <2>1 DEF DueInv, SchedulerTypeOK, FirstTaskDue, Alone, NotEarly
<1>2. ASSUME NEW t \in ServiceThreads, ServiceStep(t) PROVE DueInv'
  BY <1>2, ServiceStepDue
<1> QED BY <1>1, <1>2, ClientStep DEF SchedulerNext, Joined, EndOfTime

(* Whatever is scheduled, moved forward or repeated while the one thread   *)
(* that serves the queue waits, and however often it wakes up: it runs no  *)
(* task before its time.                                                   *)
THEOREM NotEarlyCorrect == SchedulerSpec => []NotEarly
<1>1. DueInv /\ [SchedulerNext]_schedulerVars => DueInv'
  BY DueStep
<1>2. DueInv => NotEarly
  BY DEF DueInv
<1> QED BY <1>1, <1>2, DueInit, PTL DEF SchedulerSpec

-----------------------------------------------------------------------------
(* What ~CScheduler asserts.                                               *)

Serving(p) == {t \in ServiceThreads : p[t] \notin {"start", "exit"}}

(* nThreadsServicingQueue counts the threads in serviceQueue.  A thread    *)
(* ends only when it was told to, and the last one leaves the queue empty  *)
(* if it was to be drained: nobody is left then who could add to it.       *)
Ended ==
  /\ nThreadsServicingQueue = Cardinality(Serving(place))
  /\ ~(stopRequested /\ stopWhenEmpty)
  /\ \A t \in ServiceThreads : place[t] = "exit" => stopRequested \/ stopWhenEmpty
  /\ stopWhenEmpty /\ (\A t \in ServiceThreads : place[t] = "exit") => taskQueue = <<>>

LEMMA MovedServing ==
  ASSUME NEW p, NEW x, Moved(p, x)
  PROVE  Serving(x) = Serving(p) /\ \A t \in ServiceThreads : x[t] = "exit" <=> p[t] = "exit"
BY DEF Moved, Serving

(* Steps that change nothing but the queue, the flags and who waits.       *)
LEMMA EndedKept ==
  ASSUME Ended, Moved(place, place'), nThreadsServicingQueue' = nThreadsServicingQueue,
         ~(stopRequested' /\ stopWhenEmpty'),
         stopRequested => stopRequested', stopWhenEmpty => stopWhenEmpty',
         (stopWhenEmpty' /\ taskQueue' # <<>>) =>
            \/ \E t \in ServiceThreads : place[t] # "exit"
            \/ stopWhenEmpty /\ taskQueue # <<>>
  PROVE  Ended'
BY MovedServing DEF Ended

LEMMA ClientEnds ==
  ASSUME Ended, SchedulerTypeOK, NEW server \in ServiceThreads,
         \/ \E time \in 0 .. MaxTime, repeat \in BOOLEAN : Schedule(time, repeat)
         \/ MockForward(1) \/ StopRequest \/ StopWhenDrained \/ ClientNotifies
         \/ Tick \/ \E t \in ServiceThreads : SpuriousWake(t)
  PROVE  Ended'
<1>0. Moved(place, place)
  BY DEF Moved
<1>1. ASSUME NEW time \in 0 .. MaxTime, NEW repeat \in BOOLEAN, Schedule(time, repeat)
      PROVE  Ended'
  BY <1>0, <1>1, EndedKept DEF Schedule
<1>2. CASE MockForward(1)
  BY <1>0, <1>2, EndedKept DEF MockForward, Ended
<1>3. CASE StopRequest
  BY <1>0, <1>3, EndedKept DEF StopRequest
<1>4. CASE StopWhenDrained
  <2>1. \A t \in ServiceThreads : place[t] # "exit"
    BY <1>4 DEF StopWhenDrained, Ended
  <2> QED BY <1>0, <1>4, <2>1, EndedKept DEF StopWhenDrained
<1>5. CASE ClientNotifies \/ \E t \in ServiceThreads : SpuriousWake(t)
  <2>1. UNCHANGED <<taskQueue, stopRequested, stopWhenEmpty, nThreadsServicingQueue>>
    BY <1>5 DEF ClientNotifies, SpuriousWake, queueVars
  <2>2. Moved(place, place')
    BY <1>5, Notified
  <2> QED BY <2>1, <2>2, EndedKept DEF Ended
<1>6. CASE Tick
  BY <1>0, <1>6, EndedKept DEF Tick, queueVars, Ended
<1> QED BY <1>1, <1>2, <1>3, <1>4, <1>5, <1>6

LEMMA ServiceEnds ==
  ASSUME Ended, SchedulerTypeOK, NEW t \in ServiceThreads, ServiceStep(t)
  PROVE  Ended'
<1>0. IsFiniteSet(Serving(place)) /\ Cardinality(Serving(place)) \in Nat
  <2>1. IsFiniteSet(ServiceThreads) /\ Serving(place) \subseteq ServiceThreads
    BY SchedulerAssumption DEF SchedulerAssumption, Serving
  <2> QED BY <2>1, FS_Subset, FS_CardinalityType
(* The thread stays in serviceQueue or, at the head of the loop, enters.   *)
<1>1. ASSUME place' = [place EXCEPT ![t] = place'[t]], place'[t] \notin {"start", "exit"}, place[t] # "exit",
             nThreadsServicingQueue' = Counted(t), UNCHANGED <<stopRequested, stopWhenEmpty>>
      PROVE  Ended'
  <2>1. \A s \in ServiceThreads : s # t => place'[s] = place[s]
    BY <1>1 DEF SchedulerTypeOK
  <2>2. CASE place[t] = "start"
    <3>1. Serving(place') = Serving(place) \cup {t} /\ t \notin Serving(place)
      BY <1>1, <2>1, <2>2 DEF Serving
    <3>2. Cardinality(Serving(place')) = Cardinality(Serving(place)) + 1
      BY <1>0, <3>1, FS_AddElement
    <3> QED BY <1>1, <2>1, <2>2, <3>2 DEF Ended, Counted
  <2>3. CASE place[t] # "start"
    <3>1. Serving(place') = Serving(place)
      BY <1>1, <2>1, <2>3 DEF Serving
    <3> QED BY <1>1, <2>1, <2>3, <3>1 DEF Ended, Counted
  <2> QED BY <2>2, <2>3
<1>2. CASE ServiceWait(t) \/ ServiceWaitUntil(t)
  BY <1>1, <1>2 DEF ServiceWait, ServiceWaitUntil, AtHead, SchedulerTypeOK
<1>3. CASE ServiceTake(t) \/ ServiceContinue(t) \/ TaskReturns(t) \/ Repeat(t)
  BY <1>1, <1>3 DEF ServiceTake, ServiceContinue, TaskReturns, Repeat, TimedOut,
     Counted, queueVars, SchedulerTypeOK
<1>4. CASE ServiceExit(t)
  <2> DEFINE p == [place EXCEPT ![t] = "exit"]
  <2>1. /\ place[t] \in {"start", "head", "woken"} /\ place' \in WokenOne(p)
        /\ nThreadsServicingQueue' = Counted(t) - 1
        /\ stopRequested \/ (stopWhenEmpty /\ taskQueue = <<>>)
        /\ UNCHANGED <<taskQueue, stopRequested, stopWhenEmpty>>
    BY <1>4 DEF ServiceExit, AtHead, shouldStop
  <2>2. p \in [ServiceThreads -> Places] /\ p[t] = "exit" /\ \A s \in ServiceThreads : s # t => p[s] = place[s]
    BY DEF SchedulerTypeOK, Places
  <2> HIDE DEF p
  <2>3. Moved(p, place')
    BY <2>1, <2>2, WokenOneIs DEF SchedulerTypeOK
  <2>4. Serving(place') = Serving(p)
    BY <2>3, MovedServing
  <2>5. Serving(p) = Serving(place) \ {t}
    BY <2>2 DEF Serving
  <2>6. Cardinality(Serving(place')) =
          IF place[t] = "start" THEN Cardinality(Serving(place)) ELSE Cardinality(Serving(place)) - 1
    <3>1. place[t] = "start" => t \notin Serving(place)
      BY DEF Serving
    <3>2. place[t] # "start" => t \in Serving(place)
      BY <2>1 DEF Serving
    <3>3. CASE place[t] = "start"
      BY <2>4, <2>5, <3>1, <3>3
    <3>4. CASE place[t] # "start"
      <4>1. t \in Serving(place)
        BY <3>2, <3>4
      <4>2. Cardinality(Serving(place) \ {t}) = Cardinality(Serving(place)) - 1
        BY <1>0, <4>1, FS_RemoveElement
      <4> QED BY <2>4, <2>5, <3>4, <4>2
    <3> QED BY <3>3, <3>4
  <2> QED BY <1>0, <2>1, <2>6 DEF Ended, Counted
<1>5. CASE RepeatNotifies(t)
  <2> DEFINE p == [place EXCEPT ![t] = "head"]
  <2>1. /\ place[t] = "notify" /\ place' \in WokenOne(p)
        /\ UNCHANGED <<taskQueue, stopRequested, stopWhenEmpty, nThreadsServicingQueue>>
    BY <1>5 DEF RepeatNotifies, queueVars
  <2>2. p \in [ServiceThreads -> Places] /\ p[t] = "head" /\ \A s \in ServiceThreads : s # t => p[s] = place[s]
    BY DEF SchedulerTypeOK, Places
  <2> HIDE DEF p
  <2>3. Moved(p, place')
    BY <2>1, <2>2, WokenOneIs DEF SchedulerTypeOK
  <2>4. Serving(place') = Serving(p) /\ \A s \in ServiceThreads : place'[s] = "exit" <=> p[s] = "exit"
    BY <2>3, MovedServing
  <2>5. Serving(p) = Serving(place) /\ \A s \in ServiceThreads : place'[s] = "exit" <=> place[s] = "exit"
    BY <2>1, <2>2, <2>4 DEF Serving
  <2> QED BY <2>1, <2>4, <2>5 DEF Ended
<1> QED BY <1>2, <1>3, <1>4, <1>5 DEF ServiceStep

(* If at least one thread serves the queue, a scheduler that was told to   *)
(* stop when it is empty leaves nothing behind when all its threads have   *)
(* ended, not even what a running task scheduled after others had ended.   *)
THEOREM DrainedCorrect ==
  ASSUME ServiceThreads # {} PROVE SchedulerSpec => []DrainedEmpty
<1>1. SchedulerInit => Ended
  <2> SUFFICES ASSUME SchedulerInit PROVE Ended
    OBVIOUS
  <2>1. Serving(place) = {}
    BY DEF SchedulerInit, Serving
  <2> QED BY <2>1, FS_EmptySet DEF SchedulerInit, Ended
<1>2. Ended /\ DueInv /\ [SchedulerNext]_schedulerVars => Ended'
  <2> SUFFICES ASSUME Ended, SchedulerTypeOK, [SchedulerNext]_schedulerVars PROVE Ended'
    BY DEF DueInv
  <2>1. CASE UNCHANGED schedulerVars
    <3>1. UNCHANGED <<taskQueue, stopRequested, stopWhenEmpty, place, nThreadsServicingQueue>>
      BY <2>1 DEF schedulerVars, queueVars
    <3> QED BY <3>1 DEF Ended
  <2>2. ASSUME NEW t \in ServiceThreads, ServiceStep(t) PROVE Ended'
    BY <2>2, ServiceEnds
  <2>3. PICK server \in ServiceThreads : TRUE
    OBVIOUS
  <2> QED BY <2>1, <2>2, <2>3, ClientEnds DEF SchedulerNext, Joined, EndOfTime
<1>3. DueInv /\ [SchedulerNext]_schedulerVars => DueInv'
  BY DueStep
<1>4. Ended => DrainedEmpty
  <2> SUFFICES ASSUME Ended, stopWhenEmpty, \A t \in ServiceThreads : place[t] = "exit"
               PROVE  taskQueue = <<>> /\ nThreadsServicingQueue = 0
    BY DEF DrainedEmpty
  <2>1. Serving(place) = {}
    BY DEF Serving
  <2> QED BY <2>1, FS_EmptySet DEF Ended
<1> QED BY <1>1, <1>2, <1>3, <1>4, DueInit, PTL DEF SchedulerSpec
=============================================================================
