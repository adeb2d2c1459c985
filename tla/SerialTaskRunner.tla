-------------------------- MODULE SerialTaskRunner --------------------------
(***************************************************************************)
(* SerialTaskRunner (src/scheduler.cpp), which runs the callbacks of the   *)
(* validation interface.  Any thread may insert a callback, also one that  *)
(* runs inside a callback; the threads of the scheduler run ProcessQueue   *)
(* as often as it was scheduled, several of them at once.                  *)
(*                                                                         *)
(* A section of m_callbacks_mutex is one step.  The scheduler is what it   *)
(* promises: a scheduled task is run once, by some thread, unless the      *)
(* scheduler is stopped, after which flush runs what is left.              *)
(***************************************************************************)
EXTENDS Integers, Sequences

CONSTANTS
  Clients,      \* threads that insert
  Servers,      \* threads that run serviceQueue
  Flusher,      \* the thread that shuts the node down
  MaxInserts    \* bound

ASSUME RunnerAssumption ==
  /\ Clients \cap Servers = {} /\ Flusher \notin Clients \cup Servers
  /\ MaxInserts \in Nat

VARIABLES
  m_callbacks_pending, m_are_callbacks_running,
  scheduled,    \* how many ProcessQueue tasks are in the scheduler's queue
  inserted,     \* callbacks inserted so far
  pc,           \* ProcessQueue, of each thread
  ins,          \* insert, of each thread: "out", "maybe" or "schedule"
  callback,     \* the callback that a thread took
  serving,      \* the threads that serve the scheduler's queue
  flushed       \* "no", "flushing" or "done"

vars == <<m_callbacks_pending, m_are_callbacks_running, scheduled, inserted,
          pc, ins, callback, serving, flushed>>

Threads == Clients \cup Servers \cup {Flusher}

Init ==
  /\ m_callbacks_pending = <<>> /\ m_are_callbacks_running = FALSE
  /\ scheduled = 0 /\ inserted = 0
  /\ pc = [t \in Threads |-> "out"] /\ ins = [t \in Threads |-> "out"]
  /\ callback = [t \in Threads |-> 0]
  /\ serving = Servers /\ flushed = "no"

-----------------------------------------------------------------------------
(* insert, then MaybeScheduleProcessQueue: whether ProcessQueue is needed  *)
(* is found out in another section, and it is scheduled outside of it.     *)
Insert(t) ==
  /\ inserted < MaxInserts
  /\ ins[t] = "out"
  /\ pc[t] = "callback" \/ t \in Clients
  /\ inserted' = inserted + 1
  /\ m_callbacks_pending' = Append(m_callbacks_pending, inserted + 1)
  /\ ins' = [ins EXCEPT ![t] = "maybe"]
  /\ UNCHANGED <<m_are_callbacks_running, scheduled, pc, callback, serving, flushed>>

NeedsSchedule == ~m_are_callbacks_running /\ m_callbacks_pending # <<>>

InsertMaybe(t) ==
  /\ ins[t] = "maybe"
  /\ ins' = [ins EXCEPT ![t] = IF NeedsSchedule THEN "schedule" ELSE "out"]
  /\ UNCHANGED <<m_callbacks_pending, m_are_callbacks_running, scheduled, inserted,
                 pc, callback, serving, flushed>>

InsertSchedule(t) ==
  /\ ins[t] = "schedule"
  /\ scheduled' = scheduled + 1
  /\ ins' = [ins EXCEPT ![t] = "out"]
  /\ UNCHANGED <<m_callbacks_pending, m_are_callbacks_running, inserted, pc, callback,
                 serving, flushed>>

-----------------------------------------------------------------------------
(* ProcessQueue.                                                           *)

(* serviceQueue takes the task and calls it without a lock.                *)
Serve(t) ==
  /\ t \in serving /\ pc[t] = "out" /\ scheduled > 0
  /\ scheduled' = scheduled - 1
  /\ pc' = [pc EXCEPT ![t] = "process"]
  /\ UNCHANGED <<m_callbacks_pending, m_are_callbacks_running, inserted, ins, callback,
                 serving, flushed>>

(* After ProcessQueue a server is back in serviceQueue, and flush looks    *)
(* whether it is done.                                                     *)
Back(t) == IF t = Flusher THEN "check" ELSE "out"

ProcessNothing(t) ==
  /\ pc[t] = "process"
  /\ m_are_callbacks_running \/ m_callbacks_pending = <<>>
  /\ pc' = [pc EXCEPT ![t] = Back(t)]
  /\ UNCHANGED <<m_callbacks_pending, m_are_callbacks_running, scheduled, inserted, ins,
                 callback, serving, flushed>>

(* (A mutant takes the last callback.)                                     *)
ProcessQueueLast(t) ==
  /\ pc[t] = "process"
  /\ ~m_are_callbacks_running /\ m_callbacks_pending # <<>>
  /\ m_are_callbacks_running' = TRUE
  /\ callback' = [callback EXCEPT ![t] = m_callbacks_pending[Len(m_callbacks_pending)]]
  /\ m_callbacks_pending' = SubSeq(m_callbacks_pending, 1, Len(m_callbacks_pending) - 1)
  /\ pc' = [pc EXCEPT ![t] = "callback"]
  /\ UNCHANGED <<scheduled, inserted, ins, serving, flushed>>

ProcessQueue(t) ==
  /\ pc[t] = "process"
  /\ ~m_are_callbacks_running /\ m_callbacks_pending # <<>>
  /\ m_are_callbacks_running' = TRUE
  /\ callback' = [callback EXCEPT ![t] = Head(m_callbacks_pending)]
  /\ m_callbacks_pending' = Tail(m_callbacks_pending)
  /\ pc' = [pc EXCEPT ![t] = "callback"]
  /\ UNCHANGED <<scheduled, inserted, ins, serving, flushed>>

CallbackReturns(t) ==
  /\ pc[t] = "callback" /\ ins[t] = "out"
  /\ pc' = [pc EXCEPT ![t] = "release"]
  /\ UNCHANGED <<m_callbacks_pending, m_are_callbacks_running, scheduled, inserted, ins,
                 callback, serving, flushed>>

(* ~RAIICallbacksRunning, then MaybeScheduleProcessQueue.  (A mutant       *)
(* leaves the rest to the next insert.)                                    *)
ReleaseOnly(t) ==
  /\ pc[t] = "release"
  /\ m_are_callbacks_running' = FALSE
  /\ pc' = [pc EXCEPT ![t] = Back(t)]
  /\ UNCHANGED <<m_callbacks_pending, scheduled, inserted, ins, callback, serving, flushed>>

Release(t) ==
  /\ pc[t] = "release"
  /\ m_are_callbacks_running' = FALSE
  /\ pc' = [pc EXCEPT ![t] = "maybe"]
  /\ UNCHANGED <<m_callbacks_pending, scheduled, inserted, ins, callback, serving, flushed>>

ProcessMaybe(t) ==
  /\ pc[t] = "maybe"
  /\ pc' = [pc EXCEPT ![t] = IF NeedsSchedule THEN "schedule" ELSE Back(t)]
  /\ UNCHANGED <<m_callbacks_pending, m_are_callbacks_running, scheduled, inserted, ins,
                 callback, serving, flushed>>

ProcessSchedule(t) ==
  /\ pc[t] = "schedule"
  /\ scheduled' = scheduled + 1
  /\ pc' = [pc EXCEPT ![t] = Back(t)]
  /\ UNCHANGED <<m_callbacks_pending, m_are_callbacks_running, inserted, ins, callback,
                 serving, flushed>>

-----------------------------------------------------------------------------
(* The scheduler is stopped: its threads end when their task is done.      *)
Stop(t) ==
  /\ t \in serving /\ pc[t] = "out"
  /\ serving' = serving \ {t}
  /\ UNCHANGED <<m_callbacks_pending, m_are_callbacks_running, scheduled, inserted, pc, ins,
                 callback, flushed>>

(* flush, once no thread serves the queue.  (A mutant calls ProcessQueue   *)
(* once.)                                                                  *)
Flush ==
  /\ serving = {} /\ flushed = "no"
  /\ flushed' = "flushing"
  /\ pc' = [pc EXCEPT ![Flusher] = "process"]
  /\ UNCHANGED <<m_callbacks_pending, m_are_callbacks_running, scheduled, inserted, ins,
                 callback, serving>>

FlushCheckOnce ==
  /\ pc[Flusher] = "check"
  /\ pc' = [pc EXCEPT ![Flusher] = "out"]
  /\ flushed' = "done"
  /\ UNCHANGED <<m_callbacks_pending, m_are_callbacks_running, scheduled, inserted, ins,
                 callback, serving>>

FlushCheck ==
  /\ pc[Flusher] = "check"
  /\ IF m_callbacks_pending # <<>>
       THEN pc' = [pc EXCEPT ![Flusher] = "process"] /\ UNCHANGED flushed
       ELSE pc' = [pc EXCEPT ![Flusher] = "out"] /\ flushed' = "done"
  /\ UNCHANGED <<m_callbacks_pending, m_are_callbacks_running, scheduled, inserted, ins,
                 callback, serving>>

-----------------------------------------------------------------------------
InsertStep(t) == InsertMaybe(t) \/ InsertSchedule(t)

ProcessStep(t) ==
  \/ ProcessNothing(t)
  \/ ProcessQueue(t)
  \/ CallbackReturns(t)
  \/ Release(t)
  \/ ProcessMaybe(t)
  \/ ProcessSchedule(t)

(* After the shutdown nothing has to happen.                               *)
Finished == flushed = "done" /\ UNCHANGED vars

Next ==
  \/ \E t \in Threads : Insert(t)
  \/ \E t \in Threads : InsertStep(t)
  \/ \E t \in Threads : Serve(t)
  \/ \E t \in Threads : ProcessStep(t)
  \/ \E t \in Threads : Stop(t)
  \/ Flush
  \/ FlushCheck
  \/ Finished

Spec == Init /\ [][Next]_vars

(* Threads go on, callbacks return, and a stopped scheduler is flushed.    *)
(* Some thread serves the queue while any is left to do so.                *)
Fairness ==
  /\ \A t \in Threads : WF_vars(InsertStep(t)) /\ WF_vars(ProcessStep(t))
  /\ WF_vars(\E t \in Threads : Serve(t))
  /\ WF_vars(Flush) /\ WF_vars(FlushCheck)

FairSpec == Spec /\ Fairness

-----------------------------------------------------------------------------
(* Properties.                                                             *)

Running == {t \in Threads : pc[t] = "callback"}

(* The promise of the class comment: one at a time, once, in order.        *)
Serial == INSTANCE SerialQueue WITH
            pending <- m_callbacks_pending,
            current <- {callback[t] : t \in Running}
ImplementsSerialQueue == Serial!Spec

(* Somebody is on the way to run ProcessQueue, or to see whether it has to *)
(* be scheduled.                                                           *)
OnTheWay ==
  \/ scheduled > 0
  \/ \E t \in Threads : \/ pc[t] \in {"process", "release", "maybe", "schedule", "check"}
                        \/ pc[t] = "callback"
                        \/ ins[t] \in {"maybe", "schedule"}

(* A callback is never left behind: as long as one waits, somebody will    *)
(* come for it, in whatever order the unlocked checks were made.           *)
NoneStranded == m_callbacks_pending # <<>> => OnTheWay

(* m_are_callbacks_running is true exactly while one thread is in a        *)
(* callback or about to say that it has left it.                           *)
InCallback == {t \in Threads : pc[t] \in {"callback", "release"}}
RunningExact ==
  /\ m_are_callbacks_running <=> InCallback # {}
  /\ \A s, t \in InCallback : s = t

(* Every callback that was inserted before the shutdown is run, by the     *)
(* scheduler or by the flush.                                              *)
AllRun ==
  \A n \in 1 .. MaxInserts :
    (inserted >= n /\ flushed = "no") ~> (\E t \in Threads : callback[t] >= n)
=============================================================================
