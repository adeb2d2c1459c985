---------------------------- MODULE CheckQueue ----------------------------
(***************************************************************************)
(* CCheckQueue and CCheckQueueControl (src/checkqueue.h): the pool of      *)
(* threads that verifies the scripts of a block.  The master adds batches  *)
(* of checks, then joins the workers until nothing is left and takes the   *)
(* result.                                                                 *)
(*                                                                         *)
(* A section of m_mutex is one step.  Between two sections a thread runs   *)
(* its checks, waits for a condition variable or, in Add and in the        *)
(* destructor, is about to notify the others.  A waiting thread may also   *)
(* wake up without a notification.  m_control_mutex makes the threads that *)
(* use the queue follow each other: they are one master here.              *)
(***************************************************************************)
EXTENDS Integers, Sequences, FiniteSetsExt

CONSTANTS
  Workers, Master,
  nBatchSize,
  MaxRounds,    \* bound: controls created
  MaxAdds,      \* bound: calls of Add in a round
  MaxChecks,    \* bound: checks in one call
  None          \* no error

ASSUME QueueAssumption ==
  /\ Master \notin Workers /\ IsFiniteSet(Workers)
  /\ nBatchSize \in Nat \ {0}
  /\ MaxRounds \in Nat /\ MaxAdds \in Nat /\ MaxChecks \in Nat

VARIABLES
  queue, nIdle, nTotal, nTodo,
  result,       \* m_result
  stop,         \* m_request_stop
  pc,           \* where each thread is
  nNow, batch, work, local,  \* Loop's nNow, vChecks, do_work, local_result
  round, adds,  \* of the master: the current control and its calls of Add
  failing,      \* history: a check of this round fails
  verdict       \* what the last Complete returned

shared == <<queue, nIdle, nTotal, nTodo, result>>
loop == <<nNow, batch, work, local>>
master == <<round, adds, failing, verdict>>
vars == <<shared, loop, master, stop, pc>>

Threads == Workers \cup {Master}

(* A check belongs to a round and holds or fails; its error is itself.     *)
Checks == [round : 1 .. MaxRounds, ok : BOOLEAN]

(* The optional result is empty or an error.                               *)
ASSUME NoneAssumption == None \notin Checks

Init ==
  /\ queue = <<>> /\ nIdle = 0 /\ nTotal = 0 /\ nTodo = 0 /\ result = None
  /\ stop = FALSE
  /\ pc = [t \in Threads |-> IF t = Master THEN "out" ELSE "first"]
  /\ nNow = [t \in Threads |-> 0] /\ batch = [t \in Threads |-> <<>>]
  /\ work = [t \in Threads |-> FALSE] /\ local = [t \in Threads |-> None]
  /\ round = 1 /\ adds = 0 /\ failing = FALSE /\ verdict = [round |-> 0, error |-> None]

-----------------------------------------------------------------------------
(* Condition variables.                                                    *)

Woken(p, ts) == [t \in Threads |-> IF t \in ts /\ p[t] = "wait" THEN "woken" ELSE p[t]]

WaitingWorkers == {w \in Workers : pc[w] = "wait"}

SpuriousWake(t) ==
  /\ pc[t] = "wait"
  /\ pc' = [pc EXCEPT ![t] = "woken"]
  /\ UNCHANGED <<shared, loop, master, stop>>

-----------------------------------------------------------------------------
(* The section of Loop: a thread comes in for the first time, after it ran *)
(* its checks ("ran"), or because it was woken.                            *)

InSection(t) == pc[t] \in {"first", "ran", "woken"}

(* The clean-up of the previous run; a batch that was skipped counts too.  *)
Reports(t) == pc[t] = "ran" /\ local[t] # None /\ result = None
ResultAfter(t) == IF Reports(t) THEN local[t] ELSE result
LocalAfter(t) == IF Reports(t) THEN [local EXCEPT ![t] = None] ELSE local
TodoAfter(t) == IF pc[t] = "ran" THEN nTodo - nNow[t] ELSE nTodo
TotalAfter(t) == IF pc[t] = "first" THEN nTotal + 1 ELSE nTotal
IdleAfter(t) == IF pc[t] = "woken" THEN nIdle - 1 ELSE nIdle

(* The thread that finished the last check tells the master.  (A mutant    *)
(* tests the count before its own batch is subtracted.)                    *)
TellsMasterTooEarly(t) == pc[t] = "ran" /\ nTodo = 0 /\ t # Master

TellsMaster(t) == pc[t] = "ran" /\ TodoAfter(t) = 0 /\ t # Master

PcAfter(t) == IF TellsMaster(t) THEN Woken(pc, {Master}) ELSE pc

(* The master's Loop ends.  (A mutant ends it when the queue is empty.)    *)
MasterDoneIfEmpty(t) == t = Master /\ queue = <<>> /\ ~stop

MasterDone(t) == t = Master /\ queue = <<>> /\ ~stop /\ TodoAfter(t) = 0

Return(t) ==
  /\ InSection(t) /\ MasterDone(t)
  /\ verdict' = [round |-> round, error |-> ResultAfter(t)]
  /\ result' = None
  /\ nTotal' = TotalAfter(t) - 1 /\ nIdle' = IdleAfter(t) /\ nTodo' = TodoAfter(t)
  /\ local' = [local EXCEPT ![t] = None] /\ nNow' = [nNow EXCEPT ![t] = 0]
  /\ work' = [work EXCEPT ![t] = FALSE]
  /\ pc' = [PcAfter(t) EXCEPT ![t] = "out"]
  /\ round' = round + 1 /\ adds' = 0 /\ failing' = FALSE
  /\ UNCHANGED <<queue, batch, stop>>

Wait(t) ==
  /\ InSection(t) /\ queue = <<>> /\ ~stop /\ ~MasterDone(t)
  /\ result' = ResultAfter(t) /\ local' = LocalAfter(t)
  /\ nTodo' = TodoAfter(t) /\ nTotal' = TotalAfter(t)
  /\ nIdle' = IdleAfter(t) + 1
  /\ pc' = [PcAfter(t) EXCEPT ![t] = "wait"]
  /\ UNCHANGED <<queue, nNow, batch, work, master, stop>>

(* The thread ends.                                                        *)
Exit(t) ==
  /\ InSection(t) /\ stop
  /\ result' = ResultAfter(t) /\ local' = LocalAfter(t)
  /\ nTodo' = TodoAfter(t) /\ nTotal' = TotalAfter(t) /\ nIdle' = IdleAfter(t)
  /\ pc' = [PcAfter(t) EXCEPT ![t] = "exit"]
  /\ UNCHANGED <<queue, nNow, batch, work, master, stop>>

BatchSize(t) ==
  Max({1, Min({nBatchSize, Len(queue) \div (TotalAfter(t) + IdleAfter(t) + 1)})})

TakeBatch(t) ==
  /\ InSection(t) /\ queue # <<>> /\ ~stop
  /\ result' = ResultAfter(t) /\ local' = LocalAfter(t)
  /\ nTodo' = TodoAfter(t) /\ nTotal' = TotalAfter(t) /\ nIdle' = IdleAfter(t)
  /\ LET n == BatchSize(t)
     IN  /\ nNow' = [nNow EXCEPT ![t] = n]
         /\ batch' = [batch EXCEPT ![t] = SubSeq(queue, Len(queue) - n + 1, Len(queue))]
         /\ queue' = SubSeq(queue, 1, Len(queue) - n)
  /\ work' = [work EXCEPT ![t] = ResultAfter(t) = None]
  /\ pc' = [PcAfter(t) EXCEPT ![t] = "work"]
  /\ UNCHANGED <<master, stop>>

(* Without the lock: the checks run up to the first error, and are freed.  *)
(* (A mutant assigns local_result only if a check fails.)                  *)
Failures(s) == {k \in DOMAIN s : ~s[k].ok}

LocalResultIfFailed(t) ==
  IF Failures(batch[t]) = {} THEN local[t] ELSE batch[t][Min(Failures(batch[t]))]

LocalResult(t) ==
  IF Failures(batch[t]) = {} THEN None ELSE batch[t][Min(Failures(batch[t]))]

RunChecks(t) ==
  /\ pc[t] = "work"
  /\ local' = IF work[t] THEN [local EXCEPT ![t] = LocalResult(t)] ELSE local
  /\ batch' = [batch EXCEPT ![t] = <<>>]
  /\ pc' = [pc EXCEPT ![t] = "ran"]
  /\ UNCHANGED <<shared, nNow, work, master, stop>>

-----------------------------------------------------------------------------
(* The master.                                                             *)

(* Add: the checks are queued, then the lock is released.                  *)
Add(oks) ==
  /\ pc[Master] = "out" /\ ~stop /\ round <= MaxRounds /\ adds < MaxAdds
  /\ oks # <<>>
  /\ queue' = queue \o [k \in DOMAIN oks |-> [round |-> round, ok |-> oks[k]]]
  /\ nTodo' = nTodo + Len(oks)
  /\ adds' = adds + 1
  /\ failing' = (failing \/ \E k \in DOMAIN oks : ~oks[k])
  /\ pc' = [pc EXCEPT ![Master] = IF Len(oks) = 1 THEN "notify_one" ELSE "notify_all"]
  /\ UNCHANGED <<nIdle, nTotal, result, loop, round, verdict, stop>>

NotifyOne ==
  /\ pc[Master] = "notify_one"
  /\ \/ /\ WaitingWorkers = {}
        /\ pc' = [pc EXCEPT ![Master] = "out"]
     \/ \E w \in WaitingWorkers :
          pc' = [pc EXCEPT ![Master] = "out", ![w] = "woken"]
  /\ UNCHANGED <<shared, loop, master, stop>>

NotifyAll ==
  /\ pc[Master] = "notify_all"
  /\ pc' = [Woken(pc, Workers) EXCEPT ![Master] = "out"]
  /\ UNCHANGED <<shared, loop, master, stop>>

(* Complete, called by the user of the control or by its destructor.       *)
Complete ==
  /\ pc[Master] = "out" /\ ~stop /\ round <= MaxRounds
  /\ pc' = [pc EXCEPT ![Master] = "first"]
  /\ UNCHANGED <<shared, loop, master, stop>>

(* ~CCheckQueue, when no control is left.                                  *)
Destroy ==
  /\ pc[Master] = "out" /\ ~stop /\ adds = 0
  /\ stop' = TRUE
  /\ pc' = [pc EXCEPT ![Master] = "notify_all"]
  /\ UNCHANGED <<shared, loop, master>>

(* All threads are joined.                                                 *)
Joined ==
  /\ stop /\ \A w \in Workers : pc[w] = "exit"
  /\ UNCHANGED vars

-----------------------------------------------------------------------------
LoopStep(t) == Return(t) \/ Wait(t) \/ Exit(t) \/ TakeBatch(t) \/ RunChecks(t)

CheckLists == UNION {[1 .. n -> BOOLEAN] : n \in 1 .. MaxChecks}

Next ==
  \/ \E t \in Threads : LoopStep(t)
  \/ \E t \in Threads : SpuriousWake(t)
  \/ \E oks \in CheckLists : Add(oks)
  \/ NotifyOne
  \/ NotifyAll
  \/ Complete
  \/ Destroy
  \/ Joined

Spec == Init /\ [][Next]_vars

(* Every thread that can run does so sooner or later; nobody has to wake   *)
(* up on its own, and the master does not have to call.                    *)
Fairness ==
  /\ \A t \in Threads : WF_vars(LoopStep(t))
  /\ WF_vars(NotifyOne) /\ WF_vars(NotifyAll)

FairSpec == Spec /\ Fairness

-----------------------------------------------------------------------------
(* Properties.                                                             *)

(* Complete reports an error exactly if a check that was added in the same *)
(* round fails, and the error is one of that round: nothing is left over   *)
(* from an earlier one, in m_result or in a worker's local_result.         *)
RoundVerdict ==
  [][verdict' # verdict =>
       IF failing THEN verdict'.error \in Checks /\ verdict'.error = [round |-> round, ok |-> FALSE]
       ELSE verdict'.error = None]_vars

(* When Complete has returned no thread holds a check: the transactions    *)
(* that the checks refer to may be freed.                                  *)
ChecksFreed ==
  pc[Master] = "out" /\ adds = 0 =>
    queue = <<>> /\ \A t \in Threads : batch[t] = <<>>

(* Complete returns.                                                       *)
CompleteReturns == (pc[Master] = "first") ~> (pc[Master] = "out")

(* The destructor's joins return.                                          *)
WorkersJoin == stop ~> (\A w \in Workers : pc[w] = "exit")

(* Nobody waits for ever: neither the caller of Complete nor the           *)
(* destructor, however notifications and the lock interleave.              *)
CallsReturn == CompleteReturns /\ WorkersJoin
=============================================================================
