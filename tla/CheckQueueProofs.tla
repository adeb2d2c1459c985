-------------------------- MODULE CheckQueueProofs --------------------------
(***************************************************************************)
(* For any number of workers, any batch size and any number of rounds,     *)
(* calls of Add and checks: when Complete returns no thread holds a check  *)
(* any more, and its verdict is that of the checks of its own round.       *)
(*                                                                         *)
(* Both rest on the count of unfinished checks.  It is a sum over the      *)
(* threads, stated here without one: nTodo counts the queue and the set of *)
(* places in the batches that were taken and not yet reported (Slots).  So *)
(* nTodo = 0 leaves the queue empty and no thread between taking a batch   *)
(* and reporting it.  The verdict needs in addition that a failing check   *)
(* is never lost on its way from the queue over a batch and a thread's     *)
(* local_result to m_result (FailureKept), and that what a worker kept     *)
(* from an earlier round is not reported (InRound).                        *)
(***************************************************************************)
EXTENDS CheckQueue, FiniteSetTheorems, WellFoundedInduction, TLAPS

Places == {"first", "ran", "woken", "wait", "work", "exit", "out", "notify_one", "notify_all"}

QTypeOK ==
  /\ queue \in Seq(Checks) /\ nIdle \in Int /\ nTotal \in Int /\ nTodo \in Int
  /\ result \in Checks \cup {None} /\ stop \in BOOLEAN
  /\ pc \in [Threads -> Places]
  /\ nNow \in [Threads -> 0 .. nBatchSize] /\ batch \in [Threads -> Seq(Checks)]
  /\ work \in [Threads -> BOOLEAN] /\ local \in [Threads -> Checks \cup {None}]
  /\ round \in Nat \ {0} /\ adds \in Nat /\ failing \in BOOLEAN

Busy == {"work", "ran"}
Resting == {"wait", "woken"}

(* The places of the batches that are counted in nTodo, and the threads    *)
(* counted in nIdle.                                                       *)
SlotsOf(p, n) == {s \in Threads \X (1 .. nBatchSize) : p[s[1]] \in Busy /\ s[2] <= n[s[1]]}
Slots == SlotsOf(pc, nNow)
IdleOf(p) == {t \in Threads : p[t] \in Resting}
Idle == IdleOf(pc)

Counts ==
  /\ nTodo = Len(queue) + Cardinality(Slots)
  /\ nIdle = Cardinality(Idle)
  /\ nTotal >= 0 /\ (pc[Master] \in Busy \cup Resting => nTotal > 0)

(* A thread holds checks from the moment it takes them until it has run    *)
(* them, and counts them until it reports.                                 *)
Holding ==
  \A t \in Threads : /\ batch[t] # <<>> => pc[t] = "work"
                     /\ pc[t] \in Busy => nNow[t] > 0

Bad == [round |-> round, ok |-> FALSE]

(* Everything that can reach the verdict is of the current round; a batch  *)
(* is skipped only when the verdict stands.                                *)
InRound ==
  /\ \A k \in DOMAIN queue : queue[k].round = round
  /\ \A t \in Threads : \A k \in DOMAIN batch[t] : batch[t][k].round = round
  /\ result \in {None, Bad}
  /\ \A t \in Threads : pc[t] \in Busy /\ ~work[t] => result # None
  /\ \A t \in Threads : pc[t] = "ran" /\ work[t] => local[t] \in {None, Bad}

(* A failing check is somewhere on its way to the verdict.                 *)
SomeFailure ==
  \/ result # None
  \/ Failures(queue) # {}
  \/ \E t \in Threads : Failures(batch[t]) # {}
  \/ \E t \in Threads : pc[t] = "ran" /\ work[t] /\ local[t] # None

FailureKept == failing <=> SomeFailure

Rounds ==
  /\ adds = 0 => nTodo = 0 /\ ~failing
  /\ adds > 0 => round <= MaxRounds

IInv == QTypeOK /\ Counts /\ Holding /\ InRound /\ FailureKept /\ Rounds

-----------------------------------------------------------------------------
(* Counting.                                                               *)

LEMMA ThreadsFinite == IsFiniteSet(Threads) /\ Master \in Threads
<1>1. IsFiniteSet(Workers)
  BY QueueAssumption
<1> QED BY <1>1, FS_AddElement DEF Threads

Own(p, n, t) == IF p[t] \in Busy THEN n[t] ELSE 0

LEMMA SlotsFinite ==
  ASSUME NEW p, NEW n PROVE IsFiniteSet(SlotsOf(p, n)) /\ Cardinality(SlotsOf(p, n)) \in Nat
<1>1. IsFiniteSet(1 .. nBatchSize)
  BY QueueAssumption, FS_Interval
<1>2. IsFiniteSet(Threads \X (1 .. nBatchSize))
  BY <1>1, ThreadsFinite, FS_Product
<1>3. SlotsOf(p, n) \in SUBSET (Threads \X (1 .. nBatchSize))
  BY DEF SlotsOf
<1>4. IsFiniteSet(SlotsOf(p, n))
  BY <1>2, <1>3, FS_Subset
<1> QED BY <1>4, FS_CardinalityType

(* The places of one thread, and of the others.                            *)
LEMMA SlotsSplit ==
  ASSUME NEW p, NEW n \in [Threads -> 0 .. nBatchSize], NEW t \in Threads
  PROVE  Cardinality(SlotsOf(p, n)) =
           Cardinality({s \in SlotsOf(p, n) : s[1] # t}) + Own(p, n, t)
<1> DEFINE S == SlotsOf(p, n)
           Rest == {s \in S : s[1] # t}
           Mine == {t} \X (1 .. Own(p, n, t))
<1>0. Own(p, n, t) \in 0 .. nBatchSize /\ nBatchSize \in Nat
  BY QueueAssumption DEF Own
<1>1. S = Rest \cup Mine
  BY <1>0 DEF SlotsOf, Own
<1>2. Rest \cap Mine = {}
  OBVIOUS
<1>3. IsFiniteSet(Rest)
  <2>1. IsFiniteSet(S) /\ Rest \in SUBSET S
    BY SlotsFinite
  <2> QED BY <2>1, FS_Subset
<1>4. IsFiniteSet(Mine) /\ Cardinality(Mine) = Own(p, n, t)
  <2>1. IsFiniteSet(1 .. Own(p, n, t)) /\ Cardinality(1 .. Own(p, n, t)) = Own(p, n, t)
    BY <1>0, FS_Interval
  <2>2. IsFiniteSet({t}) /\ Cardinality({t}) = 1
    BY FS_Singleton
  <2>3. IsFiniteSet(Mine) /\ Cardinality(Mine) = Cardinality({t}) * Cardinality(1 .. Own(p, n, t))
    BY <2>1, <2>2, FS_Product
  <2> QED BY <1>0, <2>1, <2>2, <2>3
<1>5. Cardinality(Rest) \in Nat
  BY <1>3, FS_CardinalityType
<1> HIDE DEF S, Rest, Mine
<1>6. Cardinality(S) = Cardinality(Rest) + Cardinality(Mine) - Cardinality(Rest \cap Mine)
  BY <1>1, <1>3, <1>4, FS_Union
<1>7. Cardinality(Rest \cap Mine) = 0
  BY <1>2, FS_EmptySet
<1>8. Cardinality(S) = Cardinality(Rest) + Own(p, n, t)
  BY <1>0, <1>4, <1>5, <1>6, <1>7
<1> QED BY <1>8 DEF S, Rest

(* One thread moves: the count changes by its own places.                  *)
LEMMA SlotsMove ==
  ASSUME NEW p, NEW n \in [Threads -> 0 .. nBatchSize],
         NEW q, NEW m \in [Threads -> 0 .. nBatchSize], NEW t \in Threads,
         \A u \in Threads \ {t} : (p[u] \in Busy <=> q[u] \in Busy) /\ n[u] = m[u]
  PROVE  Cardinality(SlotsOf(q, m)) = Cardinality(SlotsOf(p, n)) - Own(p, n, t) + Own(q, m, t)
<1> DEFINE Rest == {s \in SlotsOf(p, n) : s[1] # t}
<1>1. Rest = {s \in SlotsOf(q, m) : s[1] # t}
  BY DEF SlotsOf
<1>2. IsFiniteSet(Rest)
  <2>1. IsFiniteSet(SlotsOf(p, n)) /\ Rest \in SUBSET SlotsOf(p, n)
    BY SlotsFinite
  <2> QED BY <2>1, FS_Subset
<1>3. Cardinality(Rest) \in Nat
  BY <1>2, FS_CardinalityType
<1>4. Own(p, n, t) \in Nat /\ Own(q, m, t) \in Nat
  BY QueueAssumption DEF Own
<1>5. Cardinality(SlotsOf(p, n)) = Cardinality(Rest) + Own(p, n, t)
  BY SlotsSplit
<1>6. Cardinality(SlotsOf(q, m)) = Cardinality(Rest) + Own(q, m, t)
  BY <1>1, SlotsSplit
<1> HIDE DEF Rest
<1> QED BY <1>3, <1>4, <1>5, <1>6

LEMMA SlotsStep ==
  ASSUME NEW t \in Threads,
         nNow \in [Threads -> 0 .. nBatchSize], nNow' \in [Threads -> 0 .. nBatchSize],
         \A u \in Threads \ {t} : (pc[u] \in Busy <=> pc'[u] \in Busy) /\ nNow[u] = nNow'[u]
  PROVE  Cardinality(SlotsOf(pc', nNow')) =
           Cardinality(SlotsOf(pc, nNow)) - Own(pc, nNow, t) + Own(pc', nNow', t)
BY SlotsMove, SMT

LEMMA SlotsSame ==
  ASSUME NEW p, NEW n, NEW q,
         \A u \in Threads : p[u] \in Busy <=> q[u] \in Busy
  PROVE  SlotsOf(q, n) = SlotsOf(p, n)
BY DEF SlotsOf

(* Nothing is counted, so no thread is between taking and reporting.       *)
LEMMA NoSlots ==
  ASSUME NEW p, NEW n \in [Threads -> 0 .. nBatchSize], Cardinality(SlotsOf(p, n)) = 0,
         NEW t \in Threads, p[t] \in Busy
  PROVE  n[t] = 0
<1>1. SlotsOf(p, n) = {}
  BY SlotsFinite, FS_EmptySet
<1>2. n[t] > 0 => <<t, 1>> \in SlotsOf(p, n)
  BY QueueAssumption DEF SlotsOf
<1> QED BY <1>1, <1>2, QueueAssumption

LEMMA IdleFinite == ASSUME NEW p PROVE IsFiniteSet(IdleOf(p)) /\ Cardinality(IdleOf(p)) \in Nat
<1>1. IdleOf(p) \in SUBSET Threads
  BY DEF IdleOf
<1>2. IsFiniteSet(IdleOf(p))
  BY <1>1, ThreadsFinite, FS_Subset
<1> QED BY <1>2, FS_CardinalityType

LEMMA IdleMove ==
  ASSUME NEW p, NEW q, NEW t \in Threads,
         \A u \in Threads \ {t} : p[u] \in Resting <=> q[u] \in Resting
  PROVE  Cardinality(IdleOf(q)) = Cardinality(IdleOf(p))
           - (IF p[t] \in Resting THEN 1 ELSE 0) + (IF q[t] \in Resting THEN 1 ELSE 0)
<1>1. IsFiniteSet(IdleOf(p)) /\ Cardinality(IdleOf(p)) \in Nat
  BY IdleFinite
<1>2. CASE p[t] \in Resting <=> q[t] \in Resting
  <2>1. IdleOf(q) = IdleOf(p)
    BY <1>2 DEF IdleOf
  <2>2. Cardinality(IdleOf(q)) = Cardinality(IdleOf(p))
    BY <2>1
  <2> QED BY <1>1, <1>2, <2>2
<1>3. CASE p[t] \in Resting /\ q[t] \notin Resting
  <2>1. IdleOf(q) = IdleOf(p) \ {t} /\ t \in IdleOf(p)
    BY <1>3 DEF IdleOf
  <2>2. Cardinality(IdleOf(q)) = Cardinality(IdleOf(p)) - 1
    BY <1>1, <2>1, FS_RemoveElement
  <2> QED BY <1>1, <1>3, <2>2
<1>4. CASE p[t] \notin Resting /\ q[t] \in Resting
  <2>1. IdleOf(q) = IdleOf(p) \cup {t} /\ t \notin IdleOf(p)
    BY <1>4 DEF IdleOf
  <2>2. Cardinality(IdleOf(q)) = Cardinality(IdleOf(p)) + 1
    BY <1>1, <2>1, FS_AddElement
  <2> QED BY <1>1, <1>4, <2>2
<1> QED BY <1>2, <1>3, <1>4

-----------------------------------------------------------------------------
(* The least index of a failing check is one.                              *)
LEMMA MinIn == ASSUME NEW S, S \subseteq Nat, S # {} PROVE Min(S) \in S
<1>1. PICK x \in S : \A y \in S : ~(<<y, x>> \in OpToRel(<, Nat))
  BY WFMin, NatLessThanWellFounded
<1>2. x \in Nat /\ \A y \in S : y \in Nat /\ ~(y < x)
  BY <1>1 DEF OpToRel
<1>3. \A y \in S : x <= y
  BY <1>2
<1> QED BY <1>3 DEF Min

LEMMA DivBound == ASSUME NEW a \in Nat, NEW k \in Nat \ {0} PROVE a \div k \in 0 .. a
OBVIOUS

LEMMA BatchBound ==
  ASSUME NEW a \in Nat \ {0}, NEW k \in Nat \ {0}
  PROVE  Max({1, Min({nBatchSize, a \div k})}) \in 1 .. nBatchSize
         /\ Max({1, Min({nBatchSize, a \div k})}) <= a
<1> DEFINE d == a \div k
<1>1. d \in 0 .. a /\ nBatchSize \in Nat \ {0}
  BY DivBound, QueueAssumption
<1> HIDE DEF d
<1>2. Min({nBatchSize, d}) = IF nBatchSize <= d THEN nBatchSize ELSE d
  BY <1>1 DEF Min
<1> DEFINE e == Min({nBatchSize, d})
<1>3. e \in 0 .. nBatchSize /\ e <= a
  BY <1>1, <1>2
<1> HIDE DEF e
<1>4. Max({1, e}) = IF 1 <= e THEN e ELSE 1
  BY <1>1, <1>3 DEF Max
<1>5. Max({1, e}) \in 1 .. nBatchSize /\ Max({1, e}) <= a
  BY <1>1, <1>3, <1>4
<1> QED BY <1>5 DEF d, e

LEMMA FailuresEmpty == Failures(<<>>) = {}
BY DEF Failures

(* What is left of a queue when n checks are taken from its end, and what  *)
(* is taken.                                                               *)
LEMMA TakenAndLeft ==
  ASSUME NEW s \in Seq(Checks), NEW n \in 1 .. Len(s)
  PROVE  LET a == SubSeq(s, 1, Len(s) - n)
             b == SubSeq(s, Len(s) - n + 1, Len(s))
         IN  /\ a \in Seq(Checks) /\ b \in Seq(Checks) /\ Len(a) = Len(s) - n
             /\ \A k \in DOMAIN a : k \in DOMAIN s /\ a[k] = s[k]
             /\ \A k \in DOMAIN b : Len(s) - n + k \in DOMAIN s /\ b[k] = s[Len(s) - n + k]
OBVIOUS

LEMMA FailuresSplit ==
  ASSUME NEW s \in Seq(Checks), NEW n \in 1 .. Len(s)
  PROVE  Failures(s) # {} <=> \/ Failures(SubSeq(s, 1, Len(s) - n)) # {}
                             \/ Failures(SubSeq(s, Len(s) - n + 1, Len(s))) # {}
<1> DEFINE a == SubSeq(s, 1, Len(s) - n)
           b == SubSeq(s, Len(s) - n + 1, Len(s))
<1>1. /\ DOMAIN a = 1 .. Len(s) - n /\ \A k \in DOMAIN a : a[k] = s[k]
      /\ DOMAIN b = 1 .. n /\ \A k \in DOMAIN b : b[k] = s[Len(s) - n + k]
      /\ DOMAIN s = 1 .. Len(s) /\ Len(s) \in Nat
  OBVIOUS
<1> HIDE DEF a, b
<1>2. ASSUME NEW k \in Failures(s) PROVE Failures(a) # {} \/ Failures(b) # {}
  <2>1. CASE k <= Len(s) - n
    <3>1. k \in DOMAIN a /\ ~a[k].ok
      BY <1>1, <1>2, <2>1 DEF Failures
    <3> QED BY <3>1 DEF Failures
  <2>2. CASE k > Len(s) - n
    <3> DEFINE j == k - (Len(s) - n)
    <3>1. j \in 1 .. n /\ Len(s) - n + j = k
      BY <1>1, <1>2, <2>2 DEF Failures
    <3> HIDE DEF j
    <3>2. j \in DOMAIN b /\ ~b[j].ok
      BY <1>1, <1>2, <3>1 DEF Failures
    <3> QED BY <3>2 DEF Failures
  <2> QED BY <1>1, <1>2, <2>1, <2>2 DEF Failures
<1>3. ASSUME NEW k \in Failures(a) PROVE Failures(s) # {}
  BY <1>1, <1>3 DEF Failures
<1>4. ASSUME NEW k \in Failures(b) PROVE Failures(s) # {}
  BY <1>1, <1>4 DEF Failures
<1>5. Failures(s) # {} <=> Failures(a) # {} \/ Failures(b) # {}
  BY <1>2, <1>3, <1>4
<1> QED BY <1>5 DEF a, b

LEMMA FailuresAppend ==
  ASSUME NEW s \in Seq(Checks), NEW c \in Seq(Checks)
  PROVE  Failures(s \o c) # {} <=> Failures(s) # {} \/ Failures(c) # {}
<1>1. /\ DOMAIN (s \o c) = 1 .. Len(s) + Len(c)
      /\ DOMAIN s = 1 .. Len(s) /\ DOMAIN c = 1 .. Len(c)
      /\ Len(s) \in Nat /\ Len(c) \in Nat
      /\ \A k \in DOMAIN s : (s \o c)[k] = s[k]
      /\ \A k \in DOMAIN c : (s \o c)[Len(s) + k] = c[k]
  OBVIOUS
<1>2. ASSUME NEW k \in Failures(s \o c), k > Len(s) PROVE Failures(c) # {}
  <2> DEFINE j == k - Len(s)
  <2>1. j \in 1 .. Len(c) /\ Len(s) + j = k
    BY <1>1, <1>2 DEF Failures
  <2> HIDE DEF j
  <2> QED BY <1>1, <1>2, <2>1 DEF Failures
<1>3. ASSUME NEW k \in Failures(s \o c), k <= Len(s) PROVE Failures(s) # {}
  BY <1>1, <1>3 DEF Failures
<1>4. ASSUME NEW k \in Failures(s) PROVE Failures(s \o c) # {}
  BY <1>1, <1>4 DEF Failures
<1>5. ASSUME NEW k \in Failures(c) PROVE Failures(s \o c) # {}
  <2>1. Len(s) + k \in DOMAIN (s \o c) /\ ~(s \o c)[Len(s) + k].ok
    BY <1>1, <1>5 DEF Failures
  <2> QED BY <2>1 DEF Failures
<1>6. \A k \in Failures(s \o c) : k <= Len(s) \/ k > Len(s)
  BY <1>1 DEF Failures
<1> QED BY <1>2, <1>3, <1>4, <1>5, <1>6

-----------------------------------------------------------------------------
(* What a section of Loop does before it decides.                          *)

(* The others stay, but for a master that is told.                         *)
LEMMA SectionPc ==
  ASSUME QTypeOK, NEW t \in Threads, NEW x \in Places, pc' = [PcAfter(t) EXCEPT ![t] = x]
  PROVE  /\ pc' \in [Threads -> Places] /\ pc'[t] = x
         /\ \A u \in Threads \ {t} :
              pc'[u] = pc[u] \/ (pc[u] = "wait" /\ pc'[u] = "woken")
BY DEF QTypeOK, PcAfter, Woken, Places

LEMMA SectionCounts ==
  ASSUME IInv, NEW t \in Threads, InSection(t), NEW x \in Places, x # "ran",
         pc' = [PcAfter(t) EXCEPT ![t] = x],
         nNow' \in [Threads -> 0 .. nBatchSize],
         \A u \in Threads \ {t} : nNow'[u] = nNow[u]
  PROVE  /\ Cardinality(Slots') + Len(queue)
               = TodoAfter(t) + (IF x = "work" THEN nNow'[t] ELSE 0)
         /\ Cardinality(Idle') = IdleAfter(t) + (IF x \in Resting THEN 1 ELSE 0)
         /\ Cardinality(Slots') \in Nat
         /\ TodoAfter(t) \in Nat /\ IdleAfter(t) \in Nat /\ TotalAfter(t) \in Nat
         /\ t = Master => TotalAfter(t) > 0
         /\ pc[Master] \in Busy \cup Resting => TotalAfter(t) > 0
<1>0. QTypeOK /\ Counts
  BY DEF IInv
<1>1. /\ pc'[t] = x /\ pc[t] \in {"first", "ran", "woken"}
      /\ \A u \in Threads \ {t} : pc'[u] = pc[u] \/ (pc[u] = "wait" /\ pc'[u] = "woken")
  BY <1>0, SectionPc DEF InSection
<1>2. \A u \in Threads \ {t} : /\ pc[u] \in Busy <=> pc'[u] \in Busy
                               /\ pc[u] \in Resting <=> pc'[u] \in Resting
  BY <1>1 DEF Busy, Resting
<1>3. /\ nNow \in [Threads -> 0 .. nBatchSize] /\ nNow[t] \in Nat /\ nNow'[t] \in Nat
      /\ Len(queue) \in Nat
  BY <1>0, QueueAssumption DEF QTypeOK
<1>4. Cardinality(Slots') = Cardinality(Slots) - Own(pc, nNow, t) + Own(pc', nNow', t)
  <2>1. \A u \in Threads \ {t} : (pc[u] \in Busy <=> pc'[u] \in Busy) /\ nNow[u] = nNow'[u]
    BY <1>2
  <2>2. Cardinality(SlotsOf(pc', nNow')) =
          Cardinality(SlotsOf(pc, nNow)) - Own(pc, nNow, t) + Own(pc', nNow', t)
    BY <1>3, <2>1, SlotsStep
  <2> QED BY <2>2 DEF Slots
<1>5. /\ Own(pc, nNow, t) = (IF pc[t] = "ran" THEN nNow[t] ELSE 0)
      /\ Own(pc', nNow', t) = (IF x = "work" THEN nNow'[t] ELSE 0)
  BY <1>1 DEF Own, Busy
<1>6. Cardinality(Slots) \in Nat /\ Cardinality(Slots') \in Nat
  BY SlotsFinite DEF Slots
<1>7. Cardinality(Idle') = Cardinality(Idle) - (IF pc[t] \in Resting THEN 1 ELSE 0)
                             + (IF pc'[t] \in Resting THEN 1 ELSE 0)
  BY <1>2, IdleMove DEF Idle
<1>8. Cardinality(Idle) \in Nat /\ Cardinality(Idle') \in Nat
  BY IdleFinite DEF Idle
<1>9. pc[t] \in Resting <=> pc[t] = "woken"
  BY <1>1 DEF Resting
<1>10. /\ TodoAfter(t) = Len(queue) + Cardinality(Slots) - Own(pc, nNow, t)
       /\ IdleAfter(t) = Cardinality(Idle) - (IF pc[t] \in Resting THEN 1 ELSE 0)
  BY <1>0, <1>3, <1>5, <1>6, <1>8, <1>9 DEF Counts, TodoAfter, IdleAfter
<1>11. Cardinality(Slots) >= Own(pc, nNow, t)
  <2> DEFINE Rest == {s \in Slots : s[1] # t}
  <2>1. Cardinality(Slots) = Cardinality(Rest) + Own(pc, nNow, t)
    BY <1>3, SlotsSplit DEF Slots
  <2>2. IsFiniteSet(Slots) /\ Rest \in SUBSET Slots
    BY SlotsFinite DEF Slots
  <2>3. Cardinality(Rest) \in Nat
    BY <2>2, FS_Subset, FS_CardinalityType
  <2> HIDE DEF Rest
  <2> QED BY <1>3, <1>5, <2>1, <2>3
<1>12. pc[t] \in Resting => Cardinality(Idle) > 0
  <2>1. pc[t] \in Resting => Idle # {}
    BY DEF Idle, IdleOf
  <2> QED BY <1>8, <2>1, IdleFinite, FS_EmptySet DEF Idle
<1>13. /\ TotalAfter(t) \in Nat /\ (t = Master => TotalAfter(t) > 0)
       /\ pc[Master] \in Busy \cup Resting => TotalAfter(t) > 0
  BY <1>0, <1>1 DEF Counts, TotalAfter, QTypeOK, Busy, Resting
<1>14. TodoAfter(t) \in Nat /\ IdleAfter(t) \in Nat
  BY <1>3, <1>5, <1>6, <1>8, <1>10, <1>11, <1>12
<1>15. Cardinality(Slots') + Len(queue) = TodoAfter(t) + (IF x = "work" THEN nNow'[t] ELSE 0)
  BY <1>3, <1>4, <1>5, <1>6, <1>10
<1>16. Cardinality(Idle') = IdleAfter(t) + (IF x \in Resting THEN 1 ELSE 0)
  BY <1>1, <1>7, <1>8, <1>10
<1> QED BY <1>6, <1>13, <1>14, <1>15, <1>16

(* A thread reports an error of the current round, or nothing.             *)
LEMMA SectionResult ==
  ASSUME IInv, NEW t \in Threads
  PROVE  /\ ResultAfter(t) \in {None, Bad}
         /\ ResultAfter(t) # None <=>
              result # None \/ (pc[t] = "ran" /\ work[t] /\ local[t] # None)
         /\ LocalAfter(t) \in [Threads -> Checks \cup {None}]
         /\ \A u \in Threads \ {t} : LocalAfter(t)[u] = local[u]
BY DEF IInv, QTypeOK, InRound, ResultAfter, LocalAfter, Reports, Busy

-----------------------------------------------------------------------------
(* Each step keeps the invariant.                                          *)

LEMMA InitIInv == Init => IInv
<1> SUFFICES ASSUME Init PROVE IInv
  OBVIOUS
<1> USE QueueAssumption DEF Init
<1>1. QTypeOK
  <2>1. /\ pc \in [Threads -> Places] /\ nNow \in [Threads -> 0 .. nBatchSize]
        /\ work \in [Threads -> BOOLEAN] /\ local \in [Threads -> Checks \cup {None}]
    BY DEF Places
  <2>2. batch \in [Threads -> Seq(Checks)] /\ queue \in Seq(Checks)
    OBVIOUS
  <2>3. /\ nIdle \in Int /\ nTotal \in Int /\ nTodo \in Int
        /\ round \in Nat \ {0} /\ adds \in Nat
    OBVIOUS
  <2>4. stop \in BOOLEAN /\ failing \in BOOLEAN
    OBVIOUS
  <2>5. result \in Checks \cup {None}
    OBVIOUS
  <2> HIDE DEF Init
  <2> QED BY <2>1, <2>2, <2>3, <2>4, <2>5 DEF QTypeOK
<1>2. Slots = {} /\ Idle = {} /\ pc[Master] = "out"
  BY ThreadsFinite DEF Slots, SlotsOf, Idle, IdleOf, Busy, Resting
<1>3. Counts
  BY <1>2, FS_EmptySet DEF Counts, Busy, Resting
<1>4. Holding /\ InRound
  BY DEF Holding, InRound, Busy
<1>5. FailureKept /\ Rounds
  BY FailuresEmpty DEF FailureKept, SomeFailure, Rounds
<1> QED BY <1>1, <1>3, <1>4, <1>5 DEF IInv

(* The thread finds nothing to take and waits, or it ends.                 *)
LEMMA RestPreserves ==
  ASSUME IInv, NEW t \in Threads, NEW x \in {"wait", "exit"}, InSection(t),
         result' = ResultAfter(t), local' = LocalAfter(t),
         nTodo' = TodoAfter(t), nTotal' = TotalAfter(t),
         nIdle' = IdleAfter(t) + (IF x = "wait" THEN 1 ELSE 0),
         pc' = [PcAfter(t) EXCEPT ![t] = x],
         UNCHANGED <<queue, nNow, batch, work, master, stop>>
  PROVE  IInv'
<1>0. QTypeOK /\ Counts /\ Holding /\ InRound /\ FailureKept /\ Rounds
  BY DEF IInv
<1>1. /\ pc' \in [Threads -> Places] /\ pc'[t] = x /\ pc[t] \in {"first", "ran", "woken"}
      /\ \A u \in Threads \ {t} : pc'[u] = pc[u] \/ (pc[u] = "wait" /\ pc'[u] = "woken")
  BY <1>0, SectionPc DEF InSection, Places
<1>2. UNCHANGED <<queue, nNow, batch, work, round, adds, failing, stop>>
  BY DEF master
<1>3. /\ Cardinality(Slots') + Len(queue) = TodoAfter(t)
      /\ Cardinality(Idle') = IdleAfter(t) + (IF x \in Resting THEN 1 ELSE 0)
      /\ Cardinality(Slots') \in Nat
      /\ TodoAfter(t) \in Nat /\ IdleAfter(t) \in Nat /\ TotalAfter(t) \in Nat
      /\ t = Master => TotalAfter(t) > 0
      /\ pc[Master] \in Busy \cup Resting => TotalAfter(t) > 0
  <2>1. x \in Places /\ x # "ran" /\ x # "work"
    BY DEF Places
  <2>2. nNow' \in [Threads -> 0 .. nBatchSize] /\ \A u \in Threads \ {t} : nNow'[u] = nNow[u]
    BY <1>0, <1>2 DEF QTypeOK
  <2>3. /\ Cardinality(Slots') + Len(queue)
             = TodoAfter(t) + (IF x = "work" THEN nNow'[t] ELSE 0)
        /\ Cardinality(Idle') = IdleAfter(t) + (IF x \in Resting THEN 1 ELSE 0)
        /\ Cardinality(Slots') \in Nat
        /\ TodoAfter(t) \in Nat /\ IdleAfter(t) \in Nat /\ TotalAfter(t) \in Nat
        /\ t = Master => TotalAfter(t) > 0
        /\ pc[Master] \in Busy \cup Resting => TotalAfter(t) > 0
    BY <2>1, <2>2, SectionCounts
  <2> QED BY <2>1, <2>3
<1>4. /\ ResultAfter(t) \in {None, Bad}
      /\ ResultAfter(t) # None <=>
           result # None \/ (pc[t] = "ran" /\ work[t] /\ local[t] # None)
      /\ LocalAfter(t) \in [Threads -> Checks \cup {None}]
      /\ \A u \in Threads \ {t} : LocalAfter(t)[u] = local[u]
  BY SectionResult
<1>5. QTypeOK'
  <2>1. ResultAfter(t) \in Checks \cup {None}
    BY <1>0 DEF QTypeOK, ResultAfter
  <2> QED BY <1>0, <1>1, <1>2, <1>3, <1>4, <2>1 DEF QTypeOK
<1>6. Counts'
  <2>1. pc'[Master] \in Busy \cup Resting => t = Master \/ pc[Master] \in Busy \cup Resting
    BY <1>1, ThreadsFinite DEF Busy, Resting
  <2>2. nIdle' = Cardinality(Idle')
    BY <1>3 DEF Resting
  <2>3. nTodo' = Len(queue') + Cardinality(Slots')
    BY <1>0, <1>2, <1>3 DEF QTypeOK
  <2> QED BY <1>3, <2>1, <2>2, <2>3 DEF Counts
<1>7. Holding'
  BY <1>0, <1>1, <1>2 DEF Holding, Busy, InSection
<1>8. InRound'
  BY <1>0, <1>1, <1>2, <1>4 DEF InRound, Bad, Busy
<1>9. FailureKept'
  <2>1. \A u \in Threads : pc'[u] = "ran" <=> (u # t /\ pc[u] = "ran")
    BY <1>1
  <2>2. SomeFailure' <=> SomeFailure
    BY <1>2, <1>4, <2>1 DEF SomeFailure
  <2> QED BY <1>0, <1>2, <2>2 DEF FailureKept
<1>10. Rounds'
  <2>1. ASSUME adds = 0 PROVE nTodo' = 0
    <3>1. nTodo = 0 /\ Cardinality(Slots) = 0
      BY <1>0, <2>1, SlotsFinite DEF Rounds, Counts, QTypeOK, Slots
    <3>2. pc[t] # "ran"
      <4>1. nNow \in [Threads -> 0 .. nBatchSize] /\ (pc[t] \in Busy => nNow[t] > 0)
        BY <1>0 DEF QTypeOK, Holding
      <4>2. pc[t] \notin Busy
        BY <3>1, <4>1, NoSlots DEF Slots
      <4> QED BY <4>2 DEF Busy
    <3> QED BY <3>1, <3>2 DEF TodoAfter
  <2> QED BY <1>0, <1>2, <2>1 DEF Rounds
<1> QED BY <1>5, <1>6, <1>7, <1>8, <1>9, <1>10 DEF IInv

LEMMA WaitPreserves == ASSUME IInv, NEW t \in Threads, Wait(t) PROVE IInv'
<1>1. nIdle' = IdleAfter(t) + (IF "wait" = "wait" THEN 1 ELSE 0)
  BY DEF Wait
<1> QED BY <1>1, RestPreserves DEF Wait

LEMMA ExitPreserves == ASSUME IInv, NEW t \in Threads, Exit(t) PROVE IInv'
<1>1. IdleAfter(t) \in Int
  BY DEF IInv, QTypeOK, IdleAfter
<1>2. nIdle' = IdleAfter(t) + (IF "exit" = "wait" THEN 1 ELSE 0)
  BY <1>1 DEF Exit
<1> QED BY <1>2, RestPreserves DEF Exit

(* Complete returns: nothing is queued and no thread holds a batch.        *)
LEMMA ReturnFacts ==
  ASSUME IInv, NEW t \in Threads, Return(t)
  PROVE  /\ t = Master /\ queue = <<>> /\ nTodo' = 0 /\ Cardinality(Slots') = 0
         /\ \A u \in Threads : pc'[u] \notin Busy /\ (u # t => pc[u] \notin Busy)
         /\ \A u \in Threads : batch[u] = <<>>
<1>0. QTypeOK /\ Counts /\ Holding
  BY DEF IInv
<1>1. t = Master /\ queue = <<>> /\ TodoAfter(t) = 0 /\ nTodo' = 0 /\ batch' = batch
      /\ nNow' = [nNow EXCEPT ![t] = 0] /\ pc' = [PcAfter(t) EXCEPT ![t] = "out"] /\ InSection(t)
  BY DEF Return, MasterDone
<1>2. nNow' \in [Threads -> 0 .. nBatchSize] /\ \A u \in Threads \ {t} : nNow'[u] = nNow[u]
  BY <1>0, <1>1, QueueAssumption DEF QTypeOK
<1>3. Cardinality(Slots') + Len(queue) = TodoAfter(t) /\ Cardinality(Slots') \in Nat
  <2>1. "out" \in Places /\ "out" # "ran"
    BY DEF Places
  <2>2. /\ Cardinality(Slots') + Len(queue)
             = TodoAfter(t) + (IF "out" = "work" THEN nNow'[t] ELSE 0)
        /\ Cardinality(Slots') \in Nat
    BY <1>1, <1>2, <2>1, SectionCounts
  <2> QED BY <1>1, <2>2
<1>4. Cardinality(Slots') = 0
  BY <1>1, <1>3
<1>5. /\ pc'[t] = "out" /\ pc[t] \in {"first", "ran", "woken"}
      /\ \A u \in Threads \ {t} : pc'[u] = pc[u] \/ (pc[u] = "wait" /\ pc'[u] = "woken")
  BY <1>0, <1>1, SectionPc DEF InSection, Places
<1>6. \A u \in Threads : pc'[u] \in Busy => nNow'[u] = 0
  BY <1>2, <1>4, NoSlots DEF Slots
<1>7. \A u \in Threads \ {t} : pc[u] \notin Busy
  BY <1>0, <1>2, <1>5, <1>6 DEF Holding, Busy
<1> QED BY <1>0, <1>1, <1>4, <1>5, <1>7 DEF Holding, Busy

LEMMA ReturnPreserves == ASSUME IInv, NEW t \in Threads, Return(t) PROVE IInv'
<1>0. QTypeOK /\ Counts /\ Holding /\ InRound /\ FailureKept /\ Rounds
  BY DEF IInv
<1>1. /\ t = Master /\ queue = <<>> /\ nTodo' = 0 /\ Cardinality(Slots') = 0
      /\ \A u \in Threads : pc'[u] \notin Busy /\ (u # t => pc[u] \notin Busy)
      /\ \A u \in Threads : batch[u] = <<>>
  BY ReturnFacts
<1>2. /\ UNCHANGED <<queue, batch, stop>> /\ result' = None /\ local' = [local EXCEPT ![t] = None]
      /\ nNow' = [nNow EXCEPT ![t] = 0] /\ work' = [work EXCEPT ![t] = FALSE]
      /\ pc' = [PcAfter(t) EXCEPT ![t] = "out"] /\ InSection(t)
      /\ round' = round + 1 /\ adds' = 0 /\ failing' = FALSE
      /\ nTotal' = TotalAfter(t) - 1 /\ nIdle' = IdleAfter(t)
  BY DEF Return
<1>3. nNow' \in [Threads -> 0 .. nBatchSize] /\ \A u \in Threads \ {t} : nNow'[u] = nNow[u]
  BY <1>0, <1>2, QueueAssumption DEF QTypeOK
<1>4. /\ Cardinality(Idle') = IdleAfter(t) /\ IdleAfter(t) \in Nat
      /\ TotalAfter(t) \in Nat /\ TotalAfter(t) > 0
  <2>1. "out" \in Places /\ "out" # "ran" /\ "out" \notin Resting
    BY DEF Places, Resting
  <2>2. /\ Cardinality(Idle') = IdleAfter(t) + (IF "out" \in Resting THEN 1 ELSE 0)
        /\ IdleAfter(t) \in Nat /\ TotalAfter(t) \in Nat
        /\ t = Master => TotalAfter(t) > 0
    BY <1>1, <1>2, <1>3, <2>1, SectionCounts
  <2> QED BY <1>1, <2>1, <2>2
<1>5. pc' \in [Threads -> Places] /\ pc'[t] = "out"
  BY <1>0, <1>2, SectionPc DEF Places
<1>6. QTypeOK'
  <2>1. /\ local' \in [Threads -> Checks \cup {None}] /\ work' \in [Threads -> BOOLEAN]
        /\ round' \in Nat \ {0} /\ nTotal' \in Int /\ nIdle' \in Int /\ nTodo' \in Int
    BY <1>0, <1>1, <1>2, <1>4 DEF QTypeOK
  <2> QED BY <1>0, <1>2, <1>3, <1>5, <2>1 DEF QTypeOK
<1>7. Counts'
  BY <1>1, <1>2, <1>4, <1>5 DEF Counts, Busy, Resting
<1>8. Holding' /\ InRound'
  BY <1>1, <1>2 DEF Holding, InRound, Busy
<1>9. FailureKept'
  BY <1>1, <1>2, FailuresEmpty DEF FailureKept, SomeFailure, Busy
<1>10. Rounds'
  BY <1>1, <1>2 DEF Rounds
<1> QED BY <1>6, <1>7, <1>8, <1>9, <1>10 DEF IInv

(* A thread takes a batch from the end of the queue.                       *)
LEMMA BatchSizeBound ==
  ASSUME QTypeOK, NEW t \in Threads, queue # <<>>, TotalAfter(t) \in Nat, IdleAfter(t) \in Nat
  PROVE  BatchSize(t) \in 1 .. nBatchSize /\ BatchSize(t) \in 1 .. Len(queue)
<1>1. Len(queue) \in Nat \ {0} /\ TotalAfter(t) + IdleAfter(t) + 1 \in Nat \ {0}
  BY DEF QTypeOK
<1>2. BatchSize(t) \in 1 .. nBatchSize /\ BatchSize(t) <= Len(queue)
  BY <1>1, BatchBound DEF BatchSize
<1> QED BY <1>1, <1>2, QueueAssumption

LEMMA TakeBatchPreserves == ASSUME IInv, NEW t \in Threads, TakeBatch(t) PROVE IInv'
<1>0. QTypeOK /\ Counts /\ Holding /\ InRound /\ FailureKept /\ Rounds
  BY DEF IInv
<1> DEFINE n == BatchSize(t)
<1>1. /\ InSection(t) /\ queue # <<>> /\ result' = ResultAfter(t) /\ local' = LocalAfter(t)
      /\ nTodo' = TodoAfter(t) /\ nTotal' = TotalAfter(t) /\ nIdle' = IdleAfter(t)
      /\ nNow' = [nNow EXCEPT ![t] = n]
      /\ batch' = [batch EXCEPT ![t] = SubSeq(queue, Len(queue) - n + 1, Len(queue))]
      /\ queue' = SubSeq(queue, 1, Len(queue) - n)
      /\ work' = [work EXCEPT ![t] = ResultAfter(t) = None]
      /\ pc' = [PcAfter(t) EXCEPT ![t] = "work"]
      /\ UNCHANGED <<round, adds, failing, stop>>
  BY DEF TakeBatch, master
<1>2. /\ pc' \in [Threads -> Places] /\ pc'[t] = "work" /\ pc[t] \in {"first", "ran", "woken"}
      /\ \A u \in Threads \ {t} : pc'[u] = pc[u] \/ (pc[u] = "wait" /\ pc'[u] = "woken")
  BY <1>0, <1>1, SectionPc DEF InSection, Places
<1>3. TotalAfter(t) \in Nat /\ IdleAfter(t) \in Nat
  <2>1. IdleAfter(t) \in Nat
    <3>1. nIdle = Cardinality(Idle) /\ Cardinality(Idle) \in Nat /\ IsFiniteSet(Idle)
      BY <1>0, IdleFinite DEF Counts, Idle
    <3>2. pc[t] = "woken" => Idle # {}
      BY DEF Idle, IdleOf, Resting
    <3>3. pc[t] = "woken" => nIdle # 0
      BY <3>1, <3>2, FS_EmptySet
    <3> QED BY <3>1, <3>3 DEF IdleAfter
  <2> QED BY <1>0, <2>1 DEF Counts, QTypeOK, TotalAfter
<1>4. n \in 1 .. nBatchSize /\ n \in 1 .. Len(queue)
  BY <1>0, <1>1, <1>3, BatchSizeBound
<1> HIDE DEF n
<1>5. /\ nNow' \in [Threads -> 0 .. nBatchSize] /\ \A u \in Threads \ {t} : nNow'[u] = nNow[u]
      /\ nNow'[t] = n
  BY <1>0, <1>1, <1>4, QueueAssumption DEF QTypeOK
<1>6. /\ Cardinality(Slots') + Len(queue) = TodoAfter(t) + n
      /\ Cardinality(Idle') = IdleAfter(t)
      /\ Cardinality(Slots') \in Nat
      /\ TodoAfter(t) \in Nat
      /\ t = Master => TotalAfter(t) > 0
      /\ pc[Master] \in Busy \cup Resting => TotalAfter(t) > 0
  <2>1. "work" \in Places /\ "work" # "ran" /\ "work" \notin Resting
    BY DEF Places, Resting
  <2>2. /\ Cardinality(Slots') + Len(queue)
             = TodoAfter(t) + (IF "work" = "work" THEN nNow'[t] ELSE 0)
        /\ Cardinality(Idle') = IdleAfter(t) + (IF "work" \in Resting THEN 1 ELSE 0)
        /\ Cardinality(Slots') \in Nat
        /\ TodoAfter(t) \in Nat
        /\ t = Master => TotalAfter(t) > 0
        /\ pc[Master] \in Busy \cup Resting => TotalAfter(t) > 0
    BY <1>1, <1>5, <2>1, SectionCounts
  <2> QED BY <1>3, <1>5, <2>1, <2>2
<1>7. /\ ResultAfter(t) \in {None, Bad}
      /\ ResultAfter(t) # None <=>
           result # None \/ (pc[t] = "ran" /\ work[t] /\ local[t] # None)
      /\ LocalAfter(t) \in [Threads -> Checks \cup {None}]
      /\ \A u \in Threads \ {t} : LocalAfter(t)[u] = local[u]
  BY SectionResult
<1> DEFINE taken == SubSeq(queue, Len(queue) - n + 1, Len(queue))
           left == SubSeq(queue, 1, Len(queue) - n)
<1>8. /\ taken \in Seq(Checks) /\ left \in Seq(Checks) /\ Len(left) = Len(queue) - n
      /\ Len(queue) \in Nat
  BY <1>0, <1>4, TakenAndLeft DEF QTypeOK
<1>9. /\ \A k \in DOMAIN left : k \in DOMAIN queue /\ left[k] = queue[k]
      /\ \A k \in DOMAIN taken : Len(queue) - n + k \in DOMAIN queue
                                 /\ taken[k] = queue[Len(queue) - n + k]
  <2>1. queue \in Seq(Checks)
    BY <1>0 DEF QTypeOK
  <2> QED BY <1>4, <2>1, TakenAndLeft
<1>10. Failures(queue) # {} <=> Failures(left) # {} \/ Failures(taken) # {}
  BY <1>0, <1>4, FailuresSplit DEF QTypeOK
<1>11. batch' = [batch EXCEPT ![t] = taken] /\ queue' = left
  BY <1>1
<1> HIDE DEF taken, left
<1>12. batch[t] = <<>>
  BY <1>0, <1>2 DEF Holding
<1>13. QTypeOK'
  <2>1. ResultAfter(t) \in Checks \cup {None}
    BY <1>0 DEF QTypeOK, ResultAfter
  <2>2. batch' \in [Threads -> Seq(Checks)] /\ work' \in [Threads -> BOOLEAN]
    BY <1>0, <1>1, <1>8, <1>11 DEF QTypeOK
  <2>3. /\ nIdle' \in Int /\ nTotal' \in Int /\ nTodo' \in Int
        /\ round' \in Nat \ {0} /\ adds' \in Nat
    BY <1>0, <1>1, <1>3, <1>6 DEF QTypeOK
  <2>4. stop' \in BOOLEAN /\ failing' \in BOOLEAN
    BY <1>0, <1>1 DEF QTypeOK
  <2>5. /\ result' \in Checks \cup {None} /\ local' \in [Threads -> Checks \cup {None}]
        /\ queue' \in Seq(Checks)
    BY <1>1, <1>7, <1>8, <1>11, <2>1
  <2> QED BY <1>2, <1>5, <2>2, <2>3, <2>4, <2>5 DEF QTypeOK
<1>14. Counts'
  <2>1. pc'[Master] \in Busy \cup Resting => t = Master \/ pc[Master] \in Busy \cup Resting
    BY <1>2, ThreadsFinite DEF Busy, Resting
  <2>2. nTodo' = Len(queue') + Cardinality(Slots')
    <3>1. Len(queue') = Len(queue) - n
      BY <1>8, <1>11
    <3>2. n \in Nat
      BY <1>4, QueueAssumption
    <3>3. nTodo' = TodoAfter(t)
      BY <1>1
    <3>4. /\ Cardinality(Slots') + Len(queue) = TodoAfter(t) + n
          /\ Cardinality(Slots') \in Nat /\ TodoAfter(t) \in Nat /\ Len(queue) \in Nat
      BY <1>6, <1>8
    <3>5. TodoAfter(t) = Len(queue) - n + Cardinality(Slots')
      BY <3>2, <3>4
    <3> QED BY <3>1, <3>3, <3>5
  <2> QED BY <1>1, <1>3, <1>6, <2>1, <2>2 DEF Counts
<1>15. Holding'
  BY <1>0, <1>1, <1>2, <1>4, <1>5, <1>11 DEF Holding, Busy, QTypeOK
<1>16. InRound'
  <2>1. \A k \in DOMAIN queue' : queue'[k].round = round'
    BY <1>0, <1>1, <1>9, <1>11 DEF InRound
  <2>2. \A k \in DOMAIN taken : taken[k].round = round
    BY <1>0, <1>9 DEF InRound
  <2>3. \A u \in Threads : batch'[u] = IF u = t THEN taken ELSE batch[u]
    BY <1>0, <1>11 DEF QTypeOK
  <2>4. ASSUME NEW u \in Threads PROVE \A k \in DOMAIN batch'[u] : batch'[u][k].round = round'
    <3>1. CASE u = t
      BY <1>1, <2>2, <2>3, <3>1
    <3>2. CASE u # t
      <4>1. batch'[u] = batch[u]
        BY <2>3, <3>2
      <4> QED BY <1>0, <1>1, <4>1 DEF InRound
    <3> QED BY <3>1, <3>2
  <2>5. result' \in {None, Bad'}
    BY <1>1, <1>7 DEF Bad
  <2>6. \A u \in Threads : work'[u] = IF u = t THEN ResultAfter(t) = None ELSE work[u]
    BY <1>0, <1>1 DEF QTypeOK
  <2>7. \A u \in Threads : pc'[u] \in Busy /\ ~work'[u] => result' # None
    BY <1>0, <1>1, <1>2, <1>7, <2>6 DEF InRound, Busy
  <2>8. \A u \in Threads : pc'[u] = "ran" /\ work'[u] => local'[u] \in {None, Bad'}
    BY <1>0, <1>1, <1>2, <1>7, <2>6 DEF InRound, Bad
  <2> QED BY <2>1, <2>4, <2>5, <2>7, <2>8 DEF InRound
<1>17. FailureKept'
  <2>1. \A u \in Threads : pc'[u] = "ran" <=> (u # t /\ pc[u] = "ran")
    BY <1>2
  <2>2. \A u \in Threads : batch'[u] = IF u = t THEN taken ELSE batch[u]
    BY <1>0, <1>11 DEF QTypeOK
  <2>3. (\E u \in Threads : Failures(batch'[u]) # {}) \/ Failures(queue') # {}
          <=> (\E u \in Threads : Failures(batch[u]) # {}) \/ Failures(queue) # {}
    <3>1. Failures(batch[t]) = {}
      BY <1>12, FailuresEmpty
    <3>2. Failures(batch'[t]) = Failures(taken) /\ Failures(queue') = Failures(left)
      BY <1>11, <2>2
    <3>3. \A u \in Threads \ {t} : Failures(batch'[u]) = Failures(batch[u])
      BY <2>2
    <3> QED BY <1>10, <3>1, <3>2, <3>3
  <2>4. \A u \in Threads \ {t} : work'[u] = work[u] /\ local'[u] = local[u]
    BY <1>0, <1>1, <1>7 DEF QTypeOK
  <2>5. result' # None \/ (\E u \in Threads : pc'[u] = "ran" /\ work'[u] /\ local'[u] # None)
          <=> result # None \/ (\E u \in Threads : pc[u] = "ran" /\ work[u] /\ local[u] # None)
    BY <1>1, <1>7, <2>1, <2>4
  <2>6. SomeFailure' <=> SomeFailure
    BY <2>3, <2>5 DEF SomeFailure
  <2> QED BY <1>0, <1>1, <2>6 DEF FailureKept
<1>18. Rounds'
  <2>1. nTodo # 0
    BY <1>0, <1>4, <1>8, SlotsFinite DEF Counts, Slots
  <2> QED BY <1>0, <1>1, <2>1 DEF Rounds
<1> QED BY <1>13, <1>14, <1>15, <1>16, <1>17, <1>18 DEF IInv

(* The checks run: a failing one becomes the thread's result, unless they  *)
(* are skipped.                                                            *)
LEMMA LocalResultOf ==
  ASSUME IInv, NEW t \in Threads
  PROVE  /\ LocalResult(t) \in {None, Bad} /\ LocalResult(t) \in Checks \cup {None}
         /\ LocalResult(t) # None <=> Failures(batch[t]) # {}
<1>0. batch[t] \in Seq(Checks) /\ \A k \in DOMAIN batch[t] : batch[t][k].round = round
  BY DEF IInv, QTypeOK, InRound
<1>1. CASE Failures(batch[t]) = {}
  BY <1>1 DEF LocalResult
<1>2. CASE Failures(batch[t]) # {}
  <2> DEFINE k == Min(Failures(batch[t]))
  <2>1. Failures(batch[t]) \subseteq Nat
    BY <1>0 DEF Failures
  <2>2. k \in Failures(batch[t])
    BY <1>2, <2>1, MinIn
  <2> HIDE DEF k
  <2>3. k \in DOMAIN batch[t] /\ ~batch[t][k].ok
    BY <2>2 DEF Failures
  <2>4. batch[t][k] \in Checks
    BY <1>0, <2>3
  <2>5. batch[t][k] = Bad
    BY <1>0, <2>3, <2>4 DEF Checks, Bad
  <2>6. LocalResult(t) = batch[t][k]
    BY <1>2 DEF LocalResult, k
  <2> QED BY <1>2, <2>4, <2>5, <2>6, NoneAssumption
<1> QED BY <1>1, <1>2

LEMMA RunChecksPreserves == ASSUME IInv, NEW t \in Threads, RunChecks(t) PROVE IInv'
<1>0. QTypeOK /\ Counts /\ Holding /\ InRound /\ FailureKept /\ Rounds
  BY DEF IInv
<1>1. /\ pc[t] = "work"
      /\ local' = IF work[t] THEN [local EXCEPT ![t] = LocalResult(t)] ELSE local
      /\ batch' = [batch EXCEPT ![t] = <<>>] /\ pc' = [pc EXCEPT ![t] = "ran"]
      /\ UNCHANGED <<queue, nIdle, nTotal, nTodo, result, nNow, work,
                     round, adds, failing, stop>>
  BY DEF RunChecks, shared, master
<1>2. /\ LocalResult(t) \in {None, Bad} /\ LocalResult(t) \in Checks \cup {None}
      /\ LocalResult(t) # None <=> Failures(batch[t]) # {}
  BY LocalResultOf
<1>3. \A u \in Threads : /\ pc'[u] = IF u = t THEN "ran" ELSE pc[u]
                         /\ batch'[u] = IF u = t THEN <<>> ELSE batch[u]
                         /\ u # t => local'[u] = local[u]
  BY <1>0, <1>1 DEF QTypeOK
<1>4. local'[t] = IF work[t] THEN LocalResult(t) ELSE local[t]
  BY <1>0, <1>1 DEF QTypeOK
<1>5. QTypeOK'
  <2>1. local' \in [Threads -> Checks \cup {None}]
    BY <1>0, <1>1, <1>2 DEF QTypeOK
  <2>2. pc' \in [Threads -> Places] /\ batch' \in [Threads -> Seq(Checks)]
    BY <1>0, <1>1 DEF QTypeOK, Places
  <2> QED BY <1>0, <1>1, <2>1, <2>2 DEF QTypeOK
<1>6. Slots' = Slots /\ Idle' = Idle
  <2>1. \A u \in Threads : /\ pc[u] \in Busy <=> pc'[u] \in Busy
                           /\ pc[u] \in Resting <=> pc'[u] \in Resting
    BY <1>1, <1>3 DEF Busy, Resting
  <2>2. Idle' = Idle
    BY <2>1 DEF Idle, IdleOf
  <2> QED BY <1>1, <2>1, <2>2, SlotsSame DEF Slots
<1>7. Counts'
  <2>1. pc'[Master] \in Busy \cup Resting => pc[Master] \in Busy \cup Resting
    BY <1>1, <1>3, ThreadsFinite DEF Busy
  <2> QED BY <1>0, <1>1, <1>6, <2>1 DEF Counts
<1>8. Holding'
  BY <1>0, <1>1, <1>3 DEF Holding, Busy
<1>9. InRound'
  <2>1. \A u \in Threads : pc'[u] \in Busy /\ ~work'[u] => result' # None
    BY <1>0, <1>1, <1>3 DEF InRound, Busy
  <2>2. \A u \in Threads : pc'[u] = "ran" /\ work'[u] => local'[u] \in {None, Bad'}
    BY <1>0, <1>1, <1>2, <1>3, <1>4 DEF InRound, Bad
  <2>3. \A u \in Threads : \A k \in DOMAIN batch'[u] : batch'[u][k].round = round'
    BY <1>0, <1>1, <1>3 DEF InRound
  <2> QED BY <1>0, <1>1, <2>1, <2>2, <2>3 DEF InRound, Bad
<1>10. FailureKept'
  <2>1. Failures(batch'[t]) = {}
    BY <1>3, FailuresEmpty
  <2>2. \A u \in Threads \ {t} : /\ Failures(batch'[u]) = Failures(batch[u])
                                 /\ pc'[u] = pc[u] /\ work'[u] = work[u] /\ local'[u] = local[u]
    BY <1>1, <1>3
  <2>3. pc'[t] = "ran" /\ pc[t] # "ran" /\ work'[t] = work[t]
        /\ queue' = queue /\ result' = result
    BY <1>1, <1>3
  <2>4. ~work[t] => result # None
    BY <1>0, <1>1 DEF InRound, Busy
  <2>5. SomeFailure' <=> SomeFailure
    BY <1>2, <1>4, <2>1, <2>2, <2>3, <2>4 DEF SomeFailure
  <2> QED BY <1>0, <1>1, <2>5 DEF FailureKept
<1>11. Rounds'
  BY <1>0, <1>1 DEF Rounds
<1> QED BY <1>5, <1>7, <1>8, <1>9, <1>10, <1>11 DEF IInv

(* The steps that only move threads, and keep each of them at the same     *)
(* count: waking up, notifying, calling Complete or the destructor.        *)
LEMMA MovePreserves ==
  ASSUME IInv, UNCHANGED <<shared, loop, master>>, stop' \in BOOLEAN,
         pc' \in [Threads -> Places],
         \A u \in Threads : /\ pc[u] \in Resting <=> pc'[u] \in Resting
                            /\ pc[u] \in Busy \cup {"first"} \/ pc'[u] \in Busy => pc'[u] = pc[u]
  PROVE  IInv'
<1>0. QTypeOK /\ Counts /\ Holding /\ InRound /\ FailureKept /\ Rounds
  BY DEF IInv
<1>1. UNCHANGED <<queue, nIdle, nTotal, nTodo, result, nNow, batch, work, local,
                  round, adds, failing>>
  BY DEF shared, loop, master
<1>2. \A u \in Threads : /\ pc[u] \in Busy <=> pc'[u] \in Busy
                         /\ pc[u] = "ran" <=> pc'[u] = "ran"
                         /\ pc[u] = "work" <=> pc'[u] = "work"
  BY DEF Busy
<1>3. Slots' = Slots /\ Idle' = Idle
  <2>1. Idle' = Idle
    BY DEF Idle, IdleOf
  <2> QED BY <1>1, <1>2, <2>1, SlotsSame DEF Slots
<1>4. QTypeOK'
  BY <1>0, <1>1 DEF QTypeOK
<1>5. Counts'
  <2>1. pc'[Master] \in Busy \cup Resting => pc[Master] \in Busy \cup Resting
    BY <1>2, ThreadsFinite
  <2> QED BY <1>0, <1>1, <1>3, <2>1 DEF Counts
<1>6. Holding'
  BY <1>0, <1>1, <1>2 DEF Holding
<1>7. InRound'
  BY <1>0, <1>1, <1>2 DEF InRound, Bad
<1>8. FailureKept'
  BY <1>0, <1>1, <1>2 DEF FailureKept, SomeFailure
<1>9. Rounds'
  BY <1>0, <1>1 DEF Rounds
<1> QED BY <1>4, <1>5, <1>6, <1>7, <1>8, <1>9 DEF IInv

LEMMA SpuriousWakePreserves == ASSUME IInv, NEW t \in Threads, SpuriousWake(t) PROVE IInv'
<1>1. QTypeOK
  BY DEF IInv
<1>2. /\ UNCHANGED <<shared, loop, master>> /\ stop' = stop
      /\ pc[t] = "wait" /\ pc' = [pc EXCEPT ![t] = "woken"]
  BY DEF SpuriousWake
<1>3. stop' \in BOOLEAN /\ pc' \in [Threads -> Places]
  BY <1>1, <1>2 DEF QTypeOK, Places
<1>4. \A u \in Threads : /\ pc[u] \in Resting <=> pc'[u] \in Resting
                         /\ pc[u] \in Busy \cup {"first"} \/ pc'[u] \in Busy => pc'[u] = pc[u]
  BY <1>1, <1>2 DEF QTypeOK, Resting, Busy
<1> QED BY <1>2, <1>3, <1>4, MovePreserves

LEMMA MasterNotWorker == Master \notin Workers /\ \A w \in Workers : w \in Threads
BY QueueAssumption DEF Threads

LEMMA NotifyOnePreserves == ASSUME IInv, NotifyOne PROVE IInv'
<1>1. QTypeOK
  BY DEF IInv
<1>2. UNCHANGED <<shared, loop, master>> /\ stop' = stop /\ pc[Master] = "notify_one"
  BY DEF NotifyOne
<1>3. /\ stop' \in BOOLEAN /\ pc' \in [Threads -> Places]
      /\ \A u \in Threads : pc'[u] = pc[u] \/ (pc[u] = "wait" /\ pc'[u] = "woken")
                            \/ (u = Master /\ pc'[u] = "out")
  <2>1. stop' \in BOOLEAN
    BY <1>1, <1>2 DEF QTypeOK
  <2>2. CASE pc' = [pc EXCEPT ![Master] = "out"]
    BY <1>1, <2>1, <2>2 DEF QTypeOK, Places
  <2>3. ASSUME NEW w \in WaitingWorkers, pc' = [pc EXCEPT ![Master] = "out", ![w] = "woken"]
        PROVE  pc' \in [Threads -> Places]
               /\ \A u \in Threads : pc'[u] = pc[u] \/ (pc[u] = "wait" /\ pc'[u] = "woken")
                                     \/ (u = Master /\ pc'[u] = "out")
    <3>1. w \in Threads /\ w # Master /\ pc[w] = "wait"
      BY <2>3, MasterNotWorker DEF WaitingWorkers
    <3> QED BY <1>1, <2>3, <3>1 DEF QTypeOK, Places
  <2> QED BY <2>1, <2>2, <2>3 DEF NotifyOne
<1>4. \A u \in Threads : /\ pc[u] \in Resting <=> pc'[u] \in Resting
                         /\ pc[u] \in Busy \cup {"first"} \/ pc'[u] \in Busy => pc'[u] = pc[u]
  BY <1>2, <1>3 DEF Resting, Busy
<1> QED BY <1>2, <1>3, <1>4, MovePreserves

LEMMA NotifyAllPreserves == ASSUME IInv, NotifyAll PROVE IInv'
<1>1. QTypeOK
  BY DEF IInv
<1>2. /\ UNCHANGED <<shared, loop, master>> /\ stop' = stop /\ pc[Master] = "notify_all"
      /\ pc' = [Woken(pc, Workers) EXCEPT ![Master] = "out"]
  BY DEF NotifyAll
<1>3. /\ stop' \in BOOLEAN /\ pc' \in [Threads -> Places]
      /\ \A u \in Threads : pc'[u] = pc[u] \/ (pc[u] = "wait" /\ pc'[u] = "woken")
                            \/ (u = Master /\ pc'[u] = "out")
  BY <1>1, <1>2 DEF QTypeOK, Places, Woken
<1>4. \A u \in Threads : /\ pc[u] \in Resting <=> pc'[u] \in Resting
                         /\ pc[u] \in Busy \cup {"first"} \/ pc'[u] \in Busy => pc'[u] = pc[u]
  BY <1>2, <1>3 DEF Resting, Busy
<1> QED BY <1>2, <1>3, <1>4, MovePreserves

LEMMA CallPreserves ==
  ASSUME IInv, Complete \/ Destroy PROVE IInv'
<1>1. QTypeOK
  BY DEF IInv
<1>2. /\ UNCHANGED <<shared, loop, master>> /\ stop' \in BOOLEAN /\ pc[Master] = "out"
      /\ \E x \in {"first", "notify_all"} : pc' = [pc EXCEPT ![Master] = x]
  BY <1>1 DEF Complete, Destroy, QTypeOK
<1>3. /\ pc' \in [Threads -> Places]
      /\ \A u \in Threads : pc'[u] = pc[u] \/ (pc[u] = "out" /\ pc'[u] \in {"first", "notify_all"})
  BY <1>1, <1>2 DEF QTypeOK, Places
<1>4. \A u \in Threads : /\ pc[u] \in Resting <=> pc'[u] \in Resting
                         /\ pc[u] \in Busy \cup {"first"} \/ pc'[u] \in Busy => pc'[u] = pc[u]
  BY <1>3 DEF Resting, Busy
<1> QED BY <1>2, <1>3, <1>4, MovePreserves

(* Checks are added to the round.                                          *)
LEMMA AddPreserves == ASSUME IInv, NEW oks \in CheckLists, Add(oks) PROVE IInv'
<1>0. QTypeOK /\ Counts /\ Holding /\ InRound /\ FailureKept /\ Rounds
  BY DEF IInv
<1> DEFINE new == [k \in DOMAIN oks |-> [round |-> round, ok |-> oks[k]]]
<1>1. /\ pc[Master] = "out" /\ round <= MaxRounds /\ adds' = adds + 1
      /\ queue' = queue \o new /\ nTodo' = nTodo + Len(oks)
      /\ failing' = (failing \/ \E k \in DOMAIN oks : ~oks[k])
      /\ \E x \in {"notify_one", "notify_all"} : pc' = [pc EXCEPT ![Master] = x]
      /\ UNCHANGED <<nIdle, nTotal, result, nNow, batch, work, local, round, stop>>
  BY DEF Add, loop
<1>2. PICK m \in 1 .. MaxChecks : oks \in [1 .. m -> BOOLEAN]
  BY DEF CheckLists
<1>3. m \in Nat /\ DOMAIN oks = 1 .. m /\ Len(oks) = m /\ \A k \in 1 .. m : oks[k] \in BOOLEAN
  BY <1>2, QueueAssumption
<1>4. round \in 1 .. MaxRounds
  BY <1>0, <1>1, QueueAssumption DEF QTypeOK
<1>5. \A k \in 1 .. m : [round |-> round, ok |-> oks[k]] \in Checks
  BY <1>3, <1>4 DEF Checks
<1>6. /\ new \in Seq(Checks) /\ Len(new) = m /\ DOMAIN new = 1 .. m
      /\ \A k \in 1 .. m : new[k].round = round /\ new[k].ok = oks[k]
  BY <1>3, <1>5
<1> HIDE DEF new
<1>7. queue \in Seq(Checks) /\ Len(queue) \in Nat
  BY <1>0 DEF QTypeOK
<1>8. queue' \in Seq(Checks) /\ Len(queue') = Len(queue) + m
  <2>1. queue \o new \in Seq(Checks) /\ Len(queue \o new) = Len(queue) + Len(new)
    BY <1>6, <1>7
  <2> QED BY <1>1, <1>6, <2>1
<1>9. Failures(queue') # {} <=> Failures(queue) # {} \/ \E k \in DOMAIN oks : ~oks[k]
  <2>1. Failures(new) # {} <=> \E k \in DOMAIN oks : ~oks[k]
    BY <1>3, <1>6 DEF Failures
  <2> QED BY <1>1, <1>6, <1>7, <2>1, FailuresAppend
<1>10. \A k \in DOMAIN queue' : queue'[k].round = round
  <2>1. ASSUME NEW k \in DOMAIN queue' PROVE queue'[k].round = round
    <3>1. /\ DOMAIN queue' = 1 .. Len(queue) + m /\ DOMAIN queue = 1 .. Len(queue)
      BY <1>7, <1>8, <1>3
    <3>2. CASE k <= Len(queue)
      <4>1. k \in DOMAIN queue /\ queue'[k] = queue[k]
        BY <1>1, <1>6, <1>7, <3>1, <3>2
      <4> QED BY <1>0, <4>1 DEF InRound
    <3>3. CASE k > Len(queue)
      <4>1. k - Len(queue) \in 1 .. m /\ queue'[k] = new[k - Len(queue)]
        BY <1>1, <1>3, <1>6, <1>7, <3>1, <3>3
      <4> QED BY <1>6, <4>1
    <3> QED BY <1>3, <1>7, <3>1, <3>2, <3>3
  <2> QED BY <2>1
<1>11. /\ pc' \in [Threads -> Places]
       /\ \A u \in Threads : pc'[u] = pc[u] \/ (pc[u] = "out" /\ pc'[u] \in {"notify_one", "notify_all"})
  BY <1>0, <1>1 DEF QTypeOK, Places
<1>12. \A u \in Threads : /\ pc[u] \in Busy <=> pc'[u] \in Busy
                          /\ pc[u] \in Resting <=> pc'[u] \in Resting
                          /\ pc[u] = "ran" <=> pc'[u] = "ran"
                          /\ pc[u] = "work" <=> pc'[u] = "work"
  BY <1>11 DEF Busy, Resting
<1>13. Slots' = Slots /\ Idle' = Idle
  <2>1. Idle' = Idle
    BY <1>12 DEF Idle, IdleOf
  <2> QED BY <1>1, <1>12, <2>1, SlotsSame DEF Slots
<1>14. QTypeOK'
  <2>1. failing' \in BOOLEAN
    BY <1>0, <1>1 DEF QTypeOK
  <2>2. nTodo' \in Int /\ adds' \in Nat
    BY <1>0, <1>1, <1>3 DEF QTypeOK
  <2> QED BY <1>0, <1>1, <1>8, <1>11, <2>1, <2>2 DEF QTypeOK
<1>15. Counts'
  <2>1. pc'[Master] \in Busy \cup Resting => pc[Master] \in Busy \cup Resting
    BY <1>12, ThreadsFinite
  <2>2. nTodo' = Len(queue') + Cardinality(Slots')
    <3>1. Cardinality(Slots) \in Nat
      BY SlotsFinite DEF Slots
    <3> QED BY <1>0, <1>1, <1>3, <1>7, <1>8, <1>13, <3>1 DEF Counts
  <2> QED BY <1>0, <1>1, <1>13, <2>1, <2>2 DEF Counts
<1>16. Holding'
  BY <1>0, <1>1, <1>12 DEF Holding
<1>17. InRound'
  <2>1. \A k \in DOMAIN queue' : queue'[k].round = round'
    BY <1>1, <1>10
  <2> QED BY <1>0, <1>1, <1>12, <2>1 DEF InRound, Bad
<1>18. FailureKept'
  <2>1. SomeFailure' <=> SomeFailure \/ \E k \in DOMAIN oks : ~oks[k]
    BY <1>1, <1>9, <1>12 DEF SomeFailure
  <2> QED BY <1>0, <1>1, <2>1 DEF FailureKept
<1>19. Rounds'
  BY <1>0, <1>1, <1>4 DEF Rounds, QTypeOK
<1> QED BY <1>14, <1>15, <1>16, <1>17, <1>18, <1>19 DEF IInv

LEMMA StutterPreserves == ASSUME IInv, UNCHANGED vars PROVE IInv'
<1>1. /\ UNCHANGED <<queue, nIdle, nTotal, nTodo, result, nNow, batch, work, local,
                     round, adds, failing, stop, pc>>
  BY DEF vars, shared, loop, master
<1> QED BY <1>1 DEF IInv, QTypeOK, Counts, Slots, Idle, Holding, InRound, Bad, FailureKept,
                    SomeFailure, Rounds

LEMMA NextPreserves == ASSUME IInv, [Next]_vars PROVE IInv'
<1>1. ASSUME NEW t \in Threads, LoopStep(t) PROVE IInv'
  BY <1>1, ReturnPreserves, WaitPreserves, ExitPreserves, TakeBatchPreserves,
     RunChecksPreserves DEF LoopStep
<1>2. ASSUME NEW t \in Threads, SpuriousWake(t) PROVE IInv'
  BY <1>2, SpuriousWakePreserves
<1>3. ASSUME NEW oks \in CheckLists, Add(oks) PROVE IInv'
  BY <1>3, AddPreserves
<1>4. CASE UNCHANGED vars
  BY <1>4, StutterPreserves
<1>5. CASE Joined
  BY <1>5, StutterPreserves DEF Joined
<1> QED BY <1>1, <1>2, <1>3, <1>4, <1>5, NotifyOnePreserves, NotifyAllPreserves, CallPreserves
        DEF Next

-----------------------------------------------------------------------------
(* The invariant holds throughout.                                         *)
THEOREM QueueInductive == Spec => []IInv
<1>1. Init => IInv
  BY InitIInv
<1>2. IInv /\ [Next]_vars => IInv'
  BY NextPreserves
<1> QED BY <1>1, <1>2, PTL DEF Spec

(* When Complete has returned and nothing was added since, the queue is    *)
(* empty and no thread holds a check, however many workers there are.      *)
THEOREM ChecksFreedCorrect == Spec => []ChecksFreed
<1>1. IInv => ChecksFreed
  <2> SUFFICES ASSUME IInv, adds = 0 PROVE queue = <<>> /\ \A t \in Threads : batch[t] = <<>>
    BY DEF ChecksFreed
  <2>0. QTypeOK /\ Counts /\ Holding /\ Rounds
    BY DEF IInv
  <2>1. Len(queue) \in Nat /\ Cardinality(Slots) \in Nat /\ nTodo = 0
    BY <2>0, SlotsFinite DEF QTypeOK, Slots, Rounds
  <2>2. Len(queue) = 0 /\ Cardinality(Slots) = 0
    BY <2>0, <2>1 DEF Counts
  <2>3. queue = <<>>
    BY <2>0, <2>2 DEF QTypeOK
  <2>4. \A t \in Threads : pc[t] \notin Busy
    <3>1. nNow \in [Threads -> 0 .. nBatchSize]
      BY <2>0 DEF QTypeOK
    <3>2. \A t \in Threads : pc[t] \in Busy => nNow[t] = 0
      BY <2>2, <3>1, NoSlots DEF Slots
    <3> QED BY <2>0, <3>2 DEF Holding
  <2> QED BY <2>0, <2>3, <2>4 DEF Holding, Busy
<1> QED BY <1>1, QueueInductive, PTL

(* Complete's verdict is an error exactly if a check of its own round      *)
(* fails, and the error is one of that round.                              *)
LEMMA VerdictStep ==
  ASSUME IInv, [Next]_vars, verdict' # verdict
  PROVE  IF failing THEN verdict'.error \in Checks /\ verdict'.error = [round |-> round, ok |-> FALSE]
         ELSE verdict'.error = None
<1>0. QTypeOK /\ InRound /\ FailureKept /\ Rounds
  BY DEF IInv
<1>1. PICK t \in Threads : Return(t)
  BY DEF Next, LoopStep, Wait, Exit, TakeBatch, RunChecks, SpuriousWake, Add, NotifyOne, NotifyAll,
         Complete, Destroy, Joined, vars, master
<1>2. verdict'.error = ResultAfter(t)
  BY <1>1 DEF Return
<1>3. /\ queue = <<>> /\ \A u \in Threads : u # t => pc[u] \notin Busy
      /\ \A u \in Threads : batch[u] = <<>>
  BY <1>1, ReturnFacts
<1>4. /\ ResultAfter(t) \in {None, Bad}
      /\ ResultAfter(t) # None <=>
           result # None \/ (pc[t] = "ran" /\ work[t] /\ local[t] # None)
  BY SectionResult
<1>5. failing <=> ResultAfter(t) # None
  BY <1>0, <1>3, <1>4, FailuresEmpty DEF FailureKept, SomeFailure, Busy
<1>6. ResultAfter(t) \in Checks \cup {None}
  BY <1>0 DEF QTypeOK, ResultAfter
<1> QED BY <1>2, <1>4, <1>5, <1>6 DEF Bad

THEOREM RoundVerdictCorrect == Spec => RoundVerdict
<1>1. IInv /\ [Next]_vars =>
        [verdict' # verdict =>
           IF failing THEN verdict'.error \in Checks /\ verdict'.error = [round |-> round, ok |-> FALSE]
           ELSE verdict'.error = None]_vars
  BY VerdictStep
<1> QED BY <1>1, QueueInductive, PTL DEF Spec, RoundVerdict
=============================================================================
