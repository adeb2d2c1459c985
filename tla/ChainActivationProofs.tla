----------------------- MODULE ChainActivationProofs -----------------------
(***************************************************************************)
(* For every tree of blocks, any number of threads and any operator calls: *)
(* the active chain never holds a block that is marked as failed, and its  *)
(* data is complete.                                                       *)
(*                                                                         *)
(* ActiveChainUsable is not inductive.  What it needs besides the types:   *)
(* the locks exclude each other (Locks); a block that counts as linked has *)
(* a linked chain, so a block whose data has just arrived and is found     *)
(* invalid lies below no linked block (Linked); and what the holder of     *)
(* m_chainstate_mutex remembers across a release of cs_main is still true  *)
(* when it goes on (Locals).                                               *)
(*                                                                         *)
(* The second half proves what CheckBlockIndex asserts and that the tip is *)
(* the best, from an invariant of every step, inside the critical sections *)
(* too (IndexInv).  Of two statements about the candidates, the one that   *)
(* compares the work alone holds always; the one that compares as          *)
(* CBlockIndexWorkComparator does holds as long as no preciousblock call   *)
(* ranks the tip lower than it was (TipKeepsRank).                         *)
(***************************************************************************)
EXTENDS ChainActivation, TLAPS, WellFoundedInduction

AbcSections == {"find", "step", "abcNext"}

(* At most one thread is in a section of each of the two locks.            *)
Locks ==
  \A t, u \in Threads : t # u =>
    /\ ~(pc[t] \in ChainstateSections /\ pc[u] \in ChainstateSections)
    /\ ~(pc[t] \in CsMainSections /\ pc[u] \in CsMainSections)

(* Linked blocks have linked chains, a queued block's parent is linked,    *)
(* and a block is linked, queued or waiting, never two of these.           *)
Linked ==
  /\ \A b \in chainTx : Ancestors[b] \subseteq chainTx
  /\ \A b \in queue : Parent[b] \in chainTx
  /\ Genesis \notin queue /\ Genesis \notin unlinked
  /\ queue \cap chainTx = {} /\ unlinked \cap chainTx = {} /\ queue \cap unlinked = {}

(* What the mutex holder's locals stand for.                               *)
Locals ==
  \A t \in Threads :
    /\ pc[t] \in AbcSections /\ mostWork # Null => Valid(mostWork)
    /\ pc[t] = "step" => mostWork # Null
    /\ pc[t] = "invalidate" =>
         /\ target # Null /\ target # Genesis
         /\ lastOff \notin ActiveChain

IInv == TypeOK /\ Locks /\ Linked /\ Valid(tip) /\ Locals

-----------------------------------------------------------------------------
(* A block below which x does not lie is no reason for x to fail: flags    *)
(* that are set on b's descendants leave x's chain alone.                  *)
LEMMA DescendantsApart ==
  ASSUME NEW b \in Blocks, NEW x \in Blocks, b \notin Ancestors[x]
  PROVE  Descendants(b) \cap Ancestors[x] = {}
BY TreeAssumption DEF Descendants

(* InvalidChainFound(b) sets flags only on b's descendants in the index.   *)
LEMMA FlagsOfInvalidChain ==
  ASSUME NEW b, NEW fv, NEW fc, NEW bh, NEW idx, NEW i,
         InvalidChainFound(b, fv, fc, bh, idx, i)
  PROVE  /\ failed' = fv \cup fc \cup ((Descendants(b) \ {b}) \cap idx)
         /\ failedValid' \subseteq fv
         /\ failedChild' = fc \cup ((Descendants(b) \ {b}) \cap idx)
BY DEF InvalidChainFound, failed

(* So a chain without failed blocks that does not pass through b keeps none*)
LEMMA ValidAfterInvalidChain ==
  ASSUME NEW b \in Blocks, NEW fv, NEW fc, NEW bh, NEW idx, NEW i,
         InvalidChainFound(b, fv, fc, bh, idx, i),
         NEW x \in Blocks, b \notin Ancestors[x],
         Ancestors[x] \cap (fv \cup fc) = {}
  PROVE  Ancestors[x] \cap failed' = {}
BY FlagsOfInvalidChain, DescendantsApart

(* The header chosen is one of those walked over, or the starting one.     *)
LEMMA MostWorkFromIndex ==
  ASSUME NEW from, NEW s, NEW h \in MostWorkOf(from, s)
  PROVE  h \in from \cup {s}
BY DEF MostWorkOf

(* InvalidChainFound takes the best header from the index.                 *)
LEMMA BestHeaderOfInvalidChain ==
  ASSUME NEW b, NEW fv, NEW fc, NEW bh, NEW idx, NEW i,
         InvalidChainFound(b, fv, fc, bh, idx, i)
  PROVE  bestHeader' \in idx \cup {tip, bh} /\ bestInvalid' = i
<1>1. CASE b \in Ancestors[bh]
  BY <1>1, MostWorkFromIndex DEF InvalidChainFound, RecalculateBestHeader
<1>2. CASE b \notin Ancestors[bh]
  BY <1>2 DEF InvalidChainFound
<1> QED BY <1>1, <1>2

(* Moving a thread keeps the locks exclusive if it enters a section only   *)
(* when the lock is free or it holds it already.                           *)
LEMMA GotoKeepsLocks ==
  ASSUME TypeOK, Locks, NEW t \in Threads, NEW l, Goto(t, l),
         l \in ChainstateSections => pc[t] \in ChainstateSections \/ ChainstateMutexFree,
         l \in CsMainSections => pc[t] \in CsMainSections \/ CsMainFree
  PROVE  Locks'
<1> USE DEF TypeOK, Locks, Goto, ChainstateMutexFree, CsMainFree
<1>1. \A u \in Threads : pc'[u] = IF u = t THEN l ELSE pc[u]
  OBVIOUS
<1> SUFFICES ASSUME NEW u \in Threads, NEW v \in Threads, u # v
             PROVE  /\ ~(pc'[u] \in ChainstateSections /\ pc'[v] \in ChainstateSections)
                    /\ ~(pc'[u] \in CsMainSections /\ pc'[v] \in CsMainSections)
  BY DEF ChainstateSections, CsMainSections
<1>2. CASE u # t /\ v # t
  BY <1>1, <1>2
<1>3. CASE u = t
  BY <1>1, <1>3
<1>4. CASE v = t
  BY <1>1, <1>4
<1> QED BY <1>2, <1>3, <1>4

(* The invariant holds when the node starts on its genesis block.          *)
LEMMA InitIInv == Init => IInv
<1> SUFFICES ASSUME Init PROVE IInv
  OBVIOUS
<1> USE TreeAssumption, OrderAssumption DEF Init
<1>1. TypeOK
  BY DEF TypeOK, SEQ_ID_INIT_FROM_DISK, SEQ_ID_BEST_CHAIN_FROM_DISK
<1>2. Locks
  BY DEF Locks, ChainstateSections, CsMainSections
<1>3. Linked
  BY DEF Linked
<1>4. Valid(tip)
  BY DEF Valid, failed
<1>5. Locals
  BY DEF Locals, AbcSections
<1> QED BY <1>1, <1>2, <1>3, <1>4, <1>5 DEF IInv

-----------------------------------------------------------------------------
(* A new header changes no flag and links nothing.                         *)
LEMMA AcceptBlockHeaderPreserves ==
  ASSUME IInv, NEW b \in Blocks, AcceptBlockHeader(b)
  PROVE  IInv'
<1> USE TreeAssumption DEF IInv, AcceptBlockHeader, HeaderAccepted, HeaderBest, flags, best, precious, abc, inv
<1>1. TypeOK'
  BY OrderAssumption DEF TypeOK, Goto, AfterStep
<1>2. Locks'
  BY GotoKeepsLocks DEF Locks, ChainstateSections, CsMainSections
<1>3. Linked'
  BY DEF Linked, TypeOK
<1>4. Valid(tip)'
  BY DEF Valid, failed, TypeOK
<1>5. Locals'
  BY DEF Locals, Locks, Linked, TypeOK, Goto, AfterStep, Valid, failed, ActiveChain, AbcSections,
     ChainstateSections, CsMainSections, ChainstateMutexFree, CsMainFree
<1> QED BY <1>1, <1>2, <1>3, <1>4, <1>5

(* A block that is not stored changes the index only.                      *)
LEMMA AcceptBlockIgnoredPreserves ==
  ASSUME IInv, NEW t \in Threads, NEW b \in Blocks, NEW r \in BOOLEAN, AcceptBlockIgnored(t, b, r)
  PROVE  IInv'
<1> USE TreeAssumption DEF IInv, AcceptBlockIgnored, SubmitsBlock, HeaderAccepted, HeaderBest, flags, best, precious, abc, inv
<1>1. TypeOK'
  BY OrderAssumption DEF TypeOK, Goto, AfterStep
<1>2. Locks'
  BY GotoKeepsLocks DEF Goto, TypeOK, AfterStep, ChainstateSections, CsMainSections
<1>3. Linked'
  BY DEF Linked, TypeOK
<1>4. Valid(tip)'
  BY DEF Valid, failed, TypeOK
<1>5. Locals'
  BY DEF Locals, Locks, Linked, TypeOK, Goto, AfterStep, Valid, failed, ActiveChain, AbcSections,
     ChainstateSections, CsMainSections, ChainstateMutexFree, CsMainFree
<1> QED BY <1>1, <1>2, <1>3, <1>4, <1>5

(* A block that fails its checks has no data, so no linked chain contains it. *)
LEMMA AcceptBlockInvalidPreserves ==
  ASSUME IInv, NEW t \in Threads, NEW b \in Blocks, NEW r \in BOOLEAN,
         AcceptBlockInvalid(t, b, r)
  PROVE  IInv'
<1> USE TreeAssumption DEF IInv, AcceptBlockInvalid, ProcessesBlock, SubmitsBlock,
        precious, abc, inv
<1>1. \A x \in chainTx : b \notin Ancestors[x]
  BY DEF Linked, TypeOK
<1>2. \A x \in chainTx : Valid(x) => Valid(x)'
  <2> SUFFICES ASSUME NEW x \in chainTx, Valid(x) PROVE Valid(x)'
    OBVIOUS
  <2>1. x \in Blocks /\ Ancestors[x] \cap (failedValid \cup {b} \cup failedChild) = {}
    BY <1>1 DEF Valid, failed, TypeOK
  <2> QED BY <1>1, <2>1, ValidAfterInvalidChain DEF Valid
<1>3. TypeOK'
  <2>1. bestHeader' \in index' /\ bestInvalid' \in index' \cup {Null}
    BY BestHeaderOfInvalidChain DEF TypeOK, HeaderBest, MoreInvalid
  <2>2. failedValid' \subseteq index' /\ failedChild' \subseteq index'
    BY FlagsOfInvalidChain DEF TypeOK
  <2> QED BY <2>1, <2>2 DEF TypeOK
<1>4. Locks'
  BY DEF Locks
<1>5. Linked'
  BY DEF Linked
<1>6. Valid(tip)'
  BY <1>2 DEF TypeOK, Valid
<1>7. Locals'
  BY <1>2 DEF Locals, TypeOK, ActiveChain, Valid
<1> QED BY <1>3, <1>4, <1>5, <1>6, <1>7

(* Stored data is not linked yet.                                          *)
LEMMA AcceptBlockPreserves ==
  ASSUME IInv, NEW t \in Threads, NEW b \in Blocks, NEW r \in BOOLEAN, AcceptBlock(t, b, r)
  PROVE  IInv'
<1> USE TreeAssumption DEF IInv, AcceptBlock, ProcessesBlock, SubmitsBlock, HeaderAccepted, HeaderBest, AddUnlinked, flags, best, precious, abc, inv
<1>1. TypeOK'
  BY OrderAssumption DEF TypeOK, Goto, AfterStep
<1>2. Locks'
  BY GotoKeepsLocks DEF Goto, TypeOK, AfterStep, ChainstateSections, CsMainSections
<1>3. Linked'
  BY DEF Linked, TypeOK
<1>4. Valid(tip)'
  BY DEF Valid, failed, TypeOK
<1>5. Locals'
  BY DEF Locals, Locks, Linked, TypeOK, Goto, AfterStep, Valid, failed, ActiveChain, AbcSections,
     ChainstateSections, CsMainSections, ChainstateMutexFree, CsMainFree
<1> QED BY <1>1, <1>2, <1>3, <1>4, <1>5

(* A queued block's parent is linked, so its chain is.                     *)
LEMMA LinkBlockPreserves ==
  ASSUME IInv, NEW t \in Threads, NEW b \in Blocks, LinkBlock(t, b)
  PROVE  IInv'
<1> USE TreeAssumption DEF IInv, LinkBlock, TryAddBlockIndexCandidate, WaitingFor, flags, best, precious, abc, inv
<1>1. TypeOK'
  BY OrderAssumption DEF TypeOK, Goto, AfterStep
<1>2. Locks'
  BY GotoKeepsLocks DEF Goto, TypeOK, AfterStep, ChainstateSections, CsMainSections
<1>3. Linked'
  BY DEF Linked, TypeOK
<1>4. Valid(tip)'
  BY DEF Valid, failed, TypeOK
<1>5. Locals'
  BY DEF Locals, Locks, Linked, TypeOK, Goto, AfterStep, Valid, failed, ActiveChain, AbcSections,
     ChainstateSections, CsMainSections, ChainstateMutexFree, CsMainFree
<1> QED BY <1>1, <1>2, <1>3, <1>4, <1>5

(* A new call knows no pindexMostWork yet.                                 *)
LEMMA ActivateBestChainPreserves ==
  ASSUME IInv, NEW t \in Threads, ActivateBestChain(t)
  PROVE  IInv'
<1> USE TreeAssumption DEF IInv, ActivateBestChain, flags, best, precious, abc, inv
<1>1. TypeOK'
  BY OrderAssumption DEF TypeOK, Goto, AfterStep
<1>2. Locks'
  BY GotoKeepsLocks DEF Goto, TypeOK, AfterStep, ChainstateSections, CsMainSections
<1>3. Linked'
  BY DEF Linked, TypeOK
<1>4. Valid(tip)'
  BY DEF Valid, failed, TypeOK
<1>5. Locals'
  BY DEF Locals, Locks, Linked, TypeOK, Goto, AfterStep, Valid, failed, ActiveChain, AbcSections,
     ChainstateSections, CsMainSections, ChainstateMutexFree, CsMainFree
<1> QED BY <1>1, <1>2, <1>3, <1>4, <1>5

(* The candidate found has no failed block between it and the active chain. *)
LEMMA FindMostWorkChainPreserves ==
  ASSUME IInv, NEW t \in Threads, NEW b \in Blocks, FindMostWorkChain(t, b)
  PROVE  IInv'
<1> USE TreeAssumption DEF IInv, FindMostWorkChain, IsBestCandidate, flags, best, precious, abc, inv
<1>1. TypeOK'
  BY OrderAssumption DEF TypeOK, Goto, AfterStep
<1>2. Locks'
  BY GotoKeepsLocks DEF Goto, TypeOK, AfterStep, ChainstateSections, CsMainSections
<1>3. Linked'
  BY DEF Linked, TypeOK
<1>4. Valid(tip)'
  BY DEF Valid, failed, TypeOK
<1>5. Locals'
  BY DEF FailedOnPath, Locals, Locks, Linked, TypeOK, Goto, AfterStep, Valid, failed, ActiveChain, AbcSections,
     ChainstateSections, CsMainSections, ChainstateMutexFree, CsMainFree
<1> QED BY <1>1, <1>2, <1>3, <1>4, <1>5

(* Only blocks off the active chain are marked.                            *)
LEMMA DropInvalidCandidatePreserves ==
  ASSUME IInv, NEW t \in Threads, NEW b \in Blocks, NEW c \in Blocks,
         DropInvalidCandidate(t, b, c)
  PROVE  IInv'
<1> USE TreeAssumption DEF IInv, DropInvalidCandidate, precious, abc, inv
<1>1. b \in chainTx /\ c \in Ancestors[b] \ ActiveChain
  BY DEF IsBestCandidate, FailedOnPath, TypeOK
<1>2. ChainFrom(b, c) \subseteq index /\ ChainFrom(b, c) \cap Ancestors[tip] = {}
  BY <1>1, DescendantsApart DEF ChainFrom, ActiveChain, Linked, TypeOK
<1>3. TypeOK'
  BY <1>1, <1>2 DEF TypeOK, MoreInvalid
<1>4. Locks'
  BY DEF Locks
<1>5. Linked'
  BY DEF Linked
<1>6. Valid(tip)'
  BY <1>2 DEF Valid, failed
<1>7. Locals'
  BY DEF Locals, ActiveChain
<1> QED BY <1>3, <1>4, <1>5, <1>6, <1>7

(* Returning releases both locks.                                          *)
LEMMA ActivateBestChainDonePreserves ==
  ASSUME IInv, NEW t \in Threads, ActivateBestChainDone(t)
  PROVE  IInv'
<1> USE TreeAssumption DEF IInv, ActivateBestChainDone, flags, best, precious, abc, inv
<1>1. TypeOK'
  BY OrderAssumption DEF TypeOK, Goto, AfterStep
<1>2. Locks'
  BY GotoKeepsLocks DEF Goto, TypeOK, AfterStep, ChainstateSections, CsMainSections
<1>3. Linked'
  BY DEF Linked, TypeOK
<1>4. Valid(tip)'
  BY DEF Valid, failed, TypeOK
<1>5. Locals'
  BY DEF Locals, Locks, Linked, TypeOK, Goto, AfterStep, Valid, failed, ActiveChain, AbcSections,
     ChainstateSections, CsMainSections, ChainstateMutexFree, CsMainFree
<1> QED BY <1>1, <1>2, <1>3, <1>4, <1>5

(* A step begins with a pindexMostWork.                                    *)
LEMMA ActivateBestChainStepPreserves ==
  ASSUME IInv, NEW t \in Threads, ActivateBestChainStep(t)
  PROVE  IInv'
<1> USE TreeAssumption DEF IInv, ActivateBestChainStep, flags, best, precious, abc, inv
<1>1. TypeOK'
  BY OrderAssumption DEF TypeOK, Goto, AfterStep
<1>2. Locks'
  BY GotoKeepsLocks DEF Goto, TypeOK, AfterStep, ChainstateSections, CsMainSections
<1>3. Linked'
  BY DEF Linked, TypeOK
<1>4. Valid(tip)'
  BY DEF Valid, failed, TypeOK
<1>5. Locals'
  BY DEF Locals, Locks, Linked, TypeOK, Goto, AfterStep, Valid, failed, ActiveChain, AbcSections,
     ChainstateSections, CsMainSections, ChainstateMutexFree, CsMainFree
<1> QED BY <1>1, <1>2, <1>3, <1>4, <1>5

(* A shorter active chain is part of the longer one.                       *)
LEMMA DisconnectTipPreserves ==
  ASSUME IInv, NEW t \in Threads, DisconnectTip(t)
  PROVE  IInv'
<1> USE TreeAssumption DEF IInv, DisconnectTip, flags, best, precious, abc, inv
<1>1. mostWork \in Blocks
  BY DEF Locals, TypeOK
<1>2. tip # Genesis /\ tip \in Blocks
  BY <1>1 DEF Descendants, TypeOK
<1>3. Parent[tip] \in Ancestors[tip] /\ Ancestors[Parent[tip]] \subseteq Ancestors[tip]
  BY <1>2
<1>4. TypeOK'
  BY <1>3 DEF TypeOK, Linked
<1>5. Locks'
  BY DEF Locks
<1>6. Linked'
  BY DEF Linked
<1>7. Valid(tip)'
  BY <1>3 DEF Valid, failed
<1>8. Locals'
  BY DEF Locals, Locks, TypeOK, Valid, failed, AbcSections, ChainstateSections
<1> QED BY <1>4, <1>5, <1>6, <1>7, <1>8

(* Where ActivateBestChain can be after a step.                            *)
LEMMA AfterStepPlaces ==
  \A x, y : AfterStep(x, y) \in {"find", "idle", "abcNext"}
BY DEF AfterStep

(* The block connected belongs to pindexMostWork's chain, which is valid.  *)
LEMMA ConnectTipPreserves ==
  ASSUME IInv, NEW t \in Threads, NEW b \in Blocks, ConnectTip(t, b)
  PROVE  IInv'
<1> USE TreeAssumption DEF IInv, ConnectTip, flags, best, precious, abc, inv
<1>1. mostWork \in chainTx /\ Valid(mostWork)
  BY DEF Locals, TypeOK, AbcSections
<1>2. b \in Ancestors[mostWork] /\ Ancestors[b] \subseteq Ancestors[mostWork]
  BY <1>1 DEF IsNext, TypeOK
<1>3. PICK l \in {"find", "idle", "abcNext", "step"} : Goto(t, l)
  BY AfterStepPlaces
<1>4. TypeOK'
  BY <1>1, <1>2, <1>3 DEF TypeOK, Linked, Goto, PruneBlockIndexCandidates
<1>5. Locks'
  BY <1>3, GotoKeepsLocks DEF ChainstateSections, CsMainSections
<1>6. Linked'
  BY DEF Linked
<1>7. Valid(tip)'
  BY <1>1, <1>2 DEF Valid, failed
<1>8. Locals'
  BY <1>1, <1>3 DEF Locals, Locks, TypeOK, Goto, Valid, failed, AbcSections,
     ChainstateSections
<1> QED BY <1>4, <1>5, <1>6, <1>7, <1>8

(* The block found invalid lies above the tip.                             *)
LEMMA ConnectTipInvalidPreserves ==
  ASSUME IInv, NEW t \in Threads, NEW b \in Blocks, ConnectTipInvalid(t, b)
  PROVE  IInv'
<1> USE TreeAssumption DEF IInv, ConnectTipInvalid, precious, inv
<1>1. mostWork \in chainTx
  BY DEF Locals, TypeOK
<1>2. b \in index /\ b \notin Ancestors[tip]
  BY <1>1 DEF IsNext, Linked, TypeOK
<1>3. PICK l \in {"find", "idle", "abcNext"} : Goto(t, l)
  BY AfterStepPlaces
<1>4. TypeOK'
  <2>1. bestHeader' \in index' /\ bestInvalid' \in index' \cup {Null}
    BY <1>1, <1>2, BestHeaderOfInvalidChain DEF TypeOK, MoreInvalid
  <2>2. failedValid' \subseteq index' /\ failedChild' \subseteq index'
    BY <1>2, FlagsOfInvalidChain DEF TypeOK
  <2> QED BY <1>3, <2>1, <2>2 DEF TypeOK, Goto
<1>5. Locks'
  BY <1>3, GotoKeepsLocks DEF ChainstateSections, CsMainSections
<1>6. Linked'
  BY DEF Linked
<1>7. Valid(tip)'
  <2>1. tip \in Blocks /\ Ancestors[tip] \cap (failedValid \cup {b} \cup failedChild) = {}
    BY <1>2 DEF Valid, failed, TypeOK
  <2> QED BY <1>2, <2>1, ValidAfterInvalidChain DEF Valid
<1>8. Locals'
  BY <1>3 DEF Locals, Locks, TypeOK, Goto, AbcSections, ChainstateSections
<1> QED BY <1>4, <1>5, <1>6, <1>7, <1>8

(* Nothing that the call remembers became false while cs_main was free.    *)
LEMMA ActivateBestChainNextPreserves ==
  ASSUME IInv, NEW t \in Threads, ActivateBestChainNext(t)
  PROVE  IInv'
<1> USE TreeAssumption DEF IInv, ActivateBestChainNext, flags, best, precious, abc, inv
<1>1. TypeOK'
  BY OrderAssumption DEF TypeOK, Goto, AfterStep
<1>2. Locks'
  BY GotoKeepsLocks DEF Goto, TypeOK, AfterStep, ChainstateSections, CsMainSections
<1>3. Linked'
  BY DEF Linked, TypeOK
<1>4. Valid(tip)'
  BY DEF Valid, failed, TypeOK
<1>5. Locals'
  BY DEF Locals, Locks, Linked, TypeOK, Goto, AfterStep, Valid, failed, ActiveChain, AbcSections,
     ChainstateSections, CsMainSections, ChainstateMutexFree, CsMainFree
<1> QED BY <1>1, <1>2, <1>3, <1>4, <1>5

(* InvalidateBlock begins when nobody is in ActivateBestChain.             *)
LEMMA InvalidateBlockPreserves ==
  ASSUME IInv, NEW t \in Threads, NEW b \in Blocks, InvalidateBlock(t, b)
  PROVE  IInv'
<1> USE TreeAssumption DEF IInv, InvalidateBlock, OperatorCalls, flags, best, precious, abc, inv
<1>1. TypeOK'
  BY OrderAssumption DEF TypeOK, Goto, AfterStep
<1>2. Locks'
  BY GotoKeepsLocks DEF Goto, TypeOK, AfterStep, ChainstateSections, CsMainSections
<1>3. Linked'
  BY DEF Linked, TypeOK
<1>4. Valid(tip)'
  BY DEF Valid, failed, TypeOK
<1>5. Locals'
  BY DEF Locals, Locks, Linked, TypeOK, Goto, AfterStep, Valid, failed, ActiveChain, AbcSections,
     ChainstateSections, CsMainSections, ChainstateMutexFree, CsMainFree
<1> QED BY <1>1, <1>2, <1>3, <1>4, <1>5

(* The block marked has just left the active chain.                        *)
LEMMA InvalidateDisconnectPreserves ==
  ASSUME IInv, NEW t \in Threads, InvalidateDisconnect(t)
  PROVE  IInv'
<1> USE TreeAssumption DEF IInv, InvalidateDisconnect, precious, abc
<1>1. target \in Ancestors[tip] /\ target # Genesis
  BY DEF Locals, ActiveChain
<1>2. tip \in Blocks \ {Genesis} /\ tip \in index
  BY <1>1 DEF TypeOK
<1>3. /\ Parent[tip] \in Ancestors[tip] /\ Ancestors[Parent[tip]] \subseteq Ancestors[tip]
      /\ Parent[tip] \in Blocks /\ tip \notin Ancestors[Parent[tip]]
  BY <1>2
<1>4. PICK below, demoted, others :
        /\ below \subseteq highpow \cap Descendants(tip)
        /\ demoted \subseteq failedValid
        /\ others \subseteq highpow
        /\ failedValid' = (failedValid \cup {tip}) \ (demoted \cup below)
        /\ failedChild' = failedChild \cup demoted \cup below
        /\ highpow' = highpow \ below
        /\ candidates' \subseteq candidates \cup {Parent[tip]} \cup chainTx
        /\ bestHeader' = bestHeader \/ bestHeader' \in MostWorkOf(others, Parent[tip])
  <2> DEFINE seen == {c \in highpow : Work[c] >= Work[Parent[tip]]}
             below == seen \cap Descendants(tip)
             others == seen \ below
             demoted == {c \in failedValid : c = lastOff /\ Parent[c] = tip}
  <2>1. /\ below \subseteq highpow \cap Descendants(tip)
        /\ demoted \subseteq failedValid /\ others \subseteq highpow
    OBVIOUS
  <2>2. /\ failedValid' = (failedValid \cup {tip}) \ (demoted \cup below)
        /\ failedChild' = failedChild \cup demoted \cup below
        /\ highpow' = highpow \ below
    OBVIOUS
  <2>3. candidates' \subseteq candidates \cup {Parent[tip]} \cup chainTx
    OBVIOUS
  <2>4. bestHeader' = bestHeader \/ bestHeader' \in MostWorkOf(others, Parent[tip])
    OBVIOUS
  <2> HIDE DEF below, others, demoted
  <2> QED BY <2>1, <2>2, <2>3, <2>4
<1>5. /\ tip' = Parent[tip] /\ lastOff' = tip
      /\ UNCHANGED <<index, data, chainTx, seq, nextSeq, unlinked, bestInvalid, pc,
                     lastPreciousWork, reverseSeq, queue, mostWork, startingTip,
                     oldTip, target, ops>>
  OBVIOUS
<1> USE <1>5
<1> HIDE DEF InvalidateDisconnect
<1>6. TypeOK'
  <2>1. bestHeader' \in index
    BY <1>3, <1>4, MostWorkFromIndex DEF TypeOK, Linked
  <2>2. failedValid' \subseteq index /\ failedChild' \subseteq index /\ highpow' \subseteq index
    BY <1>2, <1>4 DEF TypeOK
  <2>3. candidates' \subseteq chainTx /\ tip' \in chainTx
    BY <1>3, <1>4 DEF TypeOK, Linked
  <2> QED BY <1>2, <2>1, <2>2, <2>3 DEF TypeOK
<1>7. Locks'
  BY DEF Locks
<1>8. Linked'
  BY DEF Linked
<1>9. Valid(tip)'
  <2>1. Ancestors[Parent[tip]] \cap Descendants(tip) = {}
    BY <1>2, <1>3, DescendantsApart
  <2>2. failed' \subseteq failed \cup {tip} \cup Descendants(tip)
    BY <1>4 DEF failed
  <2> QED BY <1>3, <2>1, <2>2 DEF Valid
<1>10. Locals'
  <2>1. \A u \in Threads : pc[u] \notin AbcSections
    BY DEF InvalidateDisconnect, Locks, AbcSections, ChainstateSections
  <2> QED BY <1>1, <1>3, <2>1 DEF Locals, ActiveChain, AbcSections
<1> QED BY <1>6, <1>7, <1>8, <1>9, <1>10

(* The blocks marked lie above the tip or off the active chain.            *)
LEMMA InvalidateFinishPreserves ==
  ASSUME IInv, NEW t \in Threads, InvalidateFinish(t)
  PROVE  IInv'
<1> USE TreeAssumption DEF IInv, InvalidateFinish, precious, abc, inv
<1> DEFINE toMark == IF lastOff = Null THEN target ELSE lastOff
           marked == IF lastOff # Null \/ target \in failed THEN {} ELSE {target}
<1>1. toMark \in index \ Ancestors[tip] /\ target \in index
  BY DEF Locals, TypeOK, ActiveChain
<1>2. InvalidChainFound(toMark, failedValid \cup marked, failedChild, bestHeader,
                        index, MoreInvalid(toMark, bestInvalid))
  OBVIOUS
<1>3. marked \subseteq index \ Ancestors[tip]
  BY <1>1 DEF ActiveChain
<1> HIDE DEF toMark, marked
<1>4. TypeOK'
  <2>1. bestHeader' \in index' /\ bestInvalid' \in index' \cup {Null}
    BY <1>1, <1>2, BestHeaderOfInvalidChain DEF TypeOK, MoreInvalid
  <2>2. failedValid' \subseteq index' /\ failedChild' \subseteq index'
    BY <1>2, <1>3, FlagsOfInvalidChain DEF TypeOK
  <2>3. candidates' \subseteq chainTx
    BY DEF TypeOK
  <2> QED BY <2>1, <2>2, <2>3 DEF TypeOK, Goto
<1>5. Locks'
  BY GotoKeepsLocks DEF ChainstateSections, CsMainSections
<1>6. Linked'
  BY DEF Linked
<1>7. Valid(tip)'
  <2>1. /\ toMark \in Blocks /\ tip \in Blocks
        /\ Ancestors[tip] \cap ((failedValid \cup marked) \cup failedChild) = {}
    BY <1>1, <1>3 DEF Valid, failed, TypeOK
  <2> QED BY <1>1, <1>2, <2>1, ValidAfterInvalidChain DEF Valid
<1>8. Locals'
  BY DEF Locals, Locks, TypeOK, Goto, AbcSections, ChainstateSections
<1> QED BY <1>4, <1>5, <1>6, <1>7, <1>8

(* preciousblock reorders candidates and marks nothing.                    *)
LEMMA PreciousBlockPreserves ==
  ASSUME IInv, NEW t \in Threads, NEW b \in Blocks, PreciousBlock(t, b)
  PROVE  IInv'
<1> USE TreeAssumption DEF IInv, PreciousBlock, OperatorCalls, flags, best, abc, inv
<1> DEFINE reverse == IF Work[tip] > lastPreciousWork THEN -1 ELSE reverseSeq
           s == [seq EXCEPT ![b] = reverse]
<1>1. TypeOK'
  <2>1. reverse \in Int /\ reverse < 0
    BY DEF TypeOK
  <2>2. seq' = s /\ seq' \in [Blocks -> Int] /\ reverseSeq' \in Int /\ reverseSeq' < 0
    BY <2>1 DEF TypeOK
  <2>3. candidates' \subseteq chainTx'
    <3> HIDE DEF s
    <3>1. CASE b \in chainTx \ failed
      BY <3>1 DEF TypeOK, s
    <3>2. CASE b \notin chainTx \ failed
      BY <3>2 DEF TypeOK, s
    <3> QED BY <3>1, <3>2
  <2>4. lastPreciousWork' \in Nat
    BY OrderAssumption DEF TypeOK
  <2> HIDE DEF s, reverse
  <2> QED BY <2>2, <2>3, <2>4 DEF TypeOK, Goto
<1>2. Locks'
  BY GotoKeepsLocks DEF ChainstateSections, CsMainSections
<1>3. Linked'
  BY DEF Linked, TypeOK
<1>4. Valid(tip)'
  BY DEF Valid, failed, TypeOK
<1>5. Locals'
  BY DEF Locals, TypeOK, Goto, Valid, failed, ActiveChain, AbcSections
<1> QED BY <1>1, <1>2, <1>3, <1>4, <1>5

(* reconsiderblock only clears flags.                                      *)
LEMMA ReconsiderBlockPreserves ==
  ASSUME IInv, NEW t \in Threads, NEW b \in Blocks, ReconsiderBlock(t, b)
  PROVE  IInv'
<1> USE TreeAssumption DEF IInv, ReconsiderBlock, OperatorCalls, precious, abc, inv
<1>1. /\ failedValid' \subseteq failedValid /\ failedChild' \subseteq failedChild
      /\ failed' \subseteq failed
  BY DEF failed
<1>2. TypeOK'
  <2>1. bestHeader' \in index
    BY MostWorkFromIndex DEF RecalculateBestHeader, TypeOK
  <2> QED BY <1>1, <2>1 DEF TypeOK, Goto
<1>3. Locks'
  BY GotoKeepsLocks DEF ChainstateSections, CsMainSections
<1>4. Linked'
  BY DEF Linked
<1>5. Valid(tip)'
  BY <1>1 DEF Valid
<1>6. Locals'
  BY <1>1 DEF Locals, TypeOK, Goto, Valid, ActiveChain, AbcSections
<1> QED BY <1>2, <1>3, <1>4, <1>5, <1>6

-----------------------------------------------------------------------------
(* Every step of the system preserves the inductive invariant.             *)
LEMMA NextPreserves == IInv /\ [Next]_vars => IInv'
<1> SUFFICES ASSUME IInv, [Next]_vars PROVE IInv'
  OBVIOUS
<1>1. ASSUME NEW b \in Blocks, AcceptBlockHeader(b) PROVE IInv'
  BY <1>1, AcceptBlockHeaderPreserves
<1>2. ASSUME NEW t \in Threads, Arrive(t) PROVE IInv'
  BY <1>2, AcceptBlockIgnoredPreserves, AcceptBlockInvalidPreserves,
     AcceptBlockPreserves DEF Arrive
<1>3. ASSUME NEW t \in Threads, Proceed(t) PROVE IInv'
  BY <1>3, LinkBlockPreserves, FindMostWorkChainPreserves,
     DropInvalidCandidatePreserves, ConnectTipPreserves,
     ConnectTipInvalidPreserves, ActivateBestChainPreserves,
     ActivateBestChainDonePreserves, ActivateBestChainStepPreserves,
     ActivateBestChainNextPreserves, DisconnectTipPreserves,
     InvalidateDisconnectPreserves, InvalidateFinishPreserves DEF Proceed
<1>4. ASSUME NEW t \in Threads, Operate(t) PROVE IInv'
  BY <1>4, InvalidateBlockPreserves, PreciousBlockPreserves,
     ReconsiderBlockPreserves DEF Operate
<1>5. CASE UNCHANGED vars
  BY <1>5 DEF vars, flags, best, precious, abc, inv, IInv, TypeOK, Locks, Linked,
     Locals, Valid, failed, ActiveChain
<1> QED BY <1>1, <1>2, <1>3, <1>4, <1>5 DEF Next

(* IInv is an invariant of the specification.                              *)
THEOREM Inductive == Spec => []IInv
BY InitIInv, NextPreserves, PTL DEF Spec

(* Every variable keeps its type, for any tree of blocks and any threads.  *)
THEOREM TypeCorrect == Spec => []TypeOK
<1>1. IInv => TypeOK
  BY DEF IInv
<1> QED BY <1>1, Inductive, PTL

(* The active chain is never a failed one and its data is complete: what   *)
(* ActivateBestChain trusts about m_chain and about the pindexMostWork it  *)
(* keeps while cs_main is released is true for every interleaving.         *)
THEOREM ActiveChainCorrect == Spec => []ActiveChainUsable
<1>1. IInv => ActiveChainUsable
  BY DEF IInv, TypeOK, Linked, ActiveChainUsable, ActiveChain
<1> QED BY <1>1, Inductive, PTL

(* The two locks exclude each other's sections for any number of threads.  *)
THEOREM LocksCorrect == Spec => []Locks
<1>1. IInv => Locks
  BY DEF IInv
<1> QED BY <1>1, Inductive, PTL

(* nSequenceId of a block in setBlockIndexCandidates is changed by         *)
(* preciousblock only, which takes the block out and puts it back.         *)
THEOREM KeyStableCorrect == Spec => KeyStable
<1> DEFINE Stays == \A b \in candidates \cap candidates' : seq'[b] # seq[b] => seq'[b] < 0
<1>1. IInv /\ [Next]_vars => [Stays]_vars
  <2> SUFFICES ASSUME IInv, Next PROVE Stays
    OBVIOUS
  <2>1. CASE UNCHANGED seq
    BY <2>1
  <2>2. ASSUME NEW t \in Threads, NEW b \in Blocks, LinkBlock(t, b) PROVE Stays
    BY <2>2 DEF IInv, Linked, TypeOK, LinkBlock
  <2>3. ASSUME NEW t \in Threads, NEW b \in Blocks, PreciousBlock(t, b) PROVE Stays
    <3> DEFINE reverse == IF Work[tip] > lastPreciousWork THEN -1 ELSE reverseSeq
    <3>1. seq' = [seq EXCEPT ![b] = reverse] /\ reverse < 0
      BY <2>3 DEF PreciousBlock, IInv, TypeOK
    <3> HIDE DEF reverse
    <3> QED BY <3>1 DEF IInv, TypeOK
  <2>4. ASSUME NEW b \in Blocks, AcceptBlockHeader(b) PROVE UNCHANGED seq
    BY <2>4 DEF AcceptBlockHeader
  <2>5. ASSUME NEW t \in Threads, Arrive(t) PROVE UNCHANGED seq
    BY <2>5 DEF Arrive, AcceptBlockIgnored, AcceptBlockInvalid, AcceptBlock
  <2>6. ASSUME NEW t \in Threads, Proceed(t)
        PROVE  UNCHANGED seq \/ \E b \in Blocks : LinkBlock(t, b)
    BY <2>6 DEF Proceed, ActivateBestChain, FindMostWorkChain,
       DropInvalidCandidate, ActivateBestChainDone, ActivateBestChainStep,
       DisconnectTip, ConnectTip, ConnectTipInvalid, ActivateBestChainNext,
       InvalidateDisconnect, InvalidateFinish
  <2>7. ASSUME NEW t \in Threads, Operate(t)
        PROVE  UNCHANGED seq \/ \E b \in Blocks : PreciousBlock(t, b)
    BY <2>7 DEF Operate, InvalidateBlock, ReconsiderBlock
  <2> QED BY <2>1, <2>2, <2>3, <2>4, <2>5, <2>6, <2>7 DEF Next
<1> QED BY <1>1, Inductive, PTL DEF Spec, KeyStable

-----------------------------------------------------------------------------
(* The tree of blocks, and the order of candidates.                        *)

Branch(b) ==
  /\ \A a \in Ancestors[b] : a = b \/ Work[a] < Work[b]
  /\ \A a, c \in Ancestors[b] : a \in Ancestors[c] \/ c \in Ancestors[a]

(* Smallest counterexample by work.                                        *)
LEMMA Branches == \A b \in Blocks : Branch(b)
<1> DEFINE Bad == {b \in Blocks : ~Branch(b)}
           T == {Work[b] : b \in Bad}
<1>0. /\ Work \in [Blocks -> Nat] /\ Parent \in [Blocks -> Blocks]
      /\ Ancestors \in [Blocks -> SUBSET Blocks]
  BY TreeAssumption, OrderAssumption
<1> SUFFICES ASSUME Bad # {} PROVE FALSE
  OBVIOUS
<1>1. T \subseteq Nat /\ T # {}
  BY <1>0
<1>2. PICK x \in T : \A y \in T : ~(<<y, x>> \in OpToRel(<, Nat))
  BY <1>1, WFMin, NatLessThanWellFounded
<1>3. \A y \in T : ~(y < x)
  BY <1>1, <1>2 DEF OpToRel
<1>4. PICK b \in Bad : x = Work[b]
  OBVIOUS
<1>5. CASE b = Genesis
  <2>1. Ancestors[b] = {b}
    BY <1>5, TreeAssumption
  <2>2. Branch(b)
    BY <1>5, <2>1 DEF Branch
  <2> QED BY <2>2
<1>6. CASE b # Genesis
  <2> DEFINE p == Parent[b]
  <2>1. /\ b \in Blocks /\ p \in Blocks /\ Ancestors[b] = {b} \cup Ancestors[p]
        /\ Work[p] < Work[b] /\ Work[p] \in Nat /\ Work[b] \in Nat
    BY <1>0, <1>6, TreeAssumption, OrderAssumption
  <2>2. Branch(p)
    <3>1. Work[p] < x
      BY <1>4, <2>1
    <3> QED BY <1>3, <2>1, <3>1
  <2> HIDE DEF p
  <2>3. \A a \in Ancestors[b] : a \in Blocks /\ Work[a] \in Nat
    BY <1>0, <2>1
  <2>4. \A a \in Ancestors[b] : a = b \/ Work[a] < Work[b]
    <3> SUFFICES ASSUME NEW a \in Ancestors[b], a # b PROVE Work[a] < Work[b]
      OBVIOUS
    <3>1. a \in Ancestors[p]
      BY <2>1
    <3> QED BY <2>1, <2>2, <2>3, <3>1 DEF Branch
  <2>5. \A a, c \in Ancestors[b] : a \in Ancestors[c] \/ c \in Ancestors[a]
    BY <2>1, <2>2 DEF Branch
  <2>6. Branch(b)
    BY <2>4, <2>5 DEF Branch
  <2> QED BY <2>6
<1> QED BY <1>5, <1>6

(* Two blocks of one chain lie one above the other.                        *)
LEMMA Comparable ==
  ASSUME NEW b \in Blocks, NEW a \in Ancestors[b], NEW c \in Ancestors[b]
  PROVE  a \in Ancestors[c] \/ c \in Ancestors[a]
BY Branches DEF Branch

LEMMA AncestorWork ==
  ASSUME NEW b \in Blocks, NEW a \in Ancestors[b], a # b
  PROVE  Work[a] < Work[b]
BY Branches DEF Branch

(* CBlockIndexWorkComparator is a total order, whatever the sequence ids.  *)
LEMMA WorseOrder ==
  ASSUME NEW s \in [Blocks -> Int], NEW a \in Blocks, NEW b \in Blocks
  PROVE  /\ ~WorseBy(s, a, a)
         /\ WorseBy(s, a, b) => ~WorseBy(s, b, a)
         /\ a # b => WorseBy(s, a, b) \/ WorseBy(s, b, a)
BY OrderAssumption DEF WorseBy

LEMMA WorseTransitive ==
  ASSUME NEW s \in [Blocks -> Int], NEW a \in Blocks, NEW b \in Blocks, NEW c \in Blocks,
         WorseBy(s, a, b), WorseBy(s, b, c)
  PROVE  WorseBy(s, a, c)
BY OrderAssumption DEF WorseBy

LEMMA NotWorseTransitive ==
  ASSUME NEW s \in [Blocks -> Int], NEW a \in Blocks, NEW b \in Blocks, NEW c \in Blocks,
         ~WorseBy(s, a, b), ~WorseBy(s, b, c)
  PROVE  ~WorseBy(s, a, c)
BY WorseOrder, WorseTransitive

(* A block is worse than the blocks above it.                              *)
LEMMA AncestorWorse ==
  ASSUME NEW s \in [Blocks -> Int], NEW b \in Blocks, NEW a \in Ancestors[b]
  PROVE  ~WorseBy(s, b, a)
<1>1. a \in Blocks /\ Work[a] \in Nat /\ Work[b] \in Nat
  BY TreeAssumption, OrderAssumption
<1>2. CASE a = b
  BY <1>2, WorseOrder
<1>3. CASE a # b
  BY <1>1, <1>3, AncestorWork DEF WorseBy
<1> QED BY <1>2, <1>3

(* What the candidates are compared by: all of CBlockIndexWorkComparator,  *)
(* or the work alone, for what holds whatever the sequence ids are.        *)
LosesBy(full, s, a, b) == IF full THEN WorseBy(s, a, b) ELSE Work[a] <= Work[b]
OutdoneBy(full, s, a, b) == IF full THEN WorseBy(s, a, b) ELSE Work[a] < Work[b]

Loses(full, a, b) == LosesBy(full, seq, a, b)
Outdone(full, a, b) == OutdoneBy(full, seq, a, b)

LEMMA WorseWork ==
  ASSUME NEW s \in [Blocks -> Int], NEW a \in Blocks, NEW b \in Blocks
  PROVE  /\ Work[a] \in Nat /\ Work[b] \in Nat
         /\ ~WorseBy(s, a, b) => Work[b] <= Work[a]
         /\ Work[b] < Work[a] => ~WorseBy(s, a, b)
         /\ Work[a] < Work[b] => WorseBy(s, a, b)
BY OrderAssumption DEF WorseBy

LEMMA LosesWorse ==
  ASSUME NEW full \in BOOLEAN, NEW s \in [Blocks -> Int], NEW a \in Blocks, NEW b \in Blocks,
         ~LosesBy(full, s, a, b)
  PROVE  ~WorseBy(s, a, b)
BY WorseWork DEF LosesBy

LEMMA LosesTransitive ==
  ASSUME NEW full \in BOOLEAN, NEW s \in [Blocks -> Int],
         NEW a \in Blocks, NEW b \in Blocks, NEW c \in Blocks,
         ~LosesBy(full, s, a, b), ~WorseBy(s, b, c)
  PROVE  ~LosesBy(full, s, a, c)
<1>1. CASE full
  BY <1>1, NotWorseTransitive DEF LosesBy
<1>2. CASE ~full
  BY <1>2, WorseWork DEF LosesBy
<1> QED BY <1>1, <1>2

LEMMA OutdoneWorse ==
  ASSUME NEW full \in BOOLEAN, NEW s \in [Blocks -> Int], NEW a \in Blocks, NEW b \in Blocks,
         OutdoneBy(full, s, a, b)
  PROVE  WorseBy(s, a, b)
BY WorseWork DEF OutdoneBy

LEMMA OutdoneLoses ==
  ASSUME NEW full \in BOOLEAN, NEW s \in [Blocks -> Int],
         NEW a \in Blocks, NEW b \in Blocks, NEW c \in Blocks,
         OutdoneBy(full, s, a, b), ~WorseBy(s, a, c)
  PROVE  ~LosesBy(full, s, b, c)
<1>1. CASE full
  BY <1>1, NotWorseTransitive, WorseOrder DEF LosesBy, OutdoneBy
<1>2. CASE ~full
  BY <1>2, WorseWork DEF LosesBy, OutdoneBy
<1> QED BY <1>1, <1>2

LEMMA OutdoneTransitive ==
  ASSUME NEW full \in BOOLEAN, NEW s \in [Blocks -> Int],
         NEW a \in Blocks, NEW b \in Blocks, NEW c \in Blocks,
         OutdoneBy(full, s, a, c), ~WorseBy(s, a, b)
  PROVE  OutdoneBy(full, s, b, c)
<1>1. CASE full
  BY <1>1, NotWorseTransitive, WorseOrder, WorseTransitive DEF OutdoneBy
<1>2. CASE ~full
  BY <1>2, WorseWork DEF OutdoneBy
<1> QED BY <1>1, <1>2

-----------------------------------------------------------------------------
(* What CheckBlockIndex asserts, at every step.                            *)

(* The headers of a chain are all known.                                   *)
Closed == \A b \in index : Ancestors[b] \subseteq index

(* InvalidateBlock has marked blocks above its own one and will mark the   *)
(* others there when it ends.                                              *)
InHand(b) ==
  \E t \in Threads : pc[t] = "invalidate" /\ lastOff # Null /\ target \in Ancestors[b]

Failures ==
  \A b \in failed : Descendants(b) \cap index \subseteq failed \/ InHand(b)

(* Data whose chain is not complete waits for its parent, or is being      *)
(* linked.                                                                 *)
Waiting ==
  /\ \A b \in unlinked : Parent[b] \notin chainTx
  /\ queue = {} \/ \E t \in Threads : pc[t] = "link"
  /\ ops = 0 => \A b \in data \ chainTx : Valid(b) => b \in unlinked \cup queue

Headers ==
  ops = 0 => /\ NotInvalidating
             /\ bestHeader \notin failed
             /\ \A b \in index \ failed : Work[b] <= Work[bestHeader]

(* What the holder of m_chainstate_mutex knows of its locals: the tip it   *)
(* started from was connected once and is not failed, pindexMostWork is    *)
(* not worse, a tip that is better already is on the way to it, and so is  *)
(* the tip on which cs_main was released before pindexMostWork was         *)
(* reached; InvalidateBlock walks down towards its block.                  *)
Holder ==
  /\ Ancestors[tip] \cap BadConnect = {}
  /\ \A t \in Threads :
       /\ pc[t] \in {"find", "step"} =>
            /\ startingTip # Null
            /\ Valid(startingTip) /\ Ancestors[startingTip] \cap BadConnect = {}
            /\ mostWork # Null => ~Worse(mostWork, startingTip)
            /\ Worse(startingTip, tip) => pc[t] = "step" /\ tip \in Ancestors[mostWork]
       /\ pc[t] = "abcNext" /\ mostWork # Null => tip \in Ancestors[mostWork]
       /\ pc[t] = "invalidate" /\ lastOff # Null =>
            target \in Ancestors[lastOff] /\ (target = lastOff \/ target \in ActiveChain)

(* Between two releases of cs_main the tip may go down, and the set is     *)
(* complete from the starting tip upwards only.                            *)
Exact(full) ==
  /\ \A b \in candidates : ~Worse(b, tip)
  /\ \A t \in Threads : pc[t] \in {"find", "step"} =>
       \A b \in candidates : ~Worse(b, startingTip)
  /\ NotInvalidating =>
       \A b \in chainTx :
         /\ Valid(b) /\ ~Loses(full, b, tip)
         /\ \A t \in Threads : pc[t] \in {"find", "step"} => ~Loses(full, b, startingTip)
         => b \in candidates

Best(full, x) == \A b \in chainTx : Valid(b) => ~Outdone(full, x, b)

(* If the tip is not the best, somebody is about to look for a better one, *)
(* or on the way to it.                                                    *)
Pending(full) ==
  \/ \E t \in Threads : pc[t] \in {"link", "activate", "invalidate"}
  \/ \E t \in Threads : pc[t] \in AbcSections /\ (mostWork = Null \/ Best(full, mostWork))
  \/ Best(full, tip)

IndexInv(full) ==
  /\ Closed /\ Failures /\ Waiting /\ Headers /\ Holder
  /\ Exact(full) /\ Pending(full)

(* No preciousblock call gives the tip a later place in the order than it  *)
(* has.  The code does not guarantee it: PreciousBlock starts its counter  *)
(* at -1 again when the tip has more work than at the last call.  After    *)
(* invalidateblock of a fork, preciousblock of its two tips a and b (-1,   *)
(* -2) and reconsiderblock of the fork, b is the tip, with more work than  *)
(* at the last call; preciousblock of b now gives it -1, and a, no longer  *)
(* a candidate, is not worse than the tip.                                 *)
TipKeepsRank == tip' = tip => seq'[tip] <= seq[tip]

LEMMA AfterStepCases ==
  ASSUME NEW x, NEW y
  PROVE  \/ AfterStep(x, y) = "find" /\ Worse(x, startingTip)
         \/ AfterStep(x, y) = "idle" /\ x = y /\ ~Worse(x, startingTip)
         \/ AfterStep(x, y) = "abcNext" /\ ~Worse(x, startingTip)
BY DEF AfterStep

LEMMA InitIndexInv == \A full \in BOOLEAN : Init => IndexInv(full)
<1> SUFFICES ASSUME NEW full \in BOOLEAN, Init PROVE IndexInv(full)
  OBVIOUS
<1> USE TreeAssumption, OrderAssumption, InputAssumption DEF Init
<1>0. failed = {} /\ seq \in [Blocks -> Int] /\ Genesis \in Blocks
  BY DEF failed, SEQ_ID_INIT_FROM_DISK, SEQ_ID_BEST_CHAIN_FROM_DISK
<1>1. Closed /\ Failures /\ Waiting
  BY <1>0 DEF Closed, Failures, Waiting
<1>2. Headers
  BY <1>0 DEF Headers, NotInvalidating
<1>3. Holder
  BY DEF Holder
<1>4. ~Worse(Genesis, Genesis)
  BY <1>0, WorseOrder DEF Worse
<1>5. Exact(full)
  BY <1>4 DEF Exact
<1>6. ~Outdone(full, Genesis, Genesis)
  BY <1>0, <1>4, OutdoneWorse DEF Worse, Outdone
<1>7. Pending(full)
  BY <1>6 DEF Pending, Best
<1> QED BY <1>1, <1>2, <1>3, <1>5, <1>7 DEF IndexInv

LEMMA AcceptBlockHeaderIndex ==
  ASSUME NEW full \in BOOLEAN, IInv, IInv', IndexInv(full),
         NEW b \in Blocks, AcceptBlockHeader(b)
  PROVE  IndexInv(full)'
<1> USE TreeAssumption DEF AcceptBlockHeader, HeaderAccepted, HeaderBest, flags, best,
     precious, abc, inv
<1>0. TypeOK /\ TypeOK' /\ Locks
  BY DEF IInv
<1>1. Closed'
  BY <1>0 DEF IndexInv, Closed, TypeOK
<1>2. Failures'
  BY <1>0 DEF IndexInv, Failures, Closed, InHand, failed, Descendants, TypeOK, Goto,
     CsMainFree, ChainstateMutexFree, ChainstateSections
<1>3. Waiting'
  BY <1>0 DEF IndexInv, Waiting, Valid, failed, TypeOK, Goto, CsMainFree, CsMainSections,
     IInv, Linked
<1>4. Headers'
  BY <1>0, OrderAssumption DEF IndexInv, Headers, NotInvalidating, failed, TypeOK, Goto
<1>5. Holder'
  BY <1>0, AfterStepPlaces DEF IndexInv, Holder, Valid, failed, Worse, TypeOK, Goto,
     ActiveChain, IInv, Locks, ChainstateSections, CsMainSections, ChainstateMutexFree,
     CsMainFree
<1>6. Exact(full)'
  BY <1>0, AfterStepPlaces DEF IndexInv, Exact, NotInvalidating, Valid, failed, Worse,
     Loses, TypeOK, Goto, CsMainFree, CsMainSections, IInv, Locks
<1>7. Pending(full)'
  BY <1>0, AfterStepPlaces DEF IndexInv, Pending, Best, Valid, failed, Worse, Outdone,
     TypeOK, Goto, IInv, Locks, ChainstateSections, AbcSections
<1> QED BY <1>1, <1>2, <1>3, <1>4, <1>5, <1>6, <1>7 DEF IndexInv

LEMMA AcceptBlockIgnoredIndex ==
  ASSUME NEW full \in BOOLEAN, IInv, IInv', IndexInv(full),
         NEW t \in Threads, NEW b \in Blocks, NEW r \in BOOLEAN, AcceptBlockIgnored(t, b, r)
  PROVE  IndexInv(full)'
<1> USE TreeAssumption DEF AcceptBlockIgnored, SubmitsBlock, HeaderAccepted, HeaderBest,
     flags, best, precious, abc, inv
<1>0. TypeOK /\ TypeOK' /\ Locks
  BY DEF IInv
<1>1. Closed'
  BY <1>0 DEF IndexInv, Closed, TypeOK
<1>2. Failures'
  BY <1>0 DEF IndexInv, Failures, Closed, InHand, failed, Descendants, TypeOK, Goto,
     CsMainFree, ChainstateMutexFree, ChainstateSections
<1>3. Waiting'
  BY <1>0 DEF IndexInv, Waiting, Valid, failed, TypeOK, Goto, CsMainFree, CsMainSections,
     IInv, Linked
<1>4. Headers'
  BY <1>0, OrderAssumption DEF IndexInv, Headers, NotInvalidating, failed, TypeOK, Goto
<1>5. Holder'
  BY <1>0, AfterStepPlaces DEF IndexInv, Holder, Valid, failed, Worse, TypeOK, Goto,
     ActiveChain, IInv, Locks, ChainstateSections, CsMainSections, ChainstateMutexFree,
     CsMainFree
<1>6. Exact(full)'
  BY <1>0, AfterStepPlaces DEF IndexInv, Exact, NotInvalidating, Valid, failed, Worse,
     Loses, TypeOK, Goto, CsMainFree, CsMainSections, IInv, Locks
<1>7. Pending(full)'
  BY <1>0, AfterStepPlaces DEF IndexInv, Pending, Best, Valid, failed, Worse, Outdone,
     TypeOK, Goto, IInv, Locks, ChainstateSections, AbcSections
<1> QED BY <1>1, <1>2, <1>3, <1>4, <1>5, <1>6, <1>7 DEF IndexInv

LEMMA AcceptBlockIndex ==
  ASSUME NEW full \in BOOLEAN, IInv, IInv', IndexInv(full),
         NEW t \in Threads, NEW b \in Blocks, NEW r \in BOOLEAN, AcceptBlock(t, b, r)
  PROVE  IndexInv(full)'
<1> USE TreeAssumption DEF AcceptBlock, ProcessesBlock, SubmitsBlock, HeaderAccepted,
     HeaderBest, AddUnlinked, flags, best, precious, abc, inv
<1>0. TypeOK /\ TypeOK' /\ Locks
  BY DEF IInv
<1>1. Closed'
  BY <1>0 DEF IndexInv, Closed, TypeOK
<1>2. Failures'
  BY <1>0 DEF IndexInv, Failures, Closed, InHand, failed, Descendants, TypeOK, Goto,
     CsMainFree, ChainstateMutexFree, ChainstateSections
<1>3. Waiting'
  BY <1>0 DEF IndexInv, Waiting, Valid, failed, TypeOK, Goto, CsMainFree, CsMainSections,
     IInv, Linked
<1>4. Headers'
  BY <1>0, OrderAssumption DEF IndexInv, Headers, NotInvalidating, failed, TypeOK, Goto
<1>5. Holder'
  BY <1>0, AfterStepPlaces DEF IndexInv, Holder, Valid, failed, Worse, TypeOK, Goto,
     ActiveChain, IInv, Locks, ChainstateSections, CsMainSections, ChainstateMutexFree,
     CsMainFree
<1>6. Exact(full)'
  BY <1>0, AfterStepPlaces DEF IndexInv, Exact, NotInvalidating, Valid, failed, Worse,
     Loses, TypeOK, Goto, CsMainFree, CsMainSections, IInv, Locks
<1>7. Pending(full)'
  BY <1>0, AfterStepPlaces DEF IndexInv, Pending, Best, Valid, failed, Worse, Outdone,
     TypeOK, Goto, IInv, Locks, ChainstateSections, AbcSections
<1> QED BY <1>1, <1>2, <1>3, <1>4, <1>5, <1>6, <1>7 DEF IndexInv

LEMMA LinkBlockIndex ==
  ASSUME NEW full \in BOOLEAN, IInv, IInv', IndexInv(full),
         NEW t \in Threads, NEW b \in Blocks, LinkBlock(t, b)
  PROVE  IndexInv(full)'
<1> USE TreeAssumption DEF LinkBlock, TryAddBlockIndexCandidate, WaitingFor, flags, best,
     precious, abc, inv
<1>0. TypeOK /\ TypeOK' /\ Locks
  BY DEF IInv
<1>1. Closed'
  BY <1>0 DEF IndexInv, Closed, TypeOK
<1>2. Failures'
  BY <1>0 DEF IndexInv, Failures, Closed, InHand, failed, Descendants, TypeOK, Goto,
     CsMainFree, ChainstateMutexFree, ChainstateSections
<1>3. Waiting'
  BY <1>0 DEF IndexInv, Waiting, Valid, failed, TypeOK, Goto, CsMainFree, CsMainSections,
     IInv, Linked
<1>4. Headers'
  BY <1>0, OrderAssumption DEF IndexInv, Headers, NotInvalidating, failed, TypeOK, Goto
<1>5. Holder'
  BY <1>0, AfterStepPlaces DEF IndexInv, Holder, Valid, failed, Worse, TypeOK, Goto,
     ActiveChain, IInv, Locks, ChainstateSections, CsMainSections, ChainstateMutexFree,
     CsMainFree
<1>6. Exact(full)'
  <2>1. b \notin chainTx /\ tip \in chainTx /\ candidates \subseteq chainTx
    BY DEF IInv, TypeOK, Linked
  <2>2. \A c, d \in chainTx : WorseBy(seq', c, d) <=> WorseBy(seq, c, d)
    BY <1>0, <2>1 DEF WorseBy, TypeOK
  <2>3. \A u \in Threads : pc[u] \notin {"find", "step"} /\ pc'[u] \notin {"find", "step"}
    BY <1>0 DEF Locks, CsMainSections, Goto, TypeOK
  <2>4. NotInvalidating' => NotInvalidating
    BY <1>0 DEF NotInvalidating, Goto, TypeOK
  <2>5. \A c \in candidates' : ~WorseBy(seq', c, tip)
    BY <2>1, <2>2 DEF IndexInv, Exact, Worse, Loses
  <2>6. ASSUME NotInvalidating, NEW c \in chainTx', Valid(c), ~LosesBy(full, seq', c, tip)
        PROVE  c \in candidates'
    <3>1. CASE c = b
      BY <1>0, <2>6, <3>1, LosesWorse DEF TypeOK
    <3>2. CASE c # b
      <4>1. ~LosesBy(full, seq, c, tip)
        BY <2>1, <2>2, <2>6, <3>2 DEF LosesBy
      <4> QED BY <2>1, <2>3, <2>6, <3>2, <4>1 DEF IndexInv, Exact, Loses
    <3> QED BY <3>1, <3>2
  <2> QED BY <2>3, <2>4, <2>5, <2>6 DEF Exact, Worse, Loses, Valid, failed
<1>7. Pending(full)'
  BY <1>0, AfterStepPlaces DEF IndexInv, Pending, Best, Valid, failed, Worse, Outdone,
     TypeOK, Goto, IInv, Locks, ChainstateSections, AbcSections
<1> QED BY <1>1, <1>2, <1>3, <1>4, <1>5, <1>6, <1>7 DEF IndexInv

LEMMA ActivateBestChainIndex ==
  ASSUME NEW full \in BOOLEAN, IInv, IInv', IndexInv(full),
         NEW t \in Threads, ActivateBestChain(t)
  PROVE  IndexInv(full)'
<1> USE TreeAssumption DEF ActivateBestChain, flags, best, precious, abc, inv
<1>0. TypeOK /\ TypeOK' /\ Locks
  BY DEF IInv
<1>1. Closed'
  BY <1>0 DEF IndexInv, Closed, TypeOK
<1>2. Failures'
  BY <1>0 DEF IndexInv, Failures, Closed, InHand, failed, Descendants, TypeOK, Goto,
     CsMainFree, ChainstateMutexFree, ChainstateSections
<1>3. Waiting'
  BY <1>0 DEF IndexInv, Waiting, Valid, failed, TypeOK, Goto, CsMainFree, CsMainSections,
     IInv, Linked
<1>4. Headers'
  BY <1>0, OrderAssumption DEF IndexInv, Headers, NotInvalidating, failed, TypeOK, Goto
<1>5. Holder'
  <2>1. ~Worse(tip, tip) /\ tip \in Blocks /\ tip # Null
    BY <1>0, WorseOrder DEF Worse, TypeOK
  <2>2. Valid(tip)
    BY DEF IInv
  <2> QED BY <1>0, <2>1, <2>2 DEF IndexInv, Holder, Valid, failed, Worse, TypeOK, Goto,
          ActiveChain, ChainstateMutexFree, ChainstateSections
<1>6. Exact(full)'
  BY <1>0, AfterStepPlaces DEF IndexInv, Exact, NotInvalidating, Valid, failed, Worse,
     Loses, TypeOK, Goto, CsMainFree, CsMainSections, IInv, Locks
<1>7. Pending(full)'
  BY <1>0, AfterStepPlaces DEF IndexInv, Pending, Best, Valid, failed, Worse, Outdone,
     TypeOK, Goto, IInv, Locks, ChainstateSections, AbcSections
<1> QED BY <1>1, <1>2, <1>3, <1>4, <1>5, <1>6, <1>7 DEF IndexInv

LEMMA FindMostWorkChainIndex ==
  ASSUME NEW full \in BOOLEAN, IInv, IInv', IndexInv(full),
         NEW t \in Threads, NEW b \in Blocks, FindMostWorkChain(t, b)
  PROVE  IndexInv(full)'
<1> USE TreeAssumption DEF FindMostWorkChain, IsBestCandidate, flags, best, precious, abc, inv
<1>0. TypeOK /\ TypeOK' /\ Locks
  BY DEF IInv
<1>1. Closed'
  BY <1>0 DEF IndexInv, Closed, TypeOK
<1>2. Failures'
  BY <1>0 DEF IndexInv, Failures, Closed, InHand, failed, Descendants, TypeOK, Goto,
     CsMainFree, ChainstateMutexFree, ChainstateSections
<1>3. Waiting'
  BY <1>0 DEF IndexInv, Waiting, Valid, failed, TypeOK, Goto, CsMainFree, CsMainSections,
     IInv, Linked
<1>4. Headers'
  BY <1>0, OrderAssumption DEF IndexInv, Headers, NotInvalidating, failed, TypeOK, Goto
<1>5. ~Worse(b, startingTip) /\ ~Worse(b, tip)
  BY DEF IndexInv, Exact
<1>8. Holder'
  BY <1>0, <1>5 DEF IndexInv, Holder, Valid, failed, Worse, TypeOK, ActiveChain, Locks,
     ChainstateSections
<1>6. Exact(full)'
  BY <1>0, AfterStepPlaces DEF IndexInv, Exact, NotInvalidating, Valid, failed, Worse,
     Loses, TypeOK, Goto, CsMainFree, CsMainSections, IInv, Locks
<1>7. Pending(full)'
  <2> SUFFICES Best(full, b)
    BY <1>0 DEF Pending, Best, Valid, failed, Worse, Outdone, AbcSections
  <2> SUFFICES ASSUME NEW c \in chainTx, Valid(c), Outdone(full, b, c) PROVE FALSE
    BY DEF Best
  <2>1. b \in Blocks /\ c \in Blocks /\ tip \in Blocks /\ startingTip \in Blocks /\ seq \in [Blocks -> Int]
    BY <1>0 DEF IndexInv, Holder, TypeOK
  <2>2. ~Loses(full, c, tip) /\ ~Loses(full, c, startingTip) /\ Worse(b, c)
    BY <1>5, <2>1, OutdoneLoses, OutdoneWorse DEF Worse, Outdone, Loses
  <2>3. c \in candidates
    BY <1>0, <2>2 DEF IndexInv, Exact, NotInvalidating, Locks, ChainstateSections
  <2> QED BY <2>2, <2>3
<1> QED BY <1>1, <1>2, <1>3, <1>4, <1>6, <1>7, <1>8 DEF IndexInv

LEMMA ActivateBestChainDoneIndex ==
  ASSUME NEW full \in BOOLEAN, IInv, IInv', IndexInv(full),
         NEW t \in Threads, ActivateBestChainDone(t)
  PROVE  IndexInv(full)'
<1> USE TreeAssumption DEF ActivateBestChainDone, flags, best, precious, abc, inv
<1>0. TypeOK /\ TypeOK' /\ Locks
  BY DEF IInv
<1>1. Closed'
  BY <1>0 DEF IndexInv, Closed, TypeOK
<1>2. Failures'
  BY <1>0 DEF IndexInv, Failures, Closed, InHand, failed, Descendants, TypeOK, Goto,
     CsMainFree, ChainstateMutexFree, ChainstateSections
<1>3. Waiting'
  BY <1>0 DEF IndexInv, Waiting, Valid, failed, TypeOK, Goto, CsMainFree, CsMainSections,
     IInv, Linked
<1>4. Headers'
  BY <1>0, OrderAssumption DEF IndexInv, Headers, NotInvalidating, failed, TypeOK, Goto
<1>5. Holder'
  BY <1>0, AfterStepPlaces DEF IndexInv, Holder, Valid, failed, Worse, TypeOK, Goto,
     ActiveChain, IInv, Locks, ChainstateSections, CsMainSections, ChainstateMutexFree,
     CsMainFree
<1>6. Exact(full)'
  <2>1. ~Worse(tip, startingTip) /\ startingTip \in Blocks /\ tip \in Blocks /\ seq \in [Blocks -> Int]
    BY <1>0 DEF IndexInv, Holder, TypeOK
  <2>2. \A c \in chainTx : ~Loses(full, c, tip) => ~Loses(full, c, startingTip)
    BY <1>0, <2>1, LosesTransitive DEF Worse, Loses, TypeOK
  <2>3. NotInvalidating
    BY <1>0 DEF Locks, NotInvalidating, ChainstateSections
  <2> QED BY <2>2, <2>3 DEF IndexInv, Exact, Valid, failed, Worse, Loses
<1>7. Pending(full)'
  BY <1>0, AfterStepPlaces DEF IndexInv, Pending, Best, Valid, failed, Worse, Outdone,
     TypeOK, Goto, IInv, Locks, ChainstateSections, AbcSections
<1> QED BY <1>1, <1>2, <1>3, <1>4, <1>5, <1>6, <1>7 DEF IndexInv

LEMMA ActivateBestChainStepIndex ==
  ASSUME NEW full \in BOOLEAN, IInv, IInv', IndexInv(full),
         NEW t \in Threads, ActivateBestChainStep(t)
  PROVE  IndexInv(full)'
<1> USE TreeAssumption DEF ActivateBestChainStep, flags, best, precious, abc, inv
<1>0. TypeOK /\ TypeOK' /\ Locks
  BY DEF IInv
<1>1. Closed'
  BY <1>0 DEF IndexInv, Closed, TypeOK
<1>2. Failures'
  BY <1>0 DEF IndexInv, Failures, Closed, InHand, failed, Descendants, TypeOK, Goto,
     CsMainFree, ChainstateMutexFree, ChainstateSections
<1>3. Waiting'
  BY <1>0 DEF IndexInv, Waiting, Valid, failed, TypeOK, Goto, CsMainFree, CsMainSections,
     IInv, Linked
<1>4. Headers'
  BY <1>0, OrderAssumption DEF IndexInv, Headers, NotInvalidating, failed, TypeOK, Goto
<1>5. Holder'
  BY <1>0, AfterStepPlaces DEF IndexInv, Holder, Valid, failed, Worse, TypeOK, Goto,
     ActiveChain, IInv, Locks, ChainstateSections, CsMainSections, ChainstateMutexFree,
     CsMainFree
<1>6. Exact(full)'
  BY <1>0, AfterStepPlaces DEF IndexInv, Exact, NotInvalidating, Valid, failed, Worse,
     Loses, TypeOK, Goto, CsMainFree, CsMainSections, IInv, Locks
<1>7. Pending(full)'
  BY <1>0, AfterStepPlaces DEF IndexInv, Pending, Best, Valid, failed, Worse, Outdone,
     TypeOK, Goto, IInv, Locks, ChainstateSections, AbcSections
<1> QED BY <1>1, <1>2, <1>3, <1>4, <1>5, <1>6, <1>7 DEF IndexInv

LEMMA DisconnectTipIndex ==
  ASSUME NEW full \in BOOLEAN, IInv, IInv', IndexInv(full),
         NEW t \in Threads, DisconnectTip(t)
  PROVE  IndexInv(full)'
<1> USE TreeAssumption DEF DisconnectTip, flags, best, precious, abc, inv
<1>0. TypeOK /\ TypeOK' /\ Locks
  BY DEF IInv
<1>1. Closed'
  BY <1>0 DEF IndexInv, Closed, TypeOK
<1>2. Failures'
  BY <1>0 DEF IndexInv, Failures, Closed, InHand, failed, Descendants, TypeOK, Goto,
     CsMainFree, ChainstateMutexFree, ChainstateSections
<1>3. Waiting'
  BY <1>0 DEF IndexInv, Waiting, Valid, failed, TypeOK, Goto, CsMainFree, CsMainSections,
     IInv, Linked
<1>4. Headers'
  BY <1>0, OrderAssumption DEF IndexInv, Headers, NotInvalidating, failed, TypeOK, Goto
<1>5. mostWork \in Blocks /\ tip \in Blocks \ {Genesis} /\ tip' = Parent[tip]
  <2>1. mostWork \in Blocks
    BY DEF IInv, Locals, TypeOK
  <2> QED BY <1>0, <2>1 DEF Descendants, TypeOK
<1>8. Parent[tip] \in Ancestors[tip] /\ Ancestors[Parent[tip]] \subseteq Ancestors[tip] /\ Parent[tip] \in Blocks
  BY <1>5
<1>9. Holder'
  <2>1. ~Worse(startingTip, tip) /\ startingTip \in Blocks
    BY <1>0, <1>5 DEF IndexInv, Holder, TypeOK, Descendants
  <2>2. ~Worse(startingTip, Parent[tip])
    BY <1>0, <1>5, <1>8, <2>1, AncestorWorse, NotWorseTransitive DEF Worse, TypeOK
  <2> QED BY <1>0, <1>5, <1>8, <2>2 DEF IndexInv, Holder, Valid, failed, Worse,
     ActiveChain, TypeOK, Locks, ChainstateSections
<1>6. Exact(full)'
  <2>1. \A c \in candidates : ~Worse(c, Parent[tip])
    BY <1>0, <1>5, <1>8, AncestorWorse, NotWorseTransitive DEF IndexInv, Exact, Worse, Loses, TypeOK
  <2>2. startingTip \in Blocks /\ ~Worse(startingTip, tip)
    BY <1>0, <1>5 DEF IndexInv, Holder, TypeOK, Descendants
  <2>3. ASSUME NEW c \in chainTx, Valid(c), ~Loses(full, c, startingTip), NotInvalidating
        PROVE  c \in candidates
    <3>1. ~Loses(full, c, tip)
      BY <1>0, <2>2, <2>3, LosesTransitive DEF Worse, Loses, TypeOK
    <3> QED BY <2>3, <3>1 DEF IndexInv, Exact
  <2>4. UNCHANGED <<pc, seq, candidates, chainTx, startingTip, failedValid, failedChild>>
    OBVIOUS
  <2> QED BY <1>5, <2>1, <2>3, <2>4 DEF IndexInv, Exact, Valid, failed, Worse, Loses,
     NotInvalidating
<1>7. Pending(full)'
  <2>1. /\ startingTip \in Blocks /\ ~Worse(startingTip, tip) /\ ~Worse(mostWork, startingTip)
        /\ mostWork # Null /\ pc'[t] \in AbcSections
    BY <1>0, <1>5 DEF IndexInv, Holder, TypeOK, Descendants, AbcSections
  <2>2. Best(full, tip) => Best(full, mostWork)
    BY <1>0, <1>5, <2>1, NotWorseTransitive, OutdoneTransitive DEF Best, Worse, Outdone, TypeOK
  <2>3. Best(full, mostWork) => Best(full, mostWork)'
    BY DEF Best, Worse, Outdone, Valid, failed
  <2> QED BY <2>1, <2>2, <2>3 DEF IndexInv, Pending
<1> QED BY <1>1, <1>2, <1>3, <1>4, <1>6, <1>7, <1>9 DEF IndexInv

LEMMA ConnectTipIndex ==
  ASSUME NEW full \in BOOLEAN, IInv, IInv', IndexInv(full),
         NEW t \in Threads, NEW b \in Blocks, ConnectTip(t, b)
  PROVE  IndexInv(full)'
<1> USE TreeAssumption DEF ConnectTip, flags, best, precious, abc, inv
<1>0. TypeOK /\ TypeOK' /\ Locks
  BY DEF IInv
<1>1. Closed'
  BY <1>0 DEF IndexInv, Closed, TypeOK
<1>2. Failures'
  BY <1>0 DEF IndexInv, Failures, Closed, InHand, failed, Descendants, TypeOK, Goto,
     CsMainFree, ChainstateMutexFree, ChainstateSections
<1>3. Waiting'
  BY <1>0 DEF IndexInv, Waiting, Valid, failed, TypeOK, Goto, CsMainFree, CsMainSections,
     IInv, Linked
<1>4. Headers'
  <2>1. PICK l \in {"find", "idle", "abcNext", "step"} : Goto(t, l)
    BY AfterStepPlaces
  <2> QED BY <1>0, <2>1 DEF IndexInv, Headers, NotInvalidating, failed, TypeOK, Goto
<1>8. /\ mostWork \in Blocks /\ b \in Ancestors[mostWork] /\ b # Genesis /\ Parent[b] = tip
      /\ tip' = b /\ b \in Blocks /\ startingTip \in Blocks /\ seq' = seq /\ seq \in [Blocks -> Int]
      /\ Valid(b) /\ ~Worse(mostWork, startingTip)
  <2>1. mostWork \in Blocks /\ Valid(mostWork)
    BY <1>0 DEF IInv, Locals, TypeOK, AbcSections
  <2>2. b \in Ancestors[mostWork] /\ b # Genesis /\ Parent[b] = tip
    BY DEF IsNext
  <2>3. Valid(b)
    BY <2>1, <2>2 DEF Valid
  <2> QED BY <1>0, <2>1, <2>2, <2>3 DEF IndexInv, Holder, TypeOK
<1>9. \/ Goto(t, "step") /\ b # mostWork
      \/ Goto(t, "find") /\ Worse(b, startingTip)
      \/ Goto(t, "idle") /\ b = mostWork /\ ~Worse(b, startingTip)
      \/ Goto(t, "abcNext") /\ ~Worse(b, startingTip)
  <2>1. CASE Work[b] > Work[oldTip] \/ b = mostWork
    <3>1. Goto(t, AfterStep(b, mostWork))
      BY <2>1
    <3> HIDE DEF ConnectTip
    <3> QED BY <3>1, AfterStepCases
  <2>2. CASE ~(Work[b] > Work[oldTip] \/ b = mostWork)
    BY <2>2
  <2> QED BY <2>1, <2>2
<1> HIDE DEF ConnectTip
<1>5. Holder'
  <2>1. Ancestors[b] \cap BadConnect = {}
    BY <1>8 DEF ConnectTip, IndexInv, Holder
  <2>2. Worse(b, startingTip) => ~Worse(startingTip, b)
    BY <1>8, WorseOrder DEF Worse
  <2>3. UNCHANGED <<mostWork, startingTip, target, lastOff, failedValid, failedChild, seq>>
    BY DEF ConnectTip
  <2>4. /\ startingTip # Null
        /\ Valid(startingTip) /\ Ancestors[startingTip] \cap BadConnect = {}
        /\ mostWork # Null /\ ~Worse(mostWork, startingTip)
    BY <1>8 DEF ConnectTip, IndexInv, Holder
  <2>5. \A u \in Threads \ {t} : pc'[u] = pc[u] /\ pc[u] \notin ChainstateSections
    BY <1>0, <1>9 DEF ConnectTip, Goto, TypeOK, Locks, ChainstateSections
  <2>6. pc'[t] \in {"step", "find", "idle", "abcNext"} /\ (pc'[t] = "find" => Worse(b, startingTip))
    BY <1>0, <1>9 DEF Goto, TypeOK
  <2> QED BY <1>8, <2>1, <2>2, <2>3, <2>4, <2>5, <2>6 DEF Holder, Valid, failed, Worse,
     ChainstateSections
<1>6. Exact(full)'
  <2>1. candidates' = {c \in candidates : ~Worse(c, b)}
    BY DEF ConnectTip, PruneBlockIndexCandidates
  <2>2. UNCHANGED <<chainTx, startingTip, failedValid, failedChild>> /\ NotInvalidating
    BY <1>0 DEF ConnectTip, NotInvalidating, Locks, ChainstateSections
  <2>3. ~Worse(b, tip)
    BY <1>0, <1>8, AncestorWorse DEF Worse, TypeOK
  <2>4. ASSUME NEW c \in chainTx, Valid(c), ~Loses(full, c, b),
               (\A u \in Threads : pc'[u] \in {"find", "step"} => ~Loses(full, c, startingTip))
        PROVE  c \in candidates
    <3>1. ~Loses(full, c, tip)
      BY <1>0, <1>8, <2>3, <2>4, LosesTransitive DEF Worse, Loses, TypeOK
    <3>2. ~Loses(full, c, startingTip)
      <4>1. CASE pc'[t] \in {"find", "step"}
        BY <2>4, <4>1
      <4>2. CASE pc'[t] \notin {"find", "step"}
        <5>1. ~Worse(b, startingTip)
          BY <1>0, <1>9, <4>2 DEF Goto, TypeOK
        <5> QED BY <1>0, <1>8, <2>4, <5>1, LosesTransitive DEF Worse, Loses, TypeOK
      <4> QED BY <4>1, <4>2
    <3> QED BY <2>2, <2>4, <3>1, <3>2 DEF IndexInv, Exact
  <2>5. \A c \in candidates' : ~Worse(c, b) /\ ~Worse(c, startingTip)
    BY <2>1 DEF IndexInv, Exact, ConnectTip
  <2>6. \A c \in chainTx : Valid(c) /\ ~Loses(full, c, b) => ~Worse(c, b)
    BY <1>0, <1>8, LosesWorse DEF Worse, Loses, TypeOK
  <2> QED BY <1>8, <2>1, <2>2, <2>4, <2>5, <2>6 DEF Exact, Worse, Loses, Valid, failed
<1>7. Pending(full)'
  <2>1. UNCHANGED <<chainTx, mostWork, failedValid, failedChild>>
    BY DEF ConnectTip
  <2>2. Best(full, mostWork) <=> Best(full, mostWork)'
    BY <1>8, <2>1 DEF Best, Worse, Outdone, Valid, failed
  <2>3. \A u \in Threads : pc[u] \in {"link", "activate", "invalidate"} => pc'[u] = pc[u]
    BY <1>0, <1>9 DEF ConnectTip, Goto, TypeOK
  <2>4. Best(full, tip) => Best(full, mostWork)
    <3>1. tip \in Ancestors[mostWork]
      BY <1>8
    <3> QED BY <1>0, <1>8, <3>1, AncestorWorse, OutdoneTransitive DEF Best, Worse, Outdone, TypeOK
  <2>5. ASSUME Best(full, mostWork) PROVE Pending(full)'
    <3>1. CASE pc'[t] \in AbcSections
      BY <2>2, <2>5, <3>1 DEF Pending
    <3>2. CASE pc'[t] \notin AbcSections
      BY <1>0, <1>8, <1>9, <2>1, <2>2, <2>5, <3>2 DEF Pending, Goto, TypeOK, AbcSections
    <3> QED BY <3>1, <3>2
  <2>6. mostWork # Null
    BY <1>8
  <2>7. CASE \E u \in Threads : pc[u] \in {"link", "activate", "invalidate"}
    BY <2>3, <2>7 DEF Pending
  <2> QED BY <2>4, <2>5, <2>6, <2>7 DEF IndexInv, Pending
<1> QED BY <1>1, <1>2, <1>3, <1>4, <1>5, <1>6, <1>7 DEF IndexInv

LEMMA ActivateBestChainNextIndex ==
  ASSUME NEW full \in BOOLEAN, IInv, IInv', IndexInv(full),
         NEW t \in Threads, ActivateBestChainNext(t)
  PROVE  IndexInv(full)'
<1> USE TreeAssumption DEF ActivateBestChainNext, flags, best, precious, abc, inv
<1>0. TypeOK /\ TypeOK' /\ Locks
  BY DEF IInv
<1>1. Closed'
  BY <1>0 DEF IndexInv, Closed, TypeOK
<1>2. Failures'
  BY <1>0 DEF IndexInv, Failures, Closed, InHand, failed, Descendants, TypeOK, Goto,
     CsMainFree, ChainstateMutexFree, ChainstateSections
<1>3. Waiting'
  BY <1>0 DEF IndexInv, Waiting, Valid, failed, TypeOK, Goto, CsMainFree, CsMainSections,
     IInv, Linked
<1>4. Headers'
  BY <1>0, OrderAssumption DEF IndexInv, Headers, NotInvalidating, failed, TypeOK, Goto
<1>5. Holder'
  <2>1. ~Worse(tip, tip) /\ tip \in Blocks /\ tip # Null
    BY <1>0, WorseOrder DEF Worse, TypeOK
  <2>2. Valid(tip)
    BY DEF IInv
  <2>3. mostWork # Null => ~Worse(mostWork, tip)
    BY <1>0, AncestorWorse DEF IndexInv, Holder, TypeOK, Worse
  <2> QED BY <1>0, <2>1, <2>2, <2>3 DEF IndexInv, Holder, Valid, failed, Worse, TypeOK, Goto,
          ActiveChain, Locks, ChainstateSections
<1>6. Exact(full)'
  BY <1>0, AfterStepPlaces DEF IndexInv, Exact, NotInvalidating, Valid, failed, Worse,
     Loses, TypeOK, Goto, CsMainFree, CsMainSections, IInv, Locks
<1>7. Pending(full)'
  BY <1>0, AfterStepPlaces DEF IndexInv, Pending, Best, Valid, failed, Worse, Outdone,
     TypeOK, Goto, IInv, Locks, ChainstateSections, AbcSections
<1> QED BY <1>1, <1>2, <1>3, <1>4, <1>5, <1>6, <1>7 DEF IndexInv

LEMMA InvalidateBlockIndex ==
  ASSUME NEW full \in BOOLEAN, IInv, IInv', IndexInv(full),
         NEW t \in Threads, NEW b \in Blocks, InvalidateBlock(t, b)
  PROVE  IndexInv(full)'
<1> USE TreeAssumption DEF InvalidateBlock, OperatorCalls, flags, best, precious, abc, inv
<1>0. TypeOK /\ TypeOK' /\ Locks
  BY DEF IInv
<1>1. Closed'
  BY <1>0 DEF IndexInv, Closed, TypeOK
<1>2. Failures'
  BY <1>0 DEF IndexInv, Failures, Closed, InHand, failed, Descendants, TypeOK, Goto,
     CsMainFree, ChainstateMutexFree, ChainstateSections
<1>3. Waiting'
  BY <1>0 DEF IndexInv, Waiting, Valid, failed, TypeOK, Goto, CsMainFree, CsMainSections,
     IInv, Linked
<1>4. Headers'
  BY <1>0, OrderAssumption DEF IndexInv, Headers, NotInvalidating, failed, TypeOK, Goto
<1>5. Holder'
  BY <1>0, AfterStepPlaces DEF IndexInv, Holder, Valid, failed, Worse, TypeOK, Goto,
     ActiveChain, IInv, Locks, ChainstateSections, CsMainSections, ChainstateMutexFree,
     CsMainFree
<1>6. Exact(full)'
  BY <1>0, AfterStepPlaces DEF IndexInv, Exact, NotInvalidating, Valid, failed, Worse,
     Loses, TypeOK, Goto, CsMainFree, CsMainSections, IInv, Locks
<1>7. Pending(full)'
  BY <1>0, AfterStepPlaces DEF IndexInv, Pending, Best, Valid, failed, Worse, Outdone,
     TypeOK, Goto, IInv, Locks, ChainstateSections, AbcSections
<1> QED BY <1>1, <1>2, <1>3, <1>4, <1>5, <1>6, <1>7 DEF IndexInv

(* Walking over all headers that are not failed finds the best of them.    *)
LEMMA MostWorkIsBest ==
  ASSUME NEW from \in SUBSET Blocks, NEW s \in Blocks, NEW h \in MostWorkOf(from, s)
  PROVE  \A x \in from : Work[x] <= Work[h]
<1> USE OrderAssumption
<1> DEFINE better == {x \in from : Work[x] > Work[s]}
<1>1. CASE better = {}
  BY <1>1 DEF MostWorkOf
<1>2. CASE better # {}
  <2>1. h \in better /\ \A x \in better : Work[x] <= Work[h]
    BY <1>2 DEF MostWorkOf
  <2> QED BY <2>1
<1> QED BY <1>1, <1>2

LEMMA HeaderNotFailed ==
  ASSUME NEW b \in Blocks, NEW fv, NEW fc, NEW bh \in Blocks, NEW idx, NEW i,
         InvalidChainFound(b, fv, fc, bh, idx, i),
         tip \notin failed',
         b \notin Ancestors[bh] => bh \notin fv \cup fc
  PROVE  bestHeader' \notin failed'
<1>1. failed' = fv \cup fc \cup ((Descendants(b) \ {b}) \cap idx)
  BY FlagsOfInvalidChain
<1>2. CASE b \in Ancestors[bh]
  <2>1. bestHeader' \in MostWorkOf(idx \ failed', tip)
    BY <1>1, <1>2 DEF InvalidChainFound, RecalculateBestHeader
  <2> QED BY <2>1, MostWorkFromIndex
<1>3. CASE b \notin Ancestors[bh]
  BY <1>1, <1>3 DEF InvalidChainFound, Descendants
<1> QED BY <1>2, <1>3

LEMMA HeaderStaysBest ==
  ASSUME NEW b \in Blocks, NEW fv, NEW fc, NEW bh \in Blocks, NEW idx \in SUBSET Blocks, NEW i,
         InvalidChainFound(b, fv, fc, bh, idx, i),
         tip \in Blocks,
         \A x \in idx \ (fv \cup fc) : Work[x] <= Work[bh]
  PROVE  \A x \in idx \ failed' : Work[x] <= Work[bestHeader']
<1>1. failed' = fv \cup fc \cup ((Descendants(b) \ {b}) \cap idx)
  BY FlagsOfInvalidChain
<1>2. CASE b \in Ancestors[bh]
  <2>1. bestHeader' \in MostWorkOf(idx \ failed', tip)
    BY <1>1, <1>2 DEF InvalidChainFound, RecalculateBestHeader
  <2> QED BY <2>1, MostWorkIsBest
<1>3. CASE b \notin Ancestors[bh]
  BY <1>1, <1>3 DEF InvalidChainFound, Descendants
<1> QED BY <1>2, <1>3

LEMMA AcceptBlockInvalidIndex ==
  ASSUME NEW full \in BOOLEAN, IInv, IInv', IndexInv(full),
         NEW t \in Threads, NEW b \in Blocks, NEW r \in BOOLEAN,
         AcceptBlockInvalid(t, b, r)
  PROVE  IndexInv(full)'
<1> USE TreeAssumption DEF AcceptBlockInvalid, ProcessesBlock, SubmitsBlock, precious, abc, inv
<1>0. TypeOK /\ TypeOK' /\ Locks /\ b # Genesis
  BY DEF IInv
<1>1. /\ index' = index \cup {b} /\ Closed'
      /\ b \in index \/ (Parent[b] \in index /\ Parent[b] \notin failed)
  BY <1>0 DEF IndexInv, Closed, TypeOK, HeaderAccepted
<1>2. failed' = failed \cup (Descendants(b) \cap index')
  <2>1. failed' = (failedValid \cup {b}) \cup failedChild \cup ((Descendants(b) \ {b}) \cap index')
    BY FlagsOfInvalidChain
  <2>2. b \in Descendants(b) /\ b \in index'
    BY <1>1 DEF Descendants
  <2> QED BY <2>1, <2>2 DEF failed
<1>3. b \notin index => Ancestors[Parent[b]] \cap {x \in failed : ~InHand(x)} = {}
  BY <1>0, <1>1 DEF IndexInv, Failures, Descendants, TypeOK
<1>4. Failures'
  <2> SUFFICES ASSUME NEW x \in failed', ~InHand(x), NEW y \in Descendants(x) \cap index'
               PROVE  y \in failed'
    BY DEF Failures, InHand
  <2>1. CASE x \in Descendants(b)
    BY <1>2, <2>1 DEF Descendants
  <2>2. CASE x \notin Descendants(b)
    BY <1>0, <1>1, <1>2, <1>3, <2>2 DEF IndexInv, Failures, Descendants, TypeOK
  <2> QED BY <2>1, <2>2
<1>5. Waiting'
  BY <1>2 DEF IndexInv, Waiting, Valid
<1>6. Headers'
  <2> SUFFICES ASSUME ops = 0 PROVE Headers'
    BY DEF Headers
  <2>1. /\ NotInvalidating /\ bestHeader \notin failed /\ bestHeader \in index
        /\ \A x \in index \ failed : Work[x] <= Work[bestHeader]
    BY <1>0 DEF IndexInv, Headers, TypeOK
  <2>2. /\ HeaderBest(b) \in Blocks /\ index' \in SUBSET Blocks
        /\ tip \in Blocks /\ tip \notin failed'
    BY <1>0, <2>1 DEF IInv, HeaderBest, TypeOK, Valid
  <2>3. b \notin Ancestors[HeaderBest(b)] => HeaderBest(b) \notin (failedValid \cup {b}) \cup failedChild
    BY <1>0, <2>1 DEF HeaderBest, failed, TypeOK
  <2>4. \A x \in index' \ ((failedValid \cup {b}) \cup failedChild) : Work[x] <= Work[HeaderBest(b)]
    BY <1>0, <1>1, <2>1, OrderAssumption DEF HeaderBest, failed, TypeOK
  <2>5. InvalidChainFound(b, failedValid \cup {b}, failedChild, HeaderBest(b),
                          index', MoreInvalid(b, bestInvalid))
    BY <1>1
  <2> HIDE DEF AcceptBlockInvalid, ProcessesBlock, SubmitsBlock
  <2>6. bestHeader' \notin failed'
    BY <2>2, <2>3, <2>5, HeaderNotFailed
  <2>7. \A x \in index' \ failed' : Work[x] <= Work[bestHeader']
    BY <2>2, <2>4, <2>5, HeaderStaysBest
  <2>8. NotInvalidating'
    BY <2>1 DEF AcceptBlockInvalid, NotInvalidating
  <2> QED BY <2>6, <2>7, <2>8 DEF Headers
<1>7. Holder'
  BY <1>0 DEF IndexInv, Holder, CsMainFree, CsMainSections, ActiveChain
<1>8. Exact(full)'
  BY <1>0, <1>2 DEF IndexInv, Exact, Worse, Loses, Valid, NotInvalidating, Descendants, TypeOK
<1>9. Pending(full)'
  BY <1>2 DEF IndexInv, Pending, Best, Worse, Outdone, Valid
<1> QED BY <1>1, <1>4, <1>5, <1>6, <1>7, <1>8, <1>9 DEF IndexInv

(* Marking is no news where failures are inherited.                        *)
LEMMA DropInvalidCandidateIndex ==
  ASSUME NEW full \in BOOLEAN, IInv, IInv', IndexInv(full),
         NEW t \in Threads, NEW b \in Blocks, NEW c \in Blocks,
         DropInvalidCandidate(t, b, c)
  PROVE  IndexInv(full)'
<1> USE TreeAssumption DEF DropInvalidCandidate, precious, abc, inv
<1>0. TypeOK /\ TypeOK' /\ Locks
  BY DEF IInv
<1>1. \A x : ~InHand(x)
  BY <1>0 DEF InHand, Locks, ChainstateSections
<1>2. c \in failed /\ b \in index /\ ChainFrom(b, c) \subseteq index /\ ChainFrom(b, c) \subseteq Descendants(c)
  BY <1>0 DEF IsBestCandidate, FailedOnPath, TypeOK, IndexInv, Closed, ChainFrom
<1>3. ChainFrom(b, c) \subseteq failed
  BY <1>1, <1>2 DEF IndexInv, Failures
<1>4. failed' = failed
  BY <1>3 DEF failed
<1>5. Closed' /\ Failures' /\ Waiting' /\ Headers' /\ Holder'
  BY <1>4 DEF IndexInv, Closed, Failures, InHand, Waiting, Headers, Holder, NotInvalidating,
              Valid, Worse, ActiveChain
<1>6. Exact(full)'
  BY <1>0, <1>3, <1>4 DEF IndexInv, Exact, Worse, Loses, Valid, NotInvalidating, TypeOK
<1>7. Pending(full)'
  BY <1>4 DEF IndexInv, Pending, Best, Worse, Outdone, Valid
<1> QED BY <1>5, <1>6, <1>7 DEF IndexInv

LEMMA ConnectTipInvalidIndex ==
  ASSUME NEW full \in BOOLEAN, IInv, IInv', IndexInv(full),
         NEW t \in Threads, NEW b \in Blocks, ConnectTipInvalid(t, b)
  PROVE  IndexInv(full)'
<1> USE TreeAssumption DEF ConnectTipInvalid, precious, inv
<1>0. TypeOK /\ TypeOK' /\ Locks
  BY DEF IInv
<1>1. /\ b \in index /\ b \in BadConnect /\ tip # Null /\ startingTip \in Blocks
      /\ \A x : ~InHand(x)
  BY <1>0 DEF IInv, Locals, IsNext, IndexInv, Closed, Holder, TypeOK, InHand, Locks,
     ChainstateSections
<1>2. failed' = failed \cup (Descendants(b) \cap index)
  <2>1. failed' = (failedValid \cup {b}) \cup failedChild \cup ((Descendants(b) \ {b}) \cap index)
    BY FlagsOfInvalidChain
  <2> QED BY <1>1, <2>1 DEF failed, Descendants
<1>3. \/ Goto(t, "find") /\ Worse(tip, startingTip)
      \/ Goto(t, "abcNext") /\ ~Worse(tip, startingTip)
  BY <1>1 DEF AfterStep
<1>4. Failures'
  BY <1>1, <1>2 DEF IndexInv, Failures, Descendants
<1>5. Closed'
  BY DEF IndexInv, Closed
<1>6. Waiting'
  BY <1>0, <1>2, <1>3 DEF IndexInv, Waiting, Valid, Goto, TypeOK
<1>7. Headers'
  <2> SUFFICES ASSUME ops = 0 PROVE Headers'
    BY DEF Headers
  <2>1. /\ NotInvalidating /\ bestHeader \notin failed /\ bestHeader \in index
        /\ \A x \in index \ failed : Work[x] <= Work[bestHeader]
    BY <1>0 DEF IndexInv, Headers, TypeOK
  <2>2. tip \in Blocks /\ tip \notin failed' /\ bestHeader \in Blocks /\ index \in SUBSET Blocks
    BY <1>0, <2>1 DEF IInv, TypeOK, Valid
  <2>5. /\ InvalidChainFound(b, failedValid \cup {b}, failedChild, bestHeader, index,
                            MoreInvalid(mostWork, MoreInvalid(b, bestInvalid)))
        /\ b \notin Ancestors[bestHeader] => bestHeader \notin (failedValid \cup {b}) \cup failedChild
        /\ \A x \in index \ ((failedValid \cup {b}) \cup failedChild) : Work[x] <= Work[bestHeader]
    BY <2>1, <2>2 DEF failed
  <2>3. bestHeader' \notin failed' /\ \A x \in index \ failed' : Work[x] <= Work[bestHeader']
    <3> HIDE DEF ConnectTipInvalid
    <3>1. bestHeader' \notin failed'
      BY <2>2, <2>5, HeaderNotFailed
    <3>2. \A x \in index \ failed' : Work[x] <= Work[bestHeader']
      BY <2>2, <2>5, HeaderStaysBest
    <3> QED BY <3>1, <3>2
  <2>4. NotInvalidating'
    BY <1>0, <1>3, <2>1 DEF NotInvalidating, Goto, TypeOK
  <2> QED BY <2>3, <2>4 DEF Headers
<1>11. Valid(startingTip) /\ Valid(startingTip)' /\ Ancestors[startingTip] \cap BadConnect = {}
  <2>1. Valid(startingTip) /\ Ancestors[startingTip] \cap BadConnect = {}
    BY DEF IndexInv, Holder
  <2> QED BY <1>1, <1>2, <2>1, DescendantsApart DEF Valid
<1>12. /\ \A u \in Threads \ {t} : pc'[u] = pc[u] /\ pc[u] \notin ChainstateSections
       /\ pc'[t] \in {"find", "abcNext"}
       /\ pc'[t] = "find" => Worse(tip, startingTip)
       /\ pc'[t] = "abcNext" => ~Worse(tip, startingTip)
  BY <1>0, <1>3 DEF Goto, TypeOK, Locks, ChainstateSections
<1>13. UNCHANGED <<tip, seq, chainTx, startingTip, lastOff, target>> /\ mostWork' = Null
  OBVIOUS
<1>14. Worse(tip, startingTip) => ~Worse(startingTip, tip)
  BY <1>0, <1>1, WorseOrder DEF Worse, TypeOK
<1>8. Holder'
  BY <1>0, <1>1, <1>11, <1>12, <1>13, <1>14 DEF IndexInv, Holder, ActiveChain, Worse,
     ChainstateSections, TypeOK
<1>9. Exact(full)'
  <2>1. candidates' = candidates \ {b} /\ b \in failed' /\ NotInvalidating
    BY <1>0, <1>1, <1>2 DEF Descendants, NotInvalidating, Locks, ChainstateSections
  <2>2. ASSUME NEW c \in chainTx, Valid(c)', ~Loses(full, c, tip),
               \A u \in Threads : pc'[u] \in {"find", "step"} => ~Loses(full, c, startingTip)
        PROVE  c \in candidates'
    <3>1. ~Loses(full, c, startingTip)
      <4>1. CASE pc'[t] = "find"
        BY <2>2, <4>1
      <4>2. CASE pc'[t] = "abcNext"
        BY <1>0, <1>1, <1>12, <2>2, <4>2, LosesTransitive DEF Worse, Loses, TypeOK
      <4> QED BY <1>12, <4>1, <4>2
    <3>2. Valid(c) /\ c # b
      BY <1>0, <1>2, <2>1, <2>2 DEF Valid, TypeOK
    <3> QED BY <2>1, <2>2, <3>1, <3>2 DEF IndexInv, Exact
  <2>3. pc[t] = "step"
    OBVIOUS
  <2> HIDE DEF ConnectTipInvalid
  <2> QED BY <1>12, <1>13, <2>1, <2>2, <2>3 DEF ChainstateSections, IndexInv, Exact, Worse, Loses
<1>10. Pending(full)'
  BY <1>0, <1>3 DEF Pending, Goto, TypeOK, AbcSections
<1> QED BY <1>4, <1>5, <1>6, <1>7, <1>8, <1>9, <1>10 DEF IndexInv

(* The blocks marked lie above the block that is being invalidated.        *)
LEMMA InvalidateDisconnectIndex ==
  ASSUME NEW full \in BOOLEAN, IInv, IInv', IndexInv(full),
         NEW t \in Threads, InvalidateDisconnect(t)
  PROVE  IndexInv(full)'
<1> USE TreeAssumption DEF InvalidateDisconnect, precious, abc
<1>0. TypeOK /\ TypeOK' /\ Locks /\ Locals
  BY DEF IInv
<1>1. /\ ops # 0 /\ target \in Ancestors[tip] /\ target # Genesis /\ target # Null
      /\ tip \in Blocks \ {Genesis} /\ Parent[tip] \in Blocks
      /\ Ancestors[tip] = {tip} \cup Ancestors[Parent[tip]]
      /\ Parent[tip] \in Ancestors[tip]
  BY <1>0 DEF IndexInv, Headers, NotInvalidating, Locals, ActiveChain, TypeOK
<1>2. /\ UNCHANGED <<index, data, chainTx, seq, unlinked, pc, queue, target, ops>>
      /\ tip' = Parent[tip] /\ lastOff' = tip /\ pc[t] = "invalidate"
  OBVIOUS
<1>3. failed \subseteq failed' /\ failed' \subseteq failed \cup Descendants(tip)
  <2> DEFINE seen == {c \in highpow : Work[c] >= Work[Parent[tip]]}
             below == seen \cap Descendants(tip)
             demoted == {c \in failedValid : c = lastOff /\ Parent[c] = tip}
  <2>1. /\ failedValid' = (failedValid \cup {tip}) \ (demoted \cup below)
        /\ failedChild' = failedChild \cup demoted \cup below
    OBVIOUS
  <2>2. demoted \subseteq failedValid /\ below \subseteq Descendants(tip) /\ tip \in Descendants(tip)
    BY <1>1 DEF Descendants
  <2> HIDE DEF InvalidateDisconnect, demoted, below
  <2> QED BY <2>1, <2>2 DEF failed
<1>4. \A c \in candidates' : c \in candidates \/ ~Worse(c, Parent[tip])
  <2>1. ~Worse(Parent[tip], Parent[tip])
    BY <1>0, <1>1, WorseOrder DEF Worse, TypeOK
  <2> QED BY <2>1
<1> HIDE DEF InvalidateDisconnect
<1>5. Closed'
  BY <1>2 DEF IndexInv, Closed
<1>6. Failures'
  <2> SUFFICES ASSUME NEW x \in failed', NEW y \in Descendants(x) \cap index, y \notin failed'
               PROVE  InHand(x)'
    BY <1>2 DEF Failures
  <2>1. CASE x \in failed
    <3>1. InHand(x)
      BY <1>3, <2>1 DEF IndexInv, Failures
    <3> QED BY <1>1, <1>2, <3>1, TreeAssumption DEF InHand, TypeOK
  <2>2. CASE x \in Descendants(tip)
    <3>1. target \in Ancestors[x]
      BY <1>1, <2>2 DEF Descendants
    <3>2. lastOff' # Null
      BY <1>1, <1>2
    <3> QED BY <1>2, <3>1, <3>2 DEF InHand
  <2> QED BY <1>3, <2>1, <2>2
<1>7. Waiting'
  BY <1>1, <1>2 DEF IndexInv, Waiting
<1>8. Headers'
  BY <1>1, <1>2 DEF Headers
<1>9. \A u \in Threads : u # t => pc[u] \notin ChainstateSections
  BY <1>0, <1>2 DEF Locks, ChainstateSections
<1>10. Holder'
  BY <1>1, <1>2, <1>9 DEF IndexInv, Holder, ActiveChain, ChainstateSections
<1>11. Exact(full)'
  <2>1. \A c \in candidates : ~Worse(c, Parent[tip])
    BY <1>0, <1>1, AncestorWorse, NotWorseTransitive DEF IndexInv, Exact, Worse, Loses, TypeOK
  <2> QED BY <1>2, <1>4, <1>9, <2>1 DEF Exact, NotInvalidating, Worse, ChainstateSections
<1>12. Pending(full)'
  BY <1>2 DEF Pending
<1> QED BY <1>5, <1>6, <1>7, <1>8, <1>10, <1>11, <1>12 DEF IndexInv

(* All blocks above the invalidated one are marked now, and every block    *)
(* that is good enough is a candidate.                                     *)
LEMMA InvalidateFinishIndex ==
  ASSUME NEW full \in BOOLEAN, IInv, IInv', IndexInv(full),
         NEW t \in Threads, InvalidateFinish(t)
  PROVE  IndexInv(full)'
<1> USE TreeAssumption DEF InvalidateFinish, precious, abc, inv
<1> DEFINE toMark == IF lastOff = Null THEN target ELSE lastOff
           marked == IF lastOff # Null \/ target \in failed THEN {} ELSE {target}
<1>0. TypeOK /\ TypeOK' /\ Locks
  BY DEF IInv
<1>1. /\ ops # 0 /\ toMark = target /\ target \in index /\ target \in Blocks
      /\ pc[t] = "invalidate" /\ pc' = [pc EXCEPT ![t] = "activate"]
  BY <1>0 DEF IInv, Locals, IndexInv, Headers, NotInvalidating, Holder, ActiveChain, TypeOK, Goto
<1>2. /\ UNCHANGED <<index, data, chainTx, seq, unlinked, queue, target, ops, tip>>
      /\ candidates' = (candidates \ marked) \cup
            {c \in (index \cap data \cap chainTx) \ (failed \cup marked) : ~Worse(c, tip)}
  OBVIOUS
<1>3. failed' = failed \cup marked \cup ((Descendants(target) \ {target}) \cap index)
  <2>1. InvalidChainFound(toMark, failedValid \cup marked, failedChild, bestHeader, index,
                          MoreInvalid(toMark, bestInvalid))
    OBVIOUS
  <2>2. failed' = (failedValid \cup marked) \cup failedChild \cup ((Descendants(toMark) \ {toMark}) \cap index)
    BY <2>1, FlagsOfInvalidChain
  <2> QED BY <1>1, <2>2 DEF failed
<1>4. marked \subseteq {target}
  OBVIOUS
<1> HIDE DEF InvalidateFinish, toMark, marked
<1>5. Closed'
  BY <1>2 DEF IndexInv, Closed
<1>6. Failures'
  <2> SUFFICES ASSUME NEW x \in failed', NEW y \in Descendants(x) \cap index PROVE y \in failed'
    BY <1>2 DEF Failures
  <2>1. CASE target \in Ancestors[x]
    <3>1. y \in Descendants(target) /\ (y = target => x = target)
      <4>1. x \in Blocks /\ y \in Blocks /\ x \in Ancestors[y]
        BY <1>0, <2>1 DEF TypeOK, Descendants, failed
      <4>2. y = target => x = target
        BY <1>1, <2>1, <4>1, AncestorWork, OrderAssumption
      <4> QED BY <1>1, <2>1, <4>1, <4>2 DEF Descendants
    <3> QED BY <1>3, <3>1
  <2>2. CASE target \notin Ancestors[x]
    <3>1. x \in failed /\ ~InHand(x)
      BY <1>0, <1>1, <1>3, <1>4, <2>2 DEF InHand, Descendants
    <3> QED BY <1>3, <3>1 DEF IndexInv, Failures
  <2> QED BY <2>1, <2>2
<1>7. Waiting'
  BY <1>0, <1>1, <1>2 DEF IndexInv, Waiting, TypeOK
<1>8. Headers'
  BY <1>1, <1>2 DEF Headers
<1>9. \A u \in Threads : pc'[u] \notin ChainstateSections
  BY <1>0, <1>1 DEF Locks, ChainstateSections, TypeOK
<1>10. Holder'
  BY <1>2, <1>9 DEF IndexInv, Holder, ChainstateSections
<1>11. Exact(full)'
  <2>1. \A c \in candidates' : ~Worse(c, tip)
    BY <1>2 DEF IndexInv, Exact
  <2>2. ASSUME NEW c \in chainTx, Valid(c)', ~Loses(full, c, tip) PROVE c \in candidates'
    <3>2. ~Worse(c, tip)
      BY <1>0, <2>2, LosesWorse DEF Worse, Loses, TypeOK
    <3>1. c \notin failed \cup marked /\ c \in index \cap data
      BY <1>0, <1>3, <2>2, TreeAssumption DEF Valid, TypeOK
    <3> QED BY <1>2, <2>2, <3>1, <3>2
  <2> QED BY <1>2, <1>9, <2>1, <2>2 DEF Exact, Worse, Loses, ChainstateSections
<1>12. Pending(full)'
  BY <1>0, <1>1 DEF Pending, TypeOK
<1> QED BY <1>5, <1>6, <1>7, <1>8, <1>10, <1>11, <1>12 DEF IndexInv

LEMMA PreciousBlockIndex ==
  ASSUME NEW full \in BOOLEAN, IInv, IInv', IndexInv(full),
         NEW t \in Threads, NEW b \in Blocks, PreciousBlock(t, b),
         full => TipKeepsRank
  PROVE  IndexInv(full)'
<1> USE TreeAssumption DEF PreciousBlock, OperatorCalls, flags, best, abc, inv
<1> DEFINE reverse == IF Work[tip] > lastPreciousWork THEN -1 ELSE reverseSeq
<1>0. TypeOK /\ TypeOK' /\ Locks
  BY DEF IInv
<1>1. /\ UNCHANGED <<index, data, chainTx, failedValid, failedChild, unlinked, tip, queue,
                      mostWork, startingTip, target, lastOff>>
      /\ ops' # 0 /\ pc' = [pc EXCEPT ![t] = "activate"] /\ pc[t] = "idle" /\ CsMainFree
  BY <1>0 DEF Goto, TypeOK
<1>2. /\ seq' = [seq EXCEPT ![b] = reverse]
      /\ candidates' = IF b \in chainTx \ failed
                       THEN {c \in candidates \cup {b} : ~WorseBy(seq', c, tip)}
                       ELSE candidates \ {b}
  OBVIOUS
<1>3. reverse \in Int
  BY <1>0 DEF TypeOK
<1> HIDE DEF PreciousBlock, OperatorCalls, reverse
<1>4. Closed' /\ Failures' /\ Headers'
  BY <1>0, <1>1 DEF IndexInv, Closed, Failures, InHand, Headers, failed, TypeOK
<1>5. Waiting'
  BY <1>0, <1>1 DEF IndexInv, Waiting, TypeOK
<1>6. \A u \in Threads : pc'[u] \notin CsMainSections /\ pc[u] \notin CsMainSections
  BY <1>0, <1>1 DEF CsMainFree, CsMainSections, TypeOK
<1>7. Holder'
  BY <1>0, <1>1, <1>6 DEF IndexInv, Holder, ActiveChain, CsMainSections, TypeOK
<1>8. \A c, d \in Blocks \ {b} : WorseBy(seq', c, d) <=> WorseBy(seq, c, d)
  BY <1>0, <1>2 DEF WorseBy, TypeOK
<1>9. Exact(full)'
  <2>1. /\ tip \notin failed /\ tip \in chainTx /\ chainTx \subseteq Blocks
        /\ candidates \subseteq chainTx /\ seq' \in [Blocks -> Int] /\ tip \in Blocks
    BY <1>0 DEF IInv, Valid, TypeOK
  <2>2. \A c \in Blocks \ {b} : b # tip /\ ~LosesBy(full, seq', c, tip) => ~LosesBy(full, seq, c, tip)
    BY <1>8, <2>1 DEF LosesBy
  <2>3. ASSUME b = tip, NEW c \in Blocks \ {b}, ~LosesBy(full, seq', c, tip)
        PROVE  ~LosesBy(full, seq, c, tip)
    <3>1. CASE full
      <4>1. seq'[tip] <= seq[tip] /\ seq'[tip] \in Int /\ seq[tip] \in Int /\ seq'[c] = seq[c]
            /\ seq[c] \in Int /\ ~WorseBy(seq', c, tip)
        BY <1>0, <1>1, <1>2, <2>1, <2>3, <3>1 DEF TipKeepsRank, TypeOK, LosesBy
      <4>2. ~WorseBy(seq, c, tip)
        BY <2>1, <4>1, OrderAssumption DEF WorseBy
      <4> QED BY <3>1, <4>2 DEF LosesBy
    <3>2. CASE ~full
      BY <2>3, <3>2 DEF LosesBy
    <3> QED BY <3>1, <3>2
  <2>4. ASSUME NotInvalidating, NEW c \in chainTx, c # b, Valid(c), ~LosesBy(full, seq', c, tip)
        PROVE  c \in candidates
    BY <1>6, <2>1, <2>2, <2>3, <2>4 DEF IndexInv, Exact, Loses, CsMainSections
  <2>5. CASE b \in chainTx \ failed
    <3>1. candidates' = {c \in candidates \cup {b} : ~WorseBy(seq', c, tip)}
      BY <1>2, <2>5
    <3>2. ASSUME NotInvalidating, NEW c \in chainTx, Valid(c), ~LosesBy(full, seq', c, tip)
          PROVE  c \in candidates'
      BY <2>1, <2>4, <3>1, <3>2, LosesWorse
    <3> QED BY <1>0, <1>1, <1>6, <3>1, <3>2
            DEF Exact, Worse, Loses, Valid, failed, NotInvalidating, CsMainSections, TypeOK
  <2>6. CASE b \notin chainTx \ failed
    <3>1. candidates' = candidates \ {b} /\ b # tip
      BY <1>2, <2>1, <2>6
    <3>2. \A c \in candidates' : ~WorseBy(seq', c, tip)
      BY <1>8, <2>1, <3>1 DEF IndexInv, Exact, Worse
    <3>3. ASSUME NotInvalidating, NEW c \in chainTx, Valid(c), ~LosesBy(full, seq', c, tip)
          PROVE  c \in candidates'
      <4>1. c # b
        BY <2>1, <2>6, <3>3 DEF Valid
      <4> QED BY <2>4, <3>1, <3>3, <4>1
    <3> QED BY <1>0, <1>1, <1>6, <3>2, <3>3
            DEF Exact, Worse, Loses, Valid, failed, NotInvalidating, CsMainSections, TypeOK
  <2> QED BY <2>5, <2>6
<1>10. Pending(full)'
  BY <1>0, <1>1 DEF Pending, TypeOK
<1> QED BY <1>4, <1>5, <1>7, <1>9, <1>10 DEF IndexInv

LEMMA ReconsiderBlockIndex ==
  ASSUME NEW full \in BOOLEAN, IInv, IInv', IndexInv(full),
         NEW t \in Threads, NEW b \in Blocks, ReconsiderBlock(t, b)
  PROVE  IndexInv(full)'
<1> USE TreeAssumption DEF ReconsiderBlock, OperatorCalls, precious, abc, inv
<1> DEFINE line == Ancestors[b] \cup Descendants(b)
<1>0. TypeOK /\ TypeOK' /\ Locks
  BY DEF IInv
<1>1. /\ UNCHANGED <<index, data, chainTx, seq, unlinked, tip, queue,
                      mostWork, startingTip, target, lastOff>>
      /\ ops' # 0 /\ pc' = [pc EXCEPT ![t] = "activate"] /\ pc[t] = "idle" /\ CsMainFree
  BY <1>0 DEF Goto, TypeOK
<1>2. /\ failed' = failed \ line
      /\ candidates' = candidates \cup {c \in failed \cap line : c \in chainTx /\ Worse(tip, c)}
  BY DEF failed
<1> HIDE DEF ReconsiderBlock, OperatorCalls
<1>3. Closed' /\ Headers'
  BY <1>1 DEF IndexInv, Closed, Headers
<1>4. Failures'
  <2> SUFFICES ASSUME NEW x \in failed', ~InHand(x), NEW y \in Descendants(x) \cap index
               PROVE  y \in failed'
    BY <1>0, <1>1 DEF Failures, InHand, TypeOK
  <2>1. y \in failed /\ x \in failed /\ x \notin line
    BY <1>2 DEF IndexInv, Failures
  <2>2. x \in Blocks /\ y \in Blocks /\ x \in Ancestors[y]
    BY <1>0, <2>1 DEF Descendants, TypeOK
  <2>3. y \notin Ancestors[b]
    BY <2>1, <2>2
  <2>4. y \notin Descendants(b)
    BY <2>1, <2>2, Comparable DEF Descendants
  <2> QED BY <1>2, <2>1, <2>3, <2>4
<1>5. Waiting'
  BY <1>0, <1>1 DEF IndexInv, Waiting, TypeOK
<1>6. \A u \in Threads : pc'[u] \notin CsMainSections /\ pc[u] \notin CsMainSections
  BY <1>0, <1>1 DEF CsMainFree, CsMainSections, TypeOK
<1>7. Holder'
  BY <1>0, <1>1, <1>6 DEF IndexInv, Holder, ActiveChain, CsMainSections, TypeOK
<1>8. Exact(full)'
  <2>1. tip \notin failed /\ tip \in Blocks /\ seq \in [Blocks -> Int] /\ chainTx \subseteq Blocks
    BY <1>0 DEF IInv, Valid, TypeOK
  <2>2. \A c \in candidates' : ~Worse(c, tip)
    BY <1>2, <2>1, WorseOrder DEF IndexInv, Exact, Worse, Loses
  <2>3. ASSUME NotInvalidating, NEW c \in chainTx, Valid(c)', ~Loses(full, c, tip)
        PROVE  c \in candidates'
    <3>1. CASE Valid(c)
      BY <1>2, <1>6, <2>3, <3>1 DEF IndexInv, Exact, CsMainSections
    <3>2. CASE ~Valid(c)
      <4>1. c \in failed
        <5>1. PICK x \in failed : x \in Ancestors[c]
          BY <3>2 DEF Valid
        <5>2. ~InHand(x)
          BY <2>3 DEF InHand, NotInvalidating
        <5>3. c \in Descendants(x) \cap index
          BY <1>0, <5>1 DEF Descendants, TypeOK
        <5> QED BY <5>1, <5>2, <5>3 DEF IndexInv, Failures
      <4>2. c \in line /\ c # tip
        BY <1>0, <1>2, <2>1, <2>3, <4>1 DEF Valid, TypeOK
      <4>3. Worse(tip, c)
        BY <2>1, <2>3, <4>2, WorseOrder, LosesWorse DEF Worse, Loses
      <4> QED BY <1>2, <4>1, <4>2, <4>3
    <3> QED BY <3>1, <3>2
  <2>4. NotInvalidating' => NotInvalidating
    BY <1>0, <1>1 DEF NotInvalidating, TypeOK
  <2> QED BY <1>1, <1>6, <2>2, <2>3, <2>4 DEF Exact, Worse, Loses, CsMainSections
<1>9. Pending(full)'
  BY <1>0, <1>1 DEF Pending, TypeOK
<1> QED BY <1>3, <1>4, <1>5, <1>7, <1>8, <1>9 DEF IndexInv

-----------------------------------------------------------------------------
(* While an InvalidateBlock is half done, what its map holds is up to      *)
(* date: a block of the map above a failed one is marked, and one that may *)
(* become the tip is a candidate.                                          *)
MapInv(full) ==
  \/ NotInvalidating
  \/ /\ \A b \in failed : Descendants(b) \cap highpow \subseteq failed
     /\ \A b \in chainTx \cap (highpow \cup {tip}) :
          Valid(b) /\ ~Loses(full, b, tip) => b \in candidates

(* Before the first operator call, a failed block has a failed cause.      *)
Caused == ops = 0 => \A b \in failed : Ancestors[b] \cap failedValid # {}

LEMMA MapStays ==
  ASSUME NEW full \in BOOLEAN, MapInv(full), NotInvalidating => NotInvalidating',
         UNCHANGED <<failedValid, failedChild, chainTx, seq, candidates, tip, highpow>>
  PROVE  MapInv(full)'
BY DEF MapInv, Valid, failed, Loses, Descendants

LEMMA LinkBlockMap ==
  ASSUME NEW full \in BOOLEAN, IInv, MapInv(full),
         NEW t \in Threads, NEW b \in Blocks, LinkBlock(t, b)
  PROVE  MapInv(full)'
<1> USE TreeAssumption DEF LinkBlock, TryAddBlockIndexCandidate
<1>0. TypeOK
  BY DEF IInv
<1>1. /\ UNCHANGED <<failedValid, failedChild, tip, highpow>> /\ chainTx' = chainTx \cup {b}
      /\ candidates' = IF WorseBy(seq', b, tip) THEN candidates ELSE candidates \cup {b}
      /\ seq' = [seq EXCEPT ![b] = nextSeq]
      /\ b \notin chainTx /\ tip \in chainTx
  BY DEF flags, inv, IInv, TypeOK, Linked
<1>2. \A c, d \in chainTx : WorseBy(seq', c, d) <=> WorseBy(seq, c, d)
  BY <1>0, <1>1 DEF WorseBy, TypeOK
<1>3. NotInvalidating => NotInvalidating'
  BY <1>0 DEF NotInvalidating, Goto, TypeOK
<1>4. seq' \in [Blocks -> Int] /\ tip \in Blocks
  BY <1>0, <1>1 DEF TypeOK
<1> HIDE DEF LinkBlock
<1> SUFFICES ASSUME ~NotInvalidating, NEW c \in chainTx', c \in highpow \cup {tip}, Valid(c),
                    ~LosesBy(full, seq', c, tip)
             PROVE  c \in candidates'
  BY <1>1, <1>3 DEF MapInv, Valid, failed, Loses, Descendants
<1>5. CASE c = b
  BY <1>1, <1>4, <1>5, LosesWorse
<1>6. CASE c # b
  <2>1. c \in chainTx /\ ~LosesBy(full, seq, c, tip)
    BY <1>1, <1>2, <1>6 DEF LosesBy
  <2> QED BY <1>1, <2>1 DEF MapInv, Loses
<1> QED BY <1>5, <1>6

LEMMA AcceptBlockInvalidMap ==
  ASSUME NEW full \in BOOLEAN, IInv, IInv', MapInv(full),
         NEW t \in Threads, NEW b \in Blocks, NEW r \in BOOLEAN,
         AcceptBlockInvalid(t, b, r)
  PROVE  MapInv(full)'
<1> USE TreeAssumption DEF AcceptBlockInvalid, ProcessesBlock, SubmitsBlock, precious, inv
<1>0. TypeOK /\ TypeOK'
  BY DEF IInv
<1>1. /\ UNCHANGED <<chainTx, seq, tip, highpow, pc>> /\ candidates' = candidates \ {b}
      /\ index' = index \cup {b}
  OBVIOUS
<1>2. failed' = failed \cup (Descendants(b) \cap index')
  <2>1. failed' = (failedValid \cup {b}) \cup failedChild \cup ((Descendants(b) \ {b}) \cap index')
    BY FlagsOfInvalidChain
  <2>2. b \in Descendants(b) /\ b \in index'
    BY <1>1 DEF Descendants
  <2> QED BY <2>1, <2>2 DEF failed
<1> HIDE DEF AcceptBlockInvalid
<1>3. highpow \subseteq index' /\ index' \subseteq Blocks
  BY <1>0, <1>1 DEF TypeOK
<1> SUFFICES ASSUME ~NotInvalidating PROVE MapInv(full)'
  BY <1>1 DEF MapInv, NotInvalidating
<1>4. ASSUME NEW x \in failed', NEW y \in Descendants(x) \cap highpow PROVE y \in failed'
  <2>1. CASE x \in failed
    BY <1>2, <2>1 DEF MapInv
  <2>2. CASE x \in Descendants(b)
    BY <1>2, <1>3, <1>4, <2>2 DEF Descendants
  <2> QED BY <1>2, <2>1, <2>2
<1>5. \A c \in chainTx : Valid(c)' => Valid(c) /\ c # b
  BY <1>0, <1>1, <1>2 DEF Valid, Descendants, TypeOK
<1>6. \A c \in chainTx \cap (highpow \cup {tip}) :
        Valid(c)' /\ ~Loses(full, c, tip) => c \in candidates'
  BY <1>1, <1>5 DEF MapInv
<1> QED BY <1>1, <1>4, <1>6 DEF MapInv, Loses, Descendants

LEMMA InvalidateBlockMap ==
  ASSUME NEW full \in BOOLEAN, IInv, IndexInv(full),
         NEW t \in Threads, NEW b \in Blocks, InvalidateBlock(t, b)
  PROVE  MapInv(full)'
<1> USE TreeAssumption DEF InvalidateBlock, OperatorCalls
<1>0. TypeOK
  BY DEF IInv
<1>1. /\ UNCHANGED <<failedValid, failedChild, chainTx, seq, candidates, tip>>
      /\ highpow' \subseteq index
      /\ \A u \in Threads : pc[u] \notin {"find", "step", "invalidate"}
  BY DEF flags, ChainstateMutexFree, ChainstateSections
<1> HIDE DEF InvalidateBlock, OperatorCalls
<1>2. \A x \in failed : Descendants(x) \cap highpow' \subseteq failed
  BY <1>1 DEF IndexInv, Failures, InHand
<1>3. \A c \in chainTx : Valid(c) /\ ~Loses(full, c, tip) => c \in candidates
  BY <1>1 DEF IndexInv, Exact, NotInvalidating
<1> QED BY <1>1, <1>2, <1>3 DEF MapInv, Valid, failed, Loses, Descendants

(* The disconnected block leaves the chain and what the map holds above it *)
(* leaves the map; what it holds elsewhere is compared with the new tip.   *)
LEMMA InvalidateDisconnectMap ==
  ASSUME NEW full \in BOOLEAN, IInv, IInv', IndexInv(full), MapInv(full),
         NEW t \in Threads, InvalidateDisconnect(t)
  PROVE  MapInv(full)'
<1> USE TreeAssumption DEF InvalidateDisconnect, precious, abc
<1> DEFINE seen == {c \in highpow : Work[c] >= Work[Parent[tip]]}
           below == seen \cap Descendants(tip)
           demoted == {c \in failedValid : c = lastOff /\ Parent[c] = tip}
           failedNow == ((failedValid \cup {tip}) \ (demoted \cup below))
                          \cup (failedChild \cup demoted \cup below)
<1>0. TypeOK /\ TypeOK' /\ Locals /\ pc[t] = "invalidate"
  BY DEF IInv
<1>1. /\ tip \in Blocks \ {Genesis} /\ Parent[tip] \in Blocks /\ target # Genesis
      /\ tip' = Parent[tip] /\ UNCHANGED <<chainTx, seq, pc>> /\ highpow' = highpow \ below
  BY <1>0 DEF Locals, ActiveChain, TypeOK
<1>2. /\ failedValid' = (failedValid \cup {tip}) \ (demoted \cup below)
      /\ failedChild' = failedChild \cup demoted \cup below
      /\ candidates' = (candidates \ {tip}) \cup {Parent[tip]} \cup
           {c \in seen \ below : ~Worse(c, Parent[tip]) /\ c \notin failedNow /\ c \in chainTx}
  OBVIOUS
<1>3. demoted \subseteq failedValid /\ below \subseteq highpow
  OBVIOUS
<1>4. failedNow = failed' /\ failed' = failed \cup {tip} \cup below
  <2> HIDE DEF InvalidateDisconnect, demoted, below
  <2> QED BY <1>2, <1>3 DEF failed
<1>5. highpow \subseteq Blocks /\ seq \in [Blocks -> Int] /\ chainTx \subseteq Blocks
  BY <1>0 DEF TypeOK
<1> HIDE DEF InvalidateDisconnect, demoted, failedNow
<1>6. highpow \cap Descendants(tip) \subseteq below
  <2> SUFFICES ASSUME NEW c \in highpow, tip \in Ancestors[c] PROVE Work[c] >= Work[Parent[tip]]
    BY DEF Descendants
  <2>1. c = tip \/ Work[tip] < Work[c]
    BY <1>1, <1>5, AncestorWork
  <2>2. Work[Parent[tip]] < Work[tip]
    BY <1>1, OrderAssumption
  <2> QED BY <1>1, <1>5, <2>1, <2>2, OrderAssumption
<1>7. below \subseteq Descendants(tip)
  OBVIOUS
<1>8. \A c \in highpow' : ~Worse(c, Parent[tip]) => c \in seen \ below
  <2> SUFFICES ASSUME NEW c \in highpow, c \notin below, ~Worse(c, Parent[tip])
               PROVE  Work[c] >= Work[Parent[tip]]
    BY <1>1
  <2> QED BY <1>1, <1>5, OrderAssumption DEF Worse, WorseBy
<1>9. MapInv(full) => \A x \in failed : Descendants(x) \cap highpow \subseteq failed
  BY <1>0 DEF MapInv, NotInvalidating
<1> HIDE DEF below, seen
<1>10. ASSUME NEW x \in failed', NEW y \in Descendants(x) \cap highpow' PROVE y \in failed'
  <2>1. CASE x \in failed
    BY <1>1, <1>4, <1>9, <2>1
  <2>2. CASE x \in Descendants(tip)
    <3>1. y \in Descendants(tip)
      BY <1>10, <2>2 DEF Descendants
    <3> QED BY <1>1, <1>6, <3>1
  <2>3. tip \in Descendants(tip)
    BY <1>1 DEF Descendants
  <2> QED BY <1>4, <1>7, <2>1, <2>2, <2>3
<1>11. ASSUME NEW c \in chainTx, c \in highpow' \cup {Parent[tip]}, Valid(c)',
              ~Loses(full, c, Parent[tip])
       PROVE  c \in candidates'
  <2>1. ~Worse(c, Parent[tip])
    BY <1>1, <1>5, <1>11, LosesWorse DEF Worse, Loses
  <2>2. c \notin failed'
    BY <1>5, <1>11 DEF Valid
  <2> QED BY <1>2, <1>4, <1>8, <1>11, <2>1, <2>2
<1> QED BY <1>1, <1>10, <1>11 DEF MapInv, Loses, Descendants

LEMMA PreciousBlockMap ==
  ASSUME NEW full \in BOOLEAN, IInv, MapInv(full),
         NEW t \in Threads, NEW b \in Blocks, PreciousBlock(t, b),
         full => TipKeepsRank
  PROVE  MapInv(full)'
<1> USE TreeAssumption DEF PreciousBlock, OperatorCalls
<1> DEFINE reverse == IF Work[tip] > lastPreciousWork THEN -1 ELSE reverseSeq
<1>0. TypeOK
  BY DEF IInv
<1>1. /\ UNCHANGED <<chainTx, failedValid, failedChild, tip, highpow>>
      /\ pc' = [pc EXCEPT ![t] = "activate"]
  BY DEF Goto, flags, inv
<1>2. /\ seq' = [seq EXCEPT ![b] = reverse]
      /\ candidates' = IF b \in chainTx \ failed
                       THEN {c \in candidates \cup {b} : ~WorseBy(seq', c, tip)}
                       ELSE candidates \ {b}
  OBVIOUS
<1>3. reverse \in Int
  BY <1>0 DEF TypeOK
<1> HIDE DEF PreciousBlock, OperatorCalls, reverse
<1>4. /\ seq' \in [Blocks -> Int] /\ seq \in [Blocks -> Int] /\ tip \in Blocks
      /\ chainTx \subseteq Blocks
  BY <1>0, <1>2, <1>3 DEF TypeOK
<1>5. NotInvalidating => NotInvalidating'
  BY <1>0, <1>1 DEF NotInvalidating, TypeOK
<1> SUFFICES ASSUME ~NotInvalidating, NEW c \in chainTx, c \in highpow \cup {tip}, Valid(c),
                    ~LosesBy(full, seq', c, tip)
             PROVE  c \in candidates'
  BY <1>1, <1>5 DEF MapInv, Valid, failed, Loses, Descendants
<1>6. c \notin failed /\ ~WorseBy(seq', c, tip) /\ c \in Blocks
  BY <1>4, LosesWorse DEF Valid
<1>7. CASE c = b
  BY <1>2, <1>6, <1>7
<1>8. CASE c # b
  <2>1. seq'[c] = seq[c] /\ (tip # b => seq'[tip] = seq[tip])
    BY <1>2, <1>4, <1>6, <1>8
  <2>2. CASE full
    <3>1. seq'[tip] <= seq[tip] /\ seq'[tip] \in Int /\ seq[tip] \in Int /\ seq[c] \in Int
      BY <1>1, <1>4, <1>6, <2>2 DEF TipKeepsRank
    <3>2. ~WorseBy(seq, c, tip)
      BY <1>4, <1>6, <2>1, <3>1, OrderAssumption DEF WorseBy
    <3>3. ~Loses(full, c, tip)
      BY <2>2, <3>2 DEF Loses, LosesBy
    <3> QED BY <1>2, <1>6, <1>8, <3>3 DEF MapInv
  <2>3. CASE ~full
    <3>1. ~Loses(full, c, tip)
      BY <2>3 DEF Loses, LosesBy
    <3> QED BY <1>2, <1>6, <1>8, <3>1 DEF MapInv
  <2> QED BY <2>2, <2>3
<1> QED BY <1>7, <1>8

LEMMA ReconsiderBlockMap ==
  ASSUME NEW full \in BOOLEAN, IInv, MapInv(full),
         NEW t \in Threads, NEW b \in Blocks, ReconsiderBlock(t, b)
  PROVE  MapInv(full)'
<1> USE TreeAssumption DEF ReconsiderBlock, OperatorCalls
<1> DEFINE line == Ancestors[b] \cup Descendants(b)
<1>0. TypeOK
  BY DEF IInv
<1>1. UNCHANGED <<chainTx, seq, tip, highpow>> /\ pc' = [pc EXCEPT ![t] = "activate"]
  BY DEF Goto, inv
<1>2. /\ failed' = failed \ line
      /\ candidates' = candidates \cup {c \in failed \cap line : c \in chainTx /\ Worse(tip, c)}
  BY DEF failed
<1> HIDE DEF ReconsiderBlock, OperatorCalls
<1>3. /\ seq \in [Blocks -> Int] /\ tip \in Blocks /\ highpow \subseteq Blocks
      /\ chainTx \subseteq Blocks /\ failed \subseteq Blocks /\ tip \notin failed
  BY <1>0 DEF IInv, Valid, TypeOK, failed
<1>4. NotInvalidating => NotInvalidating'
  BY <1>0, <1>1 DEF NotInvalidating, TypeOK
<1> SUFFICES ASSUME ~NotInvalidating PROVE MapInv(full)'
  BY <1>4 DEF MapInv
<1>5. ASSUME NEW x \in failed', NEW y \in Descendants(x) \cap highpow PROVE y \in failed'
  <2>1. y \in failed /\ x \in failed /\ x \notin line
    BY <1>2 DEF MapInv
  <2>2. x \in Blocks /\ y \in Blocks /\ x \in Ancestors[y]
    BY <1>3, <2>1 DEF Descendants
  <2>3. y \notin Ancestors[b]
    BY <2>1, <2>2
  <2>4. y \notin Descendants(b)
    BY <2>1, <2>2, Comparable DEF Descendants
  <2> QED BY <1>2, <2>1, <2>3, <2>4
<1>6. ASSUME NEW c \in chainTx, c \in highpow \cup {tip}, Valid(c)', ~Loses(full, c, tip)
      PROVE  c \in candidates'
  <2>1. CASE Valid(c)
    BY <1>2, <1>6, <2>1 DEF MapInv
  <2>2. CASE ~Valid(c)
    <3>1. c # tip
      BY <2>2 DEF IInv
    <3>2. PICK x \in failed : x \in Ancestors[c]
      BY <2>2 DEF Valid
    <3>3. c \in Descendants(x) \cap highpow
      BY <1>3, <1>6, <3>1, <3>2 DEF Descendants
    <3>4. c \in failed
      BY <3>2, <3>3 DEF MapInv
    <3>5. c \in line
      BY <1>2, <1>3, <1>6, <3>4 DEF Valid
    <3>6. Worse(tip, c)
      BY <1>3, <1>6, <3>1, WorseOrder, LosesWorse DEF Worse, Loses
    <3> QED BY <1>2, <3>4, <3>5, <3>6
  <2> QED BY <2>1, <2>2
<1> QED BY <1>1, <1>5, <1>6 DEF MapInv, Loses, Descendants

-----------------------------------------------------------------------------
LEMMA NextIndexInv ==
  ASSUME NEW full \in BOOLEAN, IInv, IInv', IndexInv(full), [Next]_vars,
         full => [TipKeepsRank]_vars
  PROVE  IndexInv(full)'
<1>1. ASSUME NEW b \in Blocks, AcceptBlockHeader(b) PROVE IndexInv(full)'
  BY <1>1, AcceptBlockHeaderIndex
<1>2. ASSUME NEW t \in Threads, Arrive(t) PROVE IndexInv(full)'
  BY <1>2, AcceptBlockIgnoredIndex, AcceptBlockInvalidIndex, AcceptBlockIndex DEF Arrive
<1>3. ASSUME NEW t \in Threads, Proceed(t) PROVE IndexInv(full)'
  BY <1>3, LinkBlockIndex, FindMostWorkChainIndex, DropInvalidCandidateIndex, ConnectTipIndex,
     ConnectTipInvalidIndex, ActivateBestChainIndex, ActivateBestChainDoneIndex,
     ActivateBestChainStepIndex, ActivateBestChainNextIndex, DisconnectTipIndex,
     InvalidateDisconnectIndex, InvalidateFinishIndex DEF Proceed
<1>4. ASSUME NEW t \in Threads, Operate(t), full => TipKeepsRank PROVE IndexInv(full)'
  BY <1>4, InvalidateBlockIndex, PreciousBlockIndex, ReconsiderBlockIndex DEF Operate
<1>5. CASE UNCHANGED vars
  BY <1>5 DEF vars, flags, best, precious, abc, inv, IndexInv, Closed, Failures, InHand, Waiting,
     Headers, Holder, Exact, Pending, Best, Valid, failed, ActiveChain, Worse, Loses, Outdone, NotInvalidating
<1> QED BY <1>1, <1>2, <1>3, <1>4, <1>5 DEF Next

(* The holder of m_chainstate_mutex: no InvalidateBlock is half done after *)
(* its step, unless it is one.                                             *)
LEMMA HolderMap ==
  ASSUME NEW full \in BOOLEAN, IInv, NEW t \in Threads,
         \/ \E b \in Blocks : \/ FindMostWorkChain(t, b)
                              \/ \E c \in Blocks : DropInvalidCandidate(t, b, c)
                              \/ ConnectTip(t, b)
                              \/ ConnectTipInvalid(t, b)
         \/ ActivateBestChain(t) \/ ActivateBestChainDone(t) \/ ActivateBestChainStep(t)
         \/ ActivateBestChainNext(t) \/ DisconnectTip(t) \/ InvalidateFinish(t)
  PROVE  MapInv(full)'
<1>0. TypeOK /\ Locks
  BY DEF IInv
<1>1. \A u \in Threads \ {t} : pc[u] # "invalidate"
  BY <1>0 DEF FindMostWorkChain, DropInvalidCandidate, ConnectTip, ConnectTipInvalid,
     ActivateBestChain, ActivateBestChainDone, ActivateBestChainStep, ActivateBestChainNext,
     DisconnectTip, InvalidateFinish, Locks, ChainstateSections, ChainstateMutexFree
<1>2. pc'[t] # "invalidate" /\ \A u \in Threads \ {t} : pc'[u] = pc[u]
  <2>1. ASSUME NEW b \in Blocks, ConnectTip(t, b)
        PROVE  \E l \in {"find", "idle", "abcNext", "step"} : pc' = [pc EXCEPT ![t] = l]
    BY <2>1, AfterStepPlaces DEF ConnectTip, Goto
  <2>2. ASSUME NEW b \in Blocks, ConnectTipInvalid(t, b)
        PROVE  \E l \in {"find", "idle", "abcNext"} : pc' = [pc EXCEPT ![t] = l]
    BY <2>2, AfterStepPlaces DEF ConnectTipInvalid, Goto
  <2> QED BY <1>0, <2>1, <2>2 DEF FindMostWorkChain, DropInvalidCandidate, ActivateBestChain,
     ActivateBestChainDone, ActivateBestChainStep, ActivateBestChainNext, DisconnectTip,
     InvalidateFinish, Goto, TypeOK
<1> QED BY <1>1, <1>2 DEF MapInv, NotInvalidating

LEMMA ArriveMap ==
  ASSUME NEW full \in BOOLEAN, IInv, IInv', MapInv(full),
         \/ \E b \in Blocks : AcceptBlockHeader(b)
         \/ \E t \in Threads : Arrive(t)
  PROVE  MapInv(full)'
<1>0. TypeOK
  BY DEF IInv
<1>1. ASSUME NEW b \in Blocks, AcceptBlockHeader(b) PROVE MapInv(full)'
  BY <1>1, MapStays DEF AcceptBlockHeader, NotInvalidating, flags, inv
<1>2. ASSUME NEW t \in Threads, NEW b \in Blocks, NEW r \in BOOLEAN, AcceptBlockIgnored(t, b, r)
      PROVE  MapInv(full)'
  <2>1. NotInvalidating => NotInvalidating'
    BY <1>0, <1>2 DEF AcceptBlockIgnored, NotInvalidating, Goto, TypeOK
  <2> QED BY <1>2, <2>1, MapStays DEF AcceptBlockIgnored, flags, inv
<1>3. ASSUME NEW t \in Threads, NEW b \in Blocks, NEW r \in BOOLEAN, AcceptBlock(t, b, r)
      PROVE  MapInv(full)'
  <2>1. NotInvalidating => NotInvalidating'
    BY <1>0, <1>3 DEF AcceptBlock, NotInvalidating, Goto, TypeOK
  <2> QED BY <1>3, <2>1, MapStays DEF AcceptBlock, flags, inv
<1> QED BY <1>1, <1>2, <1>3, AcceptBlockInvalidMap DEF Arrive

LEMMA NextMapInv ==
  ASSUME NEW full \in BOOLEAN, IInv, IInv', IndexInv(full), MapInv(full), [Next]_vars,
         full => [TipKeepsRank]_vars
  PROVE  MapInv(full)'
<1>1. ASSUME NEW t \in Threads, Proceed(t) PROVE MapInv(full)'
  BY <1>1, LinkBlockMap, HolderMap, InvalidateDisconnectMap DEF Proceed
<1>2. ASSUME NEW t \in Threads, Operate(t), full => TipKeepsRank PROVE MapInv(full)'
  BY <1>2, InvalidateBlockMap, PreciousBlockMap, ReconsiderBlockMap DEF Operate
<1>3. CASE UNCHANGED vars
  BY <1>3, MapStays DEF vars, flags, inv, NotInvalidating
<1> QED BY <1>1, <1>2, <1>3, ArriveMap DEF Next

(* A block is marked because of itself or because of a failed ancestor.    *)
LEMMA NextCaused ==
  ASSUME IInv, IInv', IndexInv(FALSE), Caused, [Next]_vars
  PROVE  Caused'
<1> SUFFICES ASSUME ops' = 0 PROVE \A x \in failed' : Ancestors[x] \cap failedValid' # {}
  BY DEF Caused
<1>0. TypeOK /\ TypeOK' /\ failed \subseteq Blocks
  BY TreeAssumption DEF IInv, TypeOK, failed
<1>1. ASSUME NEW b \in Blocks, NEW bh, NEW idx \in SUBSET Blocks, NEW i, ops = 0,
             InvalidChainFound(b, failedValid \cup {b}, failedChild, bh, idx, i)
      PROVE  \A x \in failed' : Ancestors[x] \cap failedValid' # {}
  <2> DEFINE below == (Descendants(b) \ {b}) \cap idx
  <2>1. failedValid' = (failedValid \cup {b}) \ below /\ failedChild' = failedChild \cup below
    BY <1>1 DEF InvalidChainFound
  <2>2. b \in failedValid' /\ below \subseteq Descendants(b)
    BY <2>1
  <2> SUFFICES ASSUME NEW x \in failed' PROVE Ancestors[x] \cap failedValid' # {}
    OBVIOUS
  <2>3. CASE b \in Ancestors[x]
    BY <2>2, <2>3
  <2>4. CASE b \notin Ancestors[x]
    <3>1. x \in failed /\ x \in Blocks
      BY <1>0, <2>1, <2>4, TreeAssumption DEF failed, Descendants, TypeOK
    <3>2. PICK y \in Ancestors[x] : y \in failedValid
      BY <1>1, <3>1 DEF Caused
    <3>3. b \notin Ancestors[y]
      BY <2>4, <3>1, <3>2, TreeAssumption
    <3> QED BY <2>1, <3>2, <3>3 DEF Descendants
  <2> QED BY <2>3, <2>4
<1>2. ASSUME failedValid' = failedValid, failedChild' = failedChild, ops = 0
      PROVE  \A x \in failed' : Ancestors[x] \cap failedValid' # {}
  BY <1>2 DEF Caused, failed
<1>3. ASSUME NEW t \in Threads, NEW b \in Blocks, NEW r \in BOOLEAN, AcceptBlockInvalid(t, b, r)
      PROVE  \A x \in failed' : Ancestors[x] \cap failedValid' # {}
  <2>1. ops = 0 /\ index \cup {b} \in SUBSET Blocks
    BY <1>0, <1>3 DEF AcceptBlockInvalid, TypeOK
  <2> QED BY <1>1, <1>3, <2>1 DEF AcceptBlockInvalid
<1>4. ASSUME NEW t \in Threads, NEW b \in Blocks, ConnectTipInvalid(t, b)
      PROVE  \A x \in failed' : Ancestors[x] \cap failedValid' # {}
  <2>1. ops = 0 /\ index \in SUBSET Blocks
    BY <1>0, <1>4 DEF ConnectTipInvalid, TypeOK
  <2> QED BY <1>1, <1>4, <2>1 DEF ConnectTipInvalid
<1>5. ASSUME NEW t \in Threads, NEW b \in Blocks, NEW c \in Blocks, DropInvalidCandidate(t, b, c)
      PROVE  \A x \in failed' : Ancestors[x] \cap failedValid' # {}
  <2>1. /\ ops = 0 /\ failedValid' = failedValid /\ c \in failed
        /\ failed' \subseteq failed \cup ChainFrom(b, c)
    BY <1>5 DEF DropInvalidCandidate, FailedOnPath, failed
  <2>2. PICK y \in Ancestors[c] : y \in failedValid
    BY <2>1 DEF Caused
  <2>3. \A x \in ChainFrom(b, c) : y \in Ancestors[x]
    BY <2>2, TreeAssumption DEF ChainFrom, Descendants
  <2> QED BY <2>1, <2>2, <2>3 DEF Caused
<1>6. ASSUME NEW t \in Threads, InvalidateDisconnect(t) \/ InvalidateFinish(t) PROVE FALSE
  BY <1>6 DEF InvalidateDisconnect, InvalidateFinish, IndexInv, Headers, NotInvalidating
<1>7. ASSUME NEW t \in Threads, Operate(t) PROVE FALSE
  BY <1>0, <1>7 DEF Operate, InvalidateBlock, PreciousBlock, ReconsiderBlock, OperatorCalls, TypeOK
<1>8. CASE UNCHANGED vars
  BY <1>2, <1>8 DEF vars, flags
<1>9. ASSUME NEW b \in Blocks, AcceptBlockHeader(b)
      PROVE  \A x \in failed' : Ancestors[x] \cap failedValid' # {}
  BY <1>2, <1>9 DEF AcceptBlockHeader, flags
<1>10. ASSUME NEW t \in Threads, Arrive(t)
       PROVE  \A x \in failed' : Ancestors[x] \cap failedValid' # {}
  BY <1>2, <1>3, <1>10 DEF Arrive, AcceptBlockIgnored, AcceptBlock, flags
<1>11. ASSUME NEW t \in Threads, Proceed(t)
       PROVE  \A x \in failed' : Ancestors[x] \cap failedValid' # {}
  BY <1>2, <1>4, <1>5, <1>6, <1>11 DEF Proceed, LinkBlock, FindMostWorkChain, ConnectTip,
     ActivateBestChain, ActivateBestChainDone, ActivateBestChainStep, ActivateBestChainNext,
     DisconnectTip, flags
<1> QED BY <1>7, <1>8, <1>9, <1>10, <1>11 DEF Next

(* The part of the invariant that holds whatever the operator does.        *)
LEMMA IndexInductive == Spec => []IndexInv(FALSE)
<1>1. IInv /\ IndexInv(FALSE) /\ [Next]_vars /\ IInv' => IndexInv(FALSE)'
  BY NextIndexInv
<1>2. Init => IndexInv(FALSE)
  BY InitIndexInv
<1> QED BY <1>1, <1>2, Inductive, PTL DEF Spec

LEMMA MapInductive == Spec => [](MapInv(FALSE) /\ Caused)
<1>1. IInv /\ IndexInv(FALSE) /\ MapInv(FALSE) /\ [Next]_vars /\ IInv' => MapInv(FALSE)'
  BY NextMapInv
<1>2. IInv /\ IndexInv(FALSE) /\ Caused /\ [Next]_vars /\ IInv' => Caused'
  BY NextCaused
<1>3. Init => MapInv(FALSE) /\ Caused
  BY DEF Init, MapInv, NotInvalidating, Caused, failed
<1> QED BY <1>1, <1>2, <1>3, Inductive, IndexInductive, PTL DEF Spec

(* All of it, while the tip keeps its rank.                                *)
LEMMA FullIndexInductive == Spec /\ [][TipKeepsRank]_vars => [](IndexInv(TRUE) /\ MapInv(TRUE))
<1>1. IInv /\ IndexInv(TRUE) /\ [Next]_vars /\ [TipKeepsRank]_vars /\ IInv' => IndexInv(TRUE)'
  BY NextIndexInv
<1>2. IInv /\ IndexInv(TRUE) /\ MapInv(TRUE) /\ [Next]_vars /\ [TipKeepsRank]_vars /\ IInv'
        => MapInv(TRUE)'
  BY NextMapInv
<1>3. Init => IndexInv(TRUE)
  BY InitIndexInv
<1>4. Init => MapInv(TRUE)
  BY DEF Init, MapInv, NotInvalidating
<1> QED BY <1>1, <1>2, <1>3, <1>4, Inductive, PTL DEF Spec

(* What the invariants say in the terms of CheckBlockIndex.                *)
LEMMA IndexRules ==
  ASSUME NEW full \in BOOLEAN, IInv, IndexInv(full), MapInv(full), Caused
  PROVE  /\ \A b \in candidates : b \in chainTx /\ ~Worse(b, tip)
         /\ NoneLeftWaiting /\ WaitingUnlinked
         /\ FailureInherited /\ FailureCaused /\ BestHeaderExact
<1>0. TypeOK /\ Linked /\ Valid(tip)
  BY DEF IInv
<1>1. \A b \in candidates : b \in chainTx /\ ~Worse(b, tip)
  BY <1>0 DEF IndexInv, Exact, TypeOK
<1>2. NoneLeftWaiting
  BY <1>0 DEF NoneLeftWaiting, IndexInv, Waiting, Linked, TypeOK
<1>3. WaitingUnlinked
  BY <1>0 DEF WaitingUnlinked, IndexInv, Waiting, CsMainFree, CsMainSections
<1>4. FailureInherited
  <2> SUFFICES ASSUME NEW b \in failed, NEW c \in Descendants(b) \cap index, c \in Covered
               PROVE  c \in failed
    BY DEF FailureInherited
  <2>1. CASE NotInvalidating
    BY <2>1 DEF NotInvalidating, IndexInv, Failures, InHand
  <2>2. CASE ~NotInvalidating /\ c \in highpow
    BY <2>2 DEF MapInv
  <2>3. CASE ~NotInvalidating /\ c \in ActiveChain
    <3>1. b \in Ancestors[tip]
      BY <1>0, <2>3, TreeAssumption DEF ActiveChain, Descendants, TypeOK
    <3> QED BY <1>0, <3>1 DEF Valid
  <2> QED BY <2>1, <2>2, <2>3 DEF Covered
<1>5. BestHeaderExact
  BY DEF BestHeaderExact, IndexInv, Headers
<1>6. FailureCaused
  BY DEF FailureCaused, Caused
<1> QED BY <1>1, <1>2, <1>3, <1>4, <1>5, <1>6

(* A covered block that does not lose against the tip is a candidate.      *)
LEMMA CoveredCandidate ==
  ASSUME NEW full \in BOOLEAN, IInv, IndexInv(full), MapInv(full), CsMainFree,
         NEW b \in chainTx, b \in Covered, Valid(b), ~Loses(full, b, tip)
  PROVE  b \in candidates
<1>1. CASE NotInvalidating
  BY <1>1 DEF CsMainFree, CsMainSections, IndexInv, Exact
<1>2. CASE ~NotInvalidating /\ b \in highpow \cup {tip}
  BY <1>2 DEF MapInv
<1>3. CASE b \in Ancestors[tip] /\ b # tip
  <2>1. b \in Blocks /\ tip \in Blocks /\ seq \in [Blocks -> Int] /\ Work[b] < Work[tip]
    BY <1>3, AncestorWork, TreeAssumption DEF IInv, TypeOK
  <2>2. ~WorseBy(seq, b, tip)
    BY <2>1, LosesWorse DEF Loses
  <2> QED BY <2>1, <2>2 DEF WorseBy
<1> QED BY <1>1, <1>2, <1>3 DEF Covered, ActiveChain

(* For every call of the operator: a candidate is never worse than the     *)
(* tip, every complete chain with more work than the tip's that is not     *)
(* known to be invalid is a candidate, no linked block has a gap below it, *)
(* no block waits for a parent that is linked, the failure of a block is   *)
(* marked on all blocks above it, and the best header is one.  While an    *)
(* InvalidateBlock is half done, the candidates and the marks are those of *)
(* the blocks it covers.                                                   *)
IndexRulesByWork ==
  /\ CsMainFree =>
       /\ \A b \in candidates : b \in chainTx /\ ~Worse(b, tip)
       /\ \A b \in chainTx \cap Covered :
            Valid(b) /\ Work[b] > Work[tip] => b \in candidates
  /\ NoneLeftWaiting /\ WaitingUnlinked
  /\ FailureInherited /\ FailureCaused /\ BestHeaderExact

(* IndexRulesByWork is an invariant, whatever the operator does.           *)
THEOREM IndexSound == Spec => []IndexRulesByWork
<1>1. ASSUME IInv, IndexInv(FALSE), MapInv(FALSE), Caused PROVE IndexRulesByWork
  <2>1. ASSUME CsMainFree, NEW b \in chainTx, b \in Covered, Valid(b), Work[b] > Work[tip]
        PROVE  b \in candidates
    <3>1. b \in Blocks /\ tip \in Blocks
      BY <1>1, TreeAssumption DEF IInv, TypeOK
    <3>2. ~Loses(FALSE, b, tip)
      BY <2>1, <3>1, OrderAssumption DEF Loses, LosesBy
    <3> QED BY <1>1, <2>1, <3>2, CoveredCandidate
  <2> QED BY <1>1, <2>1, IndexRules DEF IndexRulesByWork
<1> QED BY <1>1, Inductive, IndexInductive, MapInductive, PTL

(* When all calls have returned, no complete chain that is not known to be *)
(* invalid has more work than the active one, whatever arrived in whatever *)
(* order and whatever the operator did.                                    *)
MostWorkActive ==
  (\A t \in Threads : pc[t] = "idle") =>
    \A b \in chainTx : Valid(b) => Work[b] <= Work[tip]

(* MostWorkActive is an invariant: no call forgets a chain with more work  *)
(* that arrived while it did not hold cs_main.                             *)
THEOREM TipHasMostWork == Spec => []MostWorkActive
<1>1. IInv /\ IndexInv(FALSE) => MostWorkActive
  <2> SUFFICES ASSUME IInv, IndexInv(FALSE), \A t \in Threads : pc[t] = "idle",
                      NEW b \in chainTx, Valid(b)
               PROVE  Work[b] <= Work[tip]
    BY DEF MostWorkActive
  <2>1. Best(FALSE, tip)
    BY DEF IndexInv, Pending, AbcSections
  <2>2. b \in Blocks /\ tip \in Blocks
    BY TreeAssumption DEF IInv, TypeOK
  <2> QED BY <2>1, <2>2, OrderAssumption DEF Best, Outdone, OutdoneBy
<1> QED BY <1>1, Inductive, IndexInductive, PTL

(* While no preciousblock call makes the tip rank lower than it did,       *)
(* CheckBlockIndex holds with candidates compared as the code compares     *)
(* them, whatever arrives in whatever order and however the calls          *)
(* interleave.  Of a half done InvalidateBlock it says what its map and    *)
(* the active chain keep; for the blocks that the map missed, the          *)
(* assertions can fail there (ConsistentWhileDisconnecting).               *)
THEOREM CheckBlockIndexCorrect == Spec /\ [][TipKeepsRank]_vars => []CheckBlockIndex
<1>1. ASSUME IInv, IndexInv(TRUE), MapInv(TRUE), Caused PROVE CheckBlockIndex
  <2>1. ASSUME CsMainFree, NEW b \in chainTx, b \in Covered, Valid(b), ~Worse(b, tip)
        PROVE  b \in candidates
    <3>1. ~Loses(TRUE, b, tip)
      BY <2>1 DEF Loses, LosesBy, Worse
    <3> QED BY <1>1, <2>1, <3>1, CoveredCandidate
  <2>2. CandidatesExact
    BY <1>1, <2>1, IndexRules DEF CandidatesExact
  <2> QED BY <1>1, <2>2, IndexRules DEF CheckBlockIndex
<1> QED BY <1>1, Inductive, MapInductive, FullIndexInductive, PTL

(* When all calls have returned the tip is the best block whose chain is   *)
(* complete and valid, under the same condition: nothing that arrived      *)
(* while cs_main was released is forgotten.                                *)
THEOREM TipCorrect == Spec /\ [][TipKeepsRank]_vars => []TipIsBest
<1>1. IndexInv(TRUE) => TipIsBest
  BY DEF IndexInv, Pending, TipIsBest, Best, Outdone, OutdoneBy, Worse, AbcSections
<1> QED BY <1>1, FullIndexInductive, PTL

(* An operator who never calls preciousblock meets the condition.          *)
LEMMA RankKept == ASSUME IInv, "precious" \notin Ops, [Next]_vars PROVE [TipKeepsRank]_vars
<1> SUFFICES ASSUME Next, tip' = tip PROVE seq'[tip] <= seq[tip]
  BY DEF TipKeepsRank
<1>0. tip \in chainTx /\ tip \in Blocks /\ seq \in [Blocks -> Int]
  BY TreeAssumption DEF IInv, TypeOK
<1>1. ASSUME seq' = seq PROVE seq'[tip] <= seq[tip]
  BY <1>0, <1>1
<1>2. ASSUME NEW t \in Threads, NEW b \in Blocks, LinkBlock(t, b) PROVE seq'[tip] <= seq[tip]
  BY <1>0, <1>2 DEF LinkBlock, IInv, Linked
<1>3. ASSUME NEW t \in Threads, NEW b \in Blocks, PreciousBlock(t, b) PROVE FALSE
  BY <1>3 DEF PreciousBlock, OperatorCalls
<1>4. ASSUME NEW b \in Blocks, AcceptBlockHeader(b) PROVE seq' = seq
  BY <1>4 DEF AcceptBlockHeader
<1>5. ASSUME NEW t \in Threads, Arrive(t) PROVE seq' = seq
  BY <1>5 DEF Arrive, AcceptBlockIgnored, AcceptBlockInvalid, AcceptBlock
<1>6. ASSUME NEW t \in Threads, Proceed(t)
      PROVE  seq' = seq \/ \E b \in Blocks : LinkBlock(t, b)
  BY <1>6 DEF Proceed, FindMostWorkChain, DropInvalidCandidate, ConnectTip, ConnectTipInvalid,
     ActivateBestChain, ActivateBestChainDone, ActivateBestChainStep, ActivateBestChainNext,
     DisconnectTip, InvalidateDisconnect, InvalidateFinish
<1>7. ASSUME NEW t \in Threads, Operate(t)
      PROVE  seq' = seq \/ \E b \in Blocks : PreciousBlock(t, b)
  BY <1>7 DEF Operate, InvalidateBlock, ReconsiderBlock
<1> QED BY <1>1, <1>2, <1>3, <1>4, <1>5, <1>6, <1>7 DEF Next

(* So for it there is no condition.                                        *)
THEOREM CheckBlockIndexWithoutPrecious ==
  ASSUME "precious" \notin Ops PROVE Spec => [](CheckBlockIndex /\ TipIsBest)
<1>1. IInv /\ [Next]_vars => [TipKeepsRank]_vars
  BY RankKept
<1> QED BY <1>1, Inductive, CheckBlockIndexCorrect, TipCorrect, PTL DEF Spec

(* The other threads of a step stay where they are.                        *)
LEMMA OthersStay ==
  ASSUME TypeOK, NEW t \in Threads, NEW u \in Threads, t # u,
         Arrive(u) \/ Proceed(u) \/ Operate(u)
  PROVE  pc'[t] = pc[t]
<1> USE DEF Goto, TypeOK
<1>1. CASE Arrive(u)
  BY <1>1 DEF Arrive, AcceptBlockIgnored, AcceptBlockInvalid, AcceptBlock
<1>2. CASE Proceed(u)
  BY <1>2 DEF Proceed, LinkBlock, FindMostWorkChain, DropInvalidCandidate, ConnectTip,
     ConnectTipInvalid, ActivateBestChain, ActivateBestChainDone, ActivateBestChainStep,
     ActivateBestChainNext, DisconnectTip, InvalidateDisconnect, InvalidateFinish
<1>3. CASE Operate(u)
  BY <1>3 DEF Operate, InvalidateBlock, PreciousBlock, ReconsiderBlock
<1> QED BY <1>1, <1>2, <1>3

(* ActivateBestChain releases cs_main only on a tip that is not worse than *)
(* the one it began with.                                                  *)
THEOREM ForwardProgressCorrect == Spec => ForwardProgress
<1> DEFINE Forward ==
      \A t \in Threads :
         pc[t] \in {"find", "step"} /\ pc'[t] \in {"idle", "abcNext"}
           => ~WorseBy(seq', tip', startingTip)
<1>1. IInv /\ IndexInv(FALSE) /\ [Next]_vars => [Forward]_vars
  <2> SUFFICES ASSUME IInv, IndexInv(FALSE), Next, NEW t \in Threads,
                      pc[t] \in {"find", "step"}, pc'[t] \in {"idle", "abcNext"}
               PROVE  ~WorseBy(seq', tip', startingTip)
    OBVIOUS
  <2>0. TypeOK /\ Locks
    BY DEF IInv
  <2>1. ASSUME ActivateBestChainDone(t) PROVE ~WorseBy(seq', tip', startingTip)
    <3>1. seq' = seq /\ tip' = tip /\ mostWork = tip /\ tip # Null
      BY <2>0, <2>1, TreeAssumption DEF ActivateBestChainDone, TypeOK
    <3>2. ~Worse(mostWork, startingTip)
      BY <3>1 DEF IndexInv, Holder
    <3> QED BY <3>1, <3>2 DEF Worse
  <2>2. ASSUME NEW b \in Blocks, ConnectTip(t, b) PROVE ~WorseBy(seq', tip', startingTip)
    BY <2>0, <2>2, AfterStepCases DEF ConnectTip, Goto, Worse, TypeOK
  <2>3. ASSUME NEW b \in Blocks, ConnectTipInvalid(t, b) PROVE ~WorseBy(seq', tip', startingTip)
    BY <2>0, <2>3, AfterStepCases DEF ConnectTipInvalid, Goto, Worse, TypeOK
  <2>4. ~\E b \in Blocks : AcceptBlockHeader(b)
    BY DEF AcceptBlockHeader
  <2>5. PICK u \in Threads : Arrive(u) \/ Proceed(u) \/ Operate(u)
    BY <2>4 DEF Next
  <2>6. u = t
    BY <2>0, <2>5, OthersStay
  <2>7. ~Arrive(t)
    BY DEF Arrive, AcceptBlockIgnored, AcceptBlockInvalid, AcceptBlock, ProcessesBlock, SubmitsBlock
  <2>8. ~Operate(t)
    BY DEF Operate, InvalidateBlock, PreciousBlock, ReconsiderBlock, OperatorCalls
  <2>9. ASSUME Proceed(t)
        PROVE  \/ ActivateBestChainDone(t)
               \/ \E b \in Blocks : ConnectTip(t, b) \/ ConnectTipInvalid(t, b)
    BY <2>0, <2>9 DEF Proceed, LinkBlock, FindMostWorkChain, DropInvalidCandidate,
       ActivateBestChain,
       ActivateBestChainStep, ActivateBestChainNext, DisconnectTip, InvalidateDisconnect,
       InvalidateFinish, Goto, TypeOK
  <2> QED BY <2>1, <2>2, <2>3, <2>5, <2>6, <2>7, <2>8, <2>9
<1> QED BY <1>1, Inductive, IndexInductive, PTL DEF Spec, ForwardProgress

=============================================================================
