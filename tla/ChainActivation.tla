-------------------------- MODULE ChainActivation --------------------------
(***************************************************************************)
(* How a node chooses its active chain: the block index, the set of        *)
(* candidates for the tip (setBlockIndexCandidates), and the threads that  *)
(* work on them (src/validation.cpp).                                      *)
(*                                                                         *)
(* Two locks order the work.  cs_main protects every variable below; it is *)
(* held for the whole of an action, and across the actions of one call of  *)
(* ActivateBestChainStep or ReceivedBlockTransactions (the thread's pc is  *)
(* then in CsMainSections).  m_chainstate_mutex is held by a thread from   *)
(* the start to the end of ActivateBestChain and of InvalidateBlock, which *)
(* both release cs_main on the way: headers and blocks arrive in between.  *)
(* The locals of those two functions are therefore kept once, for the      *)
(* holder of the mutex, and not once per thread.                           *)
(*                                                                         *)
(* Blocks, their parents and their work are constants: the environment     *)
(* decides which of them arrive, and when.  Block files are not pruned, no *)
(* snapshot is loaded, no system error occurs, and a reorganization spans  *)
(* fewer than the 32 blocks that ActivateBestChainStep connects in one     *)
(* batch.                                                                  *)
(***************************************************************************)
EXTENDS Integers, FiniteSets

CONSTANTS
  Blocks,      \* the blocks that may arrive, the genesis block included
  Genesis,
  Parent,      \* CBlockIndex::pprev; the genesis block is its own parent here
  Ancestors,   \* the chain that ends in a block, itself included
  Work,        \* CBlockIndex::nChainWork
  Address,     \* the order of the pointers to index entries
  BadCheck,    \* blocks that fail AcceptBlock's checks (ContextualCheckBlock); one
               \* that fails CheckBlock leaves no trace: ProcessNewBlock refuses it
  BadConnect,  \* blocks that fail ConnectBlock
  Threads,     \* the threads that submit blocks and serve RPC calls
  MaxOps,      \* bound: calls of invalidateblock, preciousblock, reconsiderblock
  Ops,         \* which of these calls are made
  Null

(* The tree of blocks: Ancestors is the closure of Parent, and every block *)
(* adds work (GetBlockProof is positive).                                  *)
ASSUME TreeAssumption ==
  /\ Genesis \in Blocks /\ Null \notin Blocks
  /\ Parent \in [Blocks -> Blocks]
  /\ Ancestors \in [Blocks -> SUBSET Blocks]
  /\ Ancestors[Genesis] = {Genesis}
  /\ \A b \in Blocks \ {Genesis} :
       /\ Ancestors[b] = {b} \cup Ancestors[Parent[b]]
       /\ b \notin Ancestors[Parent[b]]
  /\ \A b \in Blocks : b \in Ancestors[b] /\ Genesis \in Ancestors[b]
  /\ \A b \in Blocks : \A a \in Ancestors[b] : Ancestors[a] \subseteq Ancestors[b]

ASSUME OrderAssumption ==
  /\ Work \in [Blocks -> Nat]
  /\ \A b \in Blocks \ {Genesis} : Work[Parent[b]] < Work[b]
  /\ Address \in [Blocks -> Nat]
  /\ \A a, b \in Blocks : Address[a] = Address[b] => a = b

ASSUME InputAssumption ==
  /\ BadCheck \subseteq Blocks \ {Genesis}
  /\ BadConnect \subseteq Blocks \ {Genesis}
  /\ MaxOps \in Nat
  /\ Ops \subseteq {"invalidate", "precious", "reconsider"}

VARIABLES
  index,        \* m_block_index: the blocks whose header is known
  data,         \* BLOCK_HAVE_DATA (and nTx > 0, BLOCK_VALID_TRANSACTIONS)
  chainTx,      \* HaveNumChainTxs(): data received for the whole chain
  failedValid,  \* BLOCK_FAILED_VALID
  failedChild,  \* BLOCK_FAILED_CHILD
  seq,          \* nSequenceId
  nextSeq,      \* nBlockSequenceId
  unlinked,     \* m_blocks_unlinked, keyed by the parent
  candidates,   \* setBlockIndexCandidates
  tip,          \* m_chain.Tip()
  bestHeader,   \* m_best_header
  bestInvalid,  \* m_best_invalid
  lastPreciousWork,  \* nLastPreciousChainwork
  reverseSeq,   \* nBlockReverseSequenceId
  pc,           \* where each thread is
  queue,        \* ReceivedBlockTransactions: blocks still to be linked
  mostWork,     \* ActivateBestChain: pindexMostWork
  startingTip,  \* ActivateBestChain: starting_tip
  oldTip,       \* ActivateBestChainStep: pindexOldTip
  target,       \* InvalidateBlock: pindex
  lastOff,      \* InvalidateBlock: the block disconnected last, or Null: then
                \* pindex_was_in_chain is false and to_mark_failed is pindex
  highpow,      \* InvalidateBlock: highpow_outofchain_headers
  ops           \* how many operator calls were made

flags   == <<failedValid, failedChild>>
best    == <<bestHeader, bestInvalid>>
precious == <<lastPreciousWork, reverseSeq>>
abc     == <<mostWork, startingTip, oldTip>>
inv     == <<target, lastOff, highpow>>
vars == <<index, data, chainTx, flags, seq, nextSeq, unlinked, candidates, tip,
          best, precious, pc, queue, abc, inv, ops>>

SEQ_ID_BEST_CHAIN_FROM_DISK == 0
SEQ_ID_INIT_FROM_DISK == 1

-----------------------------------------------------------------------------
(* Helpers.                                                                *)

failed == failedValid \cup failedChild

Descendants(b) == {c \in Blocks : b \in Ancestors[c]}

ActiveChain == Ancestors[tip]

(* CBlockIndexWorkComparator under the sequence ids s: a sorts before b.   *)
WorseBy(s, a, b) ==
  \/ Work[a] < Work[b]
  \/ Work[a] = Work[b] /\ s[a] > s[b]
  \/ Work[a] = Work[b] /\ s[a] = s[b] /\ Address[a] > Address[b]

Worse(a, b) == WorseBy(seq, a, b)

(* A walk over "from" that keeps the first block with more work than any   *)
(* seen before, starting at s.  The index is hashed: which of several      *)
(* blocks with the same work comes first is open.                          *)
MostWorkOf(from, s) ==
  LET better == {b \in from : Work[b] > Work[s]}
  IN  IF better = {} THEN {s}
      ELSE {b \in better : \A c \in better : Work[c] <= Work[b]}

RecalculateBestHeader(idx, bad) == MostWorkOf(idx \ bad, tip)

MoreInvalid(b, old) == IF old = Null THEN b ELSE IF Work[b] > Work[old] THEN b ELSE old

(* The pc values at which a thread holds each of the two locks between its *)
(* steps.                                                                  *)
CsMainSections == {"link", "find", "step"}
ChainstateSections == {"find", "step", "abcNext", "invalidate"}

CsMainFree == \A t \in Threads : pc[t] \notin CsMainSections
ChainstateMutexFree == \A t \in Threads : pc[t] \notin ChainstateSections

Goto(t, l) == pc' = [pc EXCEPT ![t] = l]

(* SetBlockFailureFlags(b) and the update of m_best_header and             *)
(* m_best_invalid that InvalidChainFound does with it; fv and fc are the   *)
(* flags before the call, bh the best header and idx the index.            *)
InvalidChainFound(b, fv, fc, bh, idx, invalid) ==
  LET below == (Descendants(b) \ {b}) \cap idx
  IN  /\ failedValid' = fv \ below
      /\ failedChild' = fc \cup below
      /\ bestInvalid' = invalid
      /\ IF b \in Ancestors[bh]
         THEN bestHeader' \in RecalculateBestHeader(idx, fv \cup fc \cup below)
         ELSE bestHeader' = bh

-----------------------------------------------------------------------------
(* The node starts on the genesis block (LoadChainTip).                    *)
Init ==
  /\ index = {Genesis} /\ data = {Genesis} /\ chainTx = {Genesis}
  /\ failedValid = {} /\ failedChild = {}
  /\ seq = [b \in Blocks |-> IF b = Genesis THEN SEQ_ID_BEST_CHAIN_FROM_DISK
                                            ELSE SEQ_ID_INIT_FROM_DISK]
  /\ nextSeq = SEQ_ID_INIT_FROM_DISK + 1
  /\ unlinked = {} /\ candidates = {Genesis}
  /\ tip = Genesis /\ bestHeader = Genesis /\ bestInvalid = Null
  /\ lastPreciousWork = 0 /\ reverseSeq = -1
  /\ pc = [t \in Threads |-> "idle"]
  /\ queue = {} /\ highpow = {}
  /\ mostWork = Null /\ startingTip = Null /\ oldTip = Null
  /\ target = Null /\ lastOff = Null
  /\ ops = 0

-----------------------------------------------------------------------------
(* Headers and blocks arrive.                                              *)

(* AcceptBlockHeader goes through: the header is known and not failed, or  *)
(* it is new and its parent is known and not failed.                       *)
HeaderAccepted(b) ==
  IF b \in index THEN b \notin failed
                 ELSE Parent[b] \in index /\ Parent[b] \notin failed

(* The best header after AddToBlockIndex.                                  *)
HeaderBest(b) ==
  IF b \notin index /\ Work[bestHeader] < Work[b] THEN b ELSE bestHeader

(* AcceptBlockHeader for a new header, from ProcessNewBlockHeaders.        *)
AcceptBlockHeader(b) ==
  /\ CsMainFree
  /\ b \notin index /\ HeaderAccepted(b)
  /\ index' = index \cup {b}
  /\ bestHeader' = HeaderBest(b)
  /\ UNCHANGED <<data, chainTx, flags, seq, nextSeq, unlinked, candidates, tip,
                 bestInvalid, precious, pc, queue, abc, inv, ops>>

(* A thread is in ProcessNewBlock with block b, whose header is accepted.  *)
SubmitsBlock(t, b) ==
  /\ pc[t] = "idle" /\ CsMainFree
  /\ b # Genesis /\ HeaderAccepted(b)
  /\ index' = index \cup {b}

(* AcceptBlock has nothing to store: the data is there already, or it was  *)
(* not requested and lies below the tip.                                   *)
AcceptBlockIgnored(t, b, requested) ==
  /\ SubmitsBlock(t, b)
  /\ b \in data \/ (~requested /\ Work[b] < Work[tip])
  /\ bestHeader' = HeaderBest(b)
  /\ Goto(t, "activate")
  /\ UNCHANGED <<data, chainTx, flags, seq, nextSeq, unlinked, candidates, tip,
                 bestInvalid, precious, queue, abc, inv, ops>>

(* The data of b arrives and is to be processed.  (A mutant processes data *)
(* that is there already once more.)                                       *)
ProcessesBlockAgain(t, b, requested) ==
  /\ SubmitsBlock(t, b)
  /\ requested \/ Work[b] >= Work[tip]

ProcessesBlock(t, b, requested) ==
  /\ SubmitsBlock(t, b)
  /\ b \notin data
  /\ requested \/ Work[b] >= Work[tip]

(* AcceptBlock finds the block invalid: InvalidBlockFound, and             *)
(* ProcessNewBlock returns without activating anything.                    *)
AcceptBlockInvalid(t, b, requested) ==
  /\ ProcessesBlock(t, b, requested)
  /\ b \in BadCheck
  /\ candidates' = candidates \ {b}
  /\ InvalidChainFound(b, failedValid \cup {b}, failedChild, HeaderBest(b),
                       index \cup {b}, MoreInvalid(b, bestInvalid))
  /\ UNCHANGED <<data, chainTx, seq, nextSeq, unlinked, tip, precious, pc,
                 queue, abc, inv, ops>>

(* A block whose parent's chain is not complete waits for it in            *)
(* m_blocks_unlinked, unless that parent is marked as failed.              *)
AddUnlinked(b) == IF Parent[b] \in failed THEN unlinked ELSE unlinked \cup {b}

(* AcceptBlock stores the block and ReceivedBlockTransactions begins: the  *)
(* block waits for its parent's data, or it is the first to be linked.     *)
AcceptBlock(t, b, requested) ==
  /\ ProcessesBlock(t, b, requested)
  /\ b \notin BadCheck
  /\ bestHeader' = HeaderBest(b)
  /\ data' = data \cup {b}
  /\ IF Parent[b] \in chainTx
     THEN queue' = {b} /\ unlinked' = unlinked /\ Goto(t, "link")
     ELSE /\ queue' = {} /\ Goto(t, "activate")
          /\ unlinked' = AddUnlinked(b)
  /\ UNCHANGED <<chainTx, flags, seq, nextSeq, candidates, tip, bestInvalid,
                 precious, abc, inv, ops>>

(* TryAddBlockIndexCandidate under the sequence ids s.                     *)
TryAddBlockIndexCandidate(b, s) ==
  IF WorseBy(s, b, tip) THEN candidates ELSE candidates \cup {b}

(* The blocks that waited for b.                                           *)
WaitingFor(b) == {c \in unlinked : Parent[c] = b}

(* One round of the queue in ReceivedBlockTransactions: b's chain is now   *)
(* complete, and the blocks that waited for b follow.  Blocks queued at    *)
(* the same time are taken in any order.                                   *)
LinkBlock(t, b) ==
  /\ pc[t] = "link" /\ b \in queue
  /\ chainTx' = chainTx \cup {b}
  /\ seq' = [seq EXCEPT ![b] = nextSeq]
  /\ nextSeq' = nextSeq + 1
  /\ candidates' = TryAddBlockIndexCandidate(b, seq')
  /\ queue' = (queue \ {b}) \cup WaitingFor(b)
  /\ unlinked' = unlinked \ WaitingFor(b)
  /\ Goto(t, IF queue' = {} THEN "activate" ELSE "link")
  /\ UNCHANGED <<index, data, flags, tip, best, precious, abc, inv, ops>>

-----------------------------------------------------------------------------
(* ActivateBestChain.                                                      *)

ActivateBestChain(t) ==
  /\ pc[t] = "activate" /\ ChainstateMutexFree /\ CsMainFree
  /\ Goto(t, "find")
  /\ mostWork' = Null /\ startingTip' = tip /\ oldTip' = Null
  /\ UNCHANGED <<index, data, chainTx, flags, seq, nextSeq, unlinked,
                 candidates, tip, best, precious, queue, inv, ops>>

(* The last of setBlockIndexCandidates.                                    *)
IsBestCandidate(b) == b \in candidates /\ \A c \in candidates : ~Worse(b, c)

(* The blocks between b and the active chain that are known to be invalid. *)
(* (A mutant trusts every candidate.)                                      *)
NoneFailedOnPath(b) == {}

FailedOnPath(b) == (Ancestors[b] \ ActiveChain) \cap failed

(* FindMostWorkChain returns the best candidate.                           *)
FindMostWorkChain(t, b) ==
  /\ pc[t] = "find" /\ mostWork = Null
  /\ IsBestCandidate(b) /\ FailedOnPath(b) = {}
  /\ mostWork' = b
  /\ UNCHANGED <<index, data, chainTx, flags, seq, nextSeq, unlinked,
                 candidates, tip, best, precious, pc, queue, startingTip,
                 oldTip, inv, ops>>

(* The part of b's chain from pindexTest up.                               *)
ChainFrom(b, pindexTest) == Ancestors[b] \cap Descendants(pindexTest)

(* FindMostWorkChain drops the best candidate, and the chain up from its   *)
(* last failed ancestor (pindexTest), and tries again.                     *)
DropInvalidCandidate(t, b, pindexTest) ==
  /\ pc[t] = "find" /\ mostWork = Null
  /\ IsBestCandidate(b)
  /\ pindexTest \in FailedOnPath(b) /\ FailedOnPath(b) \subseteq Ancestors[pindexTest]
  /\ failedChild' = failedChild \cup (ChainFrom(b, pindexTest) \ {pindexTest})
  /\ candidates' = candidates \ ChainFrom(b, pindexTest)
  /\ bestInvalid' = MoreInvalid(b, bestInvalid)
  /\ UNCHANGED <<index, data, chainTx, failedValid, seq, nextSeq, unlinked, tip,
                 bestHeader, precious, pc, queue, abc, inv, ops>>

(* Nothing is left to do: both locks are released and the call returns.    *)
ActivateBestChainDone(t) ==
  /\ pc[t] = "find" /\ mostWork = tip
  /\ Goto(t, "idle")
  /\ UNCHANGED <<index, data, chainTx, flags, seq, nextSeq, unlinked,
                 candidates, tip, best, precious, queue, abc, inv, ops>>

(* ActivateBestChainStep begins.                                           *)
ActivateBestChainStep(t) ==
  /\ pc[t] = "find" /\ mostWork \notin {Null, tip}
  /\ oldTip' = tip
  /\ Goto(t, "step")
  /\ UNCHANGED <<index, data, chainTx, flags, seq, nextSeq, unlinked,
                 candidates, tip, best, precious, queue, mostWork, startingTip,
                 inv, ops>>

(* DisconnectTip, while the tip is not on the way to mostWork.             *)
DisconnectTip(t) ==
  /\ pc[t] = "step" /\ mostWork \notin Descendants(tip)
  /\ tip' = Parent[tip]
  /\ UNCHANGED <<index, data, chainTx, flags, seq, nextSeq, unlinked,
                 candidates, best, precious, pc, queue, abc, inv, ops>>

(* Where the step and the loops around it continue once the tip is newTip  *)
(* and pindexMostWork is most: once more under the same cs_main lock if    *)
(* the tip is worse than at its start, else after a release of cs_main.    *)
(* (One mutant releases cs_main on a worse tip; one returns after a step   *)
(* that did not reach pindexMostWork.)                                     *)
AfterStepReleasing(newTip, most) == IF newTip = most THEN "idle" ELSE "abcNext"

AfterStepReturning(newTip, most) ==
  IF Worse(newTip, startingTip) THEN "find" ELSE "idle"

AfterStep(newTip, most) ==
  IF Worse(newTip, startingTip) THEN "find"
  ELSE IF newTip = most THEN "idle" ELSE "abcNext"

(* The candidates left by PruneBlockIndexCandidates when the tip is b.  (A *)
(* mutant compares the work alone.)                                        *)
PruneByWork(b) == {c \in candidates : Work[c] >= Work[b]}

PruneBlockIndexCandidates(b) == {c \in candidates : ~Worse(c, b)}

(* The next block to connect on the way to mostWork.                       *)
IsNext(b) == b \in Ancestors[mostWork] \ {Genesis} /\ Parent[b] = tip

(* ConnectTip succeeds.  The step goes on until the tip has more work than *)
(* it began with, or mostWork is reached.                                  *)
ConnectTip(t, b) ==
  /\ pc[t] = "step" /\ IsNext(b) /\ b \notin BadConnect
  /\ tip' = b
  /\ candidates' = PruneBlockIndexCandidates(b)
  /\ Goto(t, IF Work[b] > Work[oldTip] \/ b = mostWork
             THEN AfterStep(b, mostWork) ELSE "step")
  /\ UNCHANGED <<index, data, chainTx, flags, seq, nextSeq, unlinked, best,
                 precious, queue, abc, inv, ops>>

(* ConnectTip finds the block invalid: InvalidBlockFound for it, then      *)
(* InvalidChainFound for the last block of the batch, which is mostWork.   *)
(* (A mutant does neither and looks for another chain.)                    *)
ConnectTipUnmarked(t, b) ==
  /\ pc[t] = "step" /\ IsNext(b) /\ b \in BadConnect
  /\ mostWork' = Null
  /\ Goto(t, AfterStep(tip, Null))
  /\ UNCHANGED <<index, data, chainTx, flags, candidates, best, seq, nextSeq, unlinked, tip,
                 precious, queue, startingTip, oldTip, inv, ops>>

ConnectTipInvalid(t, b) ==
  /\ pc[t] = "step" /\ IsNext(b) /\ b \in BadConnect
  /\ candidates' = candidates \ {b}
  /\ InvalidChainFound(b, failedValid \cup {b}, failedChild, bestHeader, index,
                       MoreInvalid(mostWork, MoreInvalid(b, bestInvalid)))
  /\ mostWork' = Null
  /\ Goto(t, AfterStep(tip, Null))
  /\ UNCHANGED <<index, data, chainTx, seq, nextSeq, unlinked, tip, precious,
                 queue, startingTip, oldTip, inv, ops>>

(* The loop of ActivateBestChain takes cs_main again, with pindexMostWork  *)
(* as it was when the lock was released.                                   *)
ActivateBestChainNext(t) ==
  /\ pc[t] = "abcNext" /\ CsMainFree
  /\ startingTip' = tip
  /\ Goto(t, "find")
  /\ UNCHANGED <<index, data, chainTx, flags, seq, nextSeq, unlinked,
                 candidates, tip, best, precious, queue, mostWork, oldTip, inv,
                 ops>>

-----------------------------------------------------------------------------
(* The operator's calls.                                                   *)

OperatorCalls(t, op, b) ==
  /\ op \in Ops /\ ops < MaxOps
  /\ pc[t] = "idle" /\ CsMainFree
  /\ b \in index
  /\ ops' = ops + 1

(* InvalidateBlock takes m_chainstate_mutex and collects the blocks off    *)
(* the active chain that may become candidates or must be marked.          *)
InvalidateBlock(t, b) ==
  /\ OperatorCalls(t, "invalidate", b)
  /\ ChainstateMutexFree
  /\ b # Genesis
  /\ target' = b /\ lastOff' = Null
  /\ highpow' = {c \in index \ ActiveChain : ~Worse(c, Parent[b]) /\ c \notin failed}
  /\ Goto(t, "invalidate")
  /\ UNCHANGED <<index, data, chainTx, flags, seq, nextSeq, unlinked,
                 candidates, tip, best, precious, queue, abc>>

(* One round of InvalidateBlock's loop: the tip is disconnected and marked *)
(* failed, its children off the active chain are marked, and the blocks    *)
(* that are now good enough become candidates.                             *)
InvalidateDisconnect(t) ==
  /\ pc[t] = "invalidate" /\ CsMainFree
  /\ target \in ActiveChain
  /\ LET walk   == tip
         pprev  == Parent[tip]
         seen   == {c \in highpow : Work[c] >= Work[pprev]}
         below  == seen \cap Descendants(walk)
         others == seen \ below
         demoted == {c \in failedValid : c = lastOff /\ Parent[c] = walk}
         failedNow == ((failedValid \cup {walk}) \ (demoted \cup below))
                        \cup (failedChild \cup demoted \cup below)
     IN  /\ tip' = pprev
         /\ failedValid' = (failedValid \cup {walk}) \ (demoted \cup below)
         /\ failedChild' = failedChild \cup demoted \cup below
         /\ highpow' = highpow \ below
         /\ candidates' = (candidates \ {walk}) \cup {pprev} \cup
              {c \in others : ~Worse(c, pprev) /\ c \notin failedNow
                                /\ c \in chainTx}
         /\ IF walk \in Ancestors[bestHeader]
            THEN bestHeader' \in MostWorkOf(others, pprev)
            ELSE bestHeader' = bestHeader
         /\ lastOff' = walk
  /\ UNCHANGED <<index, data, chainTx, seq, nextSeq, unlinked, bestInvalid,
                 precious, pc, queue, abc, target, ops>>

(* The end of InvalidateBlock, when its block is off the active chain: the *)
(* candidates that arrived meanwhile are added, and the descendants of the *)
(* invalidated block are marked.  The RPC then calls ActivateBestChain.    *)
InvalidateFinish(t) ==
  /\ pc[t] = "invalidate" /\ CsMainFree
  /\ target \notin ActiveChain
  /\ LET toMark == IF lastOff = Null THEN target ELSE lastOff
         marked == IF lastOff # Null \/ target \in failed THEN {} ELSE {target}
         valid  == (index \cap data \cap chainTx) \ (failed \cup marked)
     IN  /\ candidates' = (candidates \ marked) \cup {c \in valid : ~Worse(c, tip)}
         /\ InvalidChainFound(toMark, failedValid \cup marked, failedChild,
                              bestHeader, index, MoreInvalid(toMark, bestInvalid))
  /\ Goto(t, "activate")
  /\ UNCHANGED <<index, data, chainTx, seq, nextSeq, unlinked, tip, precious,
                 queue, abc, inv, ops>>

(* PreciousBlock: b sorts before every block with the same work, as if it  *)
(* had been received first.  Nothing happens for a block below the tip.    *)
(* (The counter stops at the least int32, which is far beyond MaxOps.)     *)
PreciousBlock(t, b) ==
  /\ OperatorCalls(t, "precious", b)
  /\ Work[b] >= Work[tip]
  /\ LET reverse == IF Work[tip] > lastPreciousWork THEN -1 ELSE reverseSeq
         s == [seq EXCEPT ![b] = reverse]
     IN  /\ seq' = s
         /\ reverseSeq' = reverse - 1
         /\ candidates' = IF b \in chainTx \ failed
                          THEN {c \in candidates \cup {b} : ~WorseBy(s, c, tip)}
                          ELSE candidates \ {b}
  /\ lastPreciousWork' = Work[tip]
  /\ Goto(t, "activate")
  /\ UNCHANGED <<index, data, chainTx, flags, nextSeq, unlinked, tip, best,
                 queue, abc, inv>>

(* The reconsiderblock RPC: ResetBlockFailureFlags for the block, its      *)
(* ancestors and its descendants, then RecalculateBestHeader.              *)
ReconsiderBlock(t, b) ==
  /\ OperatorCalls(t, "reconsider", b)
  /\ LET reset == failed \cap (Ancestors[b] \cup Descendants(b))
     IN  /\ failedValid' = failedValid \ reset
         /\ failedChild' = failedChild \ reset
         /\ candidates' = candidates \cup
              {c \in reset : c \in chainTx /\ Worse(tip, c)}
         /\ bestInvalid' = IF bestInvalid \in reset THEN Null ELSE bestInvalid
         /\ bestHeader' \in RecalculateBestHeader(index, failed \ reset)
  /\ Goto(t, "activate")
  /\ UNCHANGED <<index, data, chainTx, seq, nextSeq, unlinked, tip, precious,
                 queue, abc, inv>>

-----------------------------------------------------------------------------
Arrive(t) ==
  \E b \in Blocks, requested \in BOOLEAN :
    \/ AcceptBlockIgnored(t, b, requested)
    \/ AcceptBlockInvalid(t, b, requested)
    \/ AcceptBlock(t, b, requested)

(* The steps a thread takes once it has been called.                       *)
Proceed(t) ==
  \/ \E b \in Blocks :
       \/ LinkBlock(t, b)
       \/ FindMostWorkChain(t, b)
       \/ \E c \in Blocks : DropInvalidCandidate(t, b, c)
       \/ ConnectTip(t, b)
       \/ ConnectTipInvalid(t, b)
  \/ ActivateBestChain(t)
  \/ ActivateBestChainDone(t)
  \/ ActivateBestChainStep(t)
  \/ ActivateBestChainNext(t)
  \/ DisconnectTip(t)
  \/ InvalidateDisconnect(t)
  \/ InvalidateFinish(t)

Operate(t) ==
  \E b \in Blocks :
    \/ InvalidateBlock(t, b)
    \/ PreciousBlock(t, b)
    \/ ReconsiderBlock(t, b)

Next ==
  \/ \E b \in Blocks : AcceptBlockHeader(b)
  \/ \E t \in Threads : Arrive(t) \/ Proceed(t) \/ Operate(t)

(* A thread that was called keeps running: the operating system schedules  *)
(* it and the locks are handed on.                                         *)
Fairness == \A t \in Threads : WF_vars(Proceed(t))

Spec == Init /\ [][Next]_vars
FairSpec == Spec /\ Fairness

-----------------------------------------------------------------------------
(* Properties.                                                             *)

TypeOK ==
  /\ index \subseteq Blocks /\ data \subseteq index /\ chainTx \subseteq data
  /\ Genesis \in chainTx
  /\ failedValid \subseteq index /\ failedChild \subseteq index
  /\ seq \in [Blocks -> Int] /\ nextSeq \in Nat
  /\ unlinked \subseteq data /\ candidates \subseteq chainTx
  /\ tip \in chainTx /\ bestHeader \in index /\ bestInvalid \in index \cup {Null}
  /\ lastPreciousWork \in Nat /\ reverseSeq \in Int /\ reverseSeq < 0
  /\ pc \in [Threads -> {"idle", "activate", "link", "find", "step", "abcNext",
                         "invalidate"}]
  /\ queue \subseteq data /\ highpow \subseteq index
  /\ {mostWork, startingTip, oldTip} \subseteq chainTx \cup {Null}
  /\ {target, lastOff} \subseteq index \cup {Null}
  /\ ops \in Nat

(* No call of InvalidateBlock is between two of its steps.                 *)
NotInvalidating == \A t \in Threads : pc[t] # "invalidate"

(* The blocks whose entries are up to date when cs_main is free: all, or,  *)
(* while an InvalidateBlock is half done, the active chain and those of    *)
(* its map.  A block that it missed when it made the map (one that arrived *)
(* or was reconsidered later) is looked at again only when it ends.        *)
Covered == IF NotInvalidating THEN Blocks ELSE highpow \cup ActiveChain

Valid(b) == Ancestors[b] \cap failed = {}

(* The active chain never contains a block that is marked as failed, and   *)
(* the data of all of it is there: ActivateBestChain "considers blocks     *)
(* already in m_chain unconditionally valid", whatever other threads       *)
(* marked while it did not hold cs_main.                                   *)
ActiveChainUsable == Valid(tip) /\ ActiveChain \subseteq chainTx

(* CheckBlockIndex's rule for setBlockIndexCandidates: every block that is *)
(* not worse than the tip, whose chain is complete and not known to be     *)
(* invalid, is a candidate (of the covered blocks only, while an           *)
(* InvalidateBlock is half done), and nothing worse than the tip or with   *)
(* missing data is.  A preciousblock call that ranks the tip lower breaks  *)
(* the first part (TipKeepsRank in ChainActivationProofs says how).        *)
CandidatesExact ==
  CsMainFree =>
    /\ {b \in chainTx \cap Covered : Valid(b) /\ ~Worse(b, tip)} \subseteq candidates
    /\ \A b \in candidates : b \in chainTx /\ ~Worse(b, tip)

(* CheckBlockIndex's rules for m_chain_tx_count and m_blocks_unlinked: a   *)
(* block counts as linked only if all of its chain is there, and no block  *)
(* is left waiting for a parent that is linked already, in whatever order  *)
(* the data arrived.                                                       *)
NoneLeftWaiting ==
  CsMainFree => /\ \A b \in chainTx : Ancestors[b] \subseteq data \cap chainTx
                /\ \A b \in unlinked : b \in data \ chainTx /\ Parent[b] \notin chainTx

(* CheckBlockIndex: "If this block has block data available, some parent   *)
(* was never received, and has no invalid parents, it must be in           *)
(* m_blocks_unlinked", or it is never linked.  The operator's calls are    *)
(* excepted: a block stored while InvalidateBlock has released cs_main,    *)
(* under a parent that is marked then, stays outside after reconsiderblock.*)
WaitingUnlinked ==
  CsMainFree /\ ops = 0 => {b \in data \ chainTx : Valid(b)} \subseteq unlinked

(* CheckBlockIndex: "Invalid blocks and their descendants must be marked   *)
(* as invalid", of the covered ones only while an InvalidateBlock is half  *)
(* done.                                                                   *)
FailureInherited ==
  CsMainFree => \A b \in failed : Descendants(b) \cap index \cap Covered \subseteq failed

(* CheckBlockIndex: "The failed mask cannot be set for blocks without      *)
(* invalid parents".  The operator's calls are excepted: reconsiderblock   *)
(* clears an ancestor and leaves its other descendants marked.             *)
FailureCaused ==
  CsMainFree /\ ops = 0 => \A b \in failed : Ancestors[b] \cap failedValid # {}

(* CheckBlockIndex: m_best_header is not marked as failed and "there       *)
(* should be no block with more work than m_best_header, unless it's known *)
(* to be invalid".  The operator's calls are excepted: InvalidateBlock     *)
(* computes it from a map that it made before it released cs_main.         *)
BestHeaderExact ==
  CsMainFree /\ ops = 0 => /\ bestHeader \notin failed
                          /\ \A b \in index \ failed : Work[b] <= Work[bestHeader]

(* ChainstateManager::CheckBlockIndex, which the node runs in its tests    *)
(* and with -checkblockindex: what it asserts of the index holds whenever  *)
(* cs_main is free, with the exceptions that the parts name.  They are     *)
(* what the code does not keep: blocks that a half done InvalidateBlock    *)
(* does not cover, and some marks and headers after operator calls.  The   *)
(* call of CheckBlockIndex inside InvalidateBlock can therefore fail, see  *)
(* ConsistentWhileDisconnecting.                                           *)
CheckBlockIndex ==
  /\ CandidatesExact
  /\ NoneLeftWaiting
  /\ WaitingUnlinked
  /\ FailureInherited
  /\ FailureCaused
  /\ BestHeaderExact

(* InvalidateBlock: "we should keep the block index in a consistent state  *)
(* as we disconnect blocks -- in particular we need to add equal-work      *)
(* blocks to setBlockIndexCandidates as we disconnect", which it checks    *)
(* with CheckBlockIndex when its last block is disconnected, before it     *)
(* adds what its map missed: whatever may become the tip is a candidate    *)
(* there.  It does not hold, and no run claims it: a block that arrived    *)
(* between the making of the map and a disconnection, and ranked below the *)
(* tip of that time, is not one yet.                                       *)
ConsistentWhileDisconnecting ==
  \A t \in Threads : pc[t] = "invalidate" /\ CsMainFree /\ target \notin ActiveChain =>
    {b \in chainTx : Valid(b) /\ ~Worse(b, tip)} \subseteq candidates

(* When every call has returned, the tip is the best block whose chain is  *)
(* complete and not known to be invalid: no block that arrived while       *)
(* cs_main was released was forgotten.  It needs TipKeepsRank of           *)
(* ChainActivationProofs: five operator calls, a preciousblock of the tip  *)
(* the last of them, can break it.                                         *)
TipIsBest ==
  (\A t \in Threads : pc[t] = "idle") =>
    \A b \in chainTx : Valid(b) => ~Worse(tip, b)

(* setBlockIndexCandidates is ordered by nSequenceId: the id of a block    *)
(* changes only while the block is not in the set, except in preciousblock,*)
(* which takes it out and puts it back.                                    *)
KeyStable ==
  [][\A b \in candidates \cap candidates' : seq'[b] # seq[b] => seq'[b] < 0]_vars

(* ActivateBestChain: "We absolutely may not unlock cs_main until we've    *)
(* made forward progress": whenever it releases cs_main the tip is not     *)
(* worse than when it took it.                                             *)
ForwardProgress ==
  [][\A t \in Threads :
       pc[t] \in {"find", "step"} /\ pc'[t] \in {"idle", "abcNext"}
         => ~WorseBy(seq', tip', startingTip)]_vars

(* A call of ActivateBestChain or InvalidateBlock that got the mutex       *)
(* returns, however the others change the block index meanwhile: the mutex *)
(* is free again and again.                                                *)
HolderReturns == []<>ChainstateMutexFree

(* A complete chain that is better than the tip is activated or found to   *)
(* be invalid, whichever thread gets to do it: again and again the tip is  *)
(* as good as any.  A preciousblock call that ranks the tip lower, which   *)
(* takes more operator calls than MaxOps allows in the run, breaks this as *)
(* it does TipIsBest: a better block of the same work is no candidate then.*)
BetterChainActivated ==
  []<>(\A b \in chainTx : Valid(b) => ~Worse(tip, b))
=============================================================================
