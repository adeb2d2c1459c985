----------------------------- MODULE IndexSync -----------------------------
(***************************************************************************)
(* An optional index that follows the active chain: BaseIndex              *)
(* (src/index/base.cpp) with the data of CoinStatsIndex                    *)
(* (src/index/coinstatsindex.cpp).                                         *)
(*                                                                         *)
(* A thread of its own (Sync) catches up with the chain, reading it under  *)
(* cs_main a block at a time, while validation connects and disconnects    *)
(* blocks.  When it has reached the tip it sets m_synced, and from then on *)
(* the index follows the notifications of the validation queue, of which a *)
(* backlog may be waiting.  Callbacks that find m_synced unset return at   *)
(* once, so that one thread at a time works on the index: `pc' is the      *)
(* point the sync thread is at, and later the callback.                    *)
(*                                                                         *)
(* Entries are written to the index database as blocks are processed; the  *)
(* locator and the running hash only by Commit, in one batch.  The process *)
(* may die at any time, and then starts again from what the chainstate and *)
(* the index have on disk.                                                 *)
(*                                                                         *)
(* The statistics of a block are the set of blocks they sum up.            *)
(***************************************************************************)
EXTENDS Integers, Sequences, FiniteSets

CONSTANTS
  Blocks, Genesis,
  Parent,      \* CBlockIndex::pprev; the genesis block is its own parent here
  Ancestors,   \* the chain that ends in a block, itself included
  Height,      \* CBlockIndex::nHeight
  MaxQueue,    \* bound: notifications waiting; LimitValidationInterfaceQueue has one
  MaxMoves,    \* bound: changes of the active chain and writes of it to disk
  MaxStarts,   \* bound: restarts of the process
  MaxWaits,    \* bound: calls of BlockUntilSyncedToCurrentChain
  Null

VARIABLES
  tip,       \* the tip of m_chain
  flushed,   \* the tip of the chainstate on disk
  known,     \* the block index in memory
  stored,    \* the block index on disk
  queue,     \* the validation queue
  pc,        \* what is being done to the index
  synced,    \* m_synced
  best,      \* m_best_block_index
  pindex,    \* the block Sync has come to
  next,      \* the block being connected to the index
  iter,      \* Rewind: the block to be removed next
  stats,     \* the running totals and m_muhash
  current,   \* m_current_block_hash
  db,        \* the index database
  stop,      \* shutdown: "no", "interrupted" or "flushed"
  waiter,    \* the caller of BlockUntilSyncedToCurrentChain
  moves, starts, waits

chain == <<tip, flushed, known, stored>>
index == <<pc, synced, best, pindex, next, iter, stats, current, db>>
bounds == <<moves, starts, waits>>
vars == <<chain, queue, index, stop, waiter, bounds>>

ASSUME BlockAssumption ==
  /\ Genesis \in Blocks /\ Null \notin Blocks
  /\ Parent \in [Blocks -> Blocks]
  /\ Height \in [Blocks -> Nat] /\ Height[Genesis] = 0
  /\ Ancestors \in [Blocks -> SUBSET Blocks]
  /\ Ancestors[Genesis] = {Genesis}
  /\ \A b \in Blocks \ {Genesis} :
       /\ Ancestors[b] = {b} \cup Ancestors[Parent[b]]
       /\ b \notin Ancestors[Parent[b]]
       /\ Height[b] = Height[Parent[b]] + 1
  /\ \A b \in Blocks : Ancestors[b] # Null
  /\ Null \notin [tip : Blocks, done : BOOLEAN]

ASSUME BoundAssumption == {MaxQueue, MaxMoves, MaxStarts, MaxWaits} \subseteq Nat

Heights == {Height[b] : b \in Blocks}
Prev(b) == IF b = Genesis THEN Null ELSE Parent[b]

Fork(a, b) ==
  CHOOSE f \in Ancestors[a] \cap Ancestors[b] :
    \A g \in Ancestors[a] \cap Ancestors[b] : Height[g] <= Height[f]

\* The blocks above a on the chain that ends in b, from the lowest.
Path(a, b) ==
  [i \in 1 .. Height[b] - Height[a] |->
     CHOOSE c \in Ancestors[b] : Height[c] = Height[a] + i]

-----------------------------------------------------------------------------
(* Validation: the active chain and its notifications, under cs_main *)

Connected(b) == [type |-> "BlockConnected", block |-> b]
Flushed(b) == [type |-> "ChainStateFlushed", block |-> b]

Enqueue(events) ==
  /\ Len(queue) + Len(events) <= MaxQueue
  /\ queue' = queue \o events

Up == pc \notin {"refused", "fatal", "assert"}
Running == Up /\ stop # "flushed"

\* FlushStateToDisk in a connect or a disconnect runs before the tip is moved:
\* the coins are those of b, and the locator begins with the block before.
FlushInStep(b, before) ==
  \/ UNCHANGED <<flushed, stored>> /\ Enqueue(<<>>)
  \/ flushed' = b /\ stored' = known \cup {b} /\ Enqueue(<<Flushed(before)>>)

\* InvalidateBlock disconnects the tip; an index is not notified of it.
DisconnectTip ==
  /\ Running /\ moves < MaxMoves
  /\ tip # Genesis
  /\ tip' = Parent[tip]
  /\ FlushInStep(Parent[tip], tip)
  /\ moves' = moves + 1
  /\ UNCHANGED <<known, index, stop, waiter, starts, waits>>

\* A chain of as many blocks or more takes the place of the active one.  What
\* was written to disk on the way is announced before the blocks are.
ActivateBestChainStep(b) ==
  LET fork == Fork(tip, b)
      path == Path(fork, b)
      blocks == [i \in 1 .. Len(path) |-> Connected(path[i])]
      on(i) == IF i = 1 THEN fork ELSE path[i - 1]
  IN  /\ Running /\ moves < MaxMoves
      /\ b # tip /\ Height[b] >= Height[tip]
      /\ tip' = b
      /\ known' = known \cup Ancestors[b]
      /\ \/ Enqueue(blocks) /\ UNCHANGED <<flushed, stored>>
         \/ \E i \in 1 .. Len(path) :
              /\ flushed' = path[i]
              /\ stored' = known'
              /\ Enqueue(<<Flushed(on(i))>> \o blocks)
      /\ moves' = moves + 1
      /\ UNCHANGED <<index, stop, waiter, starts, waits>>

FlushStateToDisk ==
  /\ Running /\ moves < MaxMoves
  /\ flushed' = tip
  /\ stored' = known
  /\ Enqueue(<<Flushed(tip)>>)
  /\ moves' = moves + 1
  /\ UNCHANGED <<tip, known, index, stop, waiter, starts, waits>>

-----------------------------------------------------------------------------
(* CoinStatsIndex: entries by height, and by hash for blocks left behind *)

NoEntry == [block |-> Null, stats |-> {}]

EmptyDB ==
  [height |-> [h \in Heights |-> NoEntry], hash |-> [b \in Blocks |-> Null],
   locator |-> Null, muhash |-> {}]

LookUpOne(b) ==
  IF db.height[Height[b]].block = b THEN db.height[Height[b]].stats ELSE db.hash[b]

\* Mutant: the entry that will be overwritten is not kept.
DropHeightEntry(b) == db.hash
CopyHeightIndexToHashIndex(b) ==
  LET entry == db.height[Height[b]] IN [db.hash EXCEPT ![entry.block] = entry.stats]

\* RevertBlock reads the entry of the previous block by height.  If a block of
\* another branch is there it reads the entry by hash, into a pair of a hash
\* and a value: the entry holds the value alone, which is too short for that,
\* and the read fails.
PreviousReadable(b) == db.height[Height[b] - 1].block = Parent[b]

CustomRemove(b) ==
  /\ db' = [db EXCEPT !.hash = CopyHeightIndexToHashIndex(b)]
  /\ IF ~PreviousReadable(b)
     THEN pc' = "fatal" /\ UNCHANGED <<stats, current, iter>>
     ELSE /\ stats' = stats \ {b}
          /\ current' = Parent[b]
          /\ iter' = Parent[b]
          /\ pc' = IF db.height[Height[b] - 1].stats = stats' THEN pc ELSE "assert"

Appendable(b) == b = Genesis \/ current = Parent[b]

CustomAppend(b) ==
  /\ stats' = stats \cup {b}
  /\ current' = b
  /\ db' = [db EXCEPT !.height[Height[b]] = [block |-> b, stats |-> stats \cup {b}]]

\* The locator and the running hash are written together.
Commit(b) ==
  db' = IF b = Null THEN db ELSE [db EXCEPT !.locator = b, !.muhash = stats]

-----------------------------------------------------------------------------
(* Sync: the thread that catches up *)

NextSyncBlock(p) ==
  IF p = Null THEN Genesis
  ELSE LET fork == Fork(p, tip)
       IN  IF fork = tip THEN Null ELSE Path(fork, tip)[1]

Sync(step) == pc = step /\ ~synced /\ UNCHANGED <<chain, queue, stop, waiter, bounds>>

SyncInterrupted ==
  /\ Sync("top")
  /\ stop # "no"
  /\ best' = pindex
  /\ Commit(pindex)
  /\ pc' = "exited"
  /\ UNCHANGED <<synced, pindex, next, iter, stats, current>>

SyncNext ==
  /\ Sync("top")
  /\ stop = "no"
  /\ next' = NextSyncBlock(pindex)
  /\ iter' = pindex
  /\ IF next' = Null THEN pc' = "commit" /\ best' = pindex
                     ELSE pc' = "rewind" /\ UNCHANGED best
  /\ UNCHANGED <<synced, pindex, stats, current, db>>

SyncCommit ==
  /\ Sync("commit")
  /\ Commit(pindex)
  /\ pc' = "check"
  /\ UNCHANGED <<synced, best, pindex, next, iter, stats, current>>

\* Mutant: m_synced is set after the commit without looking at the chain.
SyncCheckNothing ==
  /\ Sync("check")
  /\ synced' = TRUE /\ pc' = "ready"
  /\ UNCHANGED <<best, pindex, next, iter, stats, current, db>>

\* Under cs_main: either the tip has been indexed, or there is more to do.
SyncCheck ==
  /\ Sync("check")
  /\ next' = NextSyncBlock(pindex)
  /\ IF next' = Null THEN synced' = TRUE /\ pc' = "ready"
                     ELSE synced' = FALSE /\ pc' = "rewind"
  /\ UNCHANGED <<best, pindex, iter, stats, current, db>>

\* Every so often the state is committed.
SyncTimed ==
  /\ Sync("timed")
  /\ best' = pindex
  /\ Commit(pindex)
  /\ pc' = "top"
  /\ UNCHANGED <<synced, pindex, next, iter, stats, current>>

\* Rewind, for the thread and for the callback: the blocks above the one that
\* the next block connects to are removed, a step for each.
RewindBlock ==
  /\ pc = "rewind"
  /\ iter # Prev(next)
  /\ CustomRemove(iter)
  /\ UNCHANGED <<chain, queue, synced, best, pindex, next, stop, waiter, bounds>>

RewindEnd ==
  /\ pc = "rewind"
  /\ iter = Prev(next)
  /\ best' = IF pindex = iter THEN best ELSE iter
  /\ pc' = "append"
  /\ UNCHANGED <<chain, queue, synced, pindex, next, iter, stats, current, db, stop, waiter, bounds>>

\* ProcessBlock, and then SetBestBlockIndex if it is a notification.
ProcessBlock ==
  /\ pc = "append"
  /\ UNCHANGED <<chain, queue, synced, next, iter, stop, waiter, bounds>>
  /\ IF ~Appendable(next)
     THEN pc' = "fatal" /\ UNCHANGED <<best, pindex, stats, current, db>>
     ELSE /\ CustomAppend(next)
          /\ pindex' = next
          /\ IF synced THEN pc' = "ready" /\ best' = next
                       ELSE pc' \in {"top", "timed"} /\ UNCHANGED best

-----------------------------------------------------------------------------
(* Callbacks of the validation queue, one at a time *)

Event(type) == queue # <<>> /\ Head(queue).type = type

Dequeue == queue' = Tail(queue)

\* Not in sync: the notification is ignored.  The thread goes on meanwhile.
IgnoreEvent ==
  /\ Event("BlockConnected") \/ Event("ChainStateFlushed")
  /\ ~synced /\ Up
  /\ Dequeue
  /\ UNCHANGED <<chain, index, stop, waiter, bounds>>

Callback == pc = "ready" /\ synced /\ Dequeue /\ UNCHANGED <<chain, stop, waiter, bounds>>

\* Mutant: only a block that extends the index is taken.
ConnectsToBest(b) == b = Genesis \/ Parent[b] = best
Connects(b) == b = Genesis \/ Parent[b] \in Ancestors[best]

BlockConnected ==
  /\ Event("BlockConnected")
  /\ Callback
  /\ Connects(Head(queue).block)
  /\ next' = Head(queue).block
  /\ iter' = best
  /\ pindex' = best
  /\ pc' = "rewind"
  /\ UNCHANGED <<synced, best, stats, current, db>>

\* The block does not connect to an ancestor of the best one: a warning.
BlockConnectedElsewhere ==
  /\ Event("BlockConnected")
  /\ Callback
  /\ ~Connects(Head(queue).block)
  /\ UNCHANGED index

ChainStateFlushed ==
  /\ Event("ChainStateFlushed")
  /\ Callback
  /\ IF Head(queue).block \in Ancestors[best] THEN Commit(best) ELSE UNCHANGED db
  /\ UNCHANGED <<pc, synced, best, pindex, next, iter, stats, current>>

-----------------------------------------------------------------------------
(* BlockUntilSyncedToCurrentChain *)

Waiter(b, done) == [tip |-> b, done |-> done]

\* Mutant: does not wait for notifications.
BlockNever ==
  /\ Up /\ stop = "no"
  /\ synced /\ waiter = Null /\ waits < MaxWaits
  /\ waits' = waits + 1
  /\ waiter' = Waiter(tip, TRUE)
  /\ UNCHANGED <<chain, queue, index, stop, moves, starts>>

\* Returns at once if the index has the tip, or else waits for the queue.
BlockUntilSynced ==
  /\ Up /\ stop = "no"
  /\ synced /\ waiter = Null /\ waits < MaxWaits
  /\ waits' = waits + 1
  /\ IF tip \in Ancestors[best]
     THEN waiter' = Waiter(tip, TRUE) /\ UNCHANGED queue
     ELSE waiter' = Waiter(tip, FALSE) /\ Enqueue(<<[type |-> "wake"]>>)
  /\ UNCHANGED <<chain, index, stop, moves, starts>>

Woken ==
  /\ Event("wake")
  /\ pc = "ready"
  /\ Dequeue
  /\ waiter' = [waiter EXCEPT !.done = TRUE]
  /\ UNCHANGED <<chain, index, stop, bounds>>

-----------------------------------------------------------------------------
(* Start, shutdown and crash *)

\* BaseIndex::Init and CustomInit with the locator the database has, and the
\* chain that was loaded.
InitIndex(data, loaded, chaintip) ==
  /\ best' = data.locator /\ pindex' = data.locator
  /\ stats' = data.muhash
  /\ current' = data.locator
  /\ next' = Null /\ iter' = Null
  /\ synced' = (data.locator = chaintip)
  /\ pc' = IF data.locator \notin loaded \cup {Null} THEN "refused"
           ELSE IF data.locator = chaintip THEN "ready" ELSE "top"

Interrupt ==
  /\ Running /\ stop = "no" /\ starts < MaxStarts
  /\ stop' = "interrupted"
  /\ UNCHANGED <<chain, queue, index, waiter, bounds>>

\* Shutdown writes the chainstate, and lets the queue run empty after that.
ShutdownFlush ==
  /\ Running /\ stop = "interrupted"
  /\ stop' = "flushed"
  /\ flushed' = tip /\ stored' = known
  /\ Enqueue(<<Flushed(tip)>>)
  /\ UNCHANGED <<tip, known, index, waiter, bounds>>

Restart ==
  /\ starts < MaxStarts
  /\ starts' = starts + 1
  /\ tip' = flushed /\ known' = stored
  /\ queue' = <<>> /\ waiter' = Null /\ stop' = "no"
  /\ InitIndex(db, stored, flushed)
  /\ UNCHANGED <<flushed, stored, db, moves, waits>>

Shutdown ==
  /\ stop = "flushed"
  /\ queue = <<>>
  /\ pc = "exited" \/ pc = "ready"
  /\ Restart

Crash ==
  /\ Up
  /\ Restart

\* The index is switched on with a chain that is on disk.
Init ==
  /\ tip \in Blocks
  /\ flushed = tip
  /\ known = Ancestors[tip] /\ stored = Ancestors[tip]
  /\ queue = <<>>
  /\ pc = "top" /\ synced = FALSE
  /\ best = Null /\ pindex = Null /\ next = Null /\ iter = Null
  /\ stats = {} /\ current = Null
  /\ db = EmptyDB
  /\ stop = "no" /\ waiter = Null
  /\ moves = 0 /\ starts = 0 /\ waits = 0

Validation ==
  \/ DisconnectTip
  \/ \E b \in Blocks : ActivateBestChainStep(b)
  \/ FlushStateToDisk

Thread ==
  \/ SyncInterrupted \/ SyncNext \/ SyncCommit \/ SyncCheck \/ SyncTimed
  \/ RewindBlock \/ RewindEnd \/ ProcessBlock

Callbacks ==
  \/ IgnoreEvent \/ BlockConnected \/ BlockConnectedElsewhere
  \/ ChainStateFlushed \/ Woken

Next ==
  \/ Validation \/ Thread \/ Callbacks
  \/ BlockUntilSynced
  \/ Interrupt \/ ShutdownFlush \/ Shutdown \/ Crash

Spec == Init /\ [][Next]_vars

\* The sync thread and the scheduler's thread run, and a shutdown that was
\* begun goes on.
FairSpec == Spec /\ WF_vars(Thread) /\ WF_vars(Callbacks) /\ WF_vars(ShutdownFlush \/ Shutdown)

-----------------------------------------------------------------------------
(* Correctness *)

Quiet == synced /\ pc = "ready"

\* Whatever was written to the database in between, the last committed state
\* can be read back: CustomInit finds the entry of the locator's block, and
\* it matches the running hash, so that no crash makes it report that the
\* index may be corrupted.
CommittedReadable ==
  db.locator # Null =>
    /\ LookUpOne(db.locator) = db.muhash
    /\ db.muhash = Ancestors[db.locator]

\* No block is lost where the notifications take over from the sync thread:
\* when the queue is empty the index is at the tip, or at a block above it
\* that was disconnected without notice.
NothingMissed ==
  Quiet /\ queue = <<>> => tip \in Ancestors[best]

\* Between notifications the running totals are those of the best block, and
\* reverting a block has never led to totals other than the stored ones.
TotalsOfBest ==
  /\ pc # "assert"
  /\ Quiet => current = best /\ stats = Ancestors[best]

\* What the index holds, on disk and in memory, adds up over the right chain,
\* whatever was rewound, overwritten or lost before.
IndexConsistent == CommittedReadable /\ TotalsOfBest

\* A caller that BlockUntilSyncedToCurrentChain let go on finds the tip it
\* asked for in the index, also if a backlog of notifications makes the index
\* go back and forth in between.
WaiterServed ==
  waiter # Null /\ waiter.done => LookUpOne(waiter.tip) = Ancestors[waiter.tip]

\* Rewind succeeds: the entries of blocks that were left behind are "still
\* accessible after the height index entry is overwritten" (CustomRemove).
RewindSucceeds == pc # "fatal"

\* Once the chain is left alone the index catches up, unless it could not be
\* started or had to stop.
CatchesUp ==
  <>[][UNCHANGED <<tip, starts, stop>>]_vars =>
    <>[](\/ pc \in {"refused", "fatal"}
         \/ stop # "no"
         \/ synced /\ tip \in Ancestors[best])
=============================================================================
