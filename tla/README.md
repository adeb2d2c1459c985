# DRIP node: TLA+ models, model checks and proofs

DRIP is a proof-of-work node derived from Bitcoin Core, with its own network
parameters and one consensus change of its own: a difficulty fork at height
35,000 that shortens the retarget period. This directory holds TLA+ modules that
model the parts of the node whose correctness depends on order, failure or
arithmetic at a boundary, TLC configurations that check them on small instances,
and TLAPS proofs for instances of every size. Paths below are relative to the
repository root.

To check: `tlc -config <file>.cfg <module>` for the pairs in the table of runs,
`tlapm <module>` for the eight `*Proofs` modules.

## 1. Inventory

What the node consists of, the state each part keeps, and where it is hard.

| Part | Source | State | Operations | Hard because |
|---|---|---|---|---|
| Proof of work, fork | `src/pow.cpp`, `src/consensus/params.h`, `src/arith_uint256.cpp` | none (functions of the chain) | next work, retarget, permitted transition | one boundary in the life of the chain, rounding in compact form |
| Header acceptance | `src/validation.cpp` | header chain, clock | contextual checks | time rules, median time, timewarp |
| Block templates, generate RPC | `src/node/miner.cpp`, `src/rpc/mining.cpp` | template, nonce, time | create, update time, solve | works on a tip that moves, without a lock |
| Coins caches | `src/coins.cpp`, `src/coins.h` | map of entries with DIRTY and FRESH, per layer | fetch, add, spend, merge, flush, sync, uncache | a wrong flag shows two flushes later |
| Block index, chain activation | `src/validation.cpp`, `src/node/blockstorage.cpp` | index, failure flags, candidates, unlinked blocks, sequence ids, best header, tip | accept header and block, link, activate, connect, disconnect, invalidate, precious, reconsider | two locks, one of which is released in the middle of two long operations |
| Flush and recovery | `src/txdb.cpp`, `src/validation.cpp` | coins database, its head marks, block index on disk | batch write, flush, replay, load | crash between batches, unsynced batches, crash in the recovery |
| Script check queue | `src/checkqueue.h` | queue, counters, result, per-thread batch | add, complete, loop, destroy | hand-made thread pool with condition variables |
| Task scheduler | `src/scheduler.*` | queue ordered by time, stop flags | schedule, repeat, mock forward, service, stop | `notify_one`, timed waits, several threads |
| Serial task runner | `src/scheduler.*` | pending callbacks, running flag | insert, process, flush | check and act in different critical sections |
| Validation interface | `src/validationinterface.cpp` | list of subscribers | register, notify, sync | subscribers leave while being called |
| Memory pool, transaction graph | `src/txmempool.cpp`, `src/txgraph.cpp` | transactions, clusters | accept, replace, evict, reorganize | limits, linearization |
| Transaction requests | `src/txrequest.cpp` | announcements per peer, timers | announce, request, expire, complete | an order kept by looking at one neighbour, late answers, a clock that goes back |
| Orphans, transaction download | `src/node/txorphanage.cpp`, `src/node/txdownloadman_impl.cpp` | orphans per peer, work sets, filters of refused transactions | receive, resolve, try packages, limit | two hashes per transaction, limits shared by peers, filters cleared by blocks |
| Headers presync | `src/headerssync.cpp`, `src/net_processing.cpp` | commitments, two phases, buffer of headers | presync, redownload, release | two passes over a chain that may grow or change, a commitment every so many headers |
| Version bits | `src/versionbits.cpp` | state per period, cache | state for a block | caches across forks |
| Indexes | `src/index/base.cpp`, `src/index/coinstatsindex.cpp` | best indexed block, entries by height and by hash, committed locator | sync, connect, rewind, commit, wait | hand-over to notifications, reorganizations, interrupts, crashes |
| Block files, pruning | `src/node/blockstorage.cpp` | file infos, positions | allocate, flush, prune | order against the index |
| Peers, addresses, bans | `src/net.cpp`, `src/net_processing.cpp`, `src/addrman.cpp`, `src/banman.cpp` | connections, per-peer state | messages | size, randomness |
| Wallet, RPC, GUI, script, vendored code | | | | see section 7 |

How they interact: the network and the RPC interface hand headers and blocks to
chain activation, on several threads. Header acceptance uses the difficulty
rules. Connecting a block verifies its scripts through the check queue and
writes its coins into a view on top of the coins cache; now and then the cache
is flushed to the coins database, after the block index. Every change of the
chain is announced through the serial task runner, which is served by the
scheduler's thread; an index follows the chain by these announcements once its
own thread has caught up, and transaction download clears its filters by them.
Headers of a peer go through the two-phase download before they are stored.
Transactions are requested through the request tracker, wait for their parents
in the orphanage, and enter the memory pool alone or as a package. The generate RPC reads the chain, mines without a lock and
hands its block back.

What makes each part correct is written next to each property in its module; the
hazards that the properties answer are listed in `PROJECT.json` at their lines.

## 2. Modules

A module's header says what it abstracts. Definitions keep the names of the
source; `PROJECT.json` maps each one to its lines. A critical section is one
step; where the code gives up a lock, waits, or works without it, a step ends.
Definitions that a comment calls a mutant are deliberate errors: replacing the
definition that follows by it makes the property named in `PROJECT.json` fail,
which shows that the property depends on that code.

- **`Difficulty`** - the functions of `pow.cpp` with the fork, the compact
  encoding and the miner's minimum time. 256-bit numbers are scaled down: a
  compact target has `CompactDigits` digits of base `CompactBase`, arithmetic
  wraps at `ArithDigits` digits. Overflow, rounding and the sign bit behave as in
  `arith_uint256`.
- **`HeaderChain`** - a node that extends its chain with headers of any time
  while the clock moves. **`BlockMining`** extends it by the generate RPC, and
  **`HeadersSync`** by a second node at genesis that downloads the chain with
  `HeadersSyncState`, as `net_processing.cpp` drives it: getheaders and answers,
  block announcements, the response time limit, and a peer that answers with
  other headers. A commitment is the header itself, that is, a hash without
  collisions; the code keeps one salted bit. The work threshold is the constant
  `MinimumChainWork`, since the downloading node stays far behind.
- **`CoinsCache`** - database, tip cache and block view with all flags.
  **`UtxoSet`** is what the stack promises: one map of coins per layer, without
  flags. `CoinsCache` implements it with the coins each layer shows as the
  refinement mapping.
- **`ChainActivation`** - block index, candidates, flags and tip. A thread's
  `pc` says whether it is in a section of `cs_main` (`link`, `find`, `step`) or
  of `m_chainstate_mutex` (these and `abcNext`, `invalidate`); between sections
  other threads deliver headers and blocks.
- **`ChainstateFlush`** - `dbs` is the list of states the coins database went
  through since the last sync; a crash falls back to any of them. A coin is its
  outpoint and the height that made it, so that a transaction that is in both
  branches yields different coins.
- **`CheckQueue`** - the loop of `CCheckQueue` for workers and master. A check
  carries its round, so that an error can be traced to it.
- **`Scheduler`** - `CScheduler` with a clock. **`SerialTaskRunner`** - the runner
  on a scheduler that is what it promises. **`SerialQueue`** is what the runner
  promises: one callback at a time, each once, in order.
- **`TxRequest`** - the tracker: a state, a time and a priority per announcement.
  `SetTimePoint`'s loops take a step per announcement. **`RequestRules`** is what
  `src/txrequest.h` promises, without the states of the tracker: who announced,
  who was asked, who is done, and which peer may be asked. `TxRequest`
  implements it.
- **`IndexSync`** - a chain that moves and announces it through a queue, and
  `BaseIndex` with the entries of `CoinStatsIndex`: its thread, the callbacks,
  rewinding, commits, callers that wait, interrupt, shutdown, crash, restart.
  The statistics of a block are the set of blocks they add up, so that a sum
  over the wrong branch is visible. An entry that was written is there after a
  crash; what is lost is the locator of a commit that did not happen.
- **`TxOrphanage`** - operators on the orphanage; **`TxDownload`** - the download
  manager on it, with the handling of inv and tx messages, of orphans to be
  tried again, of one-parent-one-child packages, and of blocks. The request
  tracker appears without times (any candidate may be asked, any request may
  expire), Bloom filters are exact sets, and the memory pool neither evicts nor
  replaces.

`MC*` modules give the trees and sets of the runs. The `*Proofs` modules are
described in section 5.

## 3. Runs

Eleven runs that pass and one that shows a disagreement. States are distinct
states.

| Run | Module, configuration | Instance | Shows |
|---|---|---|---|
| `block_mining` | `MCBlockMining`, `BlockMining` | interval 3 before the fork at 4 and 2 after it, heights up to 6, with mining: 585,000 states | Every retarget measures exactly the period it ends, across the fork; headers presync permits every chain that validation accepts; the miner respects the timewarp limit at legacy period starts; templates are acceptable, and so are blocks mined from them as long as no timestamp was forced. |
| `headers_sync` | `MCHeadersSync`, `HeadersSync` | chain of up to 7 headers, 2 per message, a commitment every 2, a buffer of 1, one dishonest continuation, one timeout: 105,000 states | Only chains with enough work are stored, the buffer is always a chain, and an honest peer's chain is stored in the end. |
| `coins_cache` | `MCCoinsCache`, `CoinsCache` | two outpoints, two coins | Flags are sound, the cache passes its own sanity check, the stack implements `UtxoSet`. |
| `chain_activation` | `MCChainActivation`, `ChainActivation` | branches 1-2 and 3-4, 2 fails its checks, 4 fails to connect, two threads, two operator calls: 592,000 states | The index is consistent in `CheckBlockIndex`'s sense (in the middle of an `InvalidateBlock`, what its map covers), the active chain is usable, `cs_main` is never released on a worse tip, calls return, and a better chain is activated or found invalid. |
| `chainstate_flush` | `MCChainstateFlush`, `ChainstateFlush` | branches 1-2 and 3-4 over three outpoints, two crashes, up to two unsynced batches: 253,000 states | The database never claims a tip whose coins it does not hold; the node comes back with the right coins. |
| `check_queue` | `CheckQueue`, `CheckQueue` | two workers, two rounds of up to two calls of up to two checks: 94,000 states | Verdicts are about their own round, checks do not outlive it, `Complete` and the destructor return. |
| `scheduler` | `Scheduler`, `Scheduler` | two service threads, two tasks, each once or repeated: 451,000 states | Tasks are run, not early when one thread serves; stop and drain end. |
| `serial_task_runner` | `SerialTaskRunner`, `SerialTaskRunner` | two clients, two service threads, four callbacks: 26,000 states | The runner implements `SerialQueue`, strands nothing, and runs everything before the shutdown ends. |
| `tx_request` | `MCTxRequest`, `TxRequest` | three peers, one of them preferred, one transaction, a clock that goes back once: 16,000 states | At most one announcement is selected, and it is the best; the tracker implements `RequestRules`; whatever can be asked for is asked for. |
| `index_sync` | `MCIndexSync`, `IndexSync` | branches of a small tree, two moves of the chain, one restart or crash, one waiting caller: 541,000 states | No block is missed in the hand-over, totals are of the best block, committed entries can be read, waiting callers find their tip, the index catches up. |
| `tx_download` | `MCTxDownload`, `TxDownload` | two peers, a parent in two versions, three children, two blocks: 141,000 states | The orphanage keeps its limits and a peer that keeps to its share, with the ancestors of what it announces, loses nothing to others; an orphan whose parents are there is tried; an honest peer's paying transaction is accepted. |
| `index_rewind` | `MCIndexSync`, `IndexRewind` | as `index_sync` | Violated, see section 6. |

**Bounds.** They are constants named in the modules (`MaxHeight`, `MaxNow`,
`MaxRounds`, `MaxOps`, `MaxUnsynced`, `MaxCrashes`, `MaxAdds`, `MaxChecks`,
`MaxTime`, `MaxTasks`, `MaxInserts`, `MaxTimeouts`, `MaxAnswers`, `MaxBack`,
`MaxQueue`, `MaxMoves`, `MaxStarts`, `MaxWaits`, `MaxConnects`, `MaxTips`). Why
they are enough to meet the cases: the header chain has a legacy retarget, a
fork inside a legacy period and a retarget after it, with times that clamp in
both directions; the trees have a reorganization that has to disconnect before
it connects, a branch that turns out invalid half way, and blocks that arrive
before their parents; two operator calls are what a flag needs to be set and
cleared (five calls reach a state in which `CheckBlockIndex` fails, see section 6:
there the proofs go further than the run); two crashes interrupt a flush and then the recovery from it; two
unsynced batches let a crash lose the final batch alone or with the one before;
two workers let an error lose the race, and two rounds let it be left over; two
service threads are what `notify_one` can choose between. Operations on
different outpoints do not interact in the coins cache, so two are enough to see
that. In the headers download a buffer of one is the smallest for which a
released header is covered by a commitment, seven headers fill three messages in
each phase, and the peer may become dishonest once its chain is complete, which
is when another continuation could be stored. In the request tracker,
announcements of different transactions do not interact; three peers are needed
for a selection to be replaced while another candidate waits (an instance with
two transactions and two peers passes as well). Two moves of the chain are a
reorganization and a way back; the queue holds a backlog of both. In the
transaction download, the second version of the parent has the txid of the
first, and one of the children is heavier than a peer's share.

Deadlock is not checked where a bounded environment may come to rest:
`chain_activation`, `headers_sync`, `index_sync`, `index_rewind` and
`tx_download`. When all blocks and transactions have arrived and all calls are
made, a node has nothing to do.

## 4. Fairness

Only steps that the code takes by itself are fair, and only weakly:
- `ChainActivation`: each thread inside a call proceeds when it can. Nobody is
  obliged to deliver blocks or to call. A mutex that is free again is taken by
  someone; with weak fairness per thread a thread may wait for as long as others
  keep taking it, and the properties do not claim otherwise.
- `ChainstateFlush`: a node that is down is started and goes on with its recovery
  and with a flush it began; LevelDB syncs at some time. Crashes are bounded:
  with a crash in every recovery no node would ever start.
- `CheckQueue`: threads that can run do; a thread that is about to notify does.
  A spurious wake-up is allowed and never relied upon.
- `Scheduler`: as for the check queue; time passes; tasks return.
- `SerialTaskRunner`: threads go on, callbacks return, some thread serves the
  queue while any is left; `flush` goes on once the scheduler has stopped.
- `HeadersSync`: an honest peer answers what it was asked and announces its
  blocks; the response time passes.
- `TxRequest`: calls return; time passes between calls; `SendMessages` asks for
  every peer again and again. The last two are strong fairness, since both are
  possible between calls only and calls may come without end.
- `IndexSync`: the thread and the callbacks go on; a shutdown that began ends.
- `TxDownload`: the message loops come to every peer, honest peers answer,
  requests to others expire, notifications are handled. Each of these steps ends
  what enables it, so fairness is stated as: it is not enabled for ever.

## 5. Proofs

Eight modules hold theorems, for all values of the constants that satisfy the
assumptions of the modules. These say no more than that blocks form a tree with
increasing work, that connected blocks are valid, that values are distinct and
"none" is none of them, that the salted hashes of a transaction's peers are
distinct, that a cache holds finitely many coins, that a timespan is at least as
long as the spacing of blocks, that times, bounds and the digits of a compact
number are integers (a compact number has at least two digits of an even base),
that the limit of proof of work fits the arithmetic, that the headers
download has a positive commitment period and message size and a buffer that,
with one more header, covers a period, and that weights are natural numbers and
the orphanage has a place for each of finitely many peers;
TLC evaluates them in the runs. Where a theorem has a hypothesis of its own, it
is named below.

- **`SanityProofs`**, first half: `FlagsSound`, that `BatchWrite` never
  meets a misapplied FRESH flag, and the refinement of `UtxoSet`, for any set of
  outpoints and coins. `FreshSound` alone is not inductive: `AddCoin` marks a coin
  FRESH because the entry it found is not DIRTY, which is justified only if
  entries that are not DIRTY agree with the layer below, and `BatchWrite` relies
  on spent entries being DIRTY. The invariant is the conjunction of the three.
  `SanityCheck` adds the counters of memory usage: each equals a sum over the
  entries of its cache. A sum is the size of a set of bytes (`UsageOf`), so that
  what an operation adds and takes off is a matter of disjoint finite sets.
- **`SanityProofs`**, second half: `OrphanageSane`, for any transactions and
  weights and any finite set of peers. Each total is the size of a set again; the
  weight of all orphans is at most the sum of what the peers use, since an orphan
  has an announcer, and the latency score of all at most the sum of theirs.
  `LimitOrphans` takes announcements from no peer but the suspects, which exceeded
  their shares at its start, and one with each step, so that it ends within the
  limits or without suspects; in the second case every peer that is left is within
  its share, and the shares add up to the limits (`Calm`). That a loop or a fold
  computes what its recursive definition says is proved for each by a smallest
  counterexample.
  `Calm` is what the comment at `src/node/txorphanage.cpp:159` claims without an
  argument: where a global limit is exceeded, some peer has a score above 1.
  `StrandedOnlyByErasure` follows one orphan through the calls that a message
  makes (`Follows`): its announcements only become fewer, marks stay on those that
  stay, and only an orphan that nobody has to reconsider gets a new mark.
  `ShareProtected` follows one peer (`Fair`): requests to it and orphans of it are
  all of hashes it may come to be asked for, which are what it has and, with a
  transaction, the parents. A peer whose share covers these is never a suspect of
  `LimitOrphans`, also not in the middle of a call. Both proofs corrected their
  properties: with three peers a call may mark an orphan and trim it again; a
  peer is charged for an ancestor that it was asked for and another peer sent;
  and a block erases orphans that are in conflict with it.
- **`ChainActivationProofs`**, first half: types, mutual exclusion of the two locks,
  `ActiveChainUsable` and `KeyStable`, for any tree, any number of threads and
  operator calls. The active chain stays free of failed blocks because of what
  the holder of `m_chainstate_mutex` remembers: `pindexMostWork` stays valid
  although `cs_main` is released (only a block that was just received, which no
  linked block is above, can be marked meanwhile), and the block that
  `InvalidateBlock` disconnected last is off the chain.
- **`ChainActivationProofs`**, second half: `ForwardProgress`, what
  `CheckBlockIndex` asserts, and that the tip is the best block. The rules hold
  only while `cs_main` is free, so the invariant (`IndexInv`) says for every
  place in the code what is owed there: which blocks still have to be linked,
  which flags still have to be inherited, against which tip the candidates were
  last pruned, and that whoever leaves a better block behind is still going to
  look for it. A second one (`MapInv`) is about the states in which an
  `InvalidateBlock` has released `cs_main`: a block of its map that lies above a
  failed one is marked, and one that may become the tip is a candidate. Together
  they give the rules whenever `cs_main` is free, for every block, or, in those
  states, for the map and the active chain (`Covered`); for blocks that the map
  missed the rules do not hold there, see section 6. `IndexInv` has two forms. The one that compares blocks by their work is
  inductive for every operator call (`IndexSound`, `TipHasMostWork`). The one that
  compares as `CBlockIndexWorkComparator` does gives `CheckBlockIndex` and
  `TipIsBest`, in every behaviour in which no step lowers the rank of the tip
  (`TipKeepsRank`). Only `PreciousBlock` can, and it does: see section 6. Without
  preciousblock calls there is no hypothesis (`CheckBlockIndexWithoutPrecious`).
- **`ChainstateFlushProofs`**: `DiskConsistent`, `CacheAtTip` and
  `SameTransition`, for any tree, coins, batches and crashes. The invariant describes a half written database: every
  coin is as at one of the two heads. Disconnecting a block gives each coin it
  touches the value below the block whatever it was before, so that after the
  rollback each coin is as at the fork or as at the new tip; rolling forward
  turns the first kind into the second. The same invariant holds of a recovery
  that is interrupted, since it writes towards the same head.
- **`CheckQueueProofs`**: `ChecksFreed` and `RoundVerdict`, for any number of
  workers, batch size, rounds and checks. Both rest on `nTodo`: it is the length
  of the queue and the number of checks that were taken and not reported, again
  as the size of a set, so that `nTodo = 0` leaves no thread with a check. For the
  verdict, a failing check of the round is at every moment in the queue, in a
  batch, in a `local_result` that is going to be reported, or in `m_result`, and
  what a worker kept from an earlier round is never reported.
- **`SchedulerProofs`**: of the task runner `RunningExact`, `NoneStranded` and the
  refinement of `SerialQueue`, for any number of threads. Whoever turns away found
  nothing pending or a callback running, and the thread that runs it looks again.
  Of the scheduler `NotEarly`, for any tasks and times: a thread that waits alone
  waits for the time of the first task, or a wake-up is on its way to it, since
  each call that puts a task in front notifies (`FirstTaskDue`); and
  `DrainedEmpty`, the safety part of `StopReturns`, for any number of threads of
  which there is one: the counter is the number of threads in `serviceQueue`, and
  the last one to leave saw the queue empty when nobody else could add to it
  (`Ended`).
- **`DifficultyProofs`**: `RetargetMeasuresOwnPeriod`, for every timespan, spacing
  and fork height. The heights of a period are those with one quotient by the
  interval, counted from the genesis block before the fork and from the fork
  block after it, wherever the fork falls in a legacy period.
  `MinedAcceptable`, where the required work does not depend on a block's time
  (`~fPowAllowMinDifficultyBlocks`; on a test network it does not hold, see
  section 6); its parts about templates and minimum times hold on every network
  (`TemplateCorrect`). `PresyncPermitsChain`, for every limit, number base and
  number of digits: `GetNextWorkRequired` scales a target by a clamped timespan
  and `PermittedDifficultyTransition` by the two bounds of the clamp, and both
  scaling and rounding to compact form keep the order of targets. The hypothesis
  is that the rule of minimum difficulty is on (then everything is permitted), or
  that the retarget starts from the tip's target and the limit times four
  timespans fits the arithmetic (`Regular`). Every network of
  `src/kernel/chainparams.cpp` satisfies it: main, signet and the DRIP chain the
  second part, the test networks and regtest the first. The powers of the base are
  a recursive function (`Power`); that it is one, and its laws, are proved by
  looking at a smallest counterexample.
  Of the headers download, `StoredHasWork` and `BufferConnects`, for every set of
  headers, period of commitments and size of the buffer. That a header is stored
  only on a chain with the required work is about two phases: the first chain had
  the work, and while the work seen again is not enough, the chain of the second
  phase is that of the first up to the last commitment it has met (`Covered`).
  The count of headers in the buffer keeps a commitment above every header that
  leaves it. With an honest peer the buffer continues the block index: the index
  is finite and closed under ancestors (`NodeOK`), and an honest peer's chain only
  grows, so that it is not refused on its way (`HonestOK`, `PassedAt`). The second
  theorem has the hypothesis that no clock goes back (`ClockSteps` are natural
  numbers): a header that passed the check of its time has to pass it again.
- **`TxRequestProofs`**: types and `TrackerSane`, for any peers, transactions and
  delays. The invariant speaks of the announcements of one transaction at a time,
  since no operation relates two. A selected candidate is the best of those that
  are ready; priorities are distinct because the preferred bit lies above the
  hash, so a neighbour in the index decides what all candidates would. While
  `SetTimePoint` runs, each loop's end says what it leaves behind, and the second
  loop makes nothing that the first would have to handle. Then, that the tracker
  implements `RequestRules`: delayed, ready and best candidates are one to the
  rules; promoting and demoting them is a stutter. When both loops are done, the
  best candidate is the one the rules allow to be requested, and this advice
  stands until the caller has used it.
- **`IndexSyncProofs`**: `IndexConsistent`, for any tree, with reorganizations,
  interrupts and crashes at any step. Entries by height are overwritten by other
  branches, so the invariant says which entries can still be found: a block in
  the running or in the committed totals has one by height or by hash, and a
  block that is only in the committed totals has one by hash, which no branch
  overwrites. A block leaves the running totals only by `CustomRemove`, which
  copies its entry first, and a restart begins at the committed locator. The
  facts about the tree are proved by looking at a smallest counterexample.
  `NothingMissed` and `WaiterServed` relate the index to the notifications that
  are still waiting (`JInv`): the blocks in the queue are a chain of moves that
  ends at the tip or above it, and a synced index contains the tip or connects to
  one of them, also while it rewinds and appends. A waiting caller's tip is reached by the
  notifications before its own, or its entry is readable already.

The invariants that are more than the properties they imply (`IndexInv`, `MapInv`, `JInv`,
those of the check queue and of the counters) were checked by TLC on the
instances of the runs before they were proved.

Model-checked only: the liveness properties, which are outside this prover's
reach. Every invariant, action property and refinement of a passing run is proved,
some under the hypotheses named above.

## 6. Disagreements between code and its words

Shown by the run `index_rewind`: when an index has to rewind to a block whose
height entry another branch has overwritten, `CoinStatsIndex::RevertBlock` reads
the copy of the entry from the hash index as a pair of a hash and a value
(`src/index/coinstatsindex.cpp:427`), but `CopyHeightIndexToHashIndex` wrote the
value alone (`279`). The read fails, `Rewind` returns false, and the node stops
with a fatal error, although `CustomRemove` made the copy for this case (`288`).
It takes a reorganization that was not committed before a restart, of more than
one block: `test/functional/feature_coinstatsindex.py` has one of one block.

Met while modelling, without a run of its own:
- `InvalidateBlock` releases `cs_main` between disconnections and means to "keep the
  block index in a consistent state as we disconnect blocks -- in particular we need
  to add equal-work blocks to setBlockIndexCandidates as we disconnect"
  (`src/validation.cpp:3611`), but it takes them from a map that it made once. The
  tip is 1; `InvalidateBlock(1)` makes its map; block 3 arrives, of the same work but
  later, so that it ranks below the tip and is no candidate; 1 is disconnected, and
  3, which is not in the map, should be one now. The clean-up at the end (`3746`)
  adds it, and its comment (`3741`) calls the error unobservable; but
  `CheckBlockIndex` is called before it (`3723`), and with -checkblockindex its
  assertion at `5416` fails. Other assertions can fail there in the same way: a
  header that arrived above a block that is then disconnected is not marked (`5353`),
  and the best header is computed from the same map (`5368`). So can they in threads
  that accept headers or blocks meanwhile (`4333`, `4392`, `4476`). When the call is
  over, the candidates and the marks are right again. This is why `CandidatesExact`
  and `FailureInherited` are about the covered blocks while a call is half done. To
  see it, check `ConsistentWhileDisconnecting` as an invariant of `chain_activation`'s
  instance with `MaxOps = 1` and `Ops = {"invalidate"}`: TLC finds the behaviour above
  after 7,000 states.
- Found by the proof of `CheckBlockIndex`: `PreciousBlock` starts its counter at -1
  again when the tip has more work than at the last call
  (`src/validation.cpp:3571`). On the tree 0-1 with tips 2 and 3 on 1: call
  invalidateblock 1, preciousblock 2 (which gets -1), preciousblock 3 (-2),
  reconsiderblock 1, and 3 becomes the tip. preciousblock 3 now gives it -1, so
  that block 2, which was pruned from the candidates, has the tip's rank; if its
  address decides for it, the assertion at `src/validation.cpp:5416` fails, as does
  `TipIsBest`. No other rule of the index is affected: `IndexSound` and
  `TipHasMostWork` hold of these behaviours too. To see it, run `ChainActivation` with one thread and `MaxOps = 5`
  on this tree; with `MaxOps = 2`, as in the run, it is out of reach.
- On a network with the minimum-difficulty rule, the generate RPC moves a
  block's time (`src/rpc/mining.cpp:186`) and keeps its `nBits`, which that time
  may have changed; `src/node/miner.cpp:59` recomputes it for this reason.
- `InvalidateBlock` on an active block releases `cs_main` between
  disconnections. A block whose grandparent it is may be stored then; if its
  parent is marked as failed already, it is not entered into `m_blocks_unlinked`
  (`src/validation.cpp:3901`). After `reconsiderblock` nothing links it when its
  parent arrives, against the rule at `src/validation.cpp:5439`. This is why
  `WaitingUnlinked` is about the time before operator calls.
- Releasing headers clears the time of the last getheaders although one was just
  sent (`src/net_processing.cpp:2912`): an announcement may then send a second
  one, whose answer ends the download. It starts again later.
- `m_max_commitments` rounds down (`src/headerssync.cpp`), while a chain packed
  as densely as the rules allow could need one more.
- An index that is still syncing commits entries ahead of the chainstate on
  disk, so that after a crash its best block may be unknown and `Init` refuses,
  although `Rewind` and `ChainStateFlushed` avoid this.
- `EraseForPeer` drops an orphan's mark for reconsideration with the peer that
  had it, and other announcers of the orphan do not get it, although a comment
  at `src/node/txorphanage.cpp:543` relies on it being tried.
- `BlockConnected` does not put the children of confirmed transactions into a
  work set; an orphan whose parent arrives in a block waits until something else
  touches it. `StrandedOnlyByErasure` excepts these two cases, and a mark that is
  trimmed in the call that would set it.
- If a parent has no witness, its txid is its wtxid, and forgetting the requests
  for a parent that is refused by itself also forgets the other peers who were
  noted as sources for it.
- `doc/DRIP-technical-overview.md:87` gives block 36,108 as the first adjustment
  under the new parameters; `src/pow.cpp:27` makes it 36,008.
- `GetMinimumTime` (`src/node/miner.cpp:43`) and `getnetworkhashps -1`
  (`src/rpc/mining.cpp:85`) use the legacy interval after the fork. The first
  leaves the start of a new period without the timewarp floor, so
  `MinimumTimeGuardsPeriodStart` is about the legacy periods.
- The forced timestamp update of the generate RPC (`src/rpc/mining.cpp:192`) can
  set a time at or below the median time past, and the solved block is refused.
- `ResetBlockFailureFlags` (`src/validation.cpp:3797`) leaves the other children
  of a reconsidered ancestor marked as failed without a failed ancestor
  (`src/validation.cpp:5351`). This is why `FailureCaused` is about the time before
  operator calls.
- `InvalidateBlock` recomputes `m_best_header` from the map it made before it
  released `cs_main` (`src/validation.cpp:3688`, `3710`): a header that came in
  between is overlooked, one that failed in between may be chosen. This is why
  `BestHeaderExact` is about the time before operator calls.
- With several service threads, `CScheduler` may run a task early: the thread
  whose wait timed out takes the first task without looking at its time
  (`src/scheduler.cpp:53`), against `src/scheduler.h:49`. The node has one such
  thread, and `NotEarly` is about that.

## 7. Not modelled

- Pruned block files, assumeutxo snapshots, reindexing; full disks and other
  system errors, which stop the node. A snapshot is a second chainstate, whose
  product with the first is beyond what TLC can visit here.
- The memory pool beyond acceptance: eviction, replacement, its update in a
  reorganization; linearization of clusters is an optimization over feerates.
- Of the headers download: punishment of peers and the statistics shown to the
  user. Of the indexes: the transaction and block filter indexes, prune locks,
  the restart after a snapshot, what follows a fatal error. Of transaction
  download: transactions from RPC, delays and permissions of peers,
  announcements by txid, parents that were confirmed so long ago that the filter
  of confirmed transactions has lost them (an orphan's request for such a parent
  counts towards the limits), confirmed transactions whose outputs have left the
  coins cache, and the results for stripped witnesses and nonstandard inputs. Of
  chain activation: a block that fails `CheckBlock`, which `ProcessNewBlock`
  refuses without a trace.
- Version bits: every deployment of the network is always or never active, so
  that the state machine is not reached for them.
- The validation interface's list of subscribers; its queue is modelled.
- The rest of the peer-to-peer protocol: sockets, encodings and over forty kinds
  of messages.
- Script, signatures and hashing: functions of byte strings. Whether a block is
  valid, and whether a hash meets a target, is the environment's choice.
- The address manager (random buckets), the ban list (a map under one lock), the
  wallet (a system of its own), interfaces (RPC, REST, ZMQ, GUI), Tor and port
  mapping, vendored libraries. What is assumed of LevelDB is stated in
  `ChainstateFlush`.

## 8. Plan

Modelled: difficulty, headers, headers download and mining; coins; chain
activation; flush and recovery; check queue; scheduler and task runner; request
tracker; orphans and transaction download; index synchronization. Proved: what
section 5 lists.
