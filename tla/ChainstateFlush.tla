-------------------------- MODULE ChainstateFlush --------------------------
(***************************************************************************)
(* How the UTXO set in the database survives a crash: FlushStateToDisk     *)
(* writes the dirty coins in several batches (CCoinsViewDB::BatchWrite,    *)
(* src/txdb.cpp), and ReplayBlocks (src/validation.cpp) finishes a flush   *)
(* that was interrupted, which may itself be interrupted.                  *)
(*                                                                         *)
(* The process may die between any two steps.  LevelDB writes a batch      *)
(* atomically and batches in order, but BatchWrite does not ask for them   *)
(* to be synced: a crash of the machine loses any number of the last       *)
(* batches.  Block files, undo files and the block index are synced before *)
(* the coins are written, and what they hold survives.                     *)
(*                                                                         *)
(* A coin is its outpoint and the height that created it: a transaction    *)
(* may be in blocks of two branches, and then its outputs differ.  What a  *)
(* block's transactions do, in order, is given by three sets: the coins of *)
(* earlier blocks it spends, the outputs it adds, and the outputs that it  *)
(* adds and spends again.  CoinsCache shows that the caches present one    *)
(* set of coins; here the cache is that set and the outpoints it will      *)
(* write.                                                                  *)
(***************************************************************************)
EXTENDS Integers, Sequences

CONSTANTS
  Blocks, Genesis,
  Parent,       \* CBlockIndex::pprev; the genesis block is its own parent here
  Ancestors,    \* the chain that ends in a block, itself included
  Height,       \* CBlockIndex::nHeight
  Outpoints,
  Spends,       \* coins of earlier blocks that a block spends
  Adds,         \* outputs that are unspent after the block
  Passes,       \* outputs added and spent in the block
  Utxo,         \* the coins of the chain that ends in a block
  MaxUnsynced,  \* bound: batches written and not yet synced
  MaxCrashes,   \* bound
  Null          \* no block, no coin

ASSUME BlockAssumption ==
  /\ Genesis \in Blocks /\ Null \notin Blocks
  /\ Parent \in [Blocks -> Blocks]
  /\ Ancestors \in [Blocks -> SUBSET Blocks]
  /\ Ancestors[Genesis] = {Genesis}
  /\ \A b \in Blocks \ {Genesis} :
       /\ Ancestors[b] = {b} \cup Ancestors[Parent[b]]
       /\ b \notin Ancestors[Parent[b]]
       /\ Height[b] = Height[Parent[b]] + 1
  /\ \A b \in Blocks : b \in Ancestors[b] /\ Genesis \in Ancestors[b]
  /\ \A b \in Blocks : \A a \in Ancestors[b] : Ancestors[a] \subseteq Ancestors[b]
  /\ Height \in [Blocks -> Nat]

ASSUME CoinAssumption ==
  /\ Spends \in [Blocks -> SUBSET Outpoints]
  /\ Adds \in [Blocks -> SUBSET Outpoints]
  /\ Passes \in [Blocks -> SUBSET Outpoints]
  /\ \A b \in Blocks : /\ Spends[b] \cap (Adds[b] \cup Passes[b]) = {}
                       /\ Adds[b] \cap Passes[b] = {}
  /\ Null \notin Nat
  /\ MaxUnsynced \in Nat /\ MaxCrashes \in Nat

VARIABLES
  dbs,      \* the states of the database since the last sync; the last is current
  phase,    \* "down", "rollback", "rollforward", "writing" or "running"
  tip,      \* the block the cache is at (hashBlock of the cache)
  coins,    \* the coins the cache shows
  dirty,    \* the outpoints it has to write
  known,    \* the block index in memory: blocks with their data and undo data
  indexed,  \* the block index on disk
  crashes

vars == <<dbs, phase, tip, coins, dirty, known, indexed, crashes>>

NoCoins == [o \in Outpoints |-> Null]
Touches(b) == Spends[b] \cup Adds[b] \cup Passes[b]

-----------------------------------------------------------------------------
(* What blocks do to a set of coins.                                       *)

(* ConnectBlock (UpdateCoins), and RollforwardBlock, which does not mind   *)
(* coins that are there already or gone already.                           *)
ConnectCoins(b, c) ==
  [o \in Outpoints |->
     IF o \in Adds[b] THEN Height[b]
     ELSE IF o \in Spends[b] \cup Passes[b] THEN Null ELSE c[o]]

(* Blocks that were connected are valid: they spend coins that exist and   *)
(* overwrite none (BIP30).                                                 *)
ASSUME UtxoAssumption ==
  /\ Utxo \in [Blocks -> [Outpoints -> Nat \cup {Null}]]
  /\ Utxo[Genesis] = NoCoins
  /\ \A b \in Blocks \ {Genesis} :
       /\ Utxo[b] = ConnectCoins(b, Utxo[Parent[b]])
       /\ \A o \in Spends[b] : Utxo[Parent[b]][o] # Null
       /\ \A o \in Adds[b] \cup Passes[b] : Utxo[Parent[b]][o] = Null

(* The undo data of a block: the coins it spent.                           *)
Undo(b) == [o \in Spends[b] |-> Utxo[Parent[b]][o]]

(* DisconnectBlock: outputs are removed and inputs restored from the undo  *)
(* data, whether or not the block had been applied (DISCONNECT_UNCLEAN).   *)
DisconnectCoins(b, c) ==
  [o \in Outpoints |->
     IF o \in Adds[b] \cup Passes[b] THEN Null
     ELSE IF o \in Spends[b] THEN Undo(b)[o] ELSE c[o]]

(* DISCONNECT_OK: every output was there and no input was.                 *)
IsClean(b, c) ==
  /\ \A o \in Adds[b] : c[o] = Height[b]
  /\ \A o \in Spends[b] : c[o] = Null

-----------------------------------------------------------------------------
(* The database: coins, DB_BEST_BLOCK and DB_HEAD_BLOCKS, which is a pair  *)
(* of blocks while a transition is being written.                          *)
NoHeads == [new |-> Null, old |-> Null]
db == dbs[Len(dbs)]

InTransition(d) == d.heads.new # Null

EmptyDb == [coins |-> NoCoins, best |-> Null, heads |-> NoHeads]

(* BatchWrite's old_tip: the best block, or, if an earlier flush to the    *)
(* same block was interrupted, where that one came from.                   *)
OldTip == IF db.best = Null /\ InTransition(db) THEN db.heads.old ELSE db.best

Written(outs) == [o \in Outpoints |-> IF o \in outs THEN coins[o] ELSE db.coins[o]]

(* A batch that is not the last one.  The first erases the best block and  *)
(* marks the transition; the ones after it change neither.  (A mutant      *)
(* does not mark the transition.)                                          *)
PartialBatchUnmarked(outs) == [db EXCEPT !.coins = Written(outs)]

PartialBatch(outs) ==
  [coins |-> Written(outs), best |-> Null, heads |-> [new |-> tip, old |-> OldTip]]

FinalBatch == [coins |-> Written(dirty), best |-> tip, heads |-> NoHeads]

Init ==
  /\ dbs = <<EmptyDb>>
  /\ phase = "running" /\ tip = Genesis
  /\ coins = NoCoins /\ dirty = {}
  /\ known = {Genesis} /\ indexed = {Genesis}
  /\ crashes = 0

-----------------------------------------------------------------------------
(* Normal operation.                                                       *)

(* ConnectTip: the block is in the index, its undo data is written, and    *)
(* its changes reach the cache in one flush of a view.                     *)
ConnectTip(b) ==
  /\ phase = "running"
  /\ b # Genesis /\ Parent[b] = tip
  /\ tip' = b
  /\ coins' = ConnectCoins(b, coins)
  /\ dirty' = dirty \cup Touches(b)
  /\ known' = known \cup {b}
  /\ UNCHANGED <<dbs, phase, indexed, crashes>>

DisconnectTip ==
  /\ phase = "running"
  /\ tip # Genesis
  /\ tip' = Parent[tip]
  /\ coins' = DisconnectCoins(tip, coins)
  /\ dirty' = dirty \cup Touches(tip)
  /\ UNCHANGED <<dbs, phase, known, indexed, crashes>>

(* FlushStateToDisk decides to write: block files and the block index are  *)
(* synced, then the coins are written.  cs_main is held until it is done.  *)
FlushStateToDisk ==
  /\ phase = "running"
  /\ phase' = "writing"
  /\ indexed' = known
  /\ UNCHANGED <<dbs, tip, coins, dirty, known, crashes>>

(* BatchWrite: the batch has grown to batch_write_bytes.                   *)
WritePartialBatch(outs) ==
  /\ phase = "writing" /\ Len(dbs) <= MaxUnsynced
  /\ outs # {} /\ outs \subseteq dirty
  /\ dbs' = Append(dbs, PartialBatch(outs))
  /\ dirty' = dirty \ outs
  /\ UNCHANGED <<phase, tip, coins, known, indexed, crashes>>

(* BatchWrite: the last batch, after which the database is consistent.     *)
WriteFinalBatch ==
  /\ phase = "writing" /\ Len(dbs) <= MaxUnsynced
  /\ dbs' = Append(dbs, FinalBatch)
  /\ dirty' = {}
  /\ phase' = "running"
  /\ UNCHANGED <<tip, coins, known, indexed, crashes>>

(* LevelDB has synced what was written so far.                             *)
SyncDb ==
  /\ Len(dbs) > 1
  /\ dbs' = <<db>>
  /\ UNCHANGED <<phase, tip, coins, dirty, known, indexed, crashes>>

(* The machine stops: memory is lost, and so are the batches after the     *)
(* i-th one that was not synced.                                           *)
Crash(i) ==
  /\ phase # "down" /\ crashes < MaxCrashes
  /\ dbs' = <<dbs[i]>>
  /\ phase' = "down"
  /\ tip' = Null /\ coins' = NoCoins /\ dirty' = {}
  /\ known' = indexed
  /\ crashes' = crashes + 1
  /\ UNCHANGED indexed

-----------------------------------------------------------------------------
(* Start: ReplayBlocks, then LoadChainTip.                                 *)

(* The database is consistent: its best block is the tip.                  *)
StartConsistent ==
  /\ phase = "down" /\ ~InTransition(db)
  /\ phase' = "running"
  /\ tip' = IF db.best = Null THEN Genesis ELSE db.best
  /\ coins' = db.coins
  /\ UNCHANGED <<dbs, dirty, known, indexed, crashes>>

(* A flush was interrupted: ReplayBlocks begins at the old tip.  A first   *)
(* flush came from nowhere, and there is nothing to roll back.             *)
StartReplay ==
  /\ phase = "down" /\ InTransition(db)
  /\ phase' = "rollback"
  /\ tip' = IF db.heads.old = Null THEN Genesis ELSE db.heads.old
  /\ coins' = db.coins
  /\ UNCHANGED <<dbs, dirty, known, indexed, crashes>>

(* Blocks of the old branch are disconnected, down to the fork.  (Mutants  *)
(* do not disconnect a block that had not been fully applied: one skips    *)
(* it, one gives up.)                                                      *)
RollbackBlockSkipping ==
  /\ phase = "rollback" /\ tip \notin Ancestors[db.heads.new]
  /\ coins' = IF IsClean(tip, coins) THEN DisconnectCoins(tip, coins) ELSE coins
  /\ dirty' = dirty \cup Touches(tip)
  /\ tip' = Parent[tip]
  /\ UNCHANGED <<dbs, phase, known, indexed, crashes>>

RollbackBlockGivingUp ==
  /\ phase = "rollback" /\ tip \notin Ancestors[db.heads.new]
  /\ IF IsClean(tip, coins)
       THEN /\ coins' = DisconnectCoins(tip, coins)
            /\ dirty' = dirty \cup Touches(tip)
            /\ tip' = Parent[tip]
            /\ phase' = phase
       ELSE phase' = "down" /\ tip' = Null /\ coins' = NoCoins /\ dirty' = {}
  /\ UNCHANGED <<dbs, known, indexed, crashes>>

RollbackBlock ==
  /\ phase = "rollback" /\ tip \notin Ancestors[db.heads.new]
  /\ coins' = DisconnectCoins(tip, coins)
  /\ dirty' = dirty \cup Touches(tip)
  /\ tip' = Parent[tip]
  /\ UNCHANGED <<dbs, phase, known, indexed, crashes>>

(* (A mutant flushes what was rolled back before it goes on.)              *)
RollbackDoneFlushing ==
  /\ phase = "rollback" /\ tip \in Ancestors[db.heads.new]
  /\ phase' = "writing"
  /\ UNCHANGED <<dbs, tip, coins, dirty, known, indexed, crashes>>

RollbackDone ==
  /\ phase = "rollback" /\ tip \in Ancestors[db.heads.new]
  /\ phase' = "rollforward"
  /\ UNCHANGED <<dbs, tip, coins, dirty, known, indexed, crashes>>

(* Blocks of the new branch are applied, up to the new tip.                *)
RollforwardBlock(b) ==
  /\ phase = "rollforward"
  /\ b \in Ancestors[db.heads.new] \ {Genesis} /\ Parent[b] = tip
  /\ coins' = ConnectCoins(b, coins)
  /\ dirty' = dirty \cup Touches(b)
  /\ tip' = b
  /\ UNCHANGED <<dbs, phase, known, indexed, crashes>>

(* The new tip is reached, and the cache is flushed.                       *)
ReplayFlush ==
  /\ phase = "rollforward" /\ tip = db.heads.new
  /\ phase' = "writing"
  /\ UNCHANGED <<dbs, tip, coins, dirty, known, indexed, crashes>>

Recover ==
  \/ StartConsistent
  \/ StartReplay
  \/ RollbackBlock
  \/ RollbackDone
  \/ \E b \in Blocks : RollforwardBlock(b)
  \/ ReplayFlush

Next ==
  \/ \E b \in Blocks : ConnectTip(b)
  \/ DisconnectTip
  \/ FlushStateToDisk
  \/ \E outs \in SUBSET Outpoints : WritePartialBatch(outs)
  \/ WriteFinalBatch
  \/ SyncDb
  \/ \E i \in 1 .. Len(dbs) : Crash(i)
  \/ Recover

(* The node starts when it is down, recovers and finishes a flush; LevelDB *)
(* syncs its log sooner or later.                                          *)
Fairness == WF_vars(Recover) /\ WF_vars(WriteFinalBatch) /\ WF_vars(SyncDb)

Spec == Init /\ [][Next]_vars
FairSpec == Spec /\ Fairness

-----------------------------------------------------------------------------
(* Properties.                                                             *)

Database ==
  [coins : [Outpoints -> Nat \cup {Null}], best : Blocks \cup {Null},
   heads : [new : Blocks \cup {Null}, old : Blocks \cup {Null}]]

TypeOK ==
  /\ dbs \in Seq(Database) /\ Len(dbs) \in 1 .. MaxUnsynced + 1
  /\ phase \in {"down", "rollback", "rollforward", "writing", "running"}
  /\ IF phase = "down" THEN tip = Null ELSE tip \in Blocks
  /\ coins \in [Outpoints -> Nat \cup {Null}]
  /\ dirty \subseteq Outpoints
  /\ indexed \subseteq known /\ known \subseteq Blocks
  /\ crashes \in 0 .. MaxCrashes

(* A database that names a best block holds exactly the coins of that      *)
(* block's chain, whatever was interrupted or lost before, and so does one *)
(* that was never written.                                                 *)
MarkedConsistent ==
  \A i \in 1 .. Len(dbs) :
    ~InTransition(dbs[i]) =>
      dbs[i].coins = IF dbs[i].best = Null THEN NoCoins ELSE Utxo[dbs[i].best]

(* The running node, and one that is about to flush, shows the coins of    *)
(* its tip: replaying a partly written database over itself gives the set  *)
(* that the interrupted flush was to reach.                                *)
CacheAtTip == phase \in {"running", "writing"} => coins = Utxo[tip]

(* BatchWrite's assertion: a flush into a database that is in the middle   *)
(* of a transition goes to the same block.                                 *)
SameTransition == phase = "writing" /\ InTransition(db) => db.heads.new = tip

(* A database in transition never lists a coin that neither of its two     *)
(* heads has: what is there is the old value or the new one.               *)
TransitionMixes ==
  \A i \in 1 .. Len(dbs) : InTransition(dbs[i]) =>
    LET old == IF dbs[i].heads.old = Null THEN Genesis ELSE dbs[i].heads.old
    IN  \A o \in Outpoints :
          dbs[i].coins[o] \in {Utxo[old][o], Utxo[dbs[i].heads.new][o]}

(* The blocks that the database names, and the chains below them, are in   *)
(* the block index on disk: ReplayBlocks and LoadChainTip never meet an    *)
(* unknown block ("reorganization to unknown block requested").            *)
HeadsIndexed ==
  \A i \in 1 .. Len(dbs) :
    \A b \in {dbs[i].best, dbs[i].heads.new, dbs[i].heads.old} :
      b # Null => Ancestors[b] \subseteq indexed

(* Every state that a crash can fall back to can be started from: it says  *)
(* truly what its coins are, or between which two blocks, and the index    *)
(* knows these blocks.                                                     *)
DiskConsistent == MarkedConsistent /\ TransitionMixes /\ HeadsIndexed

(* However often it is interrupted, a node that is down gets back to       *)
(* running once the crashes stop.                                          *)
Recovers == (phase = "down") ~> (phase = "running")

=============================================================================
