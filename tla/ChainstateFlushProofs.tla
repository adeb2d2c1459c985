----------------------- MODULE ChainstateFlushProofs -----------------------
(***************************************************************************)
(* The crash safety of the coins database, for every tree of blocks, every *)
(* way to cut a flush into batches and any number of crashes.              *)
(*                                                                         *)
(* The inductive invariant says what a half written database looks like:   *)
(* every coin is as in the chain of one of the two heads.  Undoing a block *)
(* of the old branch makes every coin that the block touches as it was     *)
(* below the block, whatever it was, and leaves the others; so after the   *)
(* rollback every coin is as at the fork or as at the new tip, and rolling *)
(* forward turns the first kind into the second.                           *)
(***************************************************************************)
EXTENDS ChainstateFlush, TLAPS

(* Coins that the cache will not write are as in the database.             *)
CleanAsDb == phase # "down" => \A o \in Outpoints \ dirty : coins[o] = db.coins[o]

(* Replay: each coin is as at the block it has come to or as at the new    *)
(* tip.                                                                    *)
ReplayMixes ==
  phase \in {"rollback", "rollforward"} =>
    /\ InTransition(db)
    /\ \A o \in Outpoints : coins[o] \in {Utxo[tip][o], Utxo[db.heads.new][o]}

(* The chain of the tip is in the index in memory, and on disk while the   *)
(* coins are being written.                                                *)
TipKnown ==
  /\ Genesis \in indexed
  /\ phase = "running" => Ancestors[tip] \subseteq known
  /\ phase = "writing" => Ancestors[tip] \subseteq indexed

RunningMarked == phase = "running" => ~InTransition(db)
DownClean == phase = "down" => dirty = {}

(* What holds of each state of the database that a crash may leave: the    *)
(* bodies of MarkedConsistent, TransitionMixes and HeadsIndexed, and that  *)
(* a database in transition has no best block.                             *)
Start(b) == IF b = Null THEN Genesis ELSE b

DbOK(d, idx) ==
  /\ ~InTransition(d) => d.coins = Utxo[Start(d.best)]
  /\ InTransition(d) =>
       /\ d.best = Null
       /\ \A o \in Outpoints :
            d.coins[o] \in {Utxo[Start(d.heads.old)][o], Utxo[d.heads.new][o]}
  /\ \A b \in {d.best, d.heads.new, d.heads.old} :
       b # Null => Ancestors[b] \subseteq idx

DbsOK == \A i \in 1 .. Len(dbs) : DbOK(dbs[i], indexed)

IInv ==
  /\ TypeOK /\ DbsOK
  /\ CacheAtTip /\ SameTransition
  /\ CleanAsDb /\ ReplayMixes /\ TipKnown /\ RunningMarked /\ DownClean

-----------------------------------------------------------------------------
(* What blocks do to coins.                                                *)

(* Connecting a block gives every coin that it touches the value it has    *)
(* above the block, and the others have the same value above and below.    *)
LEMMA ConnectExact ==
  ASSUME NEW b \in Blocks \ {Genesis}, NEW c \in [Outpoints -> Nat \cup {Null}]
  PROVE  /\ ConnectCoins(b, c) \in [Outpoints -> Nat \cup {Null}]
         /\ \A o \in Outpoints :
              IF o \in Touches(b) THEN ConnectCoins(b, c)[o] = Utxo[b][o]
              ELSE /\ ConnectCoins(b, c)[o] = c[o]
                   /\ Utxo[b][o] = Utxo[Parent[b]][o]
  BY BlockAssumption, CoinAssumption, UtxoAssumption DEF ConnectCoins, Touches

(* Disconnecting one gives every coin that it touches the value it has     *)
(* below the block, even if the block was not, or only partly, applied.    *)
LEMMA DisconnectExact ==
  ASSUME NEW b \in Blocks \ {Genesis}, NEW c \in [Outpoints -> Nat \cup {Null}]
  PROVE  /\ DisconnectCoins(b, c) \in [Outpoints -> Nat \cup {Null}]
         /\ \A o \in Outpoints :
              IF o \in Touches(b) THEN DisconnectCoins(b, c)[o] = Utxo[Parent[b]][o]
              ELSE /\ DisconnectCoins(b, c)[o] = c[o]
                   /\ Utxo[b][o] = Utxo[Parent[b]][o]
  BY BlockAssumption, CoinAssumption, UtxoAssumption
     DEF DisconnectCoins, ConnectCoins, Undo, Touches

-----------------------------------------------------------------------------
(* The database states.                                                    *)

LEMMA DbType ==
  ASSUME TypeOK
  PROVE  /\ db \in Database
         /\ Len(dbs) \in 1 .. Len(dbs)
         /\ \A i \in 1 .. Len(dbs) : dbs[i] \in Database
  BY DEF TypeOK, db

(* Writing a batch appends one state.                                      *)
LEMMA AppendedDbs ==
  ASSUME TypeOK, DbsOK, NEW d \in Database, DbOK(d, indexed),
         Len(dbs) <= MaxUnsynced, dbs' = Append(dbs, d), indexed' = indexed
  PROVE  /\ dbs' \in Seq(Database) /\ Len(dbs') \in 1 .. MaxUnsynced + 1
         /\ db' = d
         /\ DbsOK'
<1>1. /\ dbs \in Seq(Database) /\ Len(dbs) \in Nat /\ Len(dbs) >= 1
  BY DEF TypeOK
<1>2. dbs' \in Seq(Database) /\ Len(dbs') = Len(dbs) + 1
  BY <1>1
<1>3. db' = d
  BY <1>1, <1>2 DEF db
<1>4. \A i \in 1 .. Len(dbs') : dbs'[i] = IF i = Len(dbs') THEN d ELSE dbs[i]
  BY <1>1, <1>2
<1>5. ASSUME NEW i \in 1 .. Len(dbs') PROVE DbOK(dbs'[i], indexed)
  <2>1. CASE i = Len(dbs')
    BY <2>1, <1>4
  <2>2. CASE i # Len(dbs')
    <3>1. i \in 1 .. Len(dbs)
      BY <2>2, <1>1, <1>2
    <3> QED BY <3>1, <2>2, <1>4 DEF DbsOK
  <2> QED BY <2>1, <2>2
<1>6. DbsOK'
  BY <1>5 DEF DbsOK, DbOK, InTransition
<1>7. MaxUnsynced \in Nat
  BY CoinAssumption
<1> QED BY <1>1, <1>2, <1>3, <1>6, <1>7

(* A sync and a crash leave one of the states.                             *)
LEMMA SingleDb ==
  ASSUME TypeOK, DbsOK, NEW i \in 1 .. Len(dbs), dbs' = <<dbs[i]>>,
         indexed' = indexed
  PROVE  /\ dbs' \in Seq(Database) /\ Len(dbs') \in 1 .. MaxUnsynced + 1
         /\ db' = dbs[i]
         /\ DbsOK'
<1>1. dbs[i] \in Database /\ DbOK(dbs[i], indexed)
  BY DbType DEF DbsOK
<1>2. dbs' \in Seq(Database) /\ Len(dbs') = 1 /\ dbs'[1] = dbs[i]
  BY <1>1
<1>3. db' = dbs[i]
  BY <1>2 DEF db
<1>4. \A k \in 1 .. Len(dbs') : dbs'[k] = dbs[i]
  BY <1>2
<1>5. DbsOK'
  BY <1>1, <1>4 DEF DbsOK, DbOK, InTransition
<1> QED BY <1>2, <1>3, <1>5, CoinAssumption

(* The index only grows.                                                   *)
LEMMA SameDbs ==
  ASSUME TypeOK, DbsOK, dbs' = dbs, indexed \subseteq indexed'
  PROVE  DbsOK' /\ db' = db
<1>1. \A i \in 1 .. Len(dbs) : DbOK(dbs[i], indexed')
  BY DEF DbsOK, DbOK
<1> QED BY <1>1 DEF DbsOK, DbOK, InTransition, db

-----------------------------------------------------------------------------
(* The steps.                                                              *)

LEMMA InitIInv == Init => IInv
<1> SUFFICES ASSUME Init PROVE IInv
  OBVIOUS
<1>1. EmptyDb \in Database
  BY DEF EmptyDb, Database, NoCoins, NoHeads
<1>2. dbs \in Seq(Database) /\ Len(dbs) = 1 /\ dbs[1] = EmptyDb /\ db = EmptyDb
  BY <1>1 DEF Init, db
<1>3. TypeOK
  BY <1>2, BlockAssumption, CoinAssumption DEF Init, TypeOK, NoCoins
<1>4. DbOK(EmptyDb, indexed)
  BY UtxoAssumption DEF DbOK, EmptyDb, InTransition, NoHeads, Start
<1>5. DbsOK
  BY <1>2, <1>4 DEF DbsOK
<1>6. CacheAtTip /\ SameTransition /\ ReplayMixes /\ TipKnown /\ DownClean
  BY BlockAssumption, UtxoAssumption
     DEF Init, CacheAtTip, SameTransition, ReplayMixes, TipKnown, DownClean
<1>7. CleanAsDb /\ RunningMarked
  BY <1>2 DEF Init, CleanAsDb, RunningMarked, EmptyDb, InTransition, NoHeads
<1> QED BY <1>3, <1>5, <1>6, <1>7 DEF IInv

(* The touched coins become dirty and the others stay as they are.         *)
LEMMA MoveIInv ==
  ASSUME IInv, NEW b \in Blocks \ {Genesis}, NEW c \in [Outpoints -> Nat \cup {Null}],
         coins' = c, phase # "down", phase' = phase, tip' \in Blocks,
         \A o \in Outpoints \ Touches(b) : c[o] = coins[o],
         dirty' = dirty \cup Touches(b), dbs' = dbs,
         indexed' = indexed, known \subseteq known', known' \subseteq Blocks,
         crashes' = crashes
  PROVE  /\ TypeOK' /\ DbsOK' /\ CleanAsDb' /\ RunningMarked' /\ DownClean'
         /\ db' = db
<1>1. DbsOK' /\ db' = db
  BY SameDbs DEF IInv
<1>2. TypeOK'
  BY CoinAssumption DEF IInv, TypeOK, Touches
<1>3. CleanAsDb'
  BY <1>1 DEF IInv, CleanAsDb
<1>4. RunningMarked' /\ DownClean'
  BY <1>1 DEF IInv, RunningMarked, DownClean, InTransition
<1> QED BY <1>1, <1>2, <1>3, <1>4

LEMMA ConnectTipIInv ==
  ASSUME IInv, NEW b \in Blocks, ConnectTip(b)
  PROVE  IInv'
<1>1. b \in Blocks \ {Genesis} /\ tip \in Blocks /\ tip = Parent[b]
  BY DEF IInv, ConnectTip, TypeOK
<1>2. coins \in [Outpoints -> Nat \cup {Null}] /\ known \subseteq Blocks
  BY DEF IInv, TypeOK
<1>3. /\ TypeOK' /\ DbsOK' /\ CleanAsDb' /\ RunningMarked' /\ DownClean'
      /\ db' = db
  BY <1>1, <1>2, ConnectExact, MoveIInv DEF ConnectTip
<1>4. coins' = Utxo[tip']
  <2>1. coins = Utxo[tip]
    BY DEF IInv, CacheAtTip, ConnectTip
  <2> QED BY <1>1, <2>1, UtxoAssumption DEF ConnectTip
<1>5. CacheAtTip' /\ SameTransition' /\ ReplayMixes'
  BY <1>4 DEF ConnectTip, CacheAtTip, SameTransition, ReplayMixes
<1>6. TipKnown'
  BY <1>1, BlockAssumption DEF IInv, TipKnown, ConnectTip
<1> QED BY <1>3, <1>5, <1>6 DEF IInv

LEMMA DisconnectTipIInv ==
  ASSUME IInv, DisconnectTip
  PROVE  IInv'
<1>1. tip \in Blocks \ {Genesis} /\ Parent[tip] \in Blocks
  BY BlockAssumption DEF IInv, DisconnectTip, TypeOK
<1>2. coins \in [Outpoints -> Nat \cup {Null}] /\ known \subseteq Blocks
  BY DEF IInv, TypeOK
<1>3. /\ TypeOK' /\ DbsOK' /\ CleanAsDb' /\ RunningMarked' /\ DownClean'
      /\ db' = db
  BY <1>1, <1>2, DisconnectExact, MoveIInv DEF DisconnectTip
<1>4. coins' = Utxo[tip']
  <2>1. coins = Utxo[tip]
    BY DEF IInv, CacheAtTip, DisconnectTip
  <2>2. \A o \in Outpoints : coins'[o] = Utxo[Parent[tip]][o]
    BY <1>1, <1>2, <2>1, DisconnectExact DEF DisconnectTip
  <2>3. coins' \in [Outpoints -> Nat \cup {Null}]
    BY <1>1, <1>2, DisconnectExact DEF DisconnectTip
  <2>4. Utxo[Parent[tip]] \in [Outpoints -> Nat \cup {Null}]
    BY <1>1, UtxoAssumption
  <2> QED BY <2>2, <2>3, <2>4 DEF DisconnectTip
<1>5. CacheAtTip' /\ SameTransition' /\ ReplayMixes'
  BY <1>4 DEF DisconnectTip, CacheAtTip, SameTransition, ReplayMixes
<1>6. TipKnown'
  BY <1>1, BlockAssumption DEF IInv, TipKnown, DisconnectTip
<1> QED BY <1>3, <1>5, <1>6 DEF IInv

LEMMA FlushStateToDiskIInv ==
  ASSUME IInv, FlushStateToDisk
  PROVE  IInv'
<1>1. indexed \subseteq indexed'
  BY DEF IInv, TypeOK, FlushStateToDisk
<1>2. DbsOK' /\ db' = db
  BY <1>1, SameDbs DEF IInv, FlushStateToDisk
<1>3. TypeOK'
  BY DEF IInv, TypeOK, FlushStateToDisk
<1>4. CacheAtTip' /\ CleanAsDb' /\ ReplayMixes' /\ RunningMarked' /\ DownClean'
  BY <1>2 DEF IInv, FlushStateToDisk, CacheAtTip, CleanAsDb, ReplayMixes, RunningMarked, DownClean
<1>5. SameTransition'
  BY <1>2 DEF IInv, FlushStateToDisk, SameTransition, RunningMarked, InTransition
<1>6. TipKnown'
  BY DEF IInv, TypeOK, FlushStateToDisk, TipKnown
<1> QED BY <1>2, <1>3, <1>4, <1>5, <1>6 DEF IInv

(* A batch mixes coins of the new tip into a database that held those of   *)
(* the old one, or a mix of the two already.                               *)
LEMMA WritePartialBatchIInv ==
  ASSUME IInv, NEW outs \in SUBSET Outpoints, WritePartialBatch(outs)
  PROVE  IInv'
<1> DEFINE d == PartialBatch(outs)
<1>1. /\ tip \in Blocks /\ coins = Utxo[tip] /\ phase = "writing"
      /\ coins \in [Outpoints -> Nat \cup {Null}]
      /\ Ancestors[tip] \subseteq indexed
  BY DEF IInv, TypeOK, CacheAtTip, WritePartialBatch, TipKnown
<1>2. db \in Database /\ DbOK(db, indexed)
  BY DbType DEF IInv, DbsOK, db
<1>3. OldTip \in Blocks \cup {Null}
  BY <1>2 DEF OldTip, Database
<1>4. d \in Database
  BY <1>1, <1>2, <1>3 DEF PartialBatch, Written, Database
<1>5. \A o \in Outpoints : db.coins[o] \in {Utxo[Start(OldTip)][o], Utxo[tip][o]}
  <2>1. CASE InTransition(db)
    BY <1>2, <2>1 DEF IInv, SameTransition, WritePartialBatch, DbOK, OldTip
  <2>2. CASE ~InTransition(db)
    BY <1>2, <2>2 DEF DbOK, OldTip
  <2> QED BY <2>1, <2>2
<1>6. OldTip # Null => Ancestors[OldTip] \subseteq indexed
  BY <1>2 DEF DbOK, OldTip
<1>7. d.best = Null /\ d.heads.new = tip /\ d.heads.old = OldTip
  BY DEF PartialBatch
<1>8. \A o \in Outpoints : d.coins[o] \in {Utxo[Start(OldTip)][o], Utxo[tip][o]}
  BY <1>1, <1>5 DEF PartialBatch, Written
<1>9. tip # Null
  BY <1>1, BlockAssumption
<1>10. DbOK(d, indexed)
  BY <1>1, <1>6, <1>7, <1>8, <1>9 DEF DbOK, InTransition
<1>11. /\ dbs' \in Seq(Database) /\ Len(dbs') \in 1 .. MaxUnsynced + 1
       /\ db' = d /\ DbsOK'
  BY <1>4, <1>10, AppendedDbs DEF IInv, WritePartialBatch
<1>12. TypeOK'
  BY <1>11 DEF IInv, TypeOK, WritePartialBatch
<1>13. CleanAsDb'
  <2>1. \A o \in Outpoints \ dirty' : coins[o] = d.coins[o]
    BY <1>1 DEF IInv, CleanAsDb, WritePartialBatch, PartialBatch, Written
  <2> QED BY <2>1, <1>11 DEF CleanAsDb, WritePartialBatch
<1>14. SameTransition'
  BY <1>7, <1>11 DEF SameTransition, WritePartialBatch
<1>15. CacheAtTip' /\ ReplayMixes' /\ TipKnown' /\ RunningMarked' /\ DownClean'
  BY <1>1 DEF IInv, WritePartialBatch, CacheAtTip, ReplayMixes, TipKnown, RunningMarked, DownClean
<1> QED BY <1>11, <1>12, <1>13, <1>14, <1>15 DEF IInv

(* The last batch writes all that still differs.                           *)
LEMMA WriteFinalBatchIInv ==
  ASSUME IInv, WriteFinalBatch
  PROVE  IInv'
<1>1. /\ tip \in Blocks /\ coins = Utxo[tip] /\ phase = "writing"
      /\ coins \in [Outpoints -> Nat \cup {Null}]
      /\ Ancestors[tip] \subseteq indexed /\ indexed \subseteq known
  BY DEF IInv, TypeOK, CacheAtTip, WriteFinalBatch, TipKnown
<1>2. FinalBatch.coins = coins
  <2>1. \A o \in Outpoints : Written(dirty)[o] = coins[o]
    BY <1>1 DEF IInv, CleanAsDb, Written
  <2> QED BY <1>1, <2>1 DEF FinalBatch, Written
<1>3. FinalBatch.best = tip /\ FinalBatch.heads = NoHeads
  BY DEF FinalBatch
<1>4. FinalBatch \in Database
  <2>1. Written(dirty) \in [Outpoints -> Nat \cup {Null}]
    BY <1>1, <1>2 DEF FinalBatch
  <2> QED BY <2>1, <1>1 DEF FinalBatch, Database, NoHeads
<1>5. tip # Null
  BY <1>1, BlockAssumption
<1>6. DbOK(FinalBatch, indexed)
  BY <1>1, <1>2, <1>3, <1>5 DEF DbOK, InTransition, NoHeads, Start
<1>7. /\ dbs' \in Seq(Database) /\ Len(dbs') \in 1 .. MaxUnsynced + 1
      /\ db' = FinalBatch /\ DbsOK'
  BY <1>4, <1>6, AppendedDbs DEF IInv, WriteFinalBatch
<1>8. TypeOK'
  BY <1>1, <1>7 DEF IInv, TypeOK, WriteFinalBatch
<1>9. CleanAsDb' /\ RunningMarked'
  BY <1>2, <1>3, <1>7 DEF CleanAsDb, RunningMarked, WriteFinalBatch, InTransition, NoHeads
<1>10. CacheAtTip' /\ SameTransition' /\ ReplayMixes' /\ TipKnown' /\ DownClean'
  BY <1>1 DEF IInv, WriteFinalBatch, CacheAtTip, SameTransition, ReplayMixes, TipKnown, DownClean
<1> QED BY <1>7, <1>8, <1>9, <1>10 DEF IInv

LEMMA SyncDbIInv ==
  ASSUME IInv, SyncDb
  PROVE  IInv'
<1>1. dbs' = <<dbs[Len(dbs)]>> /\ Len(dbs) \in 1 .. Len(dbs)
  BY DbType DEF IInv, SyncDb, db
<1>2. /\ dbs' \in Seq(Database) /\ Len(dbs') \in 1 .. MaxUnsynced + 1
      /\ db' = db /\ DbsOK'
  BY <1>1, SingleDb DEF IInv, SyncDb, db
<1>3. TypeOK'
  BY <1>2 DEF IInv, TypeOK, SyncDb
<1>4. CacheAtTip' /\ TipKnown' /\ DownClean'
  BY DEF IInv, SyncDb, CacheAtTip, TipKnown, DownClean
<1>5. CleanAsDb' /\ SameTransition' /\ ReplayMixes' /\ RunningMarked'
  BY <1>2 DEF IInv, SyncDb, CleanAsDb, SameTransition, ReplayMixes, RunningMarked, InTransition
<1> QED BY <1>2, <1>3, <1>4, <1>5 DEF IInv

LEMMA CrashIInv ==
  ASSUME IInv, NEW i \in 1 .. Len(dbs), Crash(i)
  PROVE  IInv'
<1>1. /\ dbs' \in Seq(Database) /\ Len(dbs') \in 1 .. MaxUnsynced + 1
      /\ DbsOK'
  BY SingleDb DEF IInv, Crash
<1>2. TypeOK'
  BY <1>1, CoinAssumption DEF IInv, TypeOK, Crash, NoCoins
<1>3. /\ CacheAtTip' /\ SameTransition' /\ CleanAsDb' /\ ReplayMixes'
      /\ TipKnown' /\ RunningMarked' /\ DownClean'
  BY DEF IInv, Crash, CacheAtTip, SameTransition, CleanAsDb, ReplayMixes, TipKnown,
     RunningMarked, DownClean
<1> QED BY <1>1, <1>2, <1>3 DEF IInv

-----------------------------------------------------------------------------
(* The start of the node.                                                  *)

LEMMA StartConsistentIInv ==
  ASSUME IInv, StartConsistent
  PROVE  IInv'
<1>1. db \in Database /\ DbOK(db, indexed)
  BY DbType DEF IInv, DbsOK, db
<1>2. DbsOK' /\ db' = db
  BY SameDbs DEF IInv, StartConsistent
<1>3. tip' = Start(db.best) /\ tip' \in Blocks /\ coins' = Utxo[tip']
  BY <1>1, BlockAssumption DEF StartConsistent, Start, DbOK, Database
<1>4. TypeOK'
  BY <1>1, <1>3 DEF IInv, TypeOK, StartConsistent, Database
<1>5. Ancestors[tip'] \subseteq indexed
  BY <1>1, <1>3, BlockAssumption DEF IInv, TipKnown, DbOK, Start
<1>6. CacheAtTip' /\ SameTransition' /\ ReplayMixes' /\ TipKnown' /\ DownClean'
  BY <1>3, <1>5 DEF IInv, TypeOK, StartConsistent, CacheAtTip, SameTransition, ReplayMixes,
     TipKnown, DownClean
<1>7. CleanAsDb' /\ RunningMarked'
  BY <1>2 DEF StartConsistent, CleanAsDb, RunningMarked, InTransition
<1> QED BY <1>2, <1>4, <1>6, <1>7 DEF IInv

LEMMA StartReplayIInv ==
  ASSUME IInv, StartReplay
  PROVE  IInv'
<1>1. db \in Database /\ DbOK(db, indexed)
  BY DbType DEF IInv, DbsOK, db
<1>2. DbsOK' /\ db' = db
  BY SameDbs DEF IInv, StartReplay
<1>3. tip' = Start(db.heads.old) /\ tip' \in Blocks
  BY <1>1, BlockAssumption DEF StartReplay, Start, Database
<1>4. TypeOK'
  BY <1>1, <1>3 DEF IInv, TypeOK, StartReplay, Database
<1>5. ReplayMixes'
  BY <1>1, <1>2, <1>3 DEF StartReplay, ReplayMixes, DbOK, InTransition
<1>6. /\ CacheAtTip' /\ SameTransition' /\ CleanAsDb' /\ TipKnown'
      /\ RunningMarked' /\ DownClean'
  BY <1>2 DEF IInv, StartReplay, CacheAtTip, SameTransition, CleanAsDb, TipKnown,
     RunningMarked, DownClean
<1> QED BY <1>2, <1>4, <1>5, <1>6 DEF IInv

(* A coin that the block touches gets its value below the block; another   *)
(* one has the same value above and below it.                              *)
LEMMA RollbackBlockIInv ==
  ASSUME IInv, RollbackBlock
  PROVE  IInv'
<1>1. db \in Database /\ InTransition(db) /\ db.heads.new \in Blocks
  BY DbType DEF IInv, ReplayMixes, RollbackBlock, Database, InTransition
<1>2. tip \in Blocks \ {Genesis} /\ Parent[tip] \in Blocks
  BY <1>1, BlockAssumption DEF IInv, RollbackBlock, TypeOK
<1>3. coins \in [Outpoints -> Nat \cup {Null}] /\ known \subseteq Blocks
  BY DEF IInv, TypeOK
<1>4. /\ TypeOK' /\ DbsOK' /\ CleanAsDb' /\ RunningMarked' /\ DownClean'
      /\ db' = db
  BY <1>1, <1>2, <1>3, DisconnectExact, MoveIInv DEF RollbackBlock
<1>5. \A o \in Outpoints : coins'[o] \in {Utxo[tip'][o], Utxo[db.heads.new][o]}
  BY <1>2, <1>3, DisconnectExact DEF IInv, ReplayMixes, RollbackBlock
<1>6. ReplayMixes'
  BY <1>1, <1>4, <1>5 DEF ReplayMixes, InTransition
<1>7. CacheAtTip' /\ SameTransition' /\ TipKnown'
  BY DEF IInv, RollbackBlock, CacheAtTip, SameTransition, TipKnown
<1> QED BY <1>4, <1>6, <1>7 DEF IInv

LEMMA RollforwardBlockIInv ==
  ASSUME IInv, NEW b \in Blocks, RollforwardBlock(b)
  PROVE  IInv'
<1>1. db \in Database /\ InTransition(db) /\ db.heads.new \in Blocks
  BY DbType DEF IInv, ReplayMixes, RollforwardBlock, Database, InTransition
<1>2. b \in Blocks \ {Genesis} /\ tip = Parent[b]
  BY DEF RollforwardBlock
<1>3. coins \in [Outpoints -> Nat \cup {Null}] /\ known \subseteq Blocks
  BY DEF IInv, TypeOK
<1>4. /\ TypeOK' /\ DbsOK' /\ CleanAsDb' /\ RunningMarked' /\ DownClean'
      /\ db' = db
  BY <1>1, <1>2, <1>3, ConnectExact, MoveIInv DEF RollforwardBlock
<1>5. \A o \in Outpoints : coins'[o] \in {Utxo[tip'][o], Utxo[db.heads.new][o]}
  BY <1>2, <1>3, ConnectExact DEF IInv, ReplayMixes, RollforwardBlock
<1>6. ReplayMixes'
  BY <1>1, <1>4, <1>5 DEF ReplayMixes, InTransition
<1>7. CacheAtTip' /\ SameTransition' /\ TipKnown'
  BY DEF IInv, RollforwardBlock, CacheAtTip, SameTransition, TipKnown
<1> QED BY <1>4, <1>6, <1>7 DEF IInv

LEMMA RollbackDoneIInv ==
  ASSUME IInv, RollbackDone
  PROVE  IInv'
<1>1. DbsOK' /\ db' = db
  BY SameDbs DEF IInv, RollbackDone
<1>2. TypeOK'
  BY DEF IInv, TypeOK, RollbackDone
<1>3. ReplayMixes' /\ CleanAsDb'
  BY <1>1 DEF IInv, RollbackDone, ReplayMixes, CleanAsDb, InTransition
<1>4. CacheAtTip' /\ SameTransition' /\ TipKnown' /\ RunningMarked' /\ DownClean'
  BY DEF IInv, RollbackDone, CacheAtTip, SameTransition, TipKnown, RunningMarked, DownClean
<1> QED BY <1>1, <1>2, <1>3, <1>4 DEF IInv

(* The two kinds of coins are the same at the new tip.                     *)
LEMMA ReplayFlushIInv ==
  ASSUME IInv, ReplayFlush
  PROVE  IInv'
<1>1. DbsOK' /\ db' = db
  BY SameDbs DEF IInv, ReplayFlush
<1>2. TypeOK'
  BY DEF IInv, TypeOK, ReplayFlush
<1>3. tip \in Blocks /\ tip = db.heads.new /\ tip # Null
  BY BlockAssumption DEF IInv, TypeOK, ReplayFlush
<1>4. coins = Utxo[tip]
  <2>1. \A o \in Outpoints : coins[o] = Utxo[tip][o]
    BY <1>3 DEF IInv, ReplayMixes, ReplayFlush
  <2>2. /\ coins \in [Outpoints -> Nat \cup {Null}]
        /\ Utxo[tip] \in [Outpoints -> Nat \cup {Null}]
    BY <1>3, UtxoAssumption DEF IInv, TypeOK
  <2> QED BY <2>1, <2>2
<1>5. Ancestors[tip] \subseteq indexed
  BY <1>3, DbType DEF IInv, DbsOK, DbOK, db
<1>6. CacheAtTip' /\ TipKnown' /\ ReplayMixes' /\ RunningMarked' /\ DownClean'
  BY <1>4, <1>5 DEF IInv, ReplayFlush, CacheAtTip, TipKnown, ReplayMixes, RunningMarked, DownClean
<1>7. SameTransition' /\ CleanAsDb'
  BY <1>1, <1>3 DEF IInv, ReplayFlush, SameTransition, CleanAsDb, InTransition
<1> QED BY <1>1, <1>2, <1>6, <1>7 DEF IInv

LEMMA StutterIInv == IInv /\ UNCHANGED vars => IInv'
<1> SUFFICES ASSUME IInv, UNCHANGED vars PROVE IInv'
  OBVIOUS
<1>1. DbsOK' /\ db' = db
  BY SameDbs DEF IInv, vars
<1>2. TypeOK'
  BY DEF IInv, TypeOK, vars
<1>3. CacheAtTip' /\ TipKnown' /\ DownClean'
  BY DEF IInv, vars, CacheAtTip, TipKnown, DownClean
<1>4. CleanAsDb' /\ SameTransition' /\ ReplayMixes' /\ RunningMarked'
  BY <1>1 DEF IInv, vars, CleanAsDb, SameTransition, ReplayMixes, RunningMarked, InTransition
<1> QED BY <1>1, <1>2, <1>3, <1>4 DEF IInv

-----------------------------------------------------------------------------
(* The inductive invariant: the database, the cache and the block index    *)
(* fit together after every step, crashes and recoveries included.         *)
THEOREM Inductive == Spec => []IInv
<1>1. Init => IInv
  BY InitIInv
<1>2. IInv /\ [Next]_vars => IInv'
  <2> SUFFICES ASSUME IInv, [Next]_vars PROVE IInv'
    OBVIOUS
  <2>1. CASE UNCHANGED vars
    BY <2>1, StutterIInv
  <2>2. CASE Recover
    BY <2>2, StartConsistentIInv, StartReplayIInv, RollbackBlockIInv, RollbackDoneIInv,
       RollforwardBlockIInv, ReplayFlushIInv DEF Recover
  <2>3. CASE \E b \in Blocks : ConnectTip(b)
    BY <2>3, ConnectTipIInv
  <2>4. CASE DisconnectTip \/ FlushStateToDisk
    BY <2>4, DisconnectTipIInv, FlushStateToDiskIInv
  <2>5. CASE \E outs \in SUBSET Outpoints : WritePartialBatch(outs)
    BY <2>5, WritePartialBatchIInv
  <2>6. CASE WriteFinalBatch \/ SyncDb
    BY <2>6, WriteFinalBatchIInv, SyncDbIInv
  <2>7. CASE \E i \in 1 .. Len(dbs) : Crash(i)
    BY <2>7, CrashIInv
  <2> QED BY <2>1, <2>2, <2>3, <2>4, <2>5, <2>6, <2>7 DEF Next
<1> QED BY <1>1, <1>2, PTL DEF Spec

(* Every database a crash can fall back to holds exactly the coins of the  *)
(* block it names, or says between which two blocks its coins are, and the *)
(* block index on disk knows these blocks.                                 *)
THEOREM DiskCorrect == Spec => []DiskConsistent
<1>1. IInv => MarkedConsistent
  BY UtxoAssumption DEF IInv, DbsOK, DbOK, MarkedConsistent, Start
<1>2. IInv => TransitionMixes
  BY DEF IInv, DbsOK, DbOK, TransitionMixes, Start
<1>3. IInv => HeadsIndexed
  BY DEF IInv, DbsOK, DbOK, HeadsIndexed
<1> QED BY <1>1, <1>2, <1>3, Inductive, PTL DEF DiskConsistent

(* A running node shows the coins of its tip, however it was interrupted   *)
(* before.                                                                 *)
THEOREM CacheCorrect == Spec => []CacheAtTip
<1>1. IInv => CacheAtTip
  BY DEF IInv
<1> QED BY <1>1, Inductive, PTL

(* BatchWrite's assertion never fails: an interrupted flush is followed by *)
(* one to the same block.                                                  *)
THEOREM TransitionCorrect == Spec => []SameTransition
<1>1. IInv => SameTransition
  BY DEF IInv, DbsOK, DbOK, SameTransition, Start
<1> QED BY <1>1, Inductive, PTL
=============================================================================
