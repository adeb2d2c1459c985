----------------------------- MODULE CoinsCache -----------------------------
(***************************************************************************)
(* The stack of coins views: the coins database, the CoinsTip cache on top *)
(* of it, and the cache a block is connected or disconnected in on top of  *)
(* that.  A cache entry is DIRTY when it may differ from the parent and    *)
(* FRESH when the parent has no unspent coin for the outpoint; a FRESH     *)
(* entry that is spent is dropped without telling the parent, so a flag    *)
(* set wrongly anywhere surfaces as a wrong UTXO set two flushes later.    *)
(*                                                                         *)
(* All operations run under cs_main.  Coins are opaque; Spent is the null  *)
(* coin.  A map slot that is not in cacheCoins is Absent.                  *)
(***************************************************************************)
EXTENDS Integers, FiniteSets

CONSTANTS
    Outpoints,
    Coins,
    Spent,
    Usage      \* DynamicMemoryUsage of each coin's script

ASSUME CoinsAssumption ==
    /\ Spent \notin Coins
    /\ IsFiniteSet(Outpoints)
    /\ Usage \in [Coins -> Nat]

VARIABLES
    db,         \* CCoinsViewDB: Spent where the database has no record
    tip,        \* CoinsTip().cacheCoins
    view,       \* cacheCoins of the block's view
    tipUsage,   \* CoinsTip().cachedCoinsUsage
    viewUsage   \* cachedCoinsUsage of the block's view

vars == <<db, tip, view, tipUsage, viewUsage>>

Coin == Coins \cup {Spent}
Entry == [cached : BOOLEAN, coin : Coin, dirty : BOOLEAN, fresh : BOOLEAN]
Absent == [cached |-> FALSE, coin |-> Spent, dirty |-> FALSE, fresh |-> FALSE]
Clean(c) == [cached |-> TRUE, coin |-> c, dirty |-> FALSE, fresh |-> FALSE]
EmptyCache == [o \in Outpoints |-> Absent]

DynamicUsage(c) == IF c = Spent THEN 0 ELSE Usage[c]

\* The usage of a cache is the number of bytes in its coins at the outpoints os.
Bytes(cache, os) == UNION {{o} \X (1 .. DynamicUsage(cache[o].coin)) : o \in os}
UsageOf(cache, os) == Cardinality(Bytes(cache, os))

Init ==
    /\ db \in [Outpoints -> Coin]
    /\ tip = EmptyCache
    /\ view = EmptyCache
    /\ tipUsage = 0
    /\ viewUsage = 0

-----------------------------------------------------------------------------
(* Reading through the stack *)

\* FetchCoin: the slot after a lookup that may pull the coin from the parent.
Fetched(e, parentCoin) ==
    IF e.cached \/ parentCoin = Spent THEN e ELSE Clean(parentCoin)

FetchedUsage(e, parentCoin) == IF e.cached THEN 0 ELSE DynamicUsage(parentCoin)

TipCoin(o) == IF tip[o].cached THEN tip[o].coin ELSE db[o]
ViewCoin(o) == IF view[o].cached THEN view[o].coin ELSE TipCoin(o)

TipSlot(o) == Fetched(tip[o], db[o])
ViewSlot(o) == Fetched(view[o], TipCoin(o))

\* A lookup in the view asks CoinsTip, and so fills it, only when it misses.
FetchIntoTip(o) ==
    IF view[o].cached THEN UNCHANGED <<tip, tipUsage>>
    ELSE /\ tip' = [tip EXCEPT ![o] = TipSlot(o)]
         /\ tipUsage' = tipUsage + FetchedUsage(tip[o], db[o])

\* GetCoin, HaveCoin and AccessCoin on CoinsTip (mempool, RPC).
ReadTip(o) ==
    /\ tip' = [tip EXCEPT ![o] = TipSlot(o)]
    /\ tipUsage' = tipUsage + FetchedUsage(tip[o], db[o])
    /\ UNCHANGED <<db, view, viewUsage>>

\* GetCoin, HaveCoin and AccessCoin on the block's view.
ReadView(o) ==
    /\ FetchIntoTip(o)
    /\ view' = [view EXCEPT ![o] = ViewSlot(o)]
    /\ viewUsage' = viewUsage + FetchedUsage(view[o], TipCoin(o))
    /\ UNCHANGED db

-----------------------------------------------------------------------------
(* Writing to the block's view *)

\* Mutant: a coin re-added over an unflushed spend is marked FRESH.
AddedAlwaysFresh(e, c, possible_overwrite) ==
    [cached |-> TRUE, coin |-> c, dirty |-> TRUE, fresh |-> e.fresh \/ ~possible_overwrite]

\* AddCoin does not look at the parent.
AddedEntry(e, c, possible_overwrite) ==
    [cached |-> TRUE, coin |-> c, dirty |-> TRUE,
     fresh |-> e.fresh \/ (~possible_overwrite /\ ~e.dirty)]

\* UpdateCoins: outputs of a transaction being connected.  A transaction that
\* is not a coinbase is added with possible_overwrite = FALSE, which AddCoin
\* only survives, and which is only sound, because ConnectBlock has ruled out
\* (BIP30, BIP34) that the outpoint is unspent.
AddCoin(o, c, possible_overwrite) ==
    /\ possible_overwrite \/ ViewCoin(o) = Spent
    /\ view' = [view EXCEPT ![o] = AddedEntry(@, c, possible_overwrite)]
    /\ viewUsage' = viewUsage - DynamicUsage(view[o].coin) + DynamicUsage(c)
    /\ UNCHANGED <<db, tip, tipUsage>>

\* AddCoins with check_for_overwrite, and ApplyTxInUndo: HaveCoin decides.
AddCoinChecked(o, c) ==
    /\ FetchIntoTip(o)
    /\ view' = [view EXCEPT ![o] = AddedEntry(ViewSlot(o), c, ViewCoin(o) # Spent)]
    /\ viewUsage' = viewUsage + FetchedUsage(view[o], TipCoin(o))
                      - DynamicUsage(ViewSlot(o).coin) + DynamicUsage(c)
    /\ UNCHANGED db

SpentEntry(e) ==
    IF ~e.cached \/ e.fresh THEN Absent
    ELSE [cached |-> TRUE, coin |-> Spent, dirty |-> TRUE, fresh |-> FALSE]

SpendCoin(o) ==
    /\ FetchIntoTip(o)
    /\ view' = [view EXCEPT ![o] = SpentEntry(ViewSlot(o))]
    /\ viewUsage' = viewUsage + FetchedUsage(view[o], TipCoin(o)) - DynamicUsage(ViewSlot(o).coin)
    /\ UNCHANGED db

-----------------------------------------------------------------------------
(* Moving changes down *)

\* Mutant: FRESH is inherited by a slot the parent already has.
MergedFresh(child, parent) ==
    IF ~child.dirty THEN parent
    ELSE IF (parent.fresh \/ (~parent.cached /\ child.fresh)) /\ child.coin = Spent THEN Absent
    ELSE [cached |-> TRUE, coin |-> child.coin, dirty |-> TRUE,
          fresh |-> parent.fresh \/ child.fresh]

\* BatchWrite into a cache: what a child's entry makes of the parent's slot.
Merged(child, parent) ==
    IF ~child.dirty THEN parent
    ELSE IF (parent.fresh \/ (~parent.cached /\ child.fresh)) /\ child.coin = Spent THEN Absent
    ELSE [cached |-> TRUE, coin |-> child.coin, dirty |-> TRUE,
          fresh |-> IF parent.cached THEN parent.fresh ELSE child.fresh]

\* BatchWrite throws "FRESH flag misapplied to coin that exists in parent cache".
FreshMisapplied(o) ==
    view[o].dirty /\ view[o].fresh /\ tip[o].cached /\ tip[o].coin # Spent

MergedCache == [o \in Outpoints |-> Merged(view[o], tip[o])]

\* The usage of each entry that is written is taken off and added anew.
UsageAfterMerge ==
    LET written == {o \in Outpoints : view[o].dirty}
    IN  tipUsage - UsageOf(tip, written) + UsageOf(MergedCache, written)

\* Flush of the block's view into CoinsTip, after the block was (dis)connected.
FlushView ==
    /\ \A o \in Outpoints : ~FreshMisapplied(o)
    /\ tip' = MergedCache
    /\ tipUsage' = UsageAfterMerge
    /\ view' = EmptyCache
    /\ viewUsage' = 0
    /\ UNCHANGED db

\* The view is destroyed: the block turned out to be invalid, or was only tested.
DropView ==
    /\ view' = EmptyCache
    /\ viewUsage' = 0
    /\ UNCHANGED <<db, tip, tipUsage>>

\* CCoinsViewDB::BatchWrite, completed.
WrittenDb == [o \in Outpoints |-> IF tip[o].dirty THEN tip[o].coin ELSE db[o]]

\* Mutant: the cursor keeps spent entries and only clears their flags.
SyncedKeepsSpent(e) == IF e.dirty \/ e.fresh THEN Clean(e.coin) ELSE e

\* What the cursor of a Sync leaves of a flagged entry.
SyncedEntry(e) ==
    IF ~(e.dirty \/ e.fresh) THEN e
    ELSE IF e.coin = Spent THEN Absent ELSE Clean(e.coin)

\* FlushStateToDisk empties CoinsTip, or keeps it as a clean cache; no block
\* is being connected then.
FlushTip ==
    /\ view = EmptyCache
    /\ db' = WrittenDb
    /\ tip' = EmptyCache
    /\ tipUsage' = 0
    /\ UNCHANGED <<view, viewUsage>>

SyncTip ==
    /\ view = EmptyCache
    /\ db' = WrittenDb
    /\ tip' = [o \in Outpoints |-> SyncedEntry(tip[o])]
    /\ UNCHANGED <<view, tipUsage, viewUsage>>

\* Uncache: a coin looked up for a transaction that the mempool refused.
Uncache(o) ==
    /\ tip[o].cached /\ ~tip[o].dirty /\ ~tip[o].fresh
    /\ tip' = [tip EXCEPT ![o] = Absent]
    /\ tipUsage' = tipUsage - DynamicUsage(tip[o].coin)
    /\ UNCHANGED <<db, view, viewUsage>>

\* Snapshot loading puts coins into CoinsTip without any check.
EmplaceCoinInternalDANGER(o, c) ==
    /\ view = EmptyCache
    /\ ~tip[o].cached
    /\ tip' = [tip EXCEPT ![o] = [cached |-> TRUE, coin |-> c, dirty |-> TRUE, fresh |-> FALSE]]
    /\ tipUsage' = tipUsage + DynamicUsage(c)
    /\ UNCHANGED <<db, view, viewUsage>>

Next ==
    \/ \E o \in Outpoints : ReadTip(o) \/ ReadView(o) \/ SpendCoin(o) \/ Uncache(o)
    \/ \E o \in Outpoints, c \in Coins, overwrite \in BOOLEAN : AddCoin(o, c, overwrite)
    \/ \E o \in Outpoints, c \in Coins : AddCoinChecked(o, c) \/ EmplaceCoinInternalDANGER(o, c)
    \/ FlushView
    \/ DropView
    \/ FlushTip
    \/ SyncTip

Spec == Init /\ [][Next]_vars

-----------------------------------------------------------------------------
(* Properties *)

\* Every layer maps each outpoint to a coin or a well-formed slot.
TypeOK ==
    /\ db \in [Outpoints -> Coin]
    /\ tip \in [Outpoints -> Entry]
    /\ view \in [Outpoints -> Entry]

\* FRESH: the parent has no unspent coin there, so that SpendCoin and BatchWrite
\* may forget the entry.  It also rules out the "FRESH flag misapplied" throw.
FreshSound ==
    \A o \in Outpoints :
        /\ tip[o].fresh => db[o] = Spent
        /\ view[o].fresh => TipCoin(o) = Spent

\* Not DIRTY: the entry equals the parent's coin, so that a flush may skip it
\* and Uncache may drop it.
CleanAgrees ==
    \A o \in Outpoints :
        /\ tip[o].cached /\ ~tip[o].dirty => tip[o].coin = db[o]
        /\ view[o].cached /\ ~view[o].dirty => view[o].coin = TipCoin(o)

\* The combinations of flags CCoinsViewCache::SanityCheck allows, without the
\* "spent, FRESH, not DIRTY" one that its comments call impossible in practice.
ValidEntry(e) ==
    /\ ~e.cached => e = Absent
    /\ e.fresh => e.dirty /\ e.coin # Spent
    /\ e.cached /\ e.coin = Spent => e.dirty

ValidFlags == \A o \in Outpoints : ValidEntry(tip[o]) /\ ValidEntry(view[o])

\* The flags of every entry tell the truth about the layer below, after any
\* sequence of reads, writes, merges and evictions: none of the shortcuts that
\* they allow loses a coin or brings one back.
FlagsSound == FreshSound /\ CleanAgrees /\ ValidFlags

\* CCoinsViewCache::SanityCheck: valid flags, and the running memory counters,
\* which are unsigned and adjusted in every operation, equal the recomputed sums.
SanityCheck ==
    /\ ValidFlags
    /\ tipUsage = UsageOf(tip, Outpoints)
    /\ viewUsage = UsageOf(view, Outpoints)

Utxo == INSTANCE UtxoSet WITH
    disk <- db,
    active <- [o \in Outpoints |-> TipCoin(o)],
    working <- [o \in Outpoints |-> ViewCoin(o)]

\* The caches implement three plain maps: reading, caching and evicting change
\* nothing, a flush of a view carries over exactly the view's contents.
ImplementsUtxoSet == Utxo!UtxoSpec
=============================================================================
