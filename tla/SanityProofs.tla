---------------------------- MODULE SanityProofs ----------------------------
(***************************************************************************)
(* Two parts of the program check their books by a SanityCheck of their    *)
(* own, the coins caches and the orphanage.  Proofs about both.            *)
(*                                                                         *)
(* CoinsCache, for every set of outpoints and coins: the flags are sound   *)
(* in every reachable state, and the stack of caches implements the three  *)
(* maps of UtxoSet.  FreshSound is not inductive by itself: AddCoin trusts *)
(* a slot that is not DIRTY to agree with its parent (CleanAgrees), and a  *)
(* merge trusts a cached, spent entry to be DIRTY and not FRESH            *)
(* (ValidFlags).  The counters of memory usage are sums over the entries.  *)
(* A sum is the size of a set of bytes (UsageOf), so that changing one     *)
(* entry, or merging many, is a matter of disjoint sets                    *)
(* (SanityCheckCorrect).                                                   *)
(*                                                                         *)
(* TxOrphanage and TxDownload, for every set of transactions and peers:    *)
(* the orphanage is within its limits after every call.  The usage of all  *)
(* orphans is again the size of a set, and so at most the sum of what the  *)
(* peers use.  LimitOrphans takes announcements only from the peers that   *)
(* exceeded their shares when it began (Suspects), and one with each step, *)
(* so that it ends with the limits kept or with no suspect left; then each *)
(* peer is within its share, and all together within the limits (Calm).    *)
(*                                                                         *)
(* Two properties of the steps follow one orphan, or one peer, through the *)
(* calls that a message makes.  Follows says what a call may do to the     *)
(* announcements of one orphan: none is added, the marks stay on what      *)
(* stays, and a new mark needs that nobody had to reconsider the orphan;   *)
(* calls in a row do the same (StrandedCorrect).  Fair says that all       *)
(* requests to a peer and all orphans of it are among the hashes that it   *)
(* may come to be asked for; a peer whose share covers these is never a    *)
(* suspect, and loses only what a call decides (ShareCorrect).             *)
(***************************************************************************)
EXTENDS CoinsCache, TxDownload, FiniteSetTheorems, WellFoundedInduction, TLAPS

\* The inductive invariant.
IInv == TypeOK /\ FlagsSound

-----------------------------------------------------------------------------
(* Entries *)

\* Looking a coin up yields a well-formed slot that still agrees with the
\* parent and shows the coin the parent showed.
LEMMA FetchedSlot ==
    ASSUME NEW e \in Entry, NEW c \in Coin, ValidEntry(e),
           e.fresh => c = Spent,
           e.cached /\ ~e.dirty => e.coin = c
    PROVE  /\ Fetched(e, c) \in Entry
           /\ ValidEntry(Fetched(e, c))
           /\ Fetched(e, c).fresh => c = Spent
           /\ Fetched(e, c).cached /\ ~Fetched(e, c).dirty => Fetched(e, c).coin = c
           /\ (IF Fetched(e, c).cached THEN Fetched(e, c).coin ELSE c)
                = (IF e.cached THEN e.coin ELSE c)
BY CoinsAssumption DEF Fetched, ValidEntry, Entry, Coin, Absent, Clean

\* Absent is a slot.
LEMMA AbsentSlot == Absent \in Entry /\ ValidEntry(Absent)
BY DEF Absent, Entry, Coin, ValidEntry

\* The coins the layers show are coins.
LEMMA CoinTypes ==
    ASSUME TypeOK, NEW o \in Outpoints
    PROVE  db[o] \in Coin /\ tip[o] \in Entry /\ view[o] \in Entry
           /\ TipCoin(o) \in Coin /\ ViewCoin(o) \in Coin
BY DEF TypeOK, Entry, TipCoin, ViewCoin

-----------------------------------------------------------------------------
(* Each operation preserves the invariant *)

LEMMA InitInv == Init => IInv
BY DEF Init, IInv, FlagsSound, TypeOK, FreshSound, CleanAgrees, ValidFlags, ValidEntry,
   EmptyCache, Absent, Entry, Coin, TipCoin

\* What a lookup in the view does to CoinsTip: nothing that shows.
LEMMA FetchIntoTipInv ==
    ASSUME IInv, NEW p \in Outpoints, FetchIntoTip(p), db' = db
    PROVE  /\ tip' \in [Outpoints -> Entry]
           /\ \A o \in Outpoints :
                /\ ValidEntry(tip'[o])
                /\ tip'[o].fresh => db[o] = Spent
                /\ tip'[o].cached /\ ~tip'[o].dirty => tip'[o].coin = db[o]
                /\ (IF tip'[o].cached THEN tip'[o].coin ELSE db[o]) = TipCoin(o)
<1> USE DEF IInv, FlagsSound
<1>1. CASE view[p].cached
  BY <1>1 DEF FetchIntoTip, TypeOK, FreshSound, CleanAgrees, ValidFlags, TipCoin
<1>2. CASE ~view[p].cached
  <2>1. tip' = [tip EXCEPT ![p] = Fetched(tip[p], db[p])]
    BY <1>2 DEF FetchIntoTip, TipSlot
  <2>2. /\ Fetched(tip[p], db[p]) \in Entry
        /\ ValidEntry(Fetched(tip[p], db[p]))
        /\ Fetched(tip[p], db[p]).fresh => db[p] = Spent
        /\ Fetched(tip[p], db[p]).cached /\ ~Fetched(tip[p], db[p]).dirty
             => Fetched(tip[p], db[p]).coin = db[p]
        /\ (IF Fetched(tip[p], db[p]).cached THEN Fetched(tip[p], db[p]).coin ELSE db[p])
             = TipCoin(p)
    BY FetchedSlot, CoinTypes DEF FreshSound, CleanAgrees, ValidFlags, TipCoin
  <2> QED
    BY <2>1, <2>2 DEF TypeOK, FreshSound, CleanAgrees, ValidFlags, TipCoin
<1> QED BY <1>1, <1>2

\* A lookup in CoinsTip itself fills the same slot.
LEMMA TipSlotSound ==
    ASSUME IInv, NEW p \in Outpoints
    PROVE  /\ TipSlot(p) \in Entry
           /\ ValidEntry(TipSlot(p))
           /\ TipSlot(p).fresh => db[p] = Spent
           /\ TipSlot(p).cached /\ ~TipSlot(p).dirty => TipSlot(p).coin = db[p]
           /\ (IF TipSlot(p).cached THEN TipSlot(p).coin ELSE db[p]) = TipCoin(p)
BY FetchedSlot, CoinTypes
   DEF IInv, FlagsSound, FreshSound, CleanAgrees, ValidFlags, TipSlot, TipCoin

LEMMA ReadTipInv == ASSUME IInv, NEW p \in Outpoints, ReadTip(p) PROVE IInv'
<1> USE DEF IInv, FlagsSound
<1>1. \A o \in Outpoints : tip'[o] = IF o = p THEN TipSlot(p) ELSE tip[o]
  BY DEF ReadTip, TypeOK
<1>2. \A o \in Outpoints : TipCoin(o)' = TipCoin(o)
  BY <1>1, TipSlotSound DEF ReadTip, TipCoin
<1>3. TypeOK'
  BY TipSlotSound DEF ReadTip, TypeOK
<1>4. FreshSound' /\ CleanAgrees'
  BY <1>1, <1>2, TipSlotSound DEF ReadTip, FreshSound, CleanAgrees
<1>5. ValidFlags'
  <2> SUFFICES ASSUME NEW o \in Outpoints
               PROVE  ValidEntry(tip'[o]) /\ ValidEntry(view'[o])
    BY DEF ValidFlags, ValidEntry, Absent
  <2> QED BY <1>1, TipSlotSound DEF ReadTip, ValidFlags
<1> QED BY <1>3, <1>4, <1>5

\* A step of the view at p that leaves the shown contents of CoinsTip alone
\* preserves the invariant if the new entry is sound.
LEMMA ViewStepInv ==
    ASSUME IInv, NEW p \in Outpoints, NEW e \in Entry,
           FetchIntoTip(p) \/ UNCHANGED <<tip, tipUsage>>, db' = db,
           view' = [view EXCEPT ![p] = e],
           ValidEntry(e),
           e.fresh => TipCoin(p) = Spent,
           e.cached /\ ~e.dirty => e.coin = TipCoin(p)
    PROVE  IInv'
<1> USE DEF IInv, FlagsSound
<1>1. /\ tip' \in [Outpoints -> Entry]
      /\ \A o \in Outpoints :
           /\ ValidEntry(tip'[o])
           /\ tip'[o].fresh => db[o] = Spent
           /\ tip'[o].cached /\ ~tip'[o].dirty => tip'[o].coin = db[o]
           /\ (IF tip'[o].cached THEN tip'[o].coin ELSE db[o]) = TipCoin(o)
  <2>1. CASE FetchIntoTip(p)
    BY <2>1, FetchIntoTipInv
  <2>2. CASE UNCHANGED <<tip, tipUsage>>
    BY <2>2 DEF TypeOK, FreshSound, CleanAgrees, ValidFlags, TipCoin
  <2> QED BY <2>1, <2>2
<1>2. \A o \in Outpoints : TipCoin(o)' = TipCoin(o)
  BY <1>1 DEF TipCoin
<1>3. TypeOK'
  BY <1>1 DEF TypeOK
<1>4. FlagsSound'
  <2> SUFFICES ASSUME NEW o \in Outpoints
               PROVE  /\ tip'[o].fresh => db'[o] = Spent
                      /\ view'[o].fresh => TipCoin(o)' = Spent
                      /\ tip'[o].cached /\ ~tip'[o].dirty => tip'[o].coin = db'[o]
                      /\ view'[o].cached /\ ~view'[o].dirty => view'[o].coin = TipCoin(o)'
                      /\ ValidEntry(tip'[o]) /\ ValidEntry(view'[o])
    BY DEF FreshSound, CleanAgrees, ValidFlags, ValidEntry, Absent
  <2>1. view'[o] = IF o = p THEN e ELSE view[o]
    BY DEF TypeOK
  <2> QED BY <1>1, <1>2, <2>1 DEF FreshSound, CleanAgrees, ValidFlags
<1> QED BY <1>3, <1>4

\* The slot a lookup in the view finds.
LEMMA ViewSlotSound ==
    ASSUME IInv, NEW p \in Outpoints
    PROVE  /\ ViewSlot(p) \in Entry
           /\ ValidEntry(ViewSlot(p))
           /\ ViewSlot(p).fresh => TipCoin(p) = Spent
           /\ ViewSlot(p).cached /\ ~ViewSlot(p).dirty => ViewSlot(p).coin = TipCoin(p)
           /\ (IF ViewSlot(p).cached THEN ViewSlot(p).coin ELSE TipCoin(p)) = ViewCoin(p)
BY FetchedSlot, CoinTypes
   DEF IInv, FlagsSound, FreshSound, CleanAgrees, ValidFlags, ViewSlot, ViewCoin

LEMMA ReadViewInv == ASSUME IInv, NEW p \in Outpoints, ReadView(p) PROVE IInv'
BY ViewSlotSound, ViewStepInv DEF ReadView

\* AddCoin may mark its entry FRESH when the slot it found is not DIRTY and the
\* view shows no unspent coin.
LEMMA AddedSound ==
    ASSUME IInv, NEW p \in Outpoints, NEW c \in Coins, NEW w \in BOOLEAN,
           NEW e \in {view[p], ViewSlot(p)},
           w \/ ViewCoin(p) = Spent
    PROVE  /\ AddedEntry(e, c, w) \in Entry
           /\ ValidEntry(AddedEntry(e, c, w))
           /\ AddedEntry(e, c, w).fresh => TipCoin(p) = Spent
           /\ AddedEntry(e, c, w).dirty
<1>1. /\ e \in Entry
      /\ ValidEntry(e)
      /\ e.fresh => TipCoin(p) = Spent
      /\ e.cached /\ ~e.dirty => e.coin = TipCoin(p)
      /\ (IF e.cached THEN e.coin ELSE TipCoin(p)) = ViewCoin(p)
  <2>1. CASE e = view[p]
    BY <2>1, CoinTypes DEF IInv, FlagsSound, FreshSound, CleanAgrees, ValidFlags, ViewCoin
  <2>2. CASE e = ViewSlot(p)
    BY <2>2, ViewSlotSound
  <2> QED BY <2>1, <2>2
<1>2. c \in Coin /\ c # Spent
  BY CoinsAssumption DEF Coin
<1> QED BY <1>1, <1>2 DEF AddedEntry, Entry, ValidEntry, Absent

LEMMA AddCoinInv ==
    ASSUME IInv, NEW p \in Outpoints, NEW c \in Coins, NEW w \in BOOLEAN, AddCoin(p, c, w)
    PROVE  IInv'
<1>1. view' = [view EXCEPT ![p] = AddedEntry(view[p], c, w)]
  BY DEF AddCoin
<1>2. /\ AddedEntry(view[p], c, w) \in Entry
      /\ ValidEntry(AddedEntry(view[p], c, w))
      /\ AddedEntry(view[p], c, w).fresh => TipCoin(p) = Spent
      /\ AddedEntry(view[p], c, w).dirty
  BY AddedSound DEF AddCoin
<1> QED BY <1>1, <1>2, ViewStepInv DEF AddCoin

LEMMA AddCoinCheckedInv ==
    ASSUME IInv, NEW p \in Outpoints, NEW c \in Coins, AddCoinChecked(p, c)
    PROVE  IInv'
<1> DEFINE w == ViewCoin(p) # Spent
<1>1. view' = [view EXCEPT ![p] = AddedEntry(ViewSlot(p), c, w)]
  BY DEF AddCoinChecked
<1>2. /\ AddedEntry(ViewSlot(p), c, w) \in Entry
      /\ ValidEntry(AddedEntry(ViewSlot(p), c, w))
      /\ AddedEntry(ViewSlot(p), c, w).fresh => TipCoin(p) = Spent
      /\ AddedEntry(ViewSlot(p), c, w).dirty
  BY AddedSound
<1> HIDE DEF w
<1> QED BY <1>1, <1>2, ViewStepInv DEF AddCoinChecked

LEMMA SpendCoinInv == ASSUME IInv, NEW p \in Outpoints, SpendCoin(p) PROVE IInv'
<1>1. /\ SpentEntry(ViewSlot(p)) \in Entry
      /\ ValidEntry(SpentEntry(ViewSlot(p)))
      /\ ~SpentEntry(ViewSlot(p)).fresh
      /\ SpentEntry(ViewSlot(p)).cached => SpentEntry(ViewSlot(p)).dirty
  BY ViewSlotSound DEF SpentEntry, Entry, Coin, Absent, ValidEntry
<1> QED BY <1>1, ViewStepInv DEF SpendCoin

LEMMA FlushViewInv == ASSUME IInv, FlushView PROVE IInv'
BY CoinsAssumption DEF FlushView, MergedCache, FreshMisapplied, Merged, EmptyCache, IInv, FlagsSound, TypeOK,
   FreshSound, CleanAgrees, ValidFlags, ValidEntry, Absent, Entry, Coin, TipCoin

LEMMA DropViewInv == ASSUME IInv, DropView PROVE IInv'
BY AbsentSlot DEF DropView, EmptyCache, IInv, FlagsSound, TypeOK,
   FreshSound, CleanAgrees, ValidFlags, ValidEntry, Absent, TipCoin

LEMMA FlushTipInv == ASSUME IInv, FlushTip PROVE IInv'
BY CoinsAssumption DEF FlushTip, WrittenDb, EmptyCache, IInv, FlagsSound, TypeOK,
   FreshSound, CleanAgrees, ValidFlags, ValidEntry, Absent, Entry, Coin, TipCoin

LEMMA SyncTipInv == ASSUME IInv, SyncTip PROVE IInv'
BY CoinsAssumption DEF SyncTip, SyncedEntry, WrittenDb, EmptyCache, IInv, FlagsSound, TypeOK,
   FreshSound, CleanAgrees, ValidFlags, ValidEntry, Absent, Clean, Entry, Coin, TipCoin

LEMMA UncacheInv == ASSUME IInv, NEW p \in Outpoints, Uncache(p) PROVE IInv'
BY CoinsAssumption DEF Uncache, IInv, FlagsSound, TypeOK,
   FreshSound, CleanAgrees, ValidFlags, ValidEntry, Absent, Entry, Coin, TipCoin

LEMMA EmplaceInv ==
    ASSUME IInv, NEW p \in Outpoints, NEW c \in Coins, EmplaceCoinInternalDANGER(p, c)
    PROVE  IInv'
BY CoinsAssumption DEF EmplaceCoinInternalDANGER, EmptyCache, IInv, FlagsSound, TypeOK,
   FreshSound, CleanAgrees, ValidFlags, ValidEntry, Absent, Entry, Coin, TipCoin

LEMMA StutterInv == ASSUME IInv, UNCHANGED vars PROVE IInv'
BY DEF vars, IInv, FlagsSound, TypeOK, FreshSound, CleanAgrees, ValidFlags, TipCoin

LEMMA NextInv == ASSUME IInv, [Next]_vars PROVE IInv'
BY ReadTipInv, ReadViewInv, SpendCoinInv, UncacheInv, AddCoinInv, AddCoinCheckedInv, EmplaceInv,
   FlushViewInv, DropViewInv, FlushTipInv, SyncTipInv, StutterInv DEF Next

\* The inductive invariant holds in every reachable state.
THEOREM Inductive == Spec => []IInv
<1>1. Init => IInv
  BY InitInv
<1>2. IInv /\ [Next]_vars => IInv'
  BY NextInv
<1> QED BY <1>1, <1>2, PTL DEF Spec

\* Every layer stays well formed.
THEOREM TypeCorrect == Spec => []TypeOK
BY Inductive, PTL DEF IInv

\* The flags of every entry, in both caches, are true of the layer below: FRESH
\* hides no unspent coin, and what is not DIRTY agrees.
THEOREM FlagsCorrect == Spec => []FlagsSound
<1>1. IInv => FlagsSound
  BY DEF IInv
<1> QED BY Inductive, <1>1, PTL

\* Flushing a block's view never runs into BatchWrite's "FRESH flag misapplied".
THEOREM NeverMisapplied == Spec => [](\A o \in Outpoints : ~FreshMisapplied(o))
<1>1. IInv => \A o \in Outpoints : ~FreshMisapplied(o)
  BY DEF IInv, FlagsSound, FreshSound, FreshMisapplied, TipCoin
<1> QED BY Inductive, <1>1, PTL

-----------------------------------------------------------------------------
(* Refinement *)

TipMap == [o \in Outpoints |-> TipCoin(o)]
ViewMap == [o \in Outpoints |-> ViewCoin(o)]

\* The three maps before and after a step, in terms of the abstract actions.
Shows(disk1, active1, working1) ==
    /\ db' = disk1
    /\ TipMap' = active1
    /\ ViewMap' = working1

LEMMA InitRefines == Init => Utxo!UtxoInit
BY DEF Init, Utxo!UtxoInit, EmptyCache, Absent, TipCoin, ViewCoin, Coin

\* A step of the view at p shows only as a change of the working map at p.
LEMMA ViewStepShows ==
    ASSUME IInv, NEW p \in Outpoints, NEW e \in Entry,
           FetchIntoTip(p) \/ UNCHANGED <<tip, tipUsage>>, db' = db,
           view' = [view EXCEPT ![p] = e]
    PROVE  Shows(db, TipMap, [ViewMap EXCEPT ![p] = IF e.cached THEN e.coin ELSE TipCoin(p)])
<1>1. \A o \in Outpoints : TipCoin(o)' = TipCoin(o)
  <2>1. CASE FetchIntoTip(p)
    BY <2>1, FetchIntoTipInv DEF TipCoin
  <2>2. CASE UNCHANGED <<tip, tipUsage>>
    BY <2>2 DEF TipCoin
  <2> QED BY <2>1, <2>2
<1>2. \A o \in Outpoints :
        ViewCoin(o)' = IF o = p THEN (IF e.cached THEN e.coin ELSE TipCoin(p)) ELSE ViewCoin(o)
  BY <1>1 DEF ViewCoin, IInv, TypeOK
<1> QED BY <1>1, <1>2 DEF Shows, TipMap, ViewMap

LEMMA ReadTipShows ==
    ASSUME IInv, NEW p \in Outpoints, ReadTip(p) PROVE Shows(db, TipMap, ViewMap)
<1>1. \A o \in Outpoints : tip'[o] = IF o = p THEN TipSlot(p) ELSE tip[o]
  BY DEF ReadTip, IInv, TypeOK
<1>2. \A o \in Outpoints : TipCoin(o)' = TipCoin(o)
  BY <1>1, TipSlotSound DEF ReadTip, TipCoin
<1> QED BY <1>2 DEF Shows, TipMap, ViewMap, ViewCoin, ReadTip

LEMMA ReadViewShows ==
    ASSUME IInv, NEW p \in Outpoints, ReadView(p) PROVE Shows(db, TipMap, ViewMap)
<1>1. Shows(db, TipMap, [ViewMap EXCEPT ![p] = ViewCoin(p)])
  BY ViewSlotSound, ViewStepShows DEF ReadView
<1> QED BY <1>1 DEF ViewMap

LEMMA UncacheShows ==
    ASSUME IInv, NEW p \in Outpoints, Uncache(p) PROVE Shows(db, TipMap, ViewMap)
<1>1. \A o \in Outpoints : TipCoin(o)' = TipCoin(o)
  BY DEF Uncache, TipCoin, IInv, TypeOK, FlagsSound, CleanAgrees, Absent
<1> QED BY <1>1 DEF Shows, TipMap, ViewMap, ViewCoin, Uncache

LEMMA AddCoinShows ==
    ASSUME IInv, NEW p \in Outpoints, NEW c \in Coins, NEW w \in BOOLEAN, AddCoin(p, c, w)
    PROVE  Shows(db, TipMap, [ViewMap EXCEPT ![p] = c])
<1> DEFINE e == AddedEntry(view[p], c, w)
<1>1. e \in Entry /\ e.cached /\ e.coin = c
  BY AddedSound DEF AddCoin, AddedEntry
<1>2. view' = [view EXCEPT ![p] = e]
  BY DEF AddCoin
<1> HIDE DEF e
<1> QED BY <1>1, <1>2, ViewStepShows DEF AddCoin

LEMMA AddCoinCheckedShows ==
    ASSUME IInv, NEW p \in Outpoints, NEW c \in Coins, AddCoinChecked(p, c)
    PROVE  Shows(db, TipMap, [ViewMap EXCEPT ![p] = c])
<1> DEFINE e == AddedEntry(ViewSlot(p), c, ViewCoin(p) # Spent)
<1>1. e \in Entry /\ e.cached /\ e.coin = c
  BY AddedSound DEF AddedEntry
<1>2. view' = [view EXCEPT ![p] = e]
  BY DEF AddCoinChecked
<1> HIDE DEF e
<1> QED BY <1>1, <1>2, ViewStepShows DEF AddCoinChecked

\* Spending drops a FRESH entry; what shows through is then the parent's spent coin.
LEMMA SpendCoinShows ==
    ASSUME IInv, NEW p \in Outpoints, SpendCoin(p)
    PROVE  Shows(db, TipMap, [ViewMap EXCEPT ![p] = Spent])
<1> DEFINE e == SpentEntry(ViewSlot(p))
<1>1. /\ e \in Entry
      /\ (IF e.cached THEN e.coin ELSE TipCoin(p)) = Spent
  BY ViewSlotSound DEF SpentEntry, Entry, Coin, Absent, ViewSlot, Fetched, Clean
<1>2. view' = [view EXCEPT ![p] = e]
  BY DEF SpendCoin
<1> HIDE DEF e
<1> QED BY <1>1, <1>2, ViewStepShows DEF SpendCoin

\* The heart of the matter: a flush makes CoinsTip show what the view showed.
LEMMA FlushViewShows == ASSUME IInv, FlushView PROVE Shows(db, ViewMap, ViewMap)
<1>1. \A o \in Outpoints : TipCoin(o)' = ViewCoin(o)
  BY CoinsAssumption DEF FlushView, MergedCache, FreshMisapplied, Merged, IInv, FlagsSound, TypeOK,
     FreshSound, CleanAgrees, ValidFlags, ValidEntry, Absent, Entry, Coin, TipCoin, ViewCoin
<1>2. \A o \in Outpoints : ViewCoin(o)' = TipCoin(o)'
  BY DEF FlushView, EmptyCache, Absent, ViewCoin
<1> QED BY <1>1, <1>2 DEF Shows, TipMap, ViewMap, FlushView

LEMMA DropViewShows == ASSUME IInv, DropView PROVE Shows(db, TipMap, TipMap)
BY DEF DropView, EmptyCache, Absent, Shows, TipMap, ViewMap, TipCoin, ViewCoin

LEMMA EmptyViewShows == ASSUME view = EmptyCache PROVE ViewMap = TipMap
BY DEF EmptyCache, Absent, TipMap, ViewMap, ViewCoin

\* Writing CoinsTip out makes the database show what CoinsTip showed.
LEMMA PersistShows ==
    ASSUME IInv, FlushTip \/ SyncTip PROVE Shows(TipMap, TipMap, ViewMap)
<1>1. db' = TipMap
  BY DEF FlushTip, SyncTip, WrittenDb, TipMap, TipCoin, IInv, FlagsSound, TypeOK,
     CleanAgrees, ValidFlags, ValidEntry, Absent
<1>2. \A o \in Outpoints : TipCoin(o)' = TipCoin(o)
  BY <1>1 DEF FlushTip, SyncTip, SyncedEntry, Clean, EmptyCache, TipMap, TipCoin, IInv,
     FlagsSound, TypeOK, CleanAgrees, ValidFlags, ValidEntry, Absent
<1> QED BY <1>1, <1>2 DEF Shows, TipMap, ViewMap, ViewCoin, FlushTip, SyncTip

LEMMA EmplaceShows ==
    ASSUME IInv, NEW p \in Outpoints, NEW c \in Coins, EmplaceCoinInternalDANGER(p, c)
    PROVE  /\ ViewMap = TipMap
           /\ Shows(db, [TipMap EXCEPT ![p] = c], [TipMap EXCEPT ![p] = c])
<1>1. \A o \in Outpoints : TipCoin(o)' = IF o = p THEN c ELSE TipCoin(o)
  BY DEF EmplaceCoinInternalDANGER, TipCoin, IInv, TypeOK
<1>2. \A o \in Outpoints : ViewCoin(o)' = TipCoin(o)'
  BY DEF EmplaceCoinInternalDANGER, EmptyCache, Absent, ViewCoin
<1> QED BY <1>1, <1>2, EmptyViewShows DEF Shows, TipMap, ViewMap, EmplaceCoinInternalDANGER

LEMMA StutterShows == ASSUME UNCHANGED vars PROVE Shows(db, TipMap, ViewMap)
BY DEF vars, Shows, TipMap, ViewMap, TipCoin, ViewCoin

\* Every step of the caches is a step of the maps, or changes none of them.
LEMMA NextRefines ==
    ASSUME IInv, [Next]_vars PROVE [Utxo!UtxoNext]_(Utxo!utxoVars)
<1> USE DEF Shows, TipMap, ViewMap
<1>1. ASSUME NEW p \in Outpoints, ReadTip(p) \/ ReadView(p) \/ Uncache(p)
      PROVE  UNCHANGED Utxo!utxoVars
  BY <1>1, ReadTipShows, ReadViewShows, UncacheShows DEF Utxo!utxoVars
<1>2. ASSUME NEW p \in Outpoints, SpendCoin(p) PROVE Utxo!Spend(p)
  BY <1>2, SpendCoinShows DEF Utxo!Spend
<1>3. ASSUME NEW p \in Outpoints, NEW c \in Coins,
             AddCoinChecked(p, c) \/ \E w \in BOOLEAN : AddCoin(p, c, w)
      PROVE  Utxo!Add(p, c)
  BY <1>3, AddCoinShows, AddCoinCheckedShows DEF Utxo!Add
<1>4. ASSUME NEW p \in Outpoints, NEW c \in Coins, EmplaceCoinInternalDANGER(p, c)
      PROVE  Utxo!Load(p, c)
  BY <1>4, EmplaceShows DEF Utxo!Load
<1>5. ASSUME FlushView PROVE Utxo!Commit
  BY <1>5, FlushViewShows DEF Utxo!Commit
<1>6. ASSUME DropView PROVE Utxo!Discard
  BY <1>6, DropViewShows DEF Utxo!Discard
<1>7. ASSUME FlushTip \/ SyncTip PROVE Utxo!Persist
  BY <1>7, PersistShows DEF Utxo!Persist
<1>8. ASSUME UNCHANGED vars PROVE UNCHANGED Utxo!utxoVars
  BY <1>8, StutterShows DEF Utxo!utxoVars
<1> QED BY <1>1, <1>2, <1>3, <1>4, <1>5, <1>6, <1>7, <1>8 DEF Next, Utxo!UtxoNext

\* The coins caches implement the plain UTXO maps.
THEOREM Refinement == Spec => ImplementsUtxoSet
<1>1. Init => Utxo!UtxoInit
  BY InitRefines
<1>2. IInv /\ [Next]_vars => [Utxo!UtxoNext]_(Utxo!utxoVars)
  BY NextRefines
<1> QED BY <1>1, <1>2, Inductive, PTL DEF Spec, ImplementsUtxoSet, Utxo!UtxoSpec

-----------------------------------------------------------------------------
(* The memory counters *)

UInv ==
    /\ tipUsage = UsageOf(tip, Outpoints)
    /\ viewUsage = UsageOf(view, Outpoints)

LEMMA UsageNat == ASSUME NEW c \in Coin PROVE DynamicUsage(c) \in Nat
BY CoinsAssumption DEF DynamicUsage, Coin

LEMMA SlotBytes ==
    ASSUME NEW o, NEW c \in Coin
    PROVE  /\ IsFiniteSet({o} \X (1 .. DynamicUsage(c)))
           /\ Cardinality({o} \X (1 .. DynamicUsage(c))) = DynamicUsage(c)
<1> DEFINE u == DynamicUsage(c)
<1>0. u \in Nat
  BY UsageNat
<1> HIDE DEF u
<1>1. IsFiniteSet(1 .. u) /\ Cardinality(1 .. u) = u
  BY <1>0, FS_Interval
<1>2. IsFiniteSet({o}) /\ Cardinality({o}) = 1
  BY FS_Singleton
<1>3. /\ IsFiniteSet({o} \X (1 .. u))
      /\ Cardinality({o} \X (1 .. u)) = Cardinality({o}) * Cardinality(1 .. u)
  BY <1>1, <1>2, FS_Product
<1>4. Cardinality({o} \X (1 .. u)) = u
  BY <1>0, <1>1, <1>2, <1>3
<1> QED BY <1>3, <1>4 DEF u

LEMMA BytesFinite ==
    ASSUME NEW cache \in [Outpoints -> Entry], NEW os \in SUBSET Outpoints
    PROVE  IsFiniteSet(Bytes(cache, os)) /\ UsageOf(cache, os) \in Nat
<1> DEFINE slot == [o \in os |-> {o} \X (1 .. DynamicUsage(cache[o].coin))]
           B == {slot[o] : o \in os}
<1>1. IsFiniteSet(os)
  BY CoinsAssumption, FS_Subset
<1>2. IsFiniteSet(B)
  <2>1. slot \in Surjection(os, B)
    BY DEF Surjection
  <2> QED BY <1>1, <2>1, FS_Surjection
<1>3. \A b \in B : IsFiniteSet(b)
  <2>1. ASSUME NEW o \in os PROVE IsFiniteSet(slot[o])
    <3>1. cache[o].coin \in Coin
      BY DEF Entry
    <3> QED BY <3>1, SlotBytes
  <2> QED BY <2>1
<1>4. IsFiniteSet(UNION B)
  BY <1>2, <1>3, FS_UNION
<1>5. UNION B = Bytes(cache, os)
  BY DEF Bytes
<1> QED BY <1>4, <1>5, FS_CardinalityType DEF UsageOf

\* The outpoints of two disjoint sets are counted apart.
LEMMA UsageSplit ==
    ASSUME NEW cache \in [Outpoints -> Entry], NEW a \in SUBSET Outpoints,
           NEW b \in SUBSET Outpoints, a \cap b = {}
    PROVE  UsageOf(cache, a \cup b) = UsageOf(cache, a) + UsageOf(cache, b)
<1> DEFINE A == Bytes(cache, a)
           B == Bytes(cache, b)
<1>1. Bytes(cache, a \cup b) = A \cup B /\ A \cap B = {}
  BY DEF Bytes
<1>2. IsFiniteSet(A) /\ IsFiniteSet(B) /\ Cardinality(A) \in Nat /\ Cardinality(B) \in Nat
  BY BytesFinite DEF UsageOf
<1>3. UsageOf(cache, a \cup b) = Cardinality(A \cup B)
  BY <1>1 DEF UsageOf
<1> HIDE DEF A, B
<1>4. Cardinality(A \cup B) = Cardinality(A) + Cardinality(B) - Cardinality(A \cap B)
  BY <1>2, FS_Union
<1>5. Cardinality(A \cap B) = 0
  BY <1>1, FS_EmptySet
<1>6. Cardinality(A \cup B) = Cardinality(A) + Cardinality(B)
  BY <1>2, <1>4, <1>5
<1> QED BY <1>3, <1>6 DEF UsageOf, A, B

\* The usage depends on nothing but the usage of each coin.
LEMMA UsageSame ==
    ASSUME NEW cache, NEW other, NEW os,
           \A o \in os : DynamicUsage(other[o].coin) = DynamicUsage(cache[o].coin)
    PROVE  UsageOf(other, os) = UsageOf(cache, os)
<1>1. Bytes(other, os) = Bytes(cache, os)
  BY DEF Bytes
<1> QED BY <1>1 DEF UsageOf

LEMMA UsageEmpty == UsageOf(EmptyCache, Outpoints) = 0
<1>1. \A o \in Outpoints : 1 .. DynamicUsage(EmptyCache[o].coin) = {}
  BY DEF EmptyCache, Absent, DynamicUsage
<1>2. Bytes(EmptyCache, Outpoints) = {}
  BY <1>1 DEF Bytes
<1> QED BY <1>2, FS_EmptySet DEF UsageOf

\* One slot is replaced: what its coin used is taken off, what the new one uses
\* is added.
LEMMA UsageReplaced ==
    ASSUME NEW cache \in [Outpoints -> Entry], NEW p \in Outpoints, NEW e \in Entry
    PROVE  UsageOf([cache EXCEPT ![p] = e], Outpoints)
             = UsageOf(cache, Outpoints) - DynamicUsage(cache[p].coin) + DynamicUsage(e.coin)
<1> DEFINE other == [cache EXCEPT ![p] = e]
           rest == Outpoints \ {p}
<1>1. /\ other \in [Outpoints -> Entry] /\ other[p] = e
      /\ \A o \in rest : other[o] = cache[o]
  OBVIOUS
<1>2. /\ rest \in SUBSET Outpoints /\ {p} \in SUBSET Outpoints
      /\ rest \cap {p} = {} /\ rest \cup {p} = Outpoints
  OBVIOUS
<1> HIDE DEF other, rest
<1>3. UsageOf(other, rest) = UsageOf(cache, rest)
  BY <1>1, UsageSame
<1>4. ASSUME NEW c \in [Outpoints -> Entry]
      PROVE  UsageOf(c, Outpoints) = UsageOf(c, rest) + DynamicUsage(c[p].coin)
  <2>1. UsageOf(c, rest \cup {p}) = UsageOf(c, rest) + UsageOf(c, {p})
    BY <1>2, UsageSplit
  <2>2. Bytes(c, {p}) = {p} \X (1 .. DynamicUsage(c[p].coin))
    BY DEF Bytes
  <2>3. UsageOf(c, {p}) = DynamicUsage(c[p].coin)
    <3>1. c[p].coin \in Coin
      BY DEF Entry
    <3> QED BY <2>2, <3>1, SlotBytes DEF UsageOf
  <2> QED BY <1>2, <2>1, <2>3
<1>5. UsageOf(cache, rest) \in Nat
  BY <1>2, BytesFinite
<1>6. DynamicUsage(cache[p].coin) \in Nat /\ DynamicUsage(e.coin) \in Nat
  BY UsageNat DEF Entry
<1>7. /\ UsageOf(cache, Outpoints) = UsageOf(cache, rest) + DynamicUsage(cache[p].coin)
      /\ UsageOf(other, Outpoints) = UsageOf(cache, rest) + DynamicUsage(e.coin)
  BY <1>1, <1>3, <1>4
<1>8. UsageOf(other, Outpoints)
        = UsageOf(cache, Outpoints) - DynamicUsage(cache[p].coin) + DynamicUsage(e.coin)
  BY <1>5, <1>6, <1>7
<1> QED BY <1>8 DEF other

\* What a lookup adds to the counter is what the slot it leaves uses more.
LEMMA FetchedUsageExact ==
    ASSUME NEW e \in Entry, NEW c \in Coin, ValidEntry(e)
    PROVE  /\ DynamicUsage(Fetched(e, c).coin) = DynamicUsage(e.coin) + FetchedUsage(e, c)
           /\ FetchedUsage(e, c) \in Nat /\ DynamicUsage(e.coin) \in Nat
           /\ Fetched(e, c) \in Entry
<1>1. DynamicUsage(c) \in Nat /\ DynamicUsage(e.coin) \in Nat /\ e.coin \in Coin
  BY UsageNat DEF Entry
<1>2. CASE e.cached
  BY <1>1, <1>2 DEF Fetched, FetchedUsage
<1>3. CASE ~e.cached
  <2>1. e.coin = Spent /\ DynamicUsage(e.coin) = 0
    BY <1>3 DEF ValidEntry, Absent, DynamicUsage
  <2>2. CASE c = Spent
    BY <1>1, <1>3, <2>1, <2>2 DEF Fetched, FetchedUsage
  <2>3. CASE c # Spent
    BY <1>1, <1>3, <2>1, <2>3 DEF Fetched, FetchedUsage, Clean, Entry
  <2> QED BY <2>2, <2>3
<1> QED BY <1>2, <1>3 DEF Entry

LEMMA TipLookup ==
    ASSUME IInv, UInv, NEW p \in Outpoints,
           tip' = [tip EXCEPT ![p] = TipSlot(p)],
           tipUsage' = tipUsage + FetchedUsage(tip[p], db[p])
    PROVE  tipUsage' = UsageOf(tip', Outpoints)
<1>1. /\ tip \in [Outpoints -> Entry] /\ tip[p] \in Entry /\ db[p] \in Coin /\ ValidEntry(tip[p])
  BY CoinTypes DEF IInv, FlagsSound, ValidFlags, TypeOK
<1>2. /\ DynamicUsage(TipSlot(p).coin) = DynamicUsage(tip[p].coin) + FetchedUsage(tip[p], db[p])
      /\ FetchedUsage(tip[p], db[p]) \in Nat /\ DynamicUsage(tip[p].coin) \in Nat
      /\ TipSlot(p) \in Entry
  BY <1>1, FetchedUsageExact DEF TipSlot
<1>3. UsageOf([tip EXCEPT ![p] = TipSlot(p)], Outpoints)
        = UsageOf(tip, Outpoints) - DynamicUsage(tip[p].coin) + DynamicUsage(TipSlot(p).coin)
  BY <1>1, <1>2, UsageReplaced
<1>4. UsageOf(tip, Outpoints) \in Nat
  BY <1>1, BytesFinite
<1>5. tipUsage = UsageOf(tip, Outpoints)
  BY DEF UInv
<1> QED BY <1>2, <1>3, <1>4, <1>5

LEMMA FetchIntoTipUsage ==
    ASSUME IInv, UInv, NEW p \in Outpoints, FetchIntoTip(p)
    PROVE  tipUsage' = UsageOf(tip', Outpoints)
<1>1. CASE view[p].cached
  BY <1>1 DEF FetchIntoTip, UInv
<1>2. CASE ~view[p].cached
  BY <1>2, TipLookup DEF FetchIntoTip
<1> QED BY <1>1, <1>2

\* The view's slot at p is looked up and then replaced by e.
LEMMA ViewReplaced ==
    ASSUME IInv, UInv, NEW p \in Outpoints, NEW e \in Entry,
           view' = [view EXCEPT ![p] = e],
           viewUsage' = viewUsage + FetchedUsage(view[p], TipCoin(p))
                          - DynamicUsage(ViewSlot(p).coin) + DynamicUsage(e.coin)
    PROVE  viewUsage' = UsageOf(view', Outpoints)
<1>1. view \in [Outpoints -> Entry] /\ view[p] \in Entry /\ TipCoin(p) \in Coin
      /\ ValidEntry(view[p])
  BY CoinTypes DEF IInv, FlagsSound, ValidFlags, TypeOK
<1>2. /\ DynamicUsage(ViewSlot(p).coin)
            = DynamicUsage(view[p].coin) + FetchedUsage(view[p], TipCoin(p))
      /\ FetchedUsage(view[p], TipCoin(p)) \in Nat /\ DynamicUsage(view[p].coin) \in Nat
  BY <1>1, FetchedUsageExact DEF ViewSlot
<1>3. UsageOf([view EXCEPT ![p] = e], Outpoints)
        = UsageOf(view, Outpoints) - DynamicUsage(view[p].coin) + DynamicUsage(e.coin)
  BY <1>1, UsageReplaced
<1>4. UsageOf(view, Outpoints) \in Nat /\ DynamicUsage(e.coin) \in Nat
  BY <1>1, BytesFinite, UsageNat DEF Entry
<1>5. viewUsage = UsageOf(view, Outpoints)
  BY DEF UInv
<1> QED BY <1>2, <1>3, <1>4, <1>5

-----------------------------------------------------------------------------
(* Each operation keeps the counters exact *)

LEMMA InitUsage == Init => UInv
BY UsageEmpty DEF Init, UInv

LEMMA ReadTipUsage == ASSUME IInv, UInv, NEW p \in Outpoints, ReadTip(p) PROVE UInv'
<1>1. tipUsage' = UsageOf(tip', Outpoints)
  BY TipLookup DEF ReadTip
<1> QED BY <1>1 DEF ReadTip, UInv

LEMMA ReadViewUsage == ASSUME IInv, UInv, NEW p \in Outpoints, ReadView(p) PROVE UInv'
<1>1. tipUsage' = UsageOf(tip', Outpoints)
  BY FetchIntoTipUsage DEF ReadView
<1>2. ViewSlot(p) \in Entry /\ DynamicUsage(ViewSlot(p).coin) \in Nat
  BY ViewSlotSound, UsageNat DEF Entry
<1>3. /\ viewUsage' = viewUsage + FetchedUsage(view[p], TipCoin(p))
      /\ viewUsage \in Nat /\ FetchedUsage(view[p], TipCoin(p)) \in Nat
  <2>1. viewUsage \in Nat
    BY BytesFinite DEF UInv, IInv, TypeOK
  <2>2. view[p] \in Entry /\ TipCoin(p) \in Coin /\ ValidEntry(view[p])
    BY CoinTypes DEF IInv, FlagsSound, ValidFlags
  <2>3. FetchedUsage(view[p], TipCoin(p)) \in Nat
    BY <2>2, FetchedUsageExact
  <2> QED BY <2>1, <2>3 DEF ReadView
<1>4. viewUsage' = viewUsage + FetchedUsage(view[p], TipCoin(p))
                     - DynamicUsage(ViewSlot(p).coin) + DynamicUsage(ViewSlot(p).coin)
  BY <1>2, <1>3
<1>5. view' = [view EXCEPT ![p] = ViewSlot(p)]
  BY DEF ReadView
<1>6. viewUsage' = UsageOf(view', Outpoints)
  BY <1>2, <1>4, <1>5, ViewReplaced
<1> QED BY <1>1, <1>6 DEF UInv

LEMMA AddCoinUsage ==
    ASSUME IInv, UInv, NEW p \in Outpoints, NEW c \in Coins, NEW w \in BOOLEAN, AddCoin(p, c, w)
    PROVE  UInv'
<1> DEFINE e == AddedEntry(view[p], c, w)
<1>1. e \in Entry /\ e.coin = c
  BY AddedSound DEF AddCoin, AddedEntry
<1>2. view' = [view EXCEPT ![p] = e]
      /\ viewUsage' = viewUsage - DynamicUsage(view[p].coin) + DynamicUsage(c)
      /\ tip' = tip /\ tipUsage' = tipUsage
  BY DEF AddCoin
<1> HIDE DEF e
<1>3. UsageOf([view EXCEPT ![p] = e], Outpoints)
        = UsageOf(view, Outpoints) - DynamicUsage(view[p].coin) + DynamicUsage(e.coin)
  BY <1>1, UsageReplaced DEF IInv, TypeOK
<1> QED BY <1>1, <1>2, <1>3 DEF UInv

LEMMA AddCoinCheckedUsage ==
    ASSUME IInv, UInv, NEW p \in Outpoints, NEW c \in Coins, AddCoinChecked(p, c)
    PROVE  UInv'
<1> DEFINE e == AddedEntry(ViewSlot(p), c, ViewCoin(p) # Spent)
<1>1. e \in Entry /\ e.coin = c
  BY AddedSound DEF AddedEntry
<1>2. /\ view' = [view EXCEPT ![p] = e]
      /\ viewUsage' = viewUsage + FetchedUsage(view[p], TipCoin(p))
                        - DynamicUsage(ViewSlot(p).coin) + DynamicUsage(c)
      /\ FetchIntoTip(p)
  BY DEF AddCoinChecked
<1> HIDE DEF e
<1>3. viewUsage' = UsageOf(view', Outpoints)
  BY <1>1, <1>2, ViewReplaced
<1> QED BY <1>2, <1>3, FetchIntoTipUsage DEF UInv

LEMMA SpendCoinUsage == ASSUME IInv, UInv, NEW p \in Outpoints, SpendCoin(p) PROVE UInv'
<1> DEFINE e == SpentEntry(ViewSlot(p))
           used == viewUsage + FetchedUsage(view[p], TipCoin(p)) - DynamicUsage(ViewSlot(p).coin)
<1>1. e \in Entry /\ e.coin = Spent
  BY DEF SpentEntry, Entry, Coin, Absent
<1>2. view' = [view EXCEPT ![p] = e] /\ viewUsage' = used /\ FetchIntoTip(p)
  BY DEF SpendCoin
<1>3. used \in Int
  <2>1. viewUsage \in Nat
    BY BytesFinite DEF UInv, IInv, TypeOK
  <2>2. view[p] \in Entry /\ TipCoin(p) \in Coin /\ ValidEntry(view[p])
    BY CoinTypes DEF IInv, FlagsSound, ValidFlags
  <2>3. FetchedUsage(view[p], TipCoin(p)) \in Nat
    BY <2>2, FetchedUsageExact
  <2>4. DynamicUsage(ViewSlot(p).coin) \in Nat
    BY ViewSlotSound, UsageNat DEF Entry
  <2> QED BY <2>1, <2>3, <2>4
<1>4. DynamicUsage(e.coin) = 0
  BY <1>1 DEF DynamicUsage
<1> HIDE DEF e
<1>5. viewUsage' = viewUsage + FetchedUsage(view[p], TipCoin(p))
                     - DynamicUsage(ViewSlot(p).coin) + DynamicUsage(e.coin)
  BY <1>2, <1>3, <1>4
<1>6. viewUsage' = UsageOf(view', Outpoints)
  BY <1>1, <1>2, <1>5, ViewReplaced
<1> QED BY <1>2, <1>6, FetchIntoTipUsage DEF UInv

\* The entries a flush does not write stay; those it does are recounted.
LEMMA FlushViewUsage == ASSUME IInv, UInv, FlushView PROVE UInv'
<1> DEFINE w == {o \in Outpoints : view[o].dirty}
           rest == Outpoints \ w
<1>1. tip \in [Outpoints -> Entry] /\ tip' \in [Outpoints -> Entry]
  BY FlushViewInv DEF IInv, TypeOK
<1>2. /\ tip' = MergedCache /\ view' = EmptyCache /\ viewUsage' = 0
      /\ tipUsage' = tipUsage - UsageOf(tip, w) + UsageOf(tip', w)
  BY DEF FlushView, UsageAfterMerge
<1>3. \A o \in rest : tip'[o] = tip[o]
  BY <1>2 DEF MergedCache, Merged
<1>4. w \in SUBSET Outpoints /\ rest \in SUBSET Outpoints /\ w \cap rest = {} /\ w \cup rest = Outpoints
  OBVIOUS
<1> HIDE DEF w, rest
<1>5. UsageOf(tip', rest) = UsageOf(tip, rest)
  BY <1>3, UsageSame
<1>6. /\ UsageOf(tip, w \cup rest) = UsageOf(tip, w) + UsageOf(tip, rest)
      /\ UsageOf(tip', w \cup rest) = UsageOf(tip', w) + UsageOf(tip', rest)
  BY <1>1, <1>4, UsageSplit
<1>7. UsageOf(tip, w) \in Nat /\ UsageOf(tip, rest) \in Nat /\ UsageOf(tip', w) \in Nat
  BY <1>1, <1>4, BytesFinite
<1>8. tipUsage = UsageOf(tip, w) + UsageOf(tip, rest)
  BY <1>4, <1>6 DEF UInv
<1>9. tipUsage' = UsageOf(tip', Outpoints)
  <2>1. UsageOf(tip', Outpoints) = UsageOf(tip', w) + UsageOf(tip, rest)
    BY <1>4, <1>5, <1>6
  <2>2. tipUsage' = tipUsage - UsageOf(tip, w) + UsageOf(tip', w)
    BY <1>2
  <2>3. tipUsage' = UsageOf(tip, rest) + UsageOf(tip', w)
    BY <1>7, <1>8, <2>2
  <2> QED BY <1>7, <2>1, <2>3
<1> QED BY <1>2, <1>9, UsageEmpty DEF UInv

LEMMA DropViewUsage == ASSUME UInv, DropView PROVE UInv'
BY UsageEmpty DEF DropView, UInv

LEMMA FlushTipUsage == ASSUME UInv, FlushTip PROVE UInv'
BY UsageEmpty DEF FlushTip, UInv

\* A Sync drops only spent entries, which use nothing.
LEMMA SyncTipUsage == ASSUME IInv, UInv, SyncTip PROVE UInv'
<1>1. \A o \in Outpoints : DynamicUsage(tip'[o].coin) = DynamicUsage(tip[o].coin)
  BY DEF SyncTip, SyncedEntry, Absent, Clean, DynamicUsage
<1>2. UsageOf(tip', Outpoints) = UsageOf(tip, Outpoints)
  BY <1>1, UsageSame
<1> QED BY <1>2 DEF SyncTip, UInv

LEMMA TipReplaced ==
    ASSUME IInv, UInv, NEW p \in Outpoints, NEW e \in Entry, tip' = [tip EXCEPT ![p] = e],
           tipUsage' = tipUsage - DynamicUsage(tip[p].coin) + DynamicUsage(e.coin),
           UNCHANGED <<view, viewUsage>>
    PROVE  UInv'
<1>1. UsageOf([tip EXCEPT ![p] = e], Outpoints)
        = UsageOf(tip, Outpoints) - DynamicUsage(tip[p].coin) + DynamicUsage(e.coin)
  BY UsageReplaced DEF IInv, TypeOK
<1> QED BY <1>1 DEF UInv

LEMMA TipUsageTypes ==
    ASSUME IInv, UInv, NEW p \in Outpoints
    PROVE  tipUsage \in Nat /\ DynamicUsage(tip[p].coin) \in Nat
<1>1. tip[p].coin \in Coin
  BY CoinTypes DEF IInv, Entry
<1>2. tipUsage \in Nat
  BY BytesFinite DEF UInv, IInv, TypeOK
<1> QED BY <1>1, <1>2, UsageNat

LEMMA UncacheUsage == ASSUME IInv, UInv, NEW p \in Outpoints, Uncache(p) PROVE UInv'
<1>1. DynamicUsage(Absent.coin) = 0
  BY DEF Absent, DynamicUsage
<1>2. tipUsage' = tipUsage - DynamicUsage(tip[p].coin) + DynamicUsage(Absent.coin)
  BY <1>1, TipUsageTypes DEF Uncache
<1> QED BY <1>2, AbsentSlot, TipReplaced DEF Uncache

LEMMA EmplaceUsage ==
    ASSUME IInv, UInv, NEW p \in Outpoints, NEW c \in Coins, EmplaceCoinInternalDANGER(p, c)
    PROVE  UInv'
<1> DEFINE e == [cached |-> TRUE, coin |-> c, dirty |-> TRUE, fresh |-> FALSE]
<1>1. e \in Entry /\ e.coin = c
  BY DEF Entry, Coin
<1>2. /\ tip' = [tip EXCEPT ![p] = e] /\ tipUsage' = tipUsage + DynamicUsage(c)
      /\ UNCHANGED <<view, viewUsage>> /\ ~tip[p].cached
  BY DEF EmplaceCoinInternalDANGER
<1> HIDE DEF e
<1>3. DynamicUsage(tip[p].coin) = 0
  BY <1>2 DEF IInv, FlagsSound, ValidFlags, ValidEntry, Absent, DynamicUsage
<1>4. tipUsage' = tipUsage - DynamicUsage(tip[p].coin) + DynamicUsage(e.coin)
  <2>1. tipUsage \in Nat /\ DynamicUsage(c) \in Nat
    BY TipUsageTypes, UsageNat DEF Coin
  <2> QED BY <1>1, <1>2, <1>3, <2>1
<1> QED BY <1>1, <1>2, <1>4, TipReplaced

LEMMA NextUsage == ASSUME IInv, UInv, [Next]_vars PROVE UInv'
<1>1. CASE UNCHANGED vars
  BY <1>1 DEF vars, UInv
<1> QED BY <1>1, ReadTipUsage, ReadViewUsage, SpendCoinUsage, UncacheUsage, AddCoinUsage,
        AddCoinCheckedUsage, EmplaceUsage, FlushViewUsage, DropViewUsage, FlushTipUsage,
        SyncTipUsage DEF Next

\* Both caches pass CCoinsViewCache::SanityCheck in every reachable state: the
\* flags are valid, and the memory counters, which every operation adjusts on its
\* own, are the sums over the entries.
THEOREM SanityCheckCorrect == Spec => []SanityCheck
<1>1. Init => UInv
  BY InitUsage
<1>2. IInv /\ UInv /\ [Next]_vars => UInv'
  BY NextUsage
<1>3. IInv /\ UInv => SanityCheck
  BY DEF IInv, FlagsSound, UInv, SanityCheck
<1> QED BY <1>1, <1>2, <1>3, Inductive, PTL DEF Spec

LEMMA Least == ASSUME NEW S, S \subseteq Nat, S # {} PROVE \E x \in S : \A y \in S : x <= y
<1>1. PICK x \in S : \A y \in S : ~(<<y, x>> \in OpToRel(<, Nat))
  BY WFMin, NatLessThanWellFounded
<1>2. x \in Nat /\ \A y \in S : y \in Nat /\ ~(y < x)
  BY <1>1 DEF OpToRel
<1> QED BY <1>2

\* Induction over the subsets of a finite set.
LEMMA SmallestBad ==
  ASSUME NEW S, IsFiniteSet(S), NEW B, B \subseteq SUBSET S, B # {}
  PROVE  \E s \in B : \A x \in s : s \ {x} \notin B
<1>1. \A s \in B : IsFiniteSet(s)
  BY FS_Subset
<1>2. \A s \in B : Cardinality(s) \in Nat
  BY <1>1, FS_CardinalityType
<1> DEFINE C == {Cardinality(s) : s \in B}
<1>3. C \subseteq Nat /\ C # {}
  BY <1>2
<1>4. PICK n \in C : \A m \in C : n <= m
  <2> HIDE DEF C
  <2> QED BY <1>3, Least
<1>5. PICK s \in B : n = Cardinality(s)
  BY <1>4
<1>6. ASSUME NEW x \in s, s \ {x} \in B PROVE FALSE
  <2>1. Cardinality(s \ {x}) = Cardinality(s) - 1
    BY <1>1, FS_RemoveElement
  <2>2. n <= Cardinality(s \ {x}) /\ n \in Nat
    BY <1>3, <1>4, <1>6
  <2> QED BY <1>5, <2>1, <2>2
<1> QED BY <1>6

-----------------------------------------------------------------------------
(* Sums *)

\* A sum is the size of a set: f[x] places for each x.
Slots(f, S) == {z \in S \X (Nat \ {0}) : z[2] <= f[z[1]]}

LEMMA SlotsOne ==
  ASSUME NEW x, NEW n \in Nat
  PROVE  IsFiniteSet({x} \X (1..n)) /\ Cardinality({x} \X (1..n)) = n
<1>1. IsFiniteSet(1..n) /\ Cardinality(1..n) = n
  BY FS_Interval
<1>2. IsFiniteSet({x}) /\ Cardinality({x}) = 1
  BY FS_Singleton
<1>3. /\ IsFiniteSet({x} \X (1..n))
      /\ Cardinality({x} \X (1..n)) = Cardinality({x}) * Cardinality(1..n)
  BY <1>1, <1>2, FS_Product
<1> QED BY <1>1, <1>2, <1>3

LEMMA SlotsUnion ==
  ASSUME NEW f, NEW A, NEW B
  PROVE  Slots(f, A \cup B) = Slots(f, A) \cup Slots(f, B)
         /\ (A \cap B = {} => Slots(f, A) \cap Slots(f, B) = {})
BY DEF Slots

LEMMA SlotsSingle ==
  ASSUME NEW f, NEW x, f[x] \in Nat
  PROVE  Slots(f, {x}) = {x} \X (1..f[x])
BY DEF Slots

LEMMA SlotsFinite ==
  ASSUME NEW S, IsFiniteSet(S), NEW f, \A x \in S : f[x] \in Nat
  PROVE  IsFiniteSet(Slots(f, S))
<1> DEFINE B == {s \in SUBSET S : ~IsFiniteSet(Slots(f, s))}
<1> SUFFICES ASSUME B # {} PROVE FALSE
  OBVIOUS
<1>1. PICK s \in B : \A x \in s : s \ {x} \notin B
  <2>1. B \subseteq SUBSET S
    OBVIOUS
  <2> HIDE DEF B
  <2> QED BY <2>1, SmallestBad
<1>2. CASE s = {}
  <2>1. Slots(f, s) = {}
    BY <1>2 DEF Slots
  <2> QED BY <2>1, FS_EmptySet
<1>3. ASSUME NEW x \in s PROVE FALSE
  <2>1. IsFiniteSet(Slots(f, s \ {x}))
    BY <1>1
  <2>2. IsFiniteSet(Slots(f, {x}))
    <3>1. f[x] \in Nat
      OBVIOUS
    <3>2. IsFiniteSet({x} \X (1..f[x]))
      BY <3>1, SlotsOne
    <3> QED BY <3>1, <3>2, SlotsSingle
  <2>3. Slots(f, s) = Slots(f, s \ {x}) \cup Slots(f, {x})
    <3>1. (s \ {x}) \cup {x} = s
      OBVIOUS
    <3>2. Slots(f, (s \ {x}) \cup {x}) = Slots(f, s \ {x}) \cup Slots(f, {x})
      BY SlotsUnion
    <3> QED BY <3>1, <3>2
  <2> QED BY <2>1, <2>2, <2>3, FS_Union
<1> QED BY <1>2, <1>3

Size(f, S) == Cardinality(Slots(f, S))

LEMMA SizeNat ==
  ASSUME NEW S, IsFiniteSet(S), NEW f, \A x \in S : f[x] \in Nat
  PROVE  Size(f, S) \in Nat
BY SlotsFinite, FS_CardinalityType DEF Size

LEMMA SizeUnion ==
  ASSUME NEW S, IsFiniteSet(S), NEW T, IsFiniteSet(T), S \cap T = {},
         NEW f, \A x \in S \cup T : f[x] \in Nat
  PROVE  Size(f, S \cup T) = Size(f, S) + Size(f, T)
<1> DEFINE A == Slots(f, S)
           B == Slots(f, T)
<1>1. IsFiniteSet(A) /\ IsFiniteSet(B)
  BY SlotsFinite
<1>2. Slots(f, S \cup T) = A \cup B /\ A \cap B = {}
  BY SlotsUnion
<1> HIDE DEF A, B
<1>3. Cardinality(A \cup B) = Cardinality(A) + Cardinality(B) - Cardinality(A \cap B)
  BY <1>1, FS_Union
<1>4. Cardinality(A) \in Nat /\ Cardinality(B) \in Nat /\ Cardinality(A \cap B) = 0
  BY <1>1, <1>2, FS_CardinalityType, FS_EmptySet
<1>5. Cardinality(A \cup B) = Cardinality(A) + Cardinality(B)
  BY <1>3, <1>4
<1> QED BY <1>2, <1>5 DEF Size, A, B

LEMMA SizeEmpty == ASSUME NEW f PROVE Size(f, {}) = 0
<1>1. Slots(f, {}) = {}
  BY DEF Slots
<1> QED BY <1>1, FS_EmptySet DEF Size

LEMMA SizeOne == ASSUME NEW f, NEW x, f[x] \in Nat PROVE Size(f, {x}) = f[x]
<1>1. Cardinality({x} \X (1..f[x])) = f[x]
  BY SlotsOne
<1> QED BY <1>1, SlotsSingle DEF Size

LEMMA SizeAdd ==
  ASSUME NEW S, IsFiniteSet(S), NEW f, \A y \in S : f[y] \in Nat, NEW x \in S
  PROVE  Size(f, S) = f[x] + Size(f, S \ {x})
<1>1. IsFiniteSet(S \ {x}) /\ IsFiniteSet({x})
  BY FS_RemoveElement, FS_Singleton
<1>2. (S \ {x}) \cup {x} = S /\ (S \ {x}) \cap {x} = {}
  OBVIOUS
<1>3. Size(f, (S \ {x}) \cup {x}) = Size(f, S \ {x}) + Size(f, {x})
  BY <1>1, <1>2, SizeUnion
<1>4. Size(f, S \ {x}) \in Nat
  BY <1>1, SizeNat
<1>5. Size(f, {x}) = f[x] /\ f[x] \in Nat
  BY SizeOne
<1>6. Size(f, S) = Size(f, S \ {x}) + Size(f, {x})
  BY <1>2, <1>3
<1>7. \A a, b \in Nat : a + b = b + a
  OBVIOUS
<1> QED BY <1>4, <1>5, <1>6, <1>7

Any(s) == CHOOSE x \in s : TRUE

LEMMA AnyIs == ASSUME NEW s, s # {} PROVE Any(s) \in s
BY DEF Any

\* g sums f over the subsets of S in the order of CHOOSE.
SumsBy(g, f, S) ==
  g = [s \in SUBSET S |-> IF s = {} THEN 0 ELSE f[Any(s)] + g[s \ {Any(s)}]]

LEMMA SumExists ==
  ASSUME NEW S, IsFiniteSet(S), NEW f, \A x \in S : f[x] \in Nat
  PROVE  \E g : SumsBy(g, f, S)
<1> DEFINE g == [s \in SUBSET S |-> Size(f, s)]
<1>1. ASSUME NEW s \in SUBSET S
      PROVE  Size(f, s) = IF s = {} THEN 0 ELSE f[Any(s)] + g[s \ {Any(s)}]
  <2>1. CASE s = {}
    BY <2>1, SizeEmpty
  <2>2. CASE s # {}
    <3>1. Any(s) \in s /\ IsFiniteSet(s) /\ \A x \in s : f[x] \in Nat
      BY <2>2, AnyIs, FS_Subset
    <3>2. Size(f, s) = f[Any(s)] + Size(f, s \ {Any(s)})
      BY <3>1, SizeAdd
    <3>3. g[s \ {Any(s)}] = Size(f, s \ {Any(s)})
      OBVIOUS
    <3> QED BY <2>2, <3>2, <3>3
  <2> QED BY <2>1, <2>2
<1>2. SumsBy(g, f, S)
  <2>1. g = [s \in SUBSET S |-> IF s = {} THEN 0 ELSE f[Any(s)] + g[s \ {Any(s)}]]
    BY <1>1
  <2> HIDE DEF g
  <2> QED BY <2>1 DEF SumsBy
<1> QED BY <1>2

LEMMA SumUnique ==
  ASSUME NEW S, IsFiniteSet(S), NEW f, \A x \in S : f[x] \in Nat, NEW g, SumsBy(g, f, S)
  PROVE  g[S] = Size(f, S)
<1> DEFINE B == {s \in SUBSET S : g[s] # Size(f, s)}
<1> SUFFICES ASSUME B # {} PROVE FALSE
  OBVIOUS
<1>0. \A s \in SUBSET S : g[s] = IF s = {} THEN 0 ELSE f[Any(s)] + g[s \ {Any(s)}]
  BY DEF SumsBy
<1>1. PICK s \in B : \A x \in s : s \ {x} \notin B
  <2>1. B \subseteq SUBSET S
    OBVIOUS
  <2> HIDE DEF B
  <2> QED BY <2>1, SmallestBad
<1>2. CASE s = {}
  BY <1>0, <1>2, SizeEmpty
<1>3. CASE s # {}
  <2> DEFINE x == Any(s)
  <2>1. x \in s
    BY <1>3, AnyIs
  <2>2. g[s] = f[x] + g[s \ {x}]
    BY <1>0, <1>3
  <2> HIDE DEF x
  <2>3. g[s \ {x}] = Size(f, s \ {x})
    BY <1>1, <2>1
  <2>4. Size(f, s) = f[x] + Size(f, s \ {x})
    <3>1. IsFiniteSet(s) /\ \A y \in s : f[y] \in Nat
      BY FS_Subset
    <3> QED BY <2>1, <3>1, SizeAdd
  <2> QED BY <2>2, <2>3, <2>4
<1> QED BY <1>2, <1>3

LEMMA TotalIs ==
  ASSUME NEW S, IsFiniteSet(S), NEW f, \A x \in S : f[x] \in Nat
  PROVE  Total(f, S) = Size(f, S)
<1> DEFINE g == CHOOSE g : SumsBy(g, f, S)
<1>1. SumsBy(g, f, S)
  BY SumExists
<1>2. Total(f, S) = g[S]
  BY DEF Total, MapThenSumSet, MapThenFoldSet, SumsBy, Any
<1> HIDE DEF g
<1> QED BY <1>1, <1>2, SumUnique

LEMMA SizeSame ==
  ASSUME NEW S, NEW f, NEW g, \A x \in S : f[x] = g[x]
  PROVE  Size(f, S) = Size(g, S)
<1>1. Slots(f, S) = Slots(g, S)
  BY DEF Slots
<1> QED BY <1>1 DEF Size

LEMMA SizeSuccessor ==
  ASSUME NEW S, IsFiniteSet(S), NEW f, NEW g,
         \A x \in S : g[x] \in Nat /\ f[x] = 1 + g[x]
  PROVE  Size(f, S) = Cardinality(S) + Size(g, S)
<1> DEFINE B == {s \in SUBSET S : Size(f, s) # Cardinality(s) + Size(g, s)}
<1> SUFFICES ASSUME B # {} PROVE FALSE
  OBVIOUS
<1>1. PICK s \in B : \A x \in s : s \ {x} \notin B
  <2>1. B \subseteq SUBSET S
    OBVIOUS
  <2> HIDE DEF B
  <2> QED BY <2>1, SmallestBad
<1>2. CASE s = {}
  BY <1>2, SizeEmpty, FS_EmptySet
<1>3. ASSUME NEW x \in s PROVE FALSE
  <2>1. IsFiniteSet(s) /\ IsFiniteSet(s \ {x})
    BY FS_Subset
  <2>2. /\ \A y \in s : g[y] \in Nat /\ f[y] \in Nat
        /\ \A y \in s \ {x} : g[y] \in Nat /\ f[y] \in Nat
    OBVIOUS
  <2>3. Size(f, s) = f[x] + Size(f, s \ {x})
    BY <2>1, <2>2, SizeAdd
  <2>4. Size(g, s) = g[x] + Size(g, s \ {x})
    BY <2>1, <2>2, SizeAdd
  <2>5. Size(f, s \ {x}) = Cardinality(s \ {x}) + Size(g, s \ {x})
    BY <1>1
  <2>6. Cardinality(s \ {x}) = Cardinality(s) - 1 /\ Cardinality(s) \in Nat
    BY <2>1, FS_RemoveElement, FS_CardinalityType
  <2>7. Size(f, s \ {x}) \in Nat /\ Size(g, s \ {x}) \in Nat
    BY <2>1, <2>2, SizeNat
  <2>8. g[x] \in Nat /\ f[x] = 1 + g[x]
    OBVIOUS
  <2>9. Size(f, s) = Cardinality(s) + Size(g, s)
    BY <2>3, <2>4, <2>5, <2>6, <2>7, <2>8
  <2> QED BY <2>9
<1> QED BY <1>2, <1>3

-----------------------------------------------------------------------------
(* Announcements *)

Ann == [tx : Tx, peer : Peer, m_reconsider : BOOLEAN]

TxsOf(A) == {a.tx : a \in A}
OfPeers(A, Q) == {a \in A : a.peer \in Q}
ByTx(v, A) == [a \in A |-> v[a.tx]]

LEMMA ByTxNat ==
  ASSUME NEW A \in SUBSET Ann, NEW v \in [Tx -> Nat]
  PROVE  \A a \in A : ByTx(v, A)[a] = v[a.tx] /\ v[a.tx] \in Nat
BY DEF ByTx, Ann

\* A transaction that several peers announced counts once.
LEMMA TxsBound ==
  ASSUME NEW A \in SUBSET Ann, IsFiniteSet(A), NEW v \in [Tx -> Nat]
  PROVE  IsFiniteSet(TxsOf(A)) /\ Size(v, TxsOf(A)) \in Nat /\ Size(v, TxsOf(A)) <= Size(ByTx(v, A), A)
<1> DEFINE T == TxsOf(A)
           w == ByTx(v, A)
<1>1. IsFiniteSet(T)
  <2> DEFINE f == [a \in A |-> a.tx]
  <2>1. f \in Surjection(A, T)
    BY DEF Surjection, TxsOf
  <2> QED BY <2>1, FS_Surjection
<1>2. \A x \in T : v[x] \in Nat
  BY DEF TxsOf, Ann
<1>3. \A a \in A : w[a] = v[a.tx] /\ w[a] \in Nat
  BY ByTxNat
<1>4. IsFiniteSet(Slots(w, A))
  BY <1>3, SlotsFinite
<1> DEFINE h == [z \in Slots(w, A) |-> <<z[1].tx, z[2]>>]
<1>5. h \in Surjection(Slots(w, A), Slots(v, T))
  <2>1. \A z \in Slots(w, A) : z[1] \in A /\ z[1].tx \in T /\ z[2] \in Nat \ {0} /\ z[2] <= v[z[1].tx]
    BY <1>3 DEF Slots, TxsOf
  <2>2. h \in [Slots(w, A) -> Slots(v, T)]
    BY <2>1 DEF Slots
  <2>3. ASSUME NEW y \in Slots(v, T) PROVE \E z \in Slots(w, A) : h[z] = y
    <3>1. y[1] \in T /\ y[2] \in Nat \ {0} /\ y[2] <= v[y[1]] /\ y = <<y[1], y[2]>>
      BY DEF Slots
    <3>2. PICK a \in A : y[1] = a.tx
      BY <3>1 DEF TxsOf
    <3>3. <<a, y[2]>> \in Slots(w, A)
      BY <1>3, <3>1, <3>2 DEF Slots
    <3> QED BY <3>1, <3>2, <3>3
  <2> QED BY <2>2, <2>3 DEF Surjection
<1>6. Cardinality(Slots(v, T)) <= Cardinality(Slots(w, A))
  BY <1>4, <1>5, FS_Surjection
<1>7. Size(v, T) \in Nat
  BY <1>1, <1>2, SizeNat
<1> QED BY <1>1, <1>6, <1>7 DEF Size

\* What the peers have together is not more than m for each of them.
LEMMA PeersBound ==
  ASSUME NEW A \in SUBSET Ann, IsFiniteSet(A), NEW f, \A a \in A : f[a] \in Nat,
         NEW Q, IsFiniteSet(Q), \A a \in A : a.peer \in Q,
         NEW m \in Nat, \A q \in Q : Size(f, OfPeers(A, {q})) <= m
  PROVE  Size(f, A) \in Nat /\ Size(f, A) <= m * Cardinality(Q)
<1> DEFINE B == {s \in SUBSET Q : ~(Size(f, OfPeers(A, s)) <= m * Cardinality(s))}
<1>a. OfPeers(A, Q) = A
  BY DEF OfPeers
<1>b. Size(f, A) \in Nat
  BY SizeNat
<1> SUFFICES ASSUME B # {} PROVE FALSE
  <2>1. Q \in SUBSET Q
    OBVIOUS
  <2> QED BY <1>a, <1>b, <2>1
<1>1. PICK s \in B : \A x \in s : s \ {x} \notin B
  <2>1. B \subseteq SUBSET Q
    OBVIOUS
  <2> HIDE DEF B
  <2> QED BY <2>1, SmallestBad
<1>2. CASE s = {}
  <2>1. OfPeers(A, s) = {} /\ Cardinality(s) = 0
    BY <1>2, FS_EmptySet DEF OfPeers
  <2> QED BY <2>1, SizeEmpty
<1>3. ASSUME NEW x \in s PROVE FALSE
  <2> DEFINE S == OfPeers(A, s \ {x})
             T == OfPeers(A, {x})
  <2>1. OfPeers(A, s) = S \cup T /\ S \cap T = {} /\ S \subseteq A /\ T \subseteq A
    BY DEF OfPeers
  <2>2. Size(f, T) <= m
    OBVIOUS
  <2>3. Size(f, S) <= m * Cardinality(s \ {x})
    BY <1>1
  <2> HIDE DEF S, T
  <2>4. IsFiniteSet(S) /\ IsFiniteSet(T) /\ \A y \in S \cup T : f[y] \in Nat
    BY <2>1, FS_Subset
  <2>5. Size(f, S \cup T) = Size(f, S) + Size(f, T) /\ Size(f, S) \in Nat /\ Size(f, T) \in Nat
    BY <2>1, <2>4, SizeUnion, SizeNat
  <2>6. Cardinality(s \ {x}) = Cardinality(s) - 1 /\ Cardinality(s) \in Nat
    BY FS_Subset, FS_RemoveElement, FS_CardinalityType
  <2>7. \A k \in Nat : m * (k - 1) = m * k - m /\ m * k \in Nat
    OBVIOUS
  <2>8. Size(f, S \cup T) <= m * Cardinality(s)
    BY <2>2, <2>3, <2>5, <2>6, <2>7
  <2> QED BY <2>1, <2>8
<1> QED BY <1>2, <1>3

-----------------------------------------------------------------------------
(* Erasing *)

AnnsIn(s) == {s[i] : i \in DOMAIN s}

\* No peer has announced a transaction twice.
Distinct(s) ==
  \A i, j \in DOMAIN s : s[i].tx = s[j].tx /\ s[i].peer = s[j].peer => i = j

\* u is what is left of the first n announcements.
LeftOf(u, s, gone, n) ==
  /\ u \in Seq(Ann) /\ Distinct(u)
  /\ Len(u) <= n
  /\ \A a : a \in AnnsIn(u) <=> a \notin gone /\ \E i \in 1..n : s[i] = a
  /\ (\E i \in 1..n : s[i] \in gone) => Len(u) < n

LEMMA AppendLeft ==
  ASSUME NEW s \in Seq(Ann), Distinct(s), NEW gone, NEW n \in 1..Len(s), NEW u,
         LeftOf(u, s, gone, n - 1), s[n] \notin gone
  PROVE  LeftOf(Append(u, s[n]), s, gone, n)
<1> DEFINE w == Append(u, s[n])
<1>0. n \in Nat /\ n - 1 \in Nat /\ s[n] \in Ann /\ DOMAIN s = 1..Len(s) /\ n \in DOMAIN s
  OBVIOUS
<1>1. u \in Seq(Ann) /\ Distinct(u) /\ Len(u) <= n - 1 /\ Len(u) \in Nat
  BY DEF LeftOf
<1>2. \A a : a \in AnnsIn(u) <=> a \notin gone /\ \E i \in 1..n-1 : s[i] = a
  BY DEF LeftOf
<1>3. /\ w \in Seq(Ann) /\ Len(w) = Len(u) + 1 /\ w[Len(u) + 1] = s[n]
      /\ \A i \in 1..Len(u) : w[i] = u[i]
      /\ DOMAIN w = 1..Len(u) + 1 /\ DOMAIN u = 1..Len(u)
  BY <1>0, <1>1
<1> HIDE DEF w
<1>4. \A i \in 1..Len(u) : ~(u[i].tx = s[n].tx /\ u[i].peer = s[n].peer)
  <2> SUFFICES ASSUME NEW i \in 1..Len(u), u[i].tx = s[n].tx, u[i].peer = s[n].peer PROVE FALSE
    OBVIOUS
  <2>1. u[i] \in AnnsIn(u)
    BY <1>3 DEF AnnsIn
  <2>2. PICK j \in 1..n-1 : s[j] = u[i]
    BY <1>2, <2>1
  <2>3. j \in DOMAIN s /\ j # n
    BY <1>0, <2>2
  <2> QED BY <1>0, <2>2, <2>3 DEF Distinct
<1>5. Distinct(w)
  <2> SUFFICES ASSUME NEW i \in 1..Len(u) + 1, NEW j \in 1..Len(u) + 1,
                      w[i].tx = w[j].tx, w[i].peer = w[j].peer PROVE i = j
    BY <1>3 DEF Distinct
  <2>1. CASE i \in 1..Len(u) /\ j \in 1..Len(u)
    BY <1>1, <1>3, <2>1 DEF Distinct
  <2>2. (i \in 1..Len(u) \/ i = Len(u) + 1) /\ (j \in 1..Len(u) \/ j = Len(u) + 1)
    BY <1>1
  <2> QED BY <1>3, <1>4, <2>1, <2>2
<1>6. \A a : a \in AnnsIn(w) <=> a \in AnnsIn(u) \/ a = s[n]
  <2>1. AnnsIn(w) = AnnsIn(u) \cup {s[n]}
    <3>1. 1..Len(u) + 1 = (1..Len(u)) \cup {Len(u) + 1}
      BY <1>1
    <3> QED BY <1>3, <3>1 DEF AnnsIn
  <2> QED BY <2>1
<1>7. \A a : (\E i \in 1..n : s[i] = a) <=> (\E i \in 1..n-1 : s[i] = a) \/ a = s[n]
  <2>1. 1..n = (1..n-1) \cup {n}
    BY <1>0
  <2> QED BY <2>1
<1>8. \A a : a \in AnnsIn(w) <=> a \notin gone /\ \E i \in 1..n : s[i] = a
  BY <1>2, <1>6, <1>7
<1>9. ASSUME NEW i \in 1..n, s[i] \in gone PROVE Len(w) < n
  <2>1. i \in 1..n-1
    BY <1>0, <1>9
  <2>2. Len(u) < n - 1
    BY <1>9, <2>1 DEF LeftOf
  <2> QED BY <1>0, <1>1, <1>3, <2>2
<1>10. Len(w) <= n
  BY <1>0, <1>1, <1>3
<1>11. LeftOf(w, s, gone, n)
  BY <1>3, <1>5, <1>8, <1>9, <1>10 DEF LeftOf
<1> QED BY <1>11 DEF w

LEMMA SkipLeft ==
  ASSUME NEW s \in Seq(Ann), NEW gone, NEW n \in 1..Len(s), NEW u,
         LeftOf(u, s, gone, n - 1), s[n] \in gone
  PROVE  LeftOf(u, s, gone, n)
<1>1. u \in Seq(Ann) /\ Distinct(u) /\ Len(u) <= n - 1 /\ Len(u) \in Nat /\ n \in Nat
  BY DEF LeftOf
<1>2. \A a : a \in AnnsIn(u) <=> a \notin gone /\ \E i \in 1..n-1 : s[i] = a
  BY DEF LeftOf
<1>3. \A a : (\E i \in 1..n : s[i] = a) <=> (\E i \in 1..n-1 : s[i] = a) \/ a = s[n]
  <2>1. 1..n = (1..n-1) \cup {n}
    BY <1>1
  <2> QED BY <2>1
<1>4. Len(u) <= n /\ Len(u) < n
  BY <1>1
<1>5. \A a : a \in AnnsIn(u) <=> a \notin gone /\ \E i \in 1..n : s[i] = a
  BY <1>2, <1>3
<1> QED BY <1>1, <1>4, <1>5 DEF LeftOf

\* Recursion over the numbers up to n.
StepIn(F, n, S) == \A k \in 1..n, e \in S : F[<<k, e>>] \in S
Recurs(g, F, n, S, base) ==
  /\ g \in [0..n -> S] /\ g[0] = base
  /\ \A k \in 1..n : g[k] = F[<<k, g[k - 1]>>]

LEMMA Recursion ==
  ASSUME NEW S, NEW base, base \in S, NEW n \in Nat, NEW F, StepIn(F, n, S)
  PROVE  \E g : Recurs(g, F, n, S, base)
<1> DEFINE Good(m, g) == /\ g \in [0..m -> S] /\ g[0] = base
                         /\ \A k \in 1..m : g[k] = F[<<k, g[k - 1]>>]
           Bad == {m \in 0..n : ~\E g : Good(m, g)}
<1> USE DEF StepIn
<1> SUFFICES \E g : Good(n, g)
  BY DEF Recurs
<1> SUFFICES ASSUME Bad # {} PROVE FALSE
  <2>1. n \in 0..n
    OBVIOUS
  <2> QED BY <2>1
<1>1. PICK m \in Bad : \A y \in Bad : m <= y
  <2>1. Bad \subseteq Nat
    OBVIOUS
  <2> HIDE DEF Bad
  <2> QED BY <2>1, Least
<1>2. CASE m = 0
  <2>1. Good(m, [i \in 0..m |-> base])
    BY <1>2
  <2> QED BY <2>1
<1>3. CASE m # 0
  <2>1. m - 1 \in 0..n /\ ~(m <= m - 1) /\ m \in 1..n /\ m \in Nat
    BY <1>3
  <2>2. PICK f : Good(m - 1, f)
    BY <1>1, <2>1
  <2>3. m - 1 \in 0..m - 1 /\ f[m - 1] \in S
    BY <2>1, <2>2
  <2> DEFINE e == F[<<m, f[m - 1]>>]
             g == [i \in 0..m |-> IF i = m THEN e ELSE f[i]]
  <2>4. e \in S
    BY <2>1, <2>3
  <2>5. \A i \in 0..m : i # m => i \in 0..m - 1
    BY <2>1
  <2> HIDE DEF e
  <2>6. g \in [0..m -> S] /\ g[0] = base
    BY <1>3, <2>1, <2>2, <2>4, <2>5
  <2>7. ASSUME NEW i \in 1..m PROVE g[i] = F[<<i, g[i - 1]>>]
    <3>1. i \in 0..m /\ i - 1 \in 0..m /\ i - 1 # m
      BY <2>1
    <3>2. g[i - 1] = f[i - 1]
      BY <3>1
    <3>3. CASE i = m
      BY <3>1, <3>2, <3>3 DEF e
    <3>4. CASE i # m
      <4>1. i \in 1..m - 1
        BY <2>1, <3>4
      <4> QED BY <2>2, <3>1, <3>2, <3>4, <4>1
    <3> QED BY <3>3, <3>4
  <2>8. Good(m, g)
    BY <2>6, <2>7
  <2> QED BY <2>8
<1> QED BY <1>2, <1>3

KeepStep(s, gone) ==
  [z \in (1..Len(s)) \X Seq(Ann) |-> IF s[z[1]] \in gone THEN z[2] ELSE Append(z[2], s[z[1]])]

KeepsBy(g, s, gone) ==
  g = [n \in 0..Len(s) |->
         IF n = 0 THEN <<>>
         ELSE IF s[n] \in gone THEN g[n - 1] ELSE Append(g[n - 1], s[n])]

LEMMA KeepsExists ==
  ASSUME NEW s \in Seq(Ann), NEW gone
  PROVE  \E g : KeepsBy(g, s, gone)
<1> DEFINE F == KeepStep(s, gone)
<1>1. <<>> \in Seq(Ann) /\ Len(s) \in Nat
  OBVIOUS
<1>2. ASSUME NEW k \in 1..Len(s), NEW e \in Seq(Ann)
      PROVE  F[<<k, e>>] = (IF s[k] \in gone THEN e ELSE Append(e, s[k])) /\ F[<<k, e>>] \in Seq(Ann)
  <2>1. s[k] \in Ann
    OBVIOUS
  <2>2. Append(e, s[k]) \in Seq(Ann)
    BY <2>1
  <2>3. F[<<k, e>>] = (IF s[k] \in gone THEN e ELSE Append(e, s[k]))
    BY DEF KeepStep
  <2> HIDE DEF F
  <2> QED BY <2>2, <2>3
<1> HIDE DEF F
<1>3. PICK g : Recurs(g, F, Len(s), Seq(Ann), <<>>)
  BY <1>1, <1>2, Recursion DEF StepIn
<1>4. g \in [0..Len(s) -> Seq(Ann)] /\ g[0] = <<>> /\ \A k \in 1..Len(s) : g[k] = F[<<k, g[k - 1]>>]
  BY <1>3 DEF Recurs
<1>5. ASSUME NEW n \in 0..Len(s)
      PROVE  g[n] = IF n = 0 THEN <<>>
                    ELSE IF s[n] \in gone THEN g[n - 1] ELSE Append(g[n - 1], s[n])
  <2>1. CASE n = 0
    BY <1>4, <2>1
  <2>2. CASE n # 0
    <3>1. n \in 1..Len(s) /\ n - 1 \in 0..Len(s)
      BY <1>1, <2>2
    <3>2. g[n - 1] \in Seq(Ann)
      BY <1>4, <3>1
    <3>3. g[n] = F[<<n, g[n - 1]>>]
      BY <1>4, <3>1
    <3>4. F[<<n, g[n - 1]>>] = (IF s[n] \in gone THEN g[n - 1] ELSE Append(g[n - 1], s[n]))
      BY <1>2, <3>1, <3>2
    <3> QED BY <2>2, <3>3, <3>4
  <2> QED BY <2>1, <2>2
<1>6. KeepsBy(g, s, gone)
  <2>1. g = [n \in 0..Len(s) |-> g[n]]
    BY <1>4
  <2> QED BY <1>5, <2>1 DEF KeepsBy
<1> QED BY <1>6

LEMMA KeptLeft ==
  ASSUME NEW s \in Seq(Ann), Distinct(s), NEW gone
  PROVE  LeftOf(Kept(s, gone), s, gone, Len(s))
<1> DEFINE g == CHOOSE g : KeepsBy(g, s, gone)
<1>1. KeepsBy(g, s, gone)
  BY KeepsExists
<1>2. Kept(s, gone) = g[Len(s)]
  BY DEF Kept, KeepsBy
<1> HIDE DEF g
<1>3. \A n \in 0..Len(s) : g[n] = IF n = 0 THEN <<>>
                                  ELSE IF s[n] \in gone THEN g[n - 1] ELSE Append(g[n - 1], s[n])
  BY <1>1 DEF KeepsBy
<1> DEFINE Bad == {n \in 0..Len(s) : ~LeftOf(g[n], s, gone, n)}
<1> SUFFICES ASSUME Bad # {} PROVE FALSE
  BY <1>2
<1>4. PICK n \in Bad : \A y \in Bad : n <= y
  <2>1. Bad \subseteq Nat
    OBVIOUS
  <2> HIDE DEF Bad
  <2> QED BY <2>1, Least
<1>5. CASE n = 0
  <2>1. g[n] = <<>>
    BY <1>3, <1>5
  <2>2. LeftOf(<<>>, s, gone, 0)
    BY DEF LeftOf, Distinct, AnnsIn
  <2> QED BY <1>5, <2>1, <2>2
<1>6. CASE n # 0
  <2>1. n \in 1..Len(s) /\ n - 1 \in 0..Len(s) /\ ~(n <= n - 1)
    BY <1>6
  <2>2. LeftOf(g[n - 1], s, gone, n - 1)
    BY <1>4, <2>1
  <2>3. g[n] = IF s[n] \in gone THEN g[n - 1] ELSE Append(g[n - 1], s[n])
    BY <1>3, <1>6
  <2>4. LeftOf(g[n], s, gone, n)
    <3>1. CASE s[n] \in gone
      BY <2>1, <2>2, <2>3, <3>1, SkipLeft
    <3>2. CASE s[n] \notin gone
      BY <2>1, <2>2, <2>3, <3>2, AppendLeft
    <3> QED BY <3>1, <3>2
  <2> QED BY <2>4
<1> QED BY <1>5, <1>6

Orphanages == [anns : Seq(Ann), reconsiderable : SUBSET Tx]

Marked(A) == {a \in A : a.m_reconsider}

\* ReconsiderableExact, of any orphanage.
Exact(o) ==
  /\ o.reconsiderable = TxsOf(Marked(Announcements(o)))
  /\ \A a, b \in Marked(Announcements(o)) : a.tx = b.tx => a = b

Sound(o) == o \in Orphanages /\ Distinct(o.anns) /\ Exact(o)

LEMMA AnnouncementsAre == \A o : Announcements(o) = AnnsIn(o.anns)
BY DEF Announcements, AnnsIn

LEMMA AnnouncementsType ==
  ASSUME NEW o \in Orphanages
  PROVE  /\ Announcements(o) \in SUBSET Ann /\ IsFiniteSet(Announcements(o))
         /\ Len(o.anns) \in Nat /\ o.anns \in Seq(Ann)
<1>1. o.anns \in Seq(Ann)
  BY DEF Orphanages
<1> DEFINE s == o.anns
<1>2. s \in Seq(Ann) /\ DOMAIN s = 1..Len(s) /\ Len(s) \in Nat
  BY <1>1
<1> HIDE DEF s
<1>3. AnnsIn(s) \in SUBSET Ann
  BY <1>2 DEF AnnsIn
<1>4. IsFiniteSet(AnnsIn(s))
  <2>1. IsFiniteSet(1..Len(s))
    BY <1>2, FS_Interval
  <2> DEFINE f == [i \in 1..Len(s) |-> s[i]]
  <2>2. f \in Surjection(1..Len(s), AnnsIn(s))
    BY <1>2 DEF Surjection, AnnsIn
  <2> HIDE DEF f
  <2> QED BY <2>1, <2>2, FS_Surjection
<1> QED BY <1>2, <1>3, <1>4, AnnouncementsAre DEF s

LEMMA LengthIs ==
  ASSUME NEW o \in Orphanages, Distinct(o.anns)
  PROVE  Len(o.anns) = Cardinality(Announcements(o))
<1> DEFINE s == o.anns
<1>1. s \in Seq(Ann) /\ Len(s) \in Nat /\ DOMAIN s = 1..Len(s)
  BY DEF Orphanages
<1>2. Distinct(s)
  OBVIOUS
<1> HIDE DEF s
<1> DEFINE f == [i \in 1..Len(s) |-> s[i]]
<1>3. f \in Bijection(1..Len(s), AnnsIn(s))
  <2>1. f \in [1..Len(s) -> AnnsIn(s)]
    BY <1>1 DEF AnnsIn
  <2>2. \A i, j \in 1..Len(s) : f[i] = f[j] => i = j
    BY <1>1, <1>2 DEF Distinct
  <2>3. \A a \in AnnsIn(s) : \E i \in 1..Len(s) : f[i] = a
    BY <1>1 DEF AnnsIn
  <2> HIDE DEF f
  <2>4. f \in Injection(1..Len(s), AnnsIn(s))
    BY <2>1, <2>2 DEF Injection, IsInjective
  <2>5. f \in Surjection(1..Len(s), AnnsIn(s))
    BY <2>1, <2>3 DEF Surjection
  <2> QED BY <2>4, <2>5 DEF Bijection
<1> HIDE DEF f
<1>4. IsFiniteSet(1..Len(s)) /\ Cardinality(1..Len(s)) = Len(s)
  <2>1. Len(s) \in Nat
    BY <1>1
  <2> QED BY <2>1, FS_Interval
<1>5. ExistsBijection(1..Len(s), AnnsIn(s))
  BY <1>3 DEF ExistsBijection
<1>6. Cardinality(AnnsIn(s)) = Len(s)
  BY <1>4, <1>5, FS_Bijection
<1> QED BY <1>6, AnnouncementsAre DEF s

\* Erasing announcements
LEMMA EraseIs ==
  ASSUME NEW o, Sound(o), NEW gone \in SUBSET Announcements(o)
  PROVE  /\ Sound(Erase(o, gone))
         /\ Announcements(Erase(o, gone)) = Announcements(o) \ gone
         /\ gone # {} => Len(Erase(o, gone).anns) < Len(o.anns)
<1> DEFINE s == o.anns
           u == Kept(s, gone)
           A == Announcements(o)
<1>1. s \in Seq(Ann) /\ Distinct(s) /\ DOMAIN s = 1..Len(s) /\ A = AnnsIn(s) /\ o.reconsiderable \in SUBSET Tx
  BY AnnouncementsAre DEF Sound, Orphanages
<1>2. LeftOf(u, s, gone, Len(s))
  <2> HIDE DEF s
  <2> QED BY <1>1, KeptLeft
<1>3. /\ Erase(o, gone).anns = u
      /\ Erase(o, gone).reconsiderable = o.reconsiderable \ TxsOf(Marked(gone))
      /\ DOMAIN Erase(o, gone) = {"anns", "reconsiderable"}
      /\ Erase(o, gone) = [anns |-> u, reconsiderable |-> o.reconsiderable \ TxsOf(Marked(gone))]
  BY DEF Erase, TxsOf, Marked
<1> HIDE DEF u, s
<1>4. AnnsIn(u) = A \ gone
  <2>1. \A a : a \in AnnsIn(u) <=> a \notin gone /\ \E i \in 1..Len(s) : s[i] = a
    BY <1>2 DEF LeftOf
  <2>2. \A a : a \in A <=> \E i \in 1..Len(s) : s[i] = a
    BY <1>1 DEF AnnsIn
  <2> QED BY <2>1, <2>2
<1>5. Announcements(Erase(o, gone)) = A \ gone
  BY <1>3, <1>4, AnnouncementsAre
<1>6. u \in Seq(Ann) /\ Distinct(u)
  BY <1>2 DEF LeftOf
<1>7. Erase(o, gone) \in Orphanages
  BY <1>1, <1>3, <1>6 DEF Orphanages
<1>8. Exact(Erase(o, gone))
  <2>1. o.reconsiderable = TxsOf(Marked(A)) /\ \A a, b \in Marked(A) : a.tx = b.tx => a = b
    BY DEF Sound, Exact
  <2>2. TxsOf(Marked(A)) \ TxsOf(Marked(gone)) = TxsOf(Marked(A \ gone))
    BY <2>1 DEF TxsOf, Marked
  <2>3. \A a, b \in Marked(A \ gone) : a.tx = b.tx => a = b
    BY <2>1 DEF Marked
  <2> QED BY <1>3, <1>5, <2>1, <2>2, <2>3 DEF Exact
<1>9. ASSUME gone # {} PROVE Len(u) < Len(s)
  <2>1. PICK a \in gone : TRUE
    BY <1>9
  <2>2. PICK i \in 1..Len(s) : s[i] = a
    BY <1>1, <2>1 DEF AnnsIn
  <2> QED BY <1>2, <2>1, <2>2 DEF LeftOf
<1> QED BY <1>3, <1>5, <1>6, <1>7, <1>8, <1>9 DEF Sound, s

-----------------------------------------------------------------------------
(* The worst peer *)

LEMMA Largest ==
  ASSUME NEW S, IsFiniteSet(S), S # {}, NEW f, \A x \in S : f[x] \in Nat
  PROVE  \E x \in S : \A y \in S : f[y] <= f[x]
<1> DEFINE B == {s \in SUBSET S : s # {} /\ ~\E x \in s : \A y \in s : f[y] <= f[x]}
<1> SUFFICES ASSUME B # {} PROVE FALSE
  <2>1. S \in SUBSET S
    OBVIOUS
  <2> QED BY <2>1
<1>1. PICK s \in B : \A x \in s : s \ {x} \notin B
  <2>1. B \subseteq SUBSET S
    OBVIOUS
  <2> HIDE DEF B
  <2> QED BY <2>1, SmallestBad
<1>2. PICK x \in s : TRUE
  OBVIOUS
<1>3. CASE s \ {x} = {}
  <2>1. \A y \in s : y = x
    BY <1>3
  <2>2. f[x] \in Nat
    OBVIOUS
  <2>3. \A y \in s : f[y] <= f[x]
    BY <2>1, <2>2
  <2> QED BY <1>2, <2>3
<1>4. CASE s \ {x} # {}
  <2>1. PICK z \in s \ {x} : \A y \in s \ {x} : f[y] <= f[z]
    BY <1>1, <1>2, <1>4
  <2>2. f[x] \in Nat /\ f[z] \in Nat /\ \A y \in s : f[y] \in Nat
    BY <1>2, <2>1
  <2>3. CASE f[x] <= f[z]
    <3>1. \A y \in s : f[y] <= f[z]
      BY <2>1, <2>2, <2>3
    <3> QED BY <2>1, <3>1
  <2>4. CASE f[z] <= f[x]
    <3>1. \A y \in s : f[y] <= f[x]
      BY <2>1, <2>2, <2>4
    <3> QED BY <1>2, <3>1
  <2> QED BY <2>2, <2>3, <2>4
<1> QED BY <1>3, <1>4

\* A score, as a fraction of the two denominators' product.
ScaledScore(s, d, e) == IF s[2] = d THEN s[1] * e ELSE s[1] * d

LEMMA ScaledExceeds ==
  ASSUME NEW d \in Nat \ {0}, NEW e \in Nat \ {0},
         NEW a \in Nat \X {d, e}, NEW b \in Nat \X {d, e}
  PROVE  /\ ScaledScore(a, d, e) > ScaledScore(b, d, e) => Exceeds(a, b)
         /\ ScaledScore(a, d, e) = ScaledScore(b, d, e) /\ a[2] < b[2] => Exceeds(a, b)
         /\ ScaledScore(a, d, e) = ScaledScore(b, d, e) /\ a[2] = b[2] => a = b
<1>0. /\ a[1] \in Nat /\ b[1] \in Nat /\ a[2] \in {d, e} /\ b[2] \in {d, e}
      /\ a = <<a[1], a[2]>> /\ b = <<b[1], b[2]>>
  OBVIOUS
<1> DEFINE k == a[1]
           l == b[1]
<1>1. k \in Nat /\ l \in Nat
  BY <1>0
<1> HIDE DEF k, l
<1>2. \A x \in Nat, y \in Nat, z \in Nat \ {0} : (x * z > y * z => x > y) /\ (x * z = y * z => x = y)
                                        /\ (x > y => x * z > y * z)
  OBVIOUS
<1>3. CASE a[2] = d /\ b[2] = d
  <2>1. ScaledScore(a, d, e) = k * e /\ ScaledScore(b, d, e) = l * e
    BY <1>3 DEF ScaledScore, k, l
  <2>2. Exceeds(a, b) <=> k * d > l * d \/ (k * d = l * d /\ d < d)
    BY <1>3 DEF Exceeds, k, l
  <2>3. a = <<k, d>> /\ b = <<l, d>>
    BY <1>0, <1>3 DEF k, l
  <2> QED BY <1>1, <1>2, <1>3, <2>1, <2>2, <2>3
<1>4. CASE a[2] # d /\ b[2] # d
  <2>0. a[2] = e /\ b[2] = e
    BY <1>0, <1>4
  <2>1. ScaledScore(a, d, e) = k * d /\ ScaledScore(b, d, e) = l * d
    BY <1>4 DEF ScaledScore, k, l
  <2>2. Exceeds(a, b) <=> k * e > l * e \/ (k * e = l * e /\ e < e)
    BY <2>0 DEF Exceeds, k, l
  <2>3. a = <<k, e>> /\ b = <<l, e>>
    BY <1>0, <2>0 DEF k, l
  <2> QED BY <1>1, <1>2, <2>0, <2>1, <2>2, <2>3
<1>5. CASE a[2] = d /\ b[2] # d
  <2>0. b[2] = e
    BY <1>0, <1>5
  <2>1. ScaledScore(a, d, e) = k * e /\ ScaledScore(b, d, e) = l * d
    BY <1>5 DEF ScaledScore, k, l
  <2>2. Exceeds(a, b) <=> k * e > l * d \/ (k * e = l * d /\ d < e)
    BY <1>5, <2>0 DEF Exceeds, k, l
  <2> QED BY <1>5, <2>0, <2>1, <2>2
<1>6. CASE a[2] # d /\ b[2] = d
  <2>0. a[2] = e
    BY <1>0, <1>6
  <2>1. ScaledScore(a, d, e) = k * d /\ ScaledScore(b, d, e) = l * e
    BY <1>6 DEF ScaledScore, k, l
  <2>2. Exceeds(a, b) <=> k * d > l * e \/ (k * d = l * e /\ e < d)
    BY <1>6, <2>0 DEF Exceeds, k, l
  <2> QED BY <1>6, <2>0, <2>1, <2>2
<1> QED BY <1>3, <1>4, <1>5, <1>6

LatencyOf == [t \in Tx |-> LatencyScore(t)]

LEMMA Weights ==
  /\ LatencyOf \in [Tx -> Nat] /\ Weight \in [Tx -> Nat] /\ InputScore \in [Tx -> Nat]
  /\ \A t \in Tx : LatencyOf[t] = 1 + InputScore[t]
BY OrphanageAssumption DEF OrphanageAssumption, LatencyOf, LatencyScore

LEMMA FromIs ==
  ASSUME NEW o \in Orphanages, NEW p
  PROVE  /\ From(o, p) = OfPeers(Announcements(o), {p})
         /\ From(o, p) \in SUBSET Ann /\ IsFiniteSet(From(o, p))
<1>1. From(o, p) = OfPeers(Announcements(o), {p}) /\ From(o, p) \in SUBSET Announcements(o)
  BY DEF From, OfPeers
<1>2. Announcements(o) \in SUBSET Ann /\ IsFiniteSet(Announcements(o))
  BY AnnouncementsType
<1>3. IsFiniteSet(From(o, p))
  BY <1>1, <1>2, FS_Subset
<1> QED BY <1>1, <1>2, <1>3

Memory(A) == Size(ByTx(Weight, A), A)
Latency(A) == Size(ByTx(LatencyOf, A), A)

LEMMA MemoryNat ==
  ASSUME NEW A \in SUBSET Ann, IsFiniteSet(A) PROVE Memory(A) \in Nat /\ Latency(A) \in Nat
<1>1. \A a \in A : ByTx(Weight, A)[a] \in Nat
  BY Weights, ByTxNat
<1>2. \A a \in A : ByTx(LatencyOf, A)[a] \in Nat
  BY Weights, ByTxNat
<1> QED BY <1>1, <1>2, SizeNat DEF Memory, Latency

\* The score of a peer is the larger one of two fractions.
LEMMA ScoreIs ==
  ASSUME NEW o \in Orphanages, NEW p, NEW m
  PROVE  GetDosScore(o, p, m) =
           IF Exceeds(<<Memory(From(o, p)), m_reserved_usage_per_peer>>, <<Latency(From(o, p)), m>>)
           THEN <<Memory(From(o, p)), m_reserved_usage_per_peer>> ELSE <<Latency(From(o, p)), m>>
<1> DEFINE A == From(o, p)
<1>1. A \in SUBSET Ann /\ IsFiniteSet(A)
  BY FromIs
<1>2. [a \in A |-> LatencyScore(a.tx)] = ByTx(LatencyOf, A)
  BY <1>1 DEF ByTx, LatencyOf, Ann
<1>3. [a \in A |-> Weight[a.tx]] = ByTx(Weight, A)
  BY DEF ByTx
<1>4. Total(ByTx(LatencyOf, A), A) = Latency(A)
  <2>1. \A a \in A : ByTx(LatencyOf, A)[a] \in Nat
    BY <1>1, Weights, ByTxNat
  <2> QED BY <1>1, <2>1, TotalIs DEF Latency
<1>5. Total(ByTx(Weight, A), A) = Memory(A)
  <2>1. \A a \in A : ByTx(Weight, A)[a] \in Nat
    BY <1>1, Weights, ByTxNat
  <2> QED BY <1>1, <2>1, TotalIs DEF Memory
<1> QED BY <1>2, <1>3, <1>4, <1>5 DEF GetDosScore

LEMMA ScoreType ==
  ASSUME NEW o \in Orphanages, NEW p, NEW m
  PROVE  GetDosScore(o, p, m) \in Nat \X {m_reserved_usage_per_peer, m}
<1>1. Memory(From(o, p)) \in Nat /\ Latency(From(o, p)) \in Nat
  BY FromIs, MemoryNat
<1> DEFINE a == <<Memory(From(o, p)), m_reserved_usage_per_peer>>
           b == <<Latency(From(o, p)), m>>
<1>2. a \in Nat \X {m_reserved_usage_per_peer, m} /\ b \in Nat \X {m_reserved_usage_per_peer, m}
  BY <1>1
<1>3. GetDosScore(o, p, m) = IF Exceeds(a, b) THEN a ELSE b
  BY ScoreIs
<1> HIDE DEF a, b
<1> QED BY <1>2, <1>3

LEMMA Fractions ==
  ASSUME NEW d \in Nat \ {0}, NEW e \in Nat \ {0}, NEW u \in Nat, NEW l \in Nat,
         ~AboveOne(IF Exceeds(<<u, d>>, <<l, e>>) THEN <<u, d>> ELSE <<l, e>>)
  PROVE  u <= d /\ l <= e
<1>1. \A x \in Nat, y \in Nat, z \in Nat \ {0} : x * z <= y * z => x <= y
  OBVIOUS
<1>2. \A x \in Nat, y \in Nat, z \in Nat : x <= y => x * z <= y * z
  OBVIOUS
<1>3. CASE Exceeds(<<u, d>>, <<l, e>>)
  <2>1. u <= d /\ l * d <= u * e
    BY <1>3 DEF Exceeds, AboveOne
  <2>2. u * e <= d * e
    BY <1>2, <2>1
  <2>3. l * d <= e * d
    BY <2>1, <2>2
  <2> QED BY <1>1, <2>1, <2>3
<1>4. CASE ~Exceeds(<<u, d>>, <<l, e>>)
  <2>1. l <= e /\ u * e <= l * d
    BY <1>4 DEF Exceeds, AboveOne
  <2>2. l * d <= e * d
    BY <1>2, <2>1
  <2>3. u * e <= d * e
    BY <2>1, <2>2
  <2> QED BY <1>1, <2>1, <2>3
<1> QED BY <1>3, <1>4

LEMMA CalmPeer ==
  ASSUME NEW o \in Orphanages, NEW p, NEW m \in Nat \ {0}, ~AboveOne(GetDosScore(o, p, m))
  PROVE  Memory(From(o, p)) <= m_reserved_usage_per_peer /\ Latency(From(o, p)) <= m
<1>1. Memory(From(o, p)) \in Nat /\ Latency(From(o, p)) \in Nat
  BY FromIs, MemoryNat
<1>2. m_reserved_usage_per_peer \in Nat \ {0}
  BY OrphanageAssumption DEF OrphanageAssumption
<1>3. ~AboveOne(IF Exceeds(<<Memory(From(o, p)), m_reserved_usage_per_peer>>, <<Latency(From(o, p)), m>>)
                THEN <<Memory(From(o, p)), m_reserved_usage_per_peer>> ELSE <<Latency(From(o, p)), m>>)
  BY ScoreIs
<1> DEFINE u == Memory(From(o, p))
           l == Latency(From(o, p))
<1> HIDE DEF u, l
<1>4. u <= m_reserved_usage_per_peer /\ l <= m
  BY <1>1, <1>2, <1>3, Fractions DEF u, l
<1> QED BY <1>4 DEF u, l

WorseThan(o, p, q, m) ==
  \/ Exceeds(GetDosScore(o, p, m), GetDosScore(o, q, m))
  \/ GetDosScore(o, p, m) = GetDosScore(o, q, m) /\ p > q

\* There is a worst peer: its fraction is largest, then its denominator is
\* least, then its number is largest.
LEMMA WorstIs ==
  ASSUME NEW o \in Orphanages, NEW heap \in SUBSET Peer, heap # {}, NEW m \in Nat \ {0}
  PROVE  WorstPeer(o, heap, m) \in heap
<1> DEFINE d == m_reserved_usage_per_peer
           score == [p \in heap |-> GetDosScore(o, p, m)]
           scaled == [p \in heap |-> ScaledScore(score[p], d, m)]
<1>0. d \in Nat \ {0} /\ IsFiniteSet(heap) /\ heap \subseteq Nat
  BY OrphanageAssumption, FS_Subset DEF OrphanageAssumption
<1>1. \A p \in heap : score[p] \in Nat \X {d, m} /\ score[p] = GetDosScore(o, p, m)
  BY ScoreType
<1> HIDE DEF score, d
<1>2. \A p \in heap : scaled[p] \in Nat /\ scaled[p] = ScaledScore(score[p], d, m)
  <2> SUFFICES ASSUME NEW p \in heap
               PROVE  scaled[p] \in Nat /\ scaled[p] = ScaledScore(score[p], d, m)
    OBVIOUS
  <2>1. score[p][1] \in Nat
    BY <1>1
  <2>2. \A k, l \in Nat : k * l \in Nat
    OBVIOUS
  <2>3. ScaledScore(score[p], d, m) \in Nat
    BY <1>0, <2>1, <2>2 DEF ScaledScore
  <2> QED BY <2>3
<1> HIDE DEF scaled
<1>3. PICK x \in heap : \A y \in heap : scaled[y] <= scaled[x]
  BY <1>0, <1>2, Largest
<1> DEFINE H == {p \in heap : scaled[p] = scaled[x]}
           rest == [p \in H |-> (d + m) - score[p][2]]
<1>4. H # {} /\ IsFiniteSet(H) /\ H \subseteq heap
  BY <1>0, <1>3, FS_Subset
<1>5. \A p \in H : rest[p] \in Nat
  BY <1>0, <1>1
<1>6. PICK y \in H : \A z \in H : rest[z] <= rest[y]
  <2> HIDE DEF H, rest
  <2> QED BY <1>4, <1>5, Largest
<1> DEFINE G == {p \in H : score[p][2] = score[y][2]}
           number == [p \in G |-> p]
<1>7. G # {} /\ IsFiniteSet(G) /\ G \subseteq heap /\ \A p \in G : number[p] \in Nat
  <2>1. G \in SUBSET H /\ y \in G
    BY <1>6
  <2>2. IsFiniteSet(G)
    <3> HIDE DEF G, H
    <3> QED BY <1>4, <2>1, FS_Subset
  <2> QED BY <1>0, <2>1, <2>2
<1>8. PICK w \in G : \A z \in G : number[z] <= number[w]
  <2> HIDE DEF G, number
  <2> QED BY <1>7, Largest
<1>9. ASSUME NEW q \in heap \ {w} PROVE WorseThan(o, w, q, m)
  <2>0. w \in heap /\ q \in heap /\ w \in Nat /\ q \in Nat /\ w # q
    BY <1>0, <1>7, <1>8
  <2>1. scaled[q] <= scaled[w] /\ scaled[w] = scaled[x]
    BY <1>3, <1>8
  <2>2. scaled[q] \in Nat /\ scaled[w] \in Nat /\ score[q] \in Nat \X {d, m} /\ score[w] \in Nat \X {d, m}
    BY <1>1, <1>2, <2>0
  <2>3. CASE scaled[q] < scaled[w]
    <3>1. ScaledScore(score[w], d, m) > ScaledScore(score[q], d, m)
      BY <1>2, <2>0, <2>2, <2>3
    <3>2. Exceeds(score[w], score[q])
      BY <1>0, <2>2, <3>1, ScaledExceeds
    <3> QED BY <1>1, <2>0, <3>2 DEF WorseThan
  <2>4. CASE scaled[q] = scaled[w]
    <3>1. q \in H /\ w \in H /\ score[w][2] = score[y][2]
      BY <1>8, <2>0, <2>1, <2>4
    <3>2. rest[q] <= rest[y] /\ rest[q] = (d + m) - score[q][2] /\ rest[y] = (d + m) - score[y][2]
      BY <1>6, <3>1
    <3>3. score[q][2] \in Nat /\ score[w][2] \in Nat /\ d + m \in Nat
      BY <1>0, <2>2
    <3>4. score[w][2] <= score[q][2]
      <4> HIDE DEF rest
      <4> QED BY <3>1, <3>2, <3>3
    <3>5. ScaledScore(score[w], d, m) = ScaledScore(score[q], d, m)
      BY <1>2, <2>0, <2>4
    <3>6. CASE score[w][2] < score[q][2]
      <4>1. Exceeds(score[w], score[q])
        BY <1>0, <2>2, <3>5, <3>6, ScaledExceeds
      <4> QED BY <1>1, <2>0, <4>1 DEF WorseThan
    <3>7. CASE score[w][2] = score[q][2]
      <4>1. score[w] = score[q]
        BY <1>0, <2>2, <3>5, <3>7, ScaledExceeds
      <4>2. q \in G
        BY <3>1, <3>7
      <4>3. number[q] = q /\ number[w] = w
        BY <4>2
      <4>4. q <= w
        <5> HIDE DEF number
        <5> QED BY <1>8, <4>2, <4>3
      <4> QED BY <1>1, <2>0, <4>1, <4>4 DEF WorseThan
    <3> QED BY <3>3, <3>4, <3>6, <3>7
  <2> QED BY <2>1, <2>2, <2>3, <2>4
<1>10. w \in heap
  BY <1>7, <1>8
<1>11. WorstPeer(o, heap, m) = CHOOSE p \in heap : \A q \in heap \ {p} : WorseThan(o, p, q, m)
  BY DEF WorstPeer, WorseThan
<1> HIDE DEF G
<1> QED BY <1>9, <1>10, <1>11

LEMMA OldestIs ==
  ASSUME NEW o \in Orphanages, NEW p \in PeersOf(o)
  PROVE  OldestOf(o, p) \in Announcements(o) /\ OldestOf(o, p).peer = p
<1> DEFINE D == DOMAIN o.anns
           first == {i \in D : o.anns[i].peer = p /\ ~o.anns[i].m_reconsider}
           any == {i \in D : o.anns[i].peer = p}
           I == IF first # {} THEN first ELSE any
<1>1. D \subseteq Nat
  <2>1. o.anns \in Seq(Ann)
    BY DEF Orphanages
  <2> QED BY <2>1
<1>2. any # {}
  BY DEF PeersOf, Announcements
<1>3. I \subseteq any /\ I # {} /\ I \subseteq Nat
  BY <1>1, <1>2
<1> HIDE DEF I
<1>4. Min(I) \in I
  <2>1. \E x \in I : \A y \in I : x <= y
    BY <1>3, Least
  <2> QED BY <2>1 DEF Min
<1>5. OldestOf(o, p) = o.anns[Min(I)]
  BY DEF OldestOf, I
<1>6. Min(I) \in D /\ o.anns[Min(I)].peer = p
  BY <1>3, <1>4
<1> QED BY <1>5, <1>6 DEF Announcements

LEMMA OrphansAre == \A o : Orphans(o) = TxsOf(Announcements(o))
BY DEF Orphans, TxsOf

LEMMA TotalsAre ==
  ASSUME NEW o, Sound(o)
  PROVE  /\ TotalOrphanUsage(o) \in Nat /\ TotalLatencyScore(o) \in Nat
         /\ TotalOrphanUsage(o) <= Memory(Announcements(o))
         /\ TotalLatencyScore(o) <= Latency(Announcements(o))
<1> DEFINE A == Announcements(o)
           T == TxsOf(A)
<1>1. A \in SUBSET Ann /\ IsFiniteSet(A) /\ Len(o.anns) \in Nat /\ Len(o.anns) = Cardinality(A)
  BY AnnouncementsType, LengthIs DEF Sound
<1>2. T \subseteq Tx
  BY <1>1 DEF TxsOf, Ann
<1> HIDE DEF A
<1>3. IsFiniteSet(T) /\ Size(Weight, T) \in Nat /\ Size(Weight, T) <= Memory(A)
  BY <1>1, Weights, TxsBound DEF Memory
<1>4. Size(InputScore, T) \in Nat /\ Size(InputScore, T) <= Size(ByTx(InputScore, A), A)
  BY <1>1, Weights, TxsBound
<1>5. Latency(A) = Cardinality(A) + Size(ByTx(InputScore, A), A)
  <2>1. \A a \in A : ByTx(InputScore, A)[a] = InputScore[a.tx] /\ InputScore[a.tx] \in Nat /\ a.tx \in Tx
    BY <1>1, Weights, ByTxNat DEF Ann
  <2>2. \A a \in A : ByTx(LatencyOf, A)[a] = LatencyOf[a.tx]
    BY <1>1, Weights, ByTxNat
  <2>3. \A a \in A : ByTx(InputScore, A)[a] \in Nat /\ ByTx(LatencyOf, A)[a] = 1 + ByTx(InputScore, A)[a]
    BY <2>1, <2>2, Weights
  <2> QED BY <1>1, <2>3, SizeSuccessor DEF Latency
<1>6. Total(Weight, T) = Size(Weight, T) /\ Total(InputScore, T) = Size(InputScore, T)
  <2>1. (\A t \in T : Weight[t] \in Nat) /\ (\A t \in T : InputScore[t] \in Nat)
    BY <1>2, Weights
  <2> HIDE DEF T
  <2> QED BY <1>3, <2>1, TotalIs
<1>7. TotalOrphanUsage(o) = Size(Weight, T) /\ TotalLatencyScore(o) = Len(o.anns) + Size(InputScore, T)
  BY <1>6, OrphansAre DEF TotalOrphanUsage, TotalLatencyScore, A
<1>8. Size(ByTx(InputScore, A), A) \in Nat
  <2>1. \A a \in A : ByTx(InputScore, A)[a] \in Nat
    BY <1>1, Weights, ByTxNat
  <2> QED BY <1>1, <2>1, SizeNat
<1> HIDE DEF T
<1>9. TotalLatencyScore(o) \in Nat /\ TotalLatencyScore(o) <= Latency(A)
  BY <1>1, <1>4, <1>5, <1>7, <1>8
<1> QED BY <1>3, <1>7, <1>9 DEF A

LEMMA PeersAre ==
  ASSUME NEW o \in Orphanages
  PROVE  /\ PeersOf(o) \in SUBSET Peer /\ IsFiniteSet(PeersOf(o))
         /\ Cardinality(PeersOf(o)) \in Nat /\ Cardinality(PeersOf(o)) <= m_max_global_latency_score
         /\ NumPeers(o) = IF PeersOf(o) = {} THEN 1 ELSE Cardinality(PeersOf(o))
         /\ NumPeers(o) \in Nat \ {0}
<1> DEFINE P == PeersOf(o)
<1>1. P \in SUBSET Peer
  BY AnnouncementsType DEF PeersOf, Ann
<1>2. /\ IsFiniteSet(Peer) /\ Cardinality(Peer) <= m_max_global_latency_score
      /\ m_max_global_latency_score \in Nat
  BY OrphanageAssumption DEF OrphanageAssumption
<1> HIDE DEF P
<1>3. IsFiniteSet(P) /\ Cardinality(P) <= Cardinality(Peer)
  BY <1>1, <1>2, FS_Subset
<1>4. Cardinality(P) \in Nat /\ Cardinality(Peer) \in Nat /\ (Cardinality(P) = 0 <=> P = {})
  BY <1>2, <1>3, FS_CardinalityType, FS_EmptySet
<1> DEFINE n == Cardinality(P)
<1>5. n \in Nat
  BY <1>4
<1> HIDE DEF n
<1>6. Max({n, 1}) = IF n = 0 THEN 1 ELSE n
  <2>1. \A k \in Nat : Max({k, 1}) = IF k = 0 THEN 1 ELSE k
    BY DEF Max
  <2> QED BY <1>5, <2>1
<1>7. NumPeers(o) = IF P = {} THEN 1 ELSE n
  BY <1>4, <1>6 DEF NumPeers, n, P
<1>8. NumPeers(o) \in Nat \ {0}
  BY <1>4, <1>7 DEF n
<1> QED BY <1>1, <1>2, <1>3, <1>4, <1>7, <1>8 DEF n, P

\* A peer's share of the latency score: together they are not more than
\* the limit.
LEMMA ShareIs ==
  ASSUME NEW o \in Orphanages, PeersOf(o) # {}
  PROVE  /\ MaxPeerLatencyScore(o) \in Nat \ {0}
         /\ MaxPeerLatencyScore(o) * Cardinality(PeersOf(o)) <= m_max_global_latency_score
<1> DEFINE n == Cardinality(PeersOf(o))
           g == m_max_global_latency_score
<1>1. n \in Nat \ {0} /\ n <= g /\ g \in Nat /\ MaxPeerLatencyScore(o) = g \div n
  BY PeersAre, OrphanageAssumption DEF OrphanageAssumption, MaxPeerLatencyScore
<1> HIDE DEF n, g
<1>2. g \div n \in Nat /\ n * (g \div n) <= g /\ g < n * (g \div n) + n
  BY <1>1
<1>3. g \div n # 0
  BY <1>1, <1>2
<1> QED BY <1>1, <1>2, <1>3 DEF n, g

\* If no peer has more than its share, nothing has to be trimmed.
LEMMA Calm ==
  ASSUME NEW o, Sound(o), NEW x, Sound(x), PeersOf(x) \subseteq PeersOf(o), PeersOf(x) # {},
         \A p \in PeersOf(x) : From(x, p) = From(o, p)
                               /\ ~AboveOne(GetDosScore(o, p, MaxPeerLatencyScore(o)))
  PROVE  ~NeedsTrim(x)
<1> DEFINE A == Announcements(x)
           P == PeersOf(x)
           m == MaxPeerLatencyScore(o)
           r == m_reserved_usage_per_peer
           n == Cardinality(P)
           k == Cardinality(PeersOf(o))
<1>0. o \in Orphanages /\ x \in Orphanages
  BY DEF Sound
<1>1. /\ m \in Nat \ {0} /\ m * k <= m_max_global_latency_score /\ m_max_global_latency_score \in Nat
      /\ r \in Nat
  BY <1>0, ShareIs, OrphanageAssumption DEF OrphanageAssumption
<1>2. n \in Nat /\ k \in Nat /\ n <= k /\ IsFiniteSet(P) /\ NumPeers(x) = n
  <2>1. IsFiniteSet(P) /\ IsFiniteSet(PeersOf(o)) /\ NumPeers(x) = n
    BY <1>0, PeersAre
  <2>2. n <= k
    BY <2>1, FS_Subset
  <2> QED BY <2>1, <2>2, FS_CardinalityType
<1>3. A \in SUBSET Ann /\ IsFiniteSet(A) /\ \A a \in A : a.peer \in P
  BY <1>0, AnnouncementsType DEF PeersOf
<1>4. ASSUME NEW p \in P
      PROVE  /\ Size(ByTx(Weight, A), OfPeers(A, {p})) <= r
             /\ Size(ByTx(LatencyOf, A), OfPeers(A, {p})) <= m
  <2> DEFINE F == From(x, p)
  <2>1. F = OfPeers(A, {p}) /\ F \subseteq A
    BY <1>0, FromIs DEF OfPeers
  <2>2. Memory(F) <= r /\ Latency(F) <= m
    <3>1. From(o, p) = F /\ ~AboveOne(GetDosScore(o, p, m))
      OBVIOUS
    <3> HIDE DEF m, r, F
    <3> QED BY <1>0, <1>1, <3>1, CalmPeer DEF r
  <2> HIDE DEF A, F
  <2>3. Size(ByTx(Weight, A), F) = Memory(F)
    <3>1. \A a \in F : ByTx(Weight, A)[a] = ByTx(Weight, F)[a]
      BY <2>1 DEF ByTx
    <3> QED BY <3>1, SizeSame DEF Memory
  <2>4. Size(ByTx(LatencyOf, A), F) = Latency(F)
    <3>1. \A a \in F : ByTx(LatencyOf, A)[a] = ByTx(LatencyOf, F)[a]
      BY <2>1 DEF ByTx
    <3> QED BY <3>1, SizeSame DEF Latency
  <2> QED BY <2>1, <2>2, <2>3, <2>4
<1>5. \A a \in A : ByTx(Weight, A)[a] \in Nat
  BY <1>3, Weights, ByTxNat
<1>6. \A a \in A : ByTx(LatencyOf, A)[a] \in Nat
  BY <1>3, Weights, ByTxNat
<1>7. TotalOrphanUsage(x) \in Nat /\ TotalOrphanUsage(x) <= Memory(A)
      /\ TotalLatencyScore(x) \in Nat /\ TotalLatencyScore(x) <= Latency(A)
  BY TotalsAre
<1> HIDE DEF A, P, m, r
<1>8. Memory(A) \in Nat /\ Memory(A) <= r * n
  BY <1>1, <1>2, <1>3, <1>4, <1>5, PeersBound DEF Memory
<1>9. Latency(A) \in Nat /\ Latency(A) <= m * n
  BY <1>1, <1>2, <1>3, <1>4, <1>6, PeersBound DEF Latency
<1> HIDE DEF n, k
<1>10. m * n <= m * k /\ m * n \in Nat /\ m * k \in Nat /\ r * n \in Nat
  BY <1>1, <1>2
<1>11. TotalLatencyScore(x) <= m_max_global_latency_score
  BY <1>1, <1>7, <1>9, <1>10
<1>12. MaxGlobalUsage(x) = r * n
  BY <1>2 DEF MaxGlobalUsage, r
<1>13. TotalOrphanUsage(x) <= MaxGlobalUsage(x) /\ MaxGlobalUsage(x) \in Nat
  BY <1>7, <1>8, <1>10, <1>12
<1> QED BY <1>1, <1>7, <1>11, <1>13 DEF NeedsTrim

LEMMA NothingToTrim ==
  ASSUME NEW x, Sound(x), PeersOf(x) = {} PROVE ~NeedsTrim(x)
<1>1. x \in Orphanages
  BY DEF Sound
<1>2. Announcements(x) = {}
  BY DEF PeersOf
<1>3. Memory({}) = 0 /\ Latency({}) = 0
  BY SizeEmpty DEF Memory, Latency
<1>4. /\ TotalOrphanUsage(x) \in Nat /\ TotalLatencyScore(x) \in Nat
      /\ TotalOrphanUsage(x) <= 0 /\ TotalLatencyScore(x) <= 0
  BY <1>2, <1>3, TotalsAre
<1>5. NumPeers(x) = 1
  BY <1>1, PeersAre
<1>6. m_max_global_latency_score \in Nat /\ m_reserved_usage_per_peer \in Nat
  BY OrphanageAssumption DEF OrphanageAssumption
<1>7. MaxGlobalUsage(x) \in Nat
  BY <1>5, <1>6 DEF MaxGlobalUsage
<1> QED BY <1>4, <1>6, <1>7 DEF NeedsTrim

Suspects(o) == {p \in PeersOf(o) : AboveOne(GetDosScore(o, p, MaxPeerLatencyScore(o)))}
Heap(o, x) == Suspects(o) \cap PeersOf(x)
Evicted(o, x) == OldestOf(x, WorstPeer(x, Heap(o, x), MaxPeerLatencyScore(o)))
Trim(o, x) == IF NeedsTrim(x) /\ Heap(o, x) # {} THEN Erase(x, {Evicted(o, x)}) ELSE x

TrimsBy(g, o) ==
  g = [n \in 0..Len(o.anns) |-> IF n = 0 THEN o ELSE Trim(o, g[n - 1])]

LEMMA LimitIs ==
  ASSUME NEW o
  PROVE  LimitOrphans(o) =
           IF NeedsTrim(o) THEN (CHOOSE g : TrimsBy(g, o))[Len(o.anns)] ELSE o
BY DEF LimitOrphans, TrimsBy, Trim, Evicted, Heap, Suspects

\* The announcement that is evicted is one of a suspect.
LEMMA EvictedIs ==
  ASSUME NEW o, Sound(o), NEW x, Sound(x), Heap(o, x) # {}
  PROVE  Evicted(o, x) \in Announcements(x) /\ Evicted(o, x).peer \in Suspects(o)
<1>1. o \in Orphanages /\ x \in Orphanages
  BY DEF Sound
<1>2. PeersOf(o) # {} /\ Heap(o, x) \in SUBSET Peer
  BY <1>1, PeersAre DEF Heap, Suspects
<1>3. MaxPeerLatencyScore(o) \in Nat \ {0}
  BY <1>1, <1>2, ShareIs
<1> DEFINE p == WorstPeer(x, Heap(o, x), MaxPeerLatencyScore(o))
<1>4. p \in Heap(o, x)
  BY <1>1, <1>2, <1>3, WorstIs
<1> HIDE DEF p
<1>5. p \in PeersOf(x) /\ p \in Suspects(o)
  BY <1>4 DEF Heap
<1>6. OldestOf(x, p) \in Announcements(x) /\ OldestOf(x, p).peer = p
  BY <1>1, <1>5, OldestIs
<1> QED BY <1>5, <1>6 DEF Evicted, p

LEMMA TrimIs ==
  ASSUME NEW o, Sound(o), NEW x, Sound(x)
  PROVE  /\ Sound(Trim(o, x))
         /\ Announcements(Trim(o, x)) \subseteq Announcements(x)
         /\ \A p : p \notin Suspects(o) => From(Trim(o, x), p) = From(x, p)
         /\ NeedsTrim(x) /\ Heap(o, x) # {} => Len(Trim(o, x).anns) < Len(x.anns)
<1>1. CASE NeedsTrim(x) /\ Heap(o, x) # {}
  <2> DEFINE e == Evicted(o, x)
             y == Erase(x, {e})
  <2>1. e \in Announcements(x) /\ e.peer \in Suspects(o)
    BY <1>1, EvictedIs
  <2> HIDE DEF e
  <2>2. {e} \in SUBSET Announcements(x) /\ {e} # {}
    BY <2>1
  <2>3. Sound(y) /\ Announcements(y) = Announcements(x) \ {e} /\ Len(y.anns) < Len(x.anns)
    BY <2>2, EraseIs
  <2>4. Trim(o, x) = y
    BY <1>1 DEF Trim, e
  <2> HIDE DEF y
  <2>5. \A p : p \notin Suspects(o) => From(y, p) = From(x, p)
    BY <2>1, <2>3 DEF From
  <2> QED BY <2>3, <2>4, <2>5
<1>2. CASE ~(NeedsTrim(x) /\ Heap(o, x) # {})
  <2>1. Trim(o, x) = x
    BY <1>2 DEF Trim
  <2> QED BY <1>2, <2>1
<1> QED BY <1>1, <1>2

LEMMA TrimsExist == ASSUME NEW o, Sound(o) PROVE \E g : TrimsBy(g, o)
<1> DEFINE S == {x \in Orphanages : Sound(x)}
           n == Len(o.anns)
           F == [z \in (1..n) \X S |-> Trim(o, z[2])]
<1>1. o \in S /\ n \in Nat
  BY AnnouncementsType DEF Sound
<1>2. \A k \in 1..n, e \in S : F[<<k, e>>] = Trim(o, e) /\ F[<<k, e>>] \in S
  <2> SUFFICES ASSUME NEW k \in 1..n, NEW e \in S PROVE F[<<k, e>>] = Trim(o, e) /\ F[<<k, e>>] \in S
    OBVIOUS
  <2>1. F[<<k, e>>] = Trim(o, e)
    OBVIOUS
  <2>2. Sound(Trim(o, e))
    BY TrimIs
  <2>3. Trim(o, e) \in S
    BY <2>2 DEF Sound
  <2> QED BY <2>1, <2>3
<1> HIDE DEF F, S, n
<1>3. PICK g : Recurs(g, F, n, S, o)
  BY <1>1, <1>2, Recursion DEF StepIn
<1>4. g \in [0..n -> S] /\ g[0] = o /\ \A k \in 1..n : g[k] = F[<<k, g[k - 1]>>]
  BY <1>3 DEF Recurs
<1>5. ASSUME NEW k \in 0..n PROVE g[k] = IF k = 0 THEN o ELSE Trim(o, g[k - 1])
  <2>1. CASE k = 0
    BY <1>4, <2>1
  <2>2. CASE k # 0
    <3>1. k \in 1..n /\ k - 1 \in 0..n
      BY <1>1, <2>2
    <3>2. g[k - 1] \in S
      BY <1>4, <3>1
    <3>3. g[k] = F[<<k, g[k - 1]>>]
      BY <1>4, <3>1
    <3> QED BY <1>2, <2>2, <3>1, <3>2, <3>3
  <2> QED BY <2>1, <2>2
<1>6. TrimsBy(g, o)
  <2>1. g = [k \in 0..n |-> g[k]]
    BY <1>4
  <2> QED BY <1>5, <2>1 DEF TrimsBy, n
<1> QED BY <1>6

\* What the loop has done so far: suspects lost announcements, and unless
\* it is done, at least one with each step.
TrimmedSoFar(o, x, n) ==
  /\ Sound(x) /\ Announcements(x) \subseteq Announcements(o)
  /\ \A p : p \notin Suspects(o) => From(x, p) = From(o, p)
  /\ ~NeedsTrim(x) \/ Heap(o, x) = {} \/ Len(x.anns) + n <= Len(o.anns)

LEMMA TrimOnce ==
  ASSUME NEW o, Sound(o), NEW x, NEW n \in Nat, TrimmedSoFar(o, x, n)
  PROVE  TrimmedSoFar(o, Trim(o, x), n + 1)
<1>1. Sound(x) /\ Announcements(x) \subseteq Announcements(o)
      /\ \A p : p \notin Suspects(o) => From(x, p) = From(o, p)
  BY DEF TrimmedSoFar
<1>2. /\ Sound(Trim(o, x)) /\ Announcements(Trim(o, x)) \subseteq Announcements(x)
      /\ \A p : p \notin Suspects(o) => From(Trim(o, x), p) = From(x, p)
  BY <1>1, TrimIs
<1>3. CASE NeedsTrim(x) /\ Heap(o, x) # {}
  <2>1. Len(Trim(o, x).anns) < Len(x.anns) /\ Len(x.anns) + n <= Len(o.anns)
    BY <1>1, <1>3, TrimIs DEF TrimmedSoFar
  <2>2. Len(Trim(o, x).anns) \in Nat /\ Len(x.anns) \in Nat /\ Len(o.anns) \in Nat
    BY <1>1, <1>2, AnnouncementsType DEF Sound
  <2>3. \A a, b, c \in Nat : a < b /\ b + n <= c => a + (n + 1) <= c
    OBVIOUS
  <2>4. Len(Trim(o, x).anns) + (n + 1) <= Len(o.anns)
    BY <2>1, <2>2, <2>3
  <2> QED BY <1>1, <1>2, <2>4 DEF TrimmedSoFar
<1>4. CASE ~NeedsTrim(x) \/ Heap(o, x) = {}
  <2>1. Trim(o, x) = x
    BY <1>4 DEF Trim
  <2> QED BY <1>1, <1>4, <2>1 DEF TrimmedSoFar
<1> QED BY <1>3, <1>4

LEMMA TrimmedWell ==
  ASSUME NEW o, Sound(o), NEW x, TrimmedSoFar(o, x, Len(o.anns)) PROVE ~NeedsTrim(x)
<1>1. Sound(x) /\ Announcements(x) \subseteq Announcements(o)
      /\ \A p : p \notin Suspects(o) => From(x, p) = From(o, p)
  BY DEF TrimmedSoFar
<1>2. CASE PeersOf(x) = {}
  BY <1>1, <1>2, NothingToTrim
<1>3. CASE PeersOf(x) # {} /\ Heap(o, x) = {}
  <2>1. PeersOf(x) \subseteq PeersOf(o)
    BY <1>1 DEF PeersOf
  <2>2. \A p \in PeersOf(x) : p \notin Suspects(o)
    BY <1>3 DEF Heap
  <2>3. \A p \in PeersOf(x) : From(x, p) = From(o, p)
                              /\ ~AboveOne(GetDosScore(o, p, MaxPeerLatencyScore(o)))
    BY <1>1, <2>1, <2>2 DEF Suspects
  <2> QED BY <1>1, <1>3, <2>1, <2>3, Calm
<1>4. CASE Len(x.anns) + Len(o.anns) <= Len(o.anns)
  <2>1. Len(x.anns) \in Nat /\ Len(o.anns) \in Nat /\ x.anns \in Seq(Ann)
    BY <1>1, AnnouncementsType DEF Sound
  <2>2. Len(x.anns) = 0
    <3>1. \A a, b \in Nat : a + b <= b => a = 0
      OBVIOUS
    <3> QED BY <1>4, <2>1, <3>1
  <2>3. DOMAIN x.anns = {}
    BY <2>1, <2>2
  <2>4. PeersOf(x) = {}
    BY <2>3 DEF PeersOf, Announcements
  <2> QED BY <1>2, <2>4
<1> QED BY <1>2, <1>3, <1>4 DEF TrimmedSoFar

Within(o) == Sound(o) /\ ~NeedsTrim(o)

LEMMA LimitTrims ==
  ASSUME NEW o, Sound(o) PROVE TrimmedSoFar(o, LimitOrphans(o), Len(o.anns))
<1>1. CASE ~NeedsTrim(o)
  BY <1>1, LimitIs DEF TrimmedSoFar
<1>2. CASE NeedsTrim(o)
  <2> DEFINE g == CHOOSE g : TrimsBy(g, o)
             n == Len(o.anns)
  <2>1. TrimsBy(g, o)
    BY TrimsExist
  <2>2. LimitOrphans(o) = g[n]
    BY <1>2, LimitIs
  <2> HIDE DEF g
  <2>3. \A k \in 0..n : g[k] = IF k = 0 THEN o ELSE Trim(o, g[k - 1])
    BY <2>1 DEF TrimsBy
  <2>4. n \in Nat
    BY AnnouncementsType DEF Sound
  <2> HIDE DEF n
  <2> DEFINE Bad == {k \in 0..n : ~TrimmedSoFar(o, g[k], k)}
  <2>5. ASSUME Bad # {} PROVE FALSE
    <3>1. PICK k \in Bad : \A y \in Bad : k <= y
      <4>1. Bad \subseteq Nat
        BY <2>4
      <4> HIDE DEF Bad
      <4> QED BY <2>5, <4>1, Least
    <3>2. CASE k = 0
      <4>1. g[k] = o
        BY <2>3, <3>2
      <4>2. TrimmedSoFar(o, o, 0)
        BY <2>4 DEF TrimmedSoFar, n
      <4> QED BY <3>2, <4>1, <4>2
    <3>3. CASE k # 0
      <4>1. k - 1 \in 0..n /\ k - 1 \in Nat /\ ~(k <= k - 1) /\ (k - 1) + 1 = k
        BY <2>4, <3>3
      <4>2. TrimmedSoFar(o, g[k - 1], k - 1)
        BY <3>1, <4>1
      <4>3. TrimmedSoFar(o, Trim(o, g[k - 1]), (k - 1) + 1)
        BY <4>1, <4>2, TrimOnce
      <4>4. g[k] = Trim(o, g[k - 1])
        BY <2>3, <3>3
      <4>5. TrimmedSoFar(o, g[k], k)
        BY <4>1, <4>3, <4>4
      <4> QED BY <4>5
    <3> QED BY <3>2, <3>3
  <2>6. TrimmedSoFar(o, g[n], n)
    <3>1. n \in 0..n
      BY <2>4
    <3> QED BY <2>5, <3>1
  <2> QED BY <2>2, <2>6 DEF n
<1> QED BY <1>1, <1>2

LEMMA LimitWithin ==
  ASSUME NEW o, Sound(o) PROVE Within(LimitOrphans(o))
BY LimitTrims, TrimmedWell DEF Within, TrimmedSoFar

\* Trimming takes announcements away, and none of a peer within its share.
LEMMA LimitLoses ==
  ASSUME NEW o, Sound(o)
  PROVE  /\ Announcements(LimitOrphans(o)) \subseteq Announcements(o)
         /\ \A p : p \notin Suspects(o) => From(LimitOrphans(o), p) = From(o, p)
BY LimitTrims DEF TrimmedSoFar

-----------------------------------------------------------------------------
(* The operations *)

NewAnn(t, p) == [tx |-> t, peer |-> p, m_reconsider |-> FALSE]
Appended(o, t, p) == [o EXCEPT !.anns = Append(@, NewAnn(t, p))]

LEMMA AppendedIs ==
  ASSUME NEW o, Sound(o), NEW t \in Tx, NEW p \in Peer, ~HaveTxFromPeer(o, t, p)
  PROVE  /\ Sound(Appended(o, t, p))
         /\ Announcements(Appended(o, t, p)) = Announcements(o) \cup {NewAnn(t, p)}
         /\ AddAnnouncement(o, t, p) = LimitOrphans(Appended(o, t, p))
<1> DEFINE new == NewAnn(t, p)
           s == o.anns
           u == Append(s, new)
           x == [o EXCEPT !.anns = u]
<1>1. /\ o \in Orphanages /\ s \in Seq(Ann) /\ Distinct(s) /\ Exact(o) /\ new \in Ann
      /\ Len(s) \in Nat /\ Announcements(o) = AnnsIn(s)
  BY AnnouncementsType, AnnouncementsAre DEF Sound, Ann, NewAnn
<1>2. x.anns = u /\ x.reconsiderable = o.reconsiderable /\ (u \in Seq(Ann) => x \in Orphanages)
  BY <1>1 DEF Orphanages
<1>3. AddAnnouncement(o, t, p) = LimitOrphans(x) /\ Appended(o, t, p) = x
  BY DEF AddAnnouncement, Appended, NewAnn
<1>4. new.tx = t /\ new.peer = p /\ ~new.m_reconsider
  BY DEF NewAnn
<1> HIDE DEF s, new
<1>5. /\ u \in Seq(Ann) /\ DOMAIN u = 1..Len(s) + 1 /\ u[Len(s) + 1] = new
      /\ \A i \in 1..Len(s) : u[i] = s[i]
      /\ DOMAIN s = 1..Len(s)
  BY <1>1
<1>6. 1..Len(s) + 1 = (1..Len(s)) \cup {Len(s) + 1}
  BY <1>1
<1> HIDE DEF u
<1>7. \A i \in 1..Len(s) : ~(s[i].tx = t /\ s[i].peer = p)
  BY <1>5 DEF HaveTxFromPeer, From, Announcements, s
<1>8. Distinct(u)
  <2> SUFFICES ASSUME NEW i \in DOMAIN u, NEW j \in DOMAIN u, u[i].tx = u[j].tx, u[i].peer = u[j].peer
               PROVE  i = j
    BY DEF Distinct
  <2>1. CASE i \in 1..Len(s) /\ j \in 1..Len(s)
    BY <1>1, <1>5, <2>1 DEF Distinct
  <2> QED BY <1>4, <1>5, <1>6, <1>7, <2>1
<1>9. AnnsIn(u) = AnnsIn(s) \cup {new}
  BY <1>5, <1>6 DEF AnnsIn
<1>10. Announcements(x) = Announcements(o) \cup {new}
  BY <1>1, <1>2, <1>9, AnnouncementsAre
<1>11. Marked(Announcements(x)) = Marked(Announcements(o))
  BY <1>4, <1>10 DEF Marked
<1>12. Exact(x)
  BY <1>1, <1>2, <1>11 DEF Exact
<1>13. Sound(x)
  BY <1>2, <1>5, <1>8, <1>12 DEF Sound
<1> HIDE DEF x
<1> QED BY <1>3, <1>10, <1>13 DEF new

LEMMA AddWithin ==
  ASSUME NEW o, Within(o), NEW t \in Tx, NEW p \in Peer
  PROVE  Within(AddAnnouncement(o, t, p))
<1>1. CASE HaveTxFromPeer(o, t, p)
  BY <1>1 DEF AddAnnouncement
<1>2. CASE ~HaveTxFromPeer(o, t, p)
  <2>1. Sound(Appended(o, t, p)) /\ AddAnnouncement(o, t, p) = LimitOrphans(Appended(o, t, p))
    BY <1>2, AppendedIs DEF Within
  <2> QED BY <2>1, LimitWithin
<1> QED BY <1>1, <1>2

LEMMA AddLoses ==
  ASSUME NEW o, Sound(o), NEW t \in Tx, NEW p \in Peer, ~HaveTxFromPeer(o, t, p)
  PROVE  Announcements(AddAnnouncement(o, t, p)) \subseteq Announcements(o) \cup {NewAnn(t, p)}
BY AppendedIs, LimitLoses

LEMMA AddTxWithin ==
  ASSUME NEW o, Within(o), NEW t \in Tx, NEW p \in Peer
  PROVE  Within(AddTx(o, t, p)) /\ Within(AddAnnouncer(o, t, p))
BY AddWithin DEF AddTx, AddAnnouncer

LEMMA EraseWithin ==
  ASSUME NEW o, Sound(o), NEW gone \in SUBSET Announcements(o)
  PROVE  Within(LimitOrphans(Erase(o, gone)))
<1>1. Sound(Erase(o, gone))
  BY EraseIs
<1> QED BY <1>1, LimitWithin

LEMMA EraseTxWithin == ASSUME NEW o, Sound(o), NEW t PROVE Within(EraseTx(o, t))
<1> DEFINE gone == {a \in Announcements(o) : a.tx = t}
<1>1. gone \in SUBSET Announcements(o)
  OBVIOUS
<1>2. EraseTx(o, t) = LimitOrphans(Erase(o, gone))
  BY DEF EraseTx
<1> HIDE DEF gone
<1> QED BY <1>1, <1>2, EraseWithin

LEMMA EraseForPeerWithin == ASSUME NEW o, Within(o), NEW p PROVE Within(EraseForPeer(o, p))
<1>1. From(o, p) \in SUBSET Announcements(o)
  BY DEF From
<1>2. Within(LimitOrphans(Erase(o, From(o, p))))
  BY <1>1, EraseWithin DEF Within
<1> QED BY <1>2 DEF EraseForPeer

LEMMA EraseForBlockWithin ==
  ASSUME NEW o, Sound(o), NEW block PROVE Within(EraseForBlock(o, block))
<1> DEFINE spent == UNION {Inputs[b] : b \in block}
           gone == {a \in Announcements(o) : Inputs[a.tx] \cap spent # {}}
<1>1. gone \in SUBSET Announcements(o)
  OBVIOUS
<1>2. EraseForBlock(o, block) = LimitOrphans(Erase(o, gone))
  BY DEF EraseForBlock
<1> HIDE DEF gone
<1> QED BY <1>1, <1>2, EraseWithin

\* The marks change and nothing else.
SameButMarks(o, x) ==
  /\ x \in Orphanages
  /\ Len(x.anns) = Len(o.anns)
  /\ \A i \in 1..Len(o.anns) : x.anns[i].tx = o.anns[i].tx /\ x.anns[i].peer = o.anns[i].peer

LEMMA MarksChange ==
  ASSUME NEW o, Sound(o), NEW x, SameButMarks(o, x)
  PROVE  /\ Distinct(x.anns)
         /\ Orphans(x) = Orphans(o) /\ PeersOf(x) = PeersOf(o)
         /\ NeedsTrim(x) = NeedsTrim(o)
<1>1. /\ o.anns \in Seq(Ann) /\ x.anns \in Seq(Ann) /\ Len(x.anns) = Len(o.anns)
      /\ DOMAIN o.anns = 1..Len(o.anns) /\ DOMAIN x.anns = 1..Len(o.anns)
  BY DEF Sound, SameButMarks, Orphanages
<1> DEFINE s == o.anns
           u == x.anns
           n == Len(s)
<1>2. /\ DOMAIN s = 1..n /\ DOMAIN u = 1..n /\ Len(u) = n /\ Distinct(s)
      /\ \A i \in 1..n : u[i].tx = s[i].tx /\ u[i].peer = s[i].peer
  BY <1>1 DEF SameButMarks, Sound
<1> HIDE DEF s, u, n
<1>3. Distinct(u)
  BY <1>2 DEF Distinct
<1>4. Orphans(o) = {s[i].tx : i \in 1..n} /\ Orphans(x) = {u[i].tx : i \in 1..n}
  <2>1. Announcements(o) = AnnsIn(s) /\ Announcements(x) = AnnsIn(u)
    BY AnnouncementsAre DEF s, u
  <2> QED BY <1>2, <2>1 DEF Orphans, AnnsIn
<1>5. PeersOf(o) = {s[i].peer : i \in 1..n} /\ PeersOf(x) = {u[i].peer : i \in 1..n}
  <2>1. Announcements(o) = AnnsIn(s) /\ Announcements(x) = AnnsIn(u)
    BY AnnouncementsAre DEF s, u
  <2> QED BY <1>2, <2>1 DEF PeersOf, AnnsIn
<1>6. Orphans(x) = Orphans(o)
  BY <1>2, <1>4
<1>7. PeersOf(x) = PeersOf(o)
  BY <1>2, <1>5
<1>8. NeedsTrim(x) = NeedsTrim(o)
  BY <1>1, <1>6, <1>7 DEF NeedsTrim, TotalLatencyScore, TotalOrphanUsage, MaxGlobalUsage, NumPeers
<1> QED BY <1>3, <1>6, <1>7, <1>8 DEF u

Ready(o, t) == Children(o, t) \ o.reconsiderable
Assigned(o, pick, c) ==
  IF pick[c] \in Announcers(o, c) THEN pick[c] ELSE CHOOSE p \in Announcers(o, c) : TRUE
Mark(o, t, pick, a) ==
  [a EXCEPT !.m_reconsider = @ \/ (a.tx \in Ready(o, t) /\ a.peer = Assigned(o, pick, a.tx))]

LEMMA WorkSetIs ==
  ASSUME NEW o, NEW t, NEW pick
  PROVE  AddChildrenToWorkSet(o, t, pick) =
           [anns |-> [i \in DOMAIN o.anns |-> Mark(o, t, pick, o.anns[i])],
            reconsiderable |-> o.reconsiderable \cup Ready(o, t)]
BY DEF AddChildrenToWorkSet, Mark, Assigned, Ready

LEMMA MarkIs ==
  ASSUME NEW o, NEW t, NEW pick, NEW a \in Ann
  PROVE  /\ Mark(o, t, pick, a) \in Ann
         /\ Mark(o, t, pick, a).tx = a.tx /\ Mark(o, t, pick, a).peer = a.peer
         /\ Mark(o, t, pick, a).m_reconsider <=>
              a.m_reconsider \/ (a.tx \in Ready(o, t) /\ a.peer = Assigned(o, pick, a.tx))
<1> DEFINE b == a.tx \in Ready(o, t) /\ a.peer = Assigned(o, pick, a.tx)
           m == Mark(o, t, pick, a)
<1>1. m = [a EXCEPT !.m_reconsider = @ \/ b]
  BY DEF Mark
<1> HIDE DEF b, m
<1>2. m \in Ann /\ m.tx = a.tx /\ m.peer = a.peer /\ (m.m_reconsider <=> a.m_reconsider \/ b)
  BY <1>1 DEF Ann
<1> QED BY <1>2 DEF b, m

\* Each child that nobody had to reconsider gets one mark.
LEMMA WorkSetSound ==
  ASSUME NEW o, Sound(o), NEW t, NEW pick
  PROVE  Sound(AddChildrenToWorkSet(o, t, pick))
<1> DEFINE s == o.anns
           n == Len(s)
           ready == Ready(o, t)
           x == AddChildrenToWorkSet(o, t, pick)
           u == [i \in 1..n |-> Mark(o, t, pick, s[i])]
           R == o.reconsiderable
<1>1. /\ o \in Orphanages /\ s \in Seq(Ann) /\ Distinct(s) /\ DOMAIN s = 1..n /\ n \in Nat
      /\ R \in SUBSET Tx /\ Announcements(o) = AnnsIn(s)
  BY AnnouncementsAre DEF Sound, Orphanages
<1>2. x.anns = u /\ x.reconsiderable = R \cup ready /\ DOMAIN x = {"anns", "reconsiderable"}
      /\ x = [anns |-> u, reconsiderable |-> R \cup ready]
  BY <1>1, WorkSetIs
<1>3. \A c \in ready : c \in Orphans(o) /\ c \notin R
  BY DEF Ready, Children
<1>4. \A c \in ready : Assigned(o, pick, c) \in Announcers(o, c)
  <2> SUFFICES ASSUME NEW c \in ready PROVE Assigned(o, pick, c) \in Announcers(o, c)
    OBVIOUS
  <2>1. Announcers(o, c) # {}
    BY <1>3 DEF Orphans, Announcers
  <2> QED BY <2>1 DEF Assigned
<1>5. R = TxsOf(Marked(AnnsIn(s))) /\ \A a, b \in Marked(AnnsIn(s)) : a.tx = b.tx => a = b
  BY <1>1 DEF Sound, Exact
<1> HIDE DEF s, n, ready, R, x
<1>6. ASSUME NEW i \in 1..n
      PROVE  /\ s[i] \in Ann /\ u[i] \in Ann /\ u[i].tx = s[i].tx /\ u[i].peer = s[i].peer
             /\ u[i].m_reconsider <=>
                  s[i].m_reconsider \/ (s[i].tx \in ready /\ s[i].peer = Assigned(o, pick, s[i].tx))
  <2>1. s[i] \in Ann /\ u[i] = Mark(o, t, pick, s[i])
    BY <1>1
  <2> QED BY <2>1, MarkIs DEF ready
<1>7. u \in Seq(Ann) /\ Len(u) = n
  BY <1>1, <1>6
<1> HIDE DEF u
<1>8. ready \subseteq Tx
  <2>1. \A a \in Announcements(o) : a.tx \in Tx
    BY <1>1, AnnouncementsType DEF Ann
  <2>2. \A c \in Orphans(o) : c \in Tx
    BY <2>1 DEF Orphans
  <2> QED BY <1>3, <2>2
<1>9. x \in Orphanages
  BY <1>1, <1>2, <1>7, <1>8 DEF Orphanages
<1>10. SameButMarks(o, x)
  BY <1>2, <1>6, <1>7, <1>9 DEF SameButMarks, s, n
<1>11. Distinct(x.anns)
  BY <1>10, MarksChange
<1>12. \A i \in 1..n : s[i] \in AnnsIn(s) /\ (s[i].m_reconsider => s[i].tx \in R)
  BY <1>1, <1>5 DEF AnnsIn, TxsOf, Marked
<1>13. AnnsIn(u) = {u[i] : i \in 1..n}
  BY <1>7 DEF AnnsIn
<1>14. TxsOf(Marked(AnnsIn(u))) = R \cup ready
  <2>1. ASSUME NEW c \in TxsOf(Marked(AnnsIn(u))) PROVE c \in R \cup ready
    <3>1. PICK i \in 1..n : u[i].m_reconsider /\ c = u[i].tx
      BY <1>13 DEF TxsOf, Marked
    <3> QED BY <1>6, <1>12, <3>1
  <2>2. ASSUME NEW c \in R PROVE c \in TxsOf(Marked(AnnsIn(u)))
    <3>1. PICK i \in 1..n : s[i].m_reconsider /\ c = s[i].tx
      BY <1>1, <1>5 DEF TxsOf, Marked, AnnsIn
    <3>2. u[i].m_reconsider /\ c = u[i].tx
      BY <1>6, <3>1
    <3> QED BY <1>13, <3>2 DEF TxsOf, Marked
  <2>3. ASSUME NEW c \in ready PROVE c \in TxsOf(Marked(AnnsIn(u)))
    <3>1. PICK i \in 1..n : s[i].tx = c /\ s[i].peer = Assigned(o, pick, c)
      BY <1>1, <1>4 DEF Announcers, AnnsIn
    <3>2. u[i].m_reconsider /\ c = u[i].tx
      BY <1>6, <3>1
    <3> QED BY <1>13, <3>2 DEF TxsOf, Marked
  <2> QED BY <2>1, <2>2, <2>3
<1>15. ASSUME NEW a \in Marked(AnnsIn(u)), NEW b \in Marked(AnnsIn(u)), a.tx = b.tx PROVE a = b
  <2>1. PICK i \in 1..n : a = u[i] /\ u[i].m_reconsider
    BY <1>13 DEF Marked
  <2>2. PICK j \in 1..n : b = u[j] /\ u[j].m_reconsider
    BY <1>13 DEF Marked
  <2>3. s[i].tx = s[j].tx
    BY <1>6, <1>15, <2>1, <2>2
  <2>4. CASE s[i].tx \in ready
    <3>1. ~s[i].m_reconsider /\ ~s[j].m_reconsider
      BY <1>3, <1>12, <2>3, <2>4
    <3>2. s[i].peer = s[j].peer
      BY <1>6, <2>1, <2>2, <2>3, <3>1
    <3>3. i = j
      BY <1>1, <2>3, <3>2 DEF Distinct
    <3> QED BY <2>1, <2>2, <3>3
  <2>5. CASE s[i].tx \notin ready
    <3>1. s[i].m_reconsider /\ s[j].m_reconsider
      BY <1>6, <2>1, <2>2, <2>3, <2>5
    <3>2. s[i] \in Marked(AnnsIn(s)) /\ s[j] \in Marked(AnnsIn(s))
      BY <1>12, <3>1 DEF Marked
    <3>3. s[i] = s[j]
      BY <1>5, <2>3, <3>2
    <3>4. i = j
      BY <1>1, <3>3 DEF Distinct
    <3> QED BY <2>1, <2>2, <3>4
  <2> QED BY <2>4, <2>5
<1>16. Exact(x)
  BY <1>2, <1>14, <1>15, AnnouncementsAre DEF Exact
<1> QED BY <1>9, <1>11, <1>16 DEF Sound, x

Unmark(a, p, t) == IF a.peer = p /\ a.tx = t THEN [a EXCEPT !.m_reconsider = FALSE] ELSE a

LEMMA TakenIs ==
  ASSUME NEW o, NEW p, NEW t, t = ToReconsider(o, p).tx
  PROVE  GetTxToReconsider(o, p) =
           [anns |-> [i \in DOMAIN o.anns |-> Unmark(o.anns[i], p, t)],
            reconsiderable |-> o.reconsiderable \ {t}]
BY DEF GetTxToReconsider, Unmark

LEMMA ToReconsiderIs ==
  ASSUME NEW o \in Orphanages, NEW p, HaveTxToReconsider(o, p)
  PROVE  /\ ToReconsider(o, p) \in Marked(Announcements(o))
         /\ ToReconsider(o, p).peer = p
<1> DEFINE D == DOMAIN o.anns
           I == {i \in D : o.anns[i].peer = p /\ o.anns[i].m_reconsider}
<1>1. D \subseteq Nat
  <2>1. o.anns \in Seq(Ann)
    BY DEF Orphanages
  <2> QED BY <2>1
<1>2. I # {} /\ I \subseteq Nat
  BY <1>1 DEF HaveTxToReconsider, From, Announcements
<1>3. ToReconsider(o, p) = o.anns[Min(I)]
  BY DEF ToReconsider
<1>4. Min(I) \in I
  <2> HIDE DEF I
  <2>1. \E x \in I : \A y \in I : x <= y
    BY <1>2, Least
  <2> QED BY <2>1 DEF Min
<1>5. Min(I) \in D /\ o.anns[Min(I)].peer = p /\ o.anns[Min(I)].m_reconsider
  BY <1>4
<1> QED BY <1>3, <1>5 DEF Announcements, Marked

\* The mark that is taken was the only one of its transaction.
LEMMA TakenWithin ==
  ASSUME NEW o, Within(o), NEW p, HaveTxToReconsider(o, p)
  PROVE  Within(GetTxToReconsider(o, p))
<1> DEFINE s == o.anns
           n == Len(s)
           R == o.reconsiderable
           a0 == ToReconsider(o, p)
           t == a0.tx
           x == GetTxToReconsider(o, p)
           u == [i \in 1..n |-> Unmark(s[i], p, t)]
<1>1. /\ Sound(o) /\ o \in Orphanages /\ s \in Seq(Ann) /\ Distinct(s) /\ DOMAIN s = 1..n /\ n \in Nat
      /\ R \in SUBSET Tx /\ Announcements(o) = AnnsIn(s)
  BY AnnouncementsAre DEF Within, Sound, Orphanages
<1>2. x = [anns |-> u, reconsiderable |-> R \ {t}]
  BY <1>1, TakenIs
<1>3. a0 \in Marked(AnnsIn(s)) /\ a0.peer = p
  BY <1>1, ToReconsiderIs
<1>4. R = TxsOf(Marked(AnnsIn(s))) /\ \A a, b \in Marked(AnnsIn(s)) : a.tx = b.tx => a = b
  BY <1>1 DEF Sound, Exact
<1> HIDE DEF s, n, R, a0, x
<1>5. x.anns = u /\ x.reconsiderable = R \ {t}
  BY <1>2
<1>6. ASSUME NEW i \in 1..n
      PROVE  /\ s[i] \in Ann /\ u[i] \in Ann /\ u[i].tx = s[i].tx /\ u[i].peer = s[i].peer
             /\ u[i].m_reconsider <=> (s[i].m_reconsider /\ s[i].tx # t)
  <2> DEFINE a == s[i]
  <2>1. a \in Ann /\ u[i] = Unmark(a, p, t)
    BY <1>1
  <2>2. a.m_reconsider /\ a.tx = t => a = a0
    <3>1. a \in AnnsIn(s)
      BY <1>1 DEF AnnsIn
    <3> QED BY <1>3, <1>4, <3>1 DEF Marked
  <2> HIDE DEF a, u, t
  <2>3. CASE a.peer = p /\ a.tx = t
    <3>1. u[i] = [a EXCEPT !.m_reconsider = FALSE]
      BY <2>1, <2>3 DEF Unmark
    <3>2. u[i] \in Ann /\ u[i].tx = a.tx /\ u[i].peer = a.peer /\ ~u[i].m_reconsider
      BY <2>1, <3>1 DEF Ann
    <3> QED BY <2>1, <2>3, <3>2 DEF a
  <2>4. CASE ~(a.peer = p /\ a.tx = t)
    <3>1. u[i] = a
      BY <2>1, <2>4 DEF Unmark
    <3>2. a.m_reconsider => a.tx # t
      BY <1>3, <2>2, <2>4
    <3> QED BY <2>1, <3>1, <3>2 DEF a
  <2> QED BY <2>3, <2>4
<1>7. u \in Seq(Ann) /\ Len(u) = n
  BY <1>1, <1>6
<1> HIDE DEF u, t
<1>8. x \in Orphanages
  BY <1>1, <1>2, <1>7 DEF Orphanages
<1>9. SameButMarks(o, x)
  BY <1>5, <1>6, <1>7, <1>8 DEF SameButMarks, s, n
<1>10. Distinct(x.anns) /\ NeedsTrim(x) = NeedsTrim(o)
  BY <1>1, <1>9, MarksChange
<1>11. AnnsIn(u) = {u[i] : i \in 1..n} /\ AnnsIn(s) = {s[i] : i \in 1..n}
  BY <1>1, <1>7 DEF AnnsIn
<1>12. TxsOf(Marked(AnnsIn(u))) = R \ {t}
  <2>1. ASSUME NEW c \in TxsOf(Marked(AnnsIn(u))) PROVE c \in R \ {t}
    <3>1. PICK i \in 1..n : u[i].m_reconsider /\ c = u[i].tx
      BY <1>11 DEF TxsOf, Marked
    <3>2. s[i] \in Marked(AnnsIn(s)) /\ c = s[i].tx /\ c # t
      BY <1>6, <1>11, <3>1 DEF Marked
    <3> QED BY <1>4, <3>2 DEF TxsOf
  <2>2. ASSUME NEW c \in R \ {t} PROVE c \in TxsOf(Marked(AnnsIn(u)))
    <3>1. PICK i \in 1..n : s[i].m_reconsider /\ c = s[i].tx
      BY <1>4, <1>11 DEF TxsOf, Marked
    <3>2. u[i].m_reconsider /\ c = u[i].tx
      BY <1>6, <3>1
    <3> QED BY <1>11, <3>2 DEF TxsOf, Marked
  <2> QED BY <2>1, <2>2
<1>13. ASSUME NEW a \in Marked(AnnsIn(u)), NEW b \in Marked(AnnsIn(u)), a.tx = b.tx PROVE a = b
  <2>1. PICK i \in 1..n : a = u[i] /\ u[i].m_reconsider
    BY <1>11 DEF Marked
  <2>2. PICK j \in 1..n : b = u[j] /\ u[j].m_reconsider
    BY <1>11 DEF Marked
  <2>3. /\ s[i] \in Marked(AnnsIn(s)) /\ s[j] \in Marked(AnnsIn(s))
        /\ s[i].tx = s[j].tx
    BY <1>6, <1>11, <1>13, <2>1, <2>2 DEF Marked
  <2>4. s[i] = s[j]
    BY <1>4, <2>3
  <2>5. i = j
    BY <1>1, <2>4 DEF Distinct
  <2> QED BY <2>1, <2>2, <2>5
<1>14. Exact(x)
  BY <1>5, <1>12, <1>13, AnnouncementsAre DEF Exact
<1> QED BY <1>8, <1>10, <1>14 DEF Sound, Within, x

-----------------------------------------------------------------------------
(* The node: whatever the requests and the filters hold, the orphanage *)
(* stays sane. *)

Fields == {"m_txrequest", "m_orphanage", "rejects", "reconsiderable", "recent_confirmed", "mempool"}

Sane(s) == DOMAIN s = Fields /\ Within(s.m_orphanage)

LEMMA SetRowSane ==
  ASSUME NEW s, Sane(s), NEW h, NEW row PROVE Sane(SetRow(s, h, row))
BY DEF Sane, Fields, SetRow

LEMMA ForgetSane ==
  ASSUME NEW s, Sane(s), NEW t PROVE Sane(ForgetTxHash(s, t)) /\ Sane(ForgetTx(s, t))
BY SetRowSane DEF ForgetTxHash, ForgetTx

LEMMA ResponseSane ==
  ASSUME NEW s, Sane(s), NEW p, NEW h PROVE Sane(ReceivedResponse(s, p, h))
BY SetRowSane DEF ReceivedResponse

LEMMA InvsSane ==
  ASSUME NEW s, Sane(s), NEW p, NEW hashes PROVE Sane(ReceivedInvs(s, p, hashes))
BY DEF Sane, Fields, ReceivedInvs

LEMMA ResolveSane ==
  ASSUME NEW s, Sane(s), NEW parents, NEW t \in Tx, NEW p \in Peer
  PROVE  Sane(Resolve(s, parents, t, p)) /\ Sane(ResolveKnown(s, parents, t, p))
<1> DEFINE x == ReceivedInvs(s, p, parents)
<1>1. Sane(x)
  BY InvsSane
<1>2. Within(AddTx(x.m_orphanage, t, p)) /\ Within(AddAnnouncer(x.m_orphanage, t, p))
  BY <1>1, AddTxWithin DEF Sane, Fields
<1> HIDE DEF x
<1>3. /\ Sane([x EXCEPT !.m_orphanage = AddTx(@, t, p)])
      /\ Sane([x EXCEPT !.m_orphanage = AddAnnouncer(@, t, p)])
  BY <1>1, <1>2 DEF Sane, Fields
<1> QED BY <1>3 DEF Resolve, ResolveKnown, x

LEMMA AnnouncementSane ==
  ASSUME NEW s, Sane(s), NEW t \in Tx, NEW p \in Peer
  PROVE  Sane(AddTxAnnouncement(s, p, t))
BY ResolveSane, InvsSane DEF AddTxAnnouncement

LEMMA AcceptedSane ==
  ASSUME NEW s, Sane(s), NEW t, NEW pick
  PROVE  Sane(MempoolAcceptedTx(s, t, pick))
<1> DEFINE x == ForgetTx(s, t)
           o == EraseTx(AddChildrenToWorkSet(x.m_orphanage, t, pick), t)
<1>1. Sane(x)
  BY ForgetSane
<1>2. Within(o)
  BY <1>1, WorkSetSound, EraseTxWithin DEF Sane, Within
<1> HIDE DEF x
<1>3. MempoolAcceptedTx(s, t, pick) = [x EXCEPT !.m_orphanage = o, !.mempool = @ \cup {t}]
  BY DEF MempoolAcceptedTx, x
<1> HIDE DEF o
<1>4. Sane([x EXCEPT !.m_orphanage = o, !.mempool = @ \cup {t}])
  BY <1>1, <1>2 DEF Sane, Fields
<1> QED BY <1>3, <1>4

LEMMA FailedSane ==
  ASSUME NEW s, Sane(s), NEW t, NEW result
  PROVE  Sane(Failed(s, t, result))
<1> DEFINE f == IF result = "RECONSIDERABLE" THEN [s EXCEPT !.reconsiderable = @ \cup {t}]
                ELSE [s EXCEPT !.rejects = @ \cup {t}]
           x == ForgetTxHash(f, t)
<1>1. Sane(f)
  BY DEF Sane, Fields
<1> HIDE DEF f
<1>2. Sane(x)
  BY <1>1, ForgetSane
<1>3. Failed(s, t, result) = [x EXCEPT !.m_orphanage = EraseTx(@, t)]
  BY DEF Failed, f
<1> HIDE DEF x
<1>4. Within(EraseTx(x.m_orphanage, t))
  BY <1>2, EraseTxWithin DEF Sane, Within
<1>5. Sane([x EXCEPT !.m_orphanage = EraseTx(@, t)])
  BY <1>2, <1>4 DEF Sane, Fields
<1> QED BY <1>3, <1>5

-----------------------------------------------------------------------------
(* A new orphan is kept for one peer after the other. *)

ResolvesBy(g, base, parents, t, S) ==
  g = [s \in SUBSET S |-> IF s = {} THEN base
                          ELSE Resolve(g[s \ {Any(s)}], parents, t, Any(s))]

ResolvesUpTo(g, base, parents, t, S, n) ==
  \A s \in SUBSET S : Cardinality(s) <= n =>
    g[s] = IF s = {} THEN base ELSE Resolve(g[s \ {Any(s)}], parents, t, Any(s))

LEMMA ResolveMore ==
  ASSUME NEW S, IsFiniteSet(S), NEW base, NEW parents, NEW t, NEW n \in Nat, NEW g,
         ResolvesUpTo(g, base, parents, t, S, n)
  PROVE  \E e : ResolvesUpTo(e, base, parents, t, S, n + 1)
<1> DEFINE new(s) == Resolve(g[s \ {Any(s)}], parents, t, Any(s))
           e == [s \in SUBSET S |-> IF Cardinality(s) <= n THEN g[s] ELSE new(s)]
<1>1. ASSUME NEW s \in SUBSET S, Cardinality(s) <= n + 1
      PROVE  e[s] = IF s = {} THEN base ELSE Resolve(e[s \ {Any(s)}], parents, t, Any(s))
  <2>1. IsFiniteSet(s) /\ Cardinality(s) \in Nat
    BY FS_Subset, FS_CardinalityType
  <2>2. CASE s = {}
    <3>1. Cardinality(s) = 0
      BY <2>2, FS_EmptySet
    <3>2. Cardinality(s) <= n
      BY <3>1
    <3> QED BY <2>2, <3>2 DEF ResolvesUpTo
  <2>3. CASE s # {}
    <3> DEFINE r == s \ {Any(s)}
    <3>1. Any(s) \in s
      BY <2>3, AnyIs
    <3>2. Cardinality(r) = Cardinality(s) - 1 /\ r \in SUBSET S
      BY <2>1, <3>1, FS_RemoveElement
    <3>3. Cardinality(r) <= n
      BY <1>1, <2>1, <3>2
    <3> HIDE DEF r
    <3>4. e[r] = g[r]
      BY <3>2, <3>3
    <3>5. e[s] = Resolve(g[r], parents, t, Any(s))
      <4>1. CASE Cardinality(s) <= n
        <5>1. e[s] = g[s]
          BY <4>1
        <5> QED BY <2>3, <4>1, <5>1 DEF ResolvesUpTo, r
      <4>2. CASE ~(Cardinality(s) <= n)
        BY <4>2 DEF r
      <4> QED BY <4>1, <4>2
    <3> QED BY <2>3, <3>4, <3>5 DEF r
  <2> QED BY <2>2, <2>3
<1>2. ResolvesUpTo(e, base, parents, t, S, n + 1)
  <2> HIDE DEF e
  <2> QED BY <1>1 DEF ResolvesUpTo
<1> QED BY <1>2

LEMMA ResolvesExist ==
  ASSUME NEW S, IsFiniteSet(S), NEW base, NEW parents, NEW t
  PROVE  \E g : ResolvesBy(g, base, parents, t, S)
<1> DEFINE Bad == {n \in Nat : ~\E g : ResolvesUpTo(g, base, parents, t, S, n)}
<1>1. ASSUME Bad # {} PROVE FALSE
  <2>1. PICK n \in Bad : \A m \in Bad : n <= m
    <3>1. Bad \subseteq Nat
      OBVIOUS
    <3> HIDE DEF Bad
    <3> QED BY <1>1, <3>1, Least
  <2>2. CASE n = 0
    <3> DEFINE g == [s \in SUBSET S |-> base]
    <3>1. \A s \in SUBSET S : Cardinality(s) <= 0 => s = {}
      <4> SUFFICES ASSUME NEW s \in SUBSET S, Cardinality(s) <= 0 PROVE s = {}
        OBVIOUS
      <4>1. IsFiniteSet(s) /\ Cardinality(s) \in Nat
        BY FS_Subset, FS_CardinalityType
      <4>2. Cardinality(s) = 0
        BY <4>1
      <4> QED BY <4>1, <4>2, FS_EmptySet
    <3>2. ResolvesUpTo(g, base, parents, t, S, 0)
      BY <3>1 DEF ResolvesUpTo
    <3> QED BY <2>2, <3>2
  <2>3. CASE n # 0
    <3>1. n - 1 \in Nat /\ ~(n <= n - 1) /\ (n - 1) + 1 = n
      BY <2>3
    <3>2. n - 1 \notin Bad
      BY <2>1, <3>1
    <3>3. PICK g : ResolvesUpTo(g, base, parents, t, S, n - 1)
      BY <3>1, <3>2
    <3>4. \E e : ResolvesUpTo(e, base, parents, t, S, (n - 1) + 1)
      BY <3>1, <3>3, ResolveMore
    <3> QED BY <3>1, <3>4
  <2> QED BY <2>2, <2>3
<1> DEFINE n == Cardinality(S)
<1>2. n \in Nat
  BY FS_CardinalityType
<1>3. PICK g : ResolvesUpTo(g, base, parents, t, S, n)
  BY <1>1, <1>2
<1> DEFINE e == [s \in SUBSET S |-> g[s]]
<1>4. ASSUME NEW s \in SUBSET S
      PROVE  g[s] = IF s = {} THEN base ELSE Resolve(e[s \ {Any(s)}], parents, t, Any(s))
  <2>1. Cardinality(s) <= n
    BY FS_Subset
  <2>2. e[s \ {Any(s)}] = g[s \ {Any(s)}]
    OBVIOUS
  <2> QED BY <1>3, <2>1, <2>2 DEF ResolvesUpTo
<1>5. e = [s \in SUBSET S |-> IF s = {} THEN base
                              ELSE Resolve(e[s \ {Any(s)}], parents, t, Any(s))]
  BY <1>4
<1>6. ResolvesBy(e, base, parents, t, S)
  <2> HIDE DEF e
  <2> QED BY <1>5 DEF ResolvesBy
<1> QED BY <1>6

Resolved(base, parents, t, S) ==
  FoldSet(LAMBDA q, x : Resolve(x, parents, t, q), base, S)

LEMMA ResolvedSane ==
  ASSUME NEW S \in SUBSET Peer, NEW base, Sane(base), NEW parents, NEW t \in Tx
  PROVE  Sane(Resolved(base, parents, t, S))
<1>0. IsFiniteSet(S)
  BY OrphanageAssumption, FS_Subset
<1> DEFINE g == CHOOSE g : ResolvesBy(g, base, parents, t, S)
<1>1. ResolvesBy(g, base, parents, t, S)
  BY <1>0, ResolvesExist
<1>2. Resolved(base, parents, t, S) = g[S]
  BY DEF Resolved, FoldSet, MapThenFoldSet, ResolvesBy, Any
<1> HIDE DEF g
<1>3. \A s \in SUBSET S : g[s] = IF s = {} THEN base ELSE Resolve(g[s \ {Any(s)}], parents, t, Any(s))
  BY <1>1 DEF ResolvesBy
<1> DEFINE B == {s \in SUBSET S : ~Sane(g[s])}
<1>4. ASSUME B # {} PROVE FALSE
  <2>1. PICK s \in B : \A x \in s : s \ {x} \notin B
    <3>1. B \subseteq SUBSET S
      OBVIOUS
    <3> HIDE DEF B
    <3> QED BY <1>0, <1>4, <3>1, SmallestBad
  <2>2. CASE s = {}
    BY <1>3, <2>2
  <2>3. CASE s # {}
    <3>1. Any(s) \in s /\ Any(s) \in Peer
      BY <2>3, AnyIs
    <3>2. Sane(g[s \ {Any(s)}])
      BY <2>1, <3>1
    <3>3. Sane(Resolve(g[s \ {Any(s)}], parents, t, Any(s)))
      BY <3>1, <3>2, ResolveSane
    <3> QED BY <1>3, <2>3, <3>3
  <2> QED BY <2>2, <2>3
<1> QED BY <1>2, <1>4

LEMMA MissingSane ==
  ASSUME NEW s, Sane(s), NEW t \in Tx, NEW p \in Peer
  PROVE  Sane(MissingInputs(s, t, p))
<1> DEFINE parents == Unknown(s, Parents(t) \cap Hash)
           others == ResolutionCandidates(s, t, p) \ {p}
           first == Resolve(s, parents, t, p)
           kept == Resolved(first, parents, t, others)
           x == ForgetTx(s, t)
           y == [x EXCEPT !.rejects = @ \cup {t, Txid[t]}]
<1>1. others \in SUBSET Peer
  BY DEF ResolutionCandidates, Pending
<1>2. MissingInputs(s, t, p) = IF t \in s.rejects THEN s
                               ELSE IF RejectedParents(s, t) THEN y ELSE ForgetTx(kept, t)
  BY DEF MissingInputs, Resolved
<1> HIDE DEF parents, others
<1>3. Sane(first)
  BY ResolveSane
<1>4. Sane(kept)
  BY <1>1, <1>3, ResolvedSane
<1> HIDE DEF kept
<1>5. Sane(ForgetTx(kept, t))
  BY <1>4, ForgetSane
<1>6. Sane(x)
  BY ForgetSane
<1> HIDE DEF x
<1>7. Sane(y)
  BY <1>6 DEF Sane, Fields
<1> HIDE DEF y
<1> QED BY <1>2, <1>5, <1>7

\* Only a first failure adds an orphan.
LEMMA ResultSane ==
  ASSUME NEW s, Sane(s), NEW t, NEW p, NEW result, NEW first, NEW pick,
         first => t \in Tx /\ p \in Peer
  PROVE  Sane(ProcessResult(s, t, p, result, first, pick))
<1>1. first => Sane(MissingInputs(s, t, p))
  BY MissingSane
<1>2. Sane(MempoolAcceptedTx(s, t, pick))
  BY AcceptedSane
<1>3. Sane(Failed(s, t, result))
  BY FailedSane
<1> QED BY <1>1, <1>2, <1>3 DEF ProcessResult, MempoolRejectedTx

LEMMA PackageSane ==
  ASSUME NEW s, Sane(s), NEW parent, NEW child, NEW p, NEW pick
  PROVE  Sane(ProcessPackageResult(s, parent, child, p, pick))
<1> DEFINE results == ProcessNewPackage(s, parent, child)
           noted == IF PackageInvalid(s, parent, results)
                    THEN [s EXCEPT !.reconsiderable = @ \cup {{parent, child}}] ELSE s
           x == ProcessResult(noted, child, p, results[2], FALSE, pick)
<1>1. ProcessPackageResult(s, parent, child, p, pick)
        = ProcessResult(x, parent, p, results[1], FALSE, pick)
  BY DEF ProcessPackageResult
<1> HIDE DEF results
<1>2. Sane(noted)
  BY DEF Sane, Fields
<1> HIDE DEF noted
<1>3. Sane(x)
  BY <1>2, ResultSane
<1> HIDE DEF x
<1>4. Sane(ProcessResult(x, parent, p, results[1], FALSE, pick))
  BY <1>3, ResultSane
<1> QED BY <1>1, <1>4

LEMMA TrySane ==
  ASSUME NEW s, Sane(s), NEW t, NEW p, NEW pick
  PROVE  Sane(TryPackage(s, t, p, pick))
<1> DEFINE children == Find1P1CPackage(s, t, p)
<1>1. TryPackage(s, t, p, pick)
        = IF children = <<>> THEN s ELSE ProcessPackageResult(s, t, children[1], p, pick)
  BY DEF TryPackage
<1> HIDE DEF children
<1>2. Sane(ProcessPackageResult(s, t, children[1], p, pick))
  BY PackageSane
<1> QED BY <1>1, <1>2

LEMMA ReceivedSane ==
  ASSUME NEW s, Sane(s), NEW t \in Tx, NEW p \in Peer, NEW pick
  PROVE  Sane(ReceivedTx(s, t, p, pick))
<1> DEFINE answered == ReceivedResponse(ReceivedResponse(s, p, Txid[t]), p, t)
           result == ProcessTransaction(answered, t)
           processed == ProcessResult(answered, t, p, result, TRUE, pick)
<1>1. ReceivedTx(s, t, p, pick) =
        IF AlreadyHaveTx(answered, t, FALSE) THEN answered
        ELSE IF t \in answered.reconsiderable THEN TryPackage(answered, t, p, pick)
        ELSE IF result = "RECONSIDERABLE" THEN TryPackage(processed, t, p, pick)
        ELSE processed
  BY DEF ReceivedTx
<1>2. Sane(answered)
  BY ResponseSane
<1> HIDE DEF answered, result
<1>3. Sane(processed)
  BY <1>2, ResultSane
<1> HIDE DEF processed
<1>4. Sane(TryPackage(answered, t, p, pick)) /\ Sane(TryPackage(processed, t, p, pick))
  BY <1>2, <1>3, TrySane
<1> QED BY <1>1, <1>2, <1>3, <1>4

LEMMA ReconsiderSane ==
  ASSUME NEW s, Sane(s), NEW p, NEW pick, HaveTxToReconsider(s.m_orphanage, p)
  PROVE  Sane(Reconsider(s, p, pick))
<1> DEFINE t == ToReconsider(s.m_orphanage, p).tx
           o == GetTxToReconsider(s.m_orphanage, p)
           taken == [s EXCEPT !.m_orphanage = o]
<1>1. Reconsider(s, p, pick)
        = ProcessResult(taken, t, p, ProcessTransaction(taken, t), FALSE, pick)
  BY DEF Reconsider
<1>2. Within(o)
  BY TakenWithin DEF Sane, Fields
<1> HIDE DEF o, t
<1>3. Sane(taken)
  BY <1>2 DEF Sane, Fields
<1> HIDE DEF taken
<1>4. Sane(ProcessResult(taken, t, p, ProcessTransaction(taken, t), FALSE, pick))
  BY <1>3, ResultSane
<1> QED BY <1>1, <1>4

LEMMA BlockSane ==
  ASSUME NEW s, Sane(s), NEW block
  PROVE  Sane(BlockConnected(s, block)) /\ Sane(BlockDisconnected(s))
<1>1. Within(EraseForBlock(s.m_orphanage, block))
  BY EraseForBlockWithin DEF Sane, Within
<1> DEFINE o == EraseForBlock(s.m_orphanage, block)
           hashes == block \cup {Txid[t] : t \in block}
           x == [s EXCEPT !.m_orphanage = o,
                          !.recent_confirmed = @ \cup hashes,
                          !.m_txrequest = [h \in Hash |-> IF h \in hashes THEN Nobody ELSE @[h]]]
<1>2. BlockConnected(s, block) = x
  BY DEF BlockConnected
<1>3. Within(o)
  BY <1>1
<1> HIDE DEF o, hashes
<1>4. Sane(x)
  BY <1>3 DEF Sane, Fields
<1>5. Sane(BlockDisconnected(s))
  BY DEF BlockDisconnected, Sane, Fields
<1> QED BY <1>2, <1>4, <1>5

LEMMA EmptySane == Within(Empty)
<1>1. Empty \in Orphanages /\ Empty.anns = <<>> /\ Empty.reconsiderable = {}
  BY DEF Empty, Orphanages
<1>2. Announcements(Empty) = {} /\ Distinct(Empty.anns)
  BY <1>1 DEF Announcements, Distinct
<1>3. PeersOf(Empty) = {} /\ Exact(Empty)
  BY <1>1, <1>2 DEF PeersOf, Exact, Marked, TxsOf
<1>4. Sound(Empty)
  BY <1>1, <1>2, <1>3 DEF Sound
<1> QED BY <1>3, <1>4, NothingToTrim DEF Within

NodeSane == Sane(node)

LEMMA NodeInit == DownloadInit => NodeSane
<1>1. SUFFICES ASSUME DownloadInit PROVE Sane(node)
  BY DEF NodeSane
<1>2. DOMAIN node = Fields /\ node.m_orphanage = Empty
  BY <1>1 DEF DownloadInit, Fields
<1> QED BY <1>2, EmptySane DEF Sane, Fields

LEMMA NodeNext == NodeSane /\ [DownloadNext]_downloadVars => NodeSane'
<1> SUFFICES ASSUME Sane(node), [DownloadNext]_downloadVars PROVE Sane(node')
  BY DEF NodeSane
<1>1. ASSUME NEW p \in Peer, ConnectedPeer(p) PROVE Sane(node')
  BY <1>1 DEF ConnectedPeer
<1>2. ASSUME NEW p \in Peer, DisconnectedPeer(p) PROVE Sane(node')
  <2> DEFINE o == EraseForPeer(node.m_orphanage, p)
             rows == [h \in Hash |-> LET row == [node.m_txrequest[h] EXCEPT ![p] = "none"]
                                     IN  IF Pending(row) = {} THEN Nobody ELSE row]
  <2>1. node' = [node EXCEPT !.m_orphanage = o, !.m_txrequest = rows]
    BY <1>2 DEF DisconnectedPeer
  <2>2. Within(o)
    BY EraseForPeerWithin DEF Sane, Fields
  <2> HIDE DEF o, rows
  <2> QED BY <2>1, <2>2 DEF Sane, Fields
<1>3. ASSUME NEW p \in Peer, NEW t \in Tx, Inv(p, t) PROVE Sane(node')
  BY <1>3, AnnouncementSane DEF Inv
<1>4. ASSUME NEW p \in Peer, NEW t \in Tx, Receive(p, t) PROVE Sane(node')
  BY <1>4, ReceivedSane DEF Receive, SetNode
<1>5. ASSUME NEW p \in Peer, NEW h \in Hash, GetRequestsToSend(p, h) PROVE Sane(node')
  BY <1>5, ForgetSane, SetRowSane DEF GetRequestsToSend, SetNode
<1>6. ASSUME NEW p \in Peer, NEW h \in Hash, ReceivedNotFound(p, h) PROVE Sane(node')
  BY <1>6, ResponseSane DEF ReceivedNotFound, SetNode
<1>7. ASSUME NEW p \in Peer, ProcessOrphanTx(p) PROVE Sane(node')
  BY <1>7, ReconsiderSane DEF ProcessOrphanTx, SetNode
<1>8. ASSUME NEW block \in Blocks, ConnectTip(block) PROVE Sane(node')
  BY <1>8 DEF ConnectTip, Sane, Fields
<1>9. ASSUME DisconnectTip PROVE Sane(node')
  BY <1>9 DEF DisconnectTip, Sane, Fields
<1>10. ASSUME Notified PROVE Sane(node')
  BY <1>10, BlockSane DEF Notified
<1>11. ASSUME UNCHANGED downloadVars PROVE Sane(node')
  BY <1>11 DEF downloadVars
<1> QED
  BY <1>1, <1>2, <1>3, <1>4, <1>5, <1>6, <1>7, <1>8, <1>9, <1>10, <1>11 DEF DownloadNext

\* The orphanage passes TxOrphanageImpl::SanityCheck after every call, for any
\* transactions and peers: it is within its limits, and each transaction to be
\* reconsidered has exactly one announcement that says so.
THEOREM OrphanageSaneCorrect == DownloadSpec => []OrphanageSane
<1>1. NodeSane => OrphanageSane
  BY DEF NodeSane, Sane, Within, Sound, Exact, Marked, TxsOf,
         OrphanageSane, WithinLimits, ReconsiderableExact
<1> QED BY <1>1, NodeInit, NodeNext, PTL DEF DownloadSpec

-----------------------------------------------------------------------------
(* Orphans that wait *)

\* The transactions in known are in the memory pool or confirmed.
MissingIn(known, t) == {h \in Parents(t) \cap Hash : h \notin {Txid[u] : u \in known}}

StrandedIn(o, known, t) ==
  HaveTx(o, t) /\ MissingIn(known, t) = {} /\ t \notin o.reconsiderable

MarkedBy(o, t, p) == \E a \in Announcements(o) : a.tx = t /\ a.peer = p /\ a.m_reconsider

\* The announcement that was erased was marked, or was to be in this call.
Excused(o, known, x, t) ==
  \E p : /\ HaveTxFromPeer(o, t, p) /\ ~HaveTxFromPeer(x, t, p)
         /\ MarkedBy(o, t, p) \/ MissingIn(known, t) # {}

Tended(o, known, x, later, t) ==
  StrandedIn(x, later, t) => StrandedIn(o, known, t) \/ Excused(o, known, x, t)

\* What holds of one orphan across a sequence of calls, none of which adds an
\* announcement of it or takes a mark off an announcement that stays.
Follows(o, known, x, later, t) ==
  /\ known \subseteq later
  /\ \A p : HaveTxFromPeer(x, t, p) => HaveTxFromPeer(o, t, p)
  /\ \A p : MarkedBy(o, t, p) /\ HaveTxFromPeer(x, t, p) => MarkedBy(x, t, p)
  /\ \A p : MarkedBy(x, t, p) =>
       \/ MarkedBy(o, t, p)
       \/ t \notin o.reconsiderable
       \/ \E q : MarkedBy(o, t, q) /\ ~HaveTxFromPeer(x, t, q)
  /\ Tended(o, known, x, later, t)

LEMMA HaveIs ==
  ASSUME NEW o, NEW t
  PROVE  /\ HaveTx(o, t) <=> \E p : HaveTxFromPeer(o, t, p)
         /\ \A p : MarkedBy(o, t, p) => HaveTxFromPeer(o, t, p)
BY DEF HaveTxFromPeer, HaveTx, Orphans, From, MarkedBy

LEMMA MarksAre ==
  ASSUME NEW o, Sound(o), NEW t
  PROVE  t \in o.reconsiderable <=> \E p : MarkedBy(o, t, p)
BY DEF Sound, Exact, TxsOf, Marked, MarkedBy

LEMMA MissingFewer ==
  ASSUME NEW known, NEW later, known \subseteq later, NEW t
  PROVE  MissingIn(later, t) \subseteq MissingIn(known, t)
BY DEF MissingIn

LEMMA FollowsOn ==
  ASSUME NEW o, Sound(o), NEW x, Sound(x), NEW y, NEW k, NEW l, NEW m, NEW t,
         Follows(o, k, x, l, t), Follows(x, l, y, m, t)
  PROVE  Follows(o, k, y, m, t)
<1>1. k \subseteq m /\ MissingIn(l, t) \subseteq MissingIn(k, t)
  BY MissingFewer DEF Follows
<1>2. \A p : HaveTxFromPeer(y, t, p) => HaveTxFromPeer(x, t, p) /\ HaveTxFromPeer(o, t, p)
  BY DEF Follows
<1>3. \A p : MarkedBy(o, t, p) /\ HaveTxFromPeer(y, t, p) => MarkedBy(y, t, p)
  BY <1>2 DEF Follows
<1>4. /\ \A p : MarkedBy(x, t, p) =>
           \/ MarkedBy(o, t, p) \/ t \notin o.reconsiderable
           \/ \E q : MarkedBy(o, t, q) /\ ~HaveTxFromPeer(x, t, q)
      /\ \A p : MarkedBy(y, t, p) =>
           \/ MarkedBy(x, t, p) \/ t \notin x.reconsiderable
           \/ \E q : MarkedBy(x, t, q) /\ ~HaveTxFromPeer(y, t, q)
      /\ \A p : MarkedBy(o, t, p) /\ HaveTxFromPeer(x, t, p) => MarkedBy(x, t, p)
  BY DEF Follows
<1>5. ASSUME NEW p, MarkedBy(y, t, p), t \in o.reconsiderable, ~MarkedBy(o, t, p)
      PROVE  \E q : MarkedBy(o, t, q) /\ ~HaveTxFromPeer(y, t, q)
  <2>1. CASE MarkedBy(x, t, p)
    BY <1>2, <1>4, <1>5, <2>1
  <2>2. CASE t \notin x.reconsiderable
    <3>1. PICK q : MarkedBy(o, t, q)
      BY <1>5, MarksAre
    <3>2. ~MarkedBy(x, t, q)
      BY <2>2, MarksAre
    <3>3. ~HaveTxFromPeer(x, t, q)
      BY <1>4, <3>1, <3>2
    <3> QED BY <1>2, <3>1, <3>3
  <2>3. CASE \E q : MarkedBy(x, t, q) /\ ~HaveTxFromPeer(y, t, q)
    <3>1. PICK q : MarkedBy(x, t, q) /\ ~HaveTxFromPeer(y, t, q)
      BY <2>3
    <3> QED BY <1>2, <1>4, <1>5, <3>1
  <2> QED BY <1>4, <1>5, <2>1, <2>2, <2>3
<1>6. Tended(o, k, y, m, t)
  <2> SUFFICES ASSUME StrandedIn(y, m, t), ~StrandedIn(o, k, t) PROVE Excused(o, k, y, t)
    BY DEF Tended
  <2>1. CASE StrandedIn(x, l, t)
    <3>1. Excused(o, k, x, t)
      BY <2>1 DEF Follows, Tended
    <3> QED BY <1>2, <3>1 DEF Excused
  <2>2. CASE Excused(x, l, y, t)
    <3>1. PICK p : /\ HaveTxFromPeer(x, t, p) /\ ~HaveTxFromPeer(y, t, p)
                   /\ MarkedBy(x, t, p) \/ MissingIn(l, t) # {}
      BY <2>2 DEF Excused
    <3>2. HaveTxFromPeer(o, t, p) /\ HaveTx(o, t)
      BY <3>1, HaveIs DEF Follows
    <3>3. CASE MissingIn(k, t) # {}
      BY <3>1, <3>2, <3>3 DEF Excused
    <3>4. CASE MissingIn(k, t) = {}
      <4>1. t \in o.reconsiderable /\ MarkedBy(x, t, p)
        BY <1>1, <3>1, <3>2, <3>4 DEF StrandedIn
      <4>2. PICK q : MarkedBy(o, t, q) /\ ~HaveTxFromPeer(y, t, q)
        BY <1>2, <1>4, <3>1, <4>1
      <4> QED BY <4>2, HaveIs DEF Excused
    <3> QED BY <3>3, <3>4
  <2> QED BY <2>1, <2>2 DEF Follows, Tended
<1> QED BY <1>1, <1>2, <1>3, <1>5, <1>6 DEF Follows

\* No announcement of t is added or changed.
LosesOf(o, x, t) == \A a \in Announcements(x) : a.tx = t => a \in Announcements(o)

LEMMA FollowsLoss ==
  ASSUME NEW o, Sound(o), NEW x, Sound(x), NEW t, LosesOf(o, x, t), NEW k
  PROVE  Follows(o, k, x, k, t)
<1>1. \A p : HaveTxFromPeer(x, t, p) => HaveTxFromPeer(o, t, p)
  BY DEF LosesOf, HaveTxFromPeer, From
<1>2. ASSUME NEW p, MarkedBy(o, t, p), HaveTxFromPeer(x, t, p) PROVE MarkedBy(x, t, p)
  <2>1. PICK a \in Announcements(o) : a.tx = t /\ a.peer = p /\ a.m_reconsider
    BY <1>2 DEF MarkedBy
  <2>2. PICK b \in Announcements(x) : b.tx = t /\ b.peer = p
    BY <1>2 DEF HaveTxFromPeer, From
  <2>3. b \in Announcements(o)
    BY <2>2 DEF LosesOf
  <2>4. a = b
    BY <2>1, <2>2, <2>3 DEF Sound, Distinct, Announcements
  <2> QED BY <2>1, <2>2, <2>4 DEF MarkedBy
<1>3. \A p : MarkedBy(x, t, p) => MarkedBy(o, t, p)
  BY DEF MarkedBy, LosesOf
<1>4. Tended(o, k, x, k, t)
  <2> SUFFICES ASSUME StrandedIn(x, k, t), ~StrandedIn(o, k, t) PROVE Excused(o, k, x, t)
    BY DEF Tended
  <2>1. HaveTx(o, t) /\ t \in o.reconsiderable /\ t \notin x.reconsiderable
    BY <1>1, HaveIs DEF StrandedIn
  <2>2. PICK p : MarkedBy(o, t, p)
    BY <2>1, MarksAre
  <2>3. ~HaveTxFromPeer(x, t, p)
    BY <1>2, <2>1, <2>2, MarksAre
  <2> QED BY <2>2, <2>3, HaveIs DEF Excused
<1> QED BY <1>1, <1>2, <1>3, <1>4 DEF Follows

LEMMA EraseLoses ==
  ASSUME NEW o, Sound(o), NEW gone \in SUBSET Announcements(o)
  PROVE  Announcements(LimitOrphans(Erase(o, gone))) \subseteq Announcements(o) \ gone
<1>1. Sound(Erase(o, gone)) /\ Announcements(Erase(o, gone)) = Announcements(o) \ gone
  BY EraseIs
<1> QED BY <1>1, LimitLoses

LEMMA EraseTxLoses ==
  ASSUME NEW o, Sound(o), NEW t
  PROVE  Announcements(EraseTx(o, t)) \subseteq Announcements(o) /\ ~HaveTx(EraseTx(o, t), t)
<1> DEFINE gone == {a \in Announcements(o) : a.tx = t}
<1>1. gone \in SUBSET Announcements(o)
  OBVIOUS
<1>2. EraseTx(o, t) = LimitOrphans(Erase(o, gone))
  BY DEF EraseTx
<1>3. \A a \in Announcements(o) \ gone : a.tx # t
  OBVIOUS
<1> HIDE DEF gone
<1>4. Announcements(EraseTx(o, t)) \subseteq Announcements(o) \ gone
  BY <1>1, <1>2, EraseLoses
<1> QED BY <1>3, <1>4 DEF HaveTx, Orphans

LEMMA EraseForPeerLoses ==
  ASSUME NEW o, Sound(o), NEW p
  PROVE  Announcements(EraseForPeer(o, p)) \subseteq Announcements(o)
<1>1. From(o, p) \in SUBSET Announcements(o)
  BY DEF From
<1>2. Announcements(LimitOrphans(Erase(o, From(o, p)))) \subseteq Announcements(o)
  BY <1>1, EraseLoses
<1> QED BY <1>2 DEF EraseForPeer

LEMMA EraseForBlockLoses ==
  ASSUME NEW o, Sound(o), NEW block
  PROVE  Announcements(EraseForBlock(o, block)) \subseteq Announcements(o)
<1> DEFINE spent == UNION {Inputs[b] : b \in block}
           gone == {a \in Announcements(o) : Inputs[a.tx] \cap spent # {}}
<1>1. gone \in SUBSET Announcements(o)
  OBVIOUS
<1>2. EraseForBlock(o, block) = LimitOrphans(Erase(o, gone))
  BY DEF EraseForBlock
<1> HIDE DEF gone
<1> QED BY <1>1, <1>2, EraseLoses

LEMMA WorkSetAnns ==
  ASSUME NEW o, Sound(o), NEW u, NEW pick
  PROVE  /\ \A a \in Announcements(AddChildrenToWorkSet(o, u, pick)) :
              \E b \in Announcements(o) : a = Mark(o, u, pick, b)
         /\ \A b \in Announcements(o) :
              Mark(o, u, pick, b) \in Announcements(AddChildrenToWorkSet(o, u, pick))
<1> DEFINE x == AddChildrenToWorkSet(o, u, pick)
           s == o.anns
<1>1. x.anns = [i \in DOMAIN s |-> Mark(o, u, pick, s[i])]
  BY WorkSetIs
<1>2. Announcements(o) = {s[i] : i \in DOMAIN s}
  BY DEF Announcements
<1>3. Announcements(x) = {x.anns[i] : i \in DOMAIN s}
  BY <1>1 DEF Announcements
<1> HIDE DEF s
<1> QED BY <1>1, <1>2, <1>3

\* A child that becomes ready is marked.
LEMMA FollowsWork ==
  ASSUME NEW o, Sound(o), NEW u, NEW pick, NEW k, NEW t
  PROVE  Follows(o, k, AddChildrenToWorkSet(o, u, pick), k \cup {u}, t)
<1> DEFINE x == AddChildrenToWorkSet(o, u, pick)
           l == k \cup {u}
<1>1. Announcements(o) \in SUBSET Ann
  BY AnnouncementsType DEF Sound
<1>2. \A b \in Announcements(o) :
        /\ Mark(o, u, pick, b).tx = b.tx /\ Mark(o, u, pick, b).peer = b.peer
        /\ b.m_reconsider => Mark(o, u, pick, b).m_reconsider
        /\ Mark(o, u, pick, b).m_reconsider => b.m_reconsider \/ b.tx \in Ready(o, u)
  BY <1>1, MarkIs
<1>3. x.reconsiderable = o.reconsiderable \cup Ready(o, u)
  BY WorkSetIs
<1>4. /\ \A a \in Announcements(x) : \E b \in Announcements(o) : a = Mark(o, u, pick, b)
      /\ \A b \in Announcements(o) : Mark(o, u, pick, b) \in Announcements(x)
  BY WorkSetAnns
<1> HIDE DEF x
<1>5. \A p : HaveTxFromPeer(x, t, p) => HaveTxFromPeer(o, t, p)
  BY <1>2, <1>4 DEF HaveTxFromPeer, From
<1>6. \A p : MarkedBy(o, t, p) => MarkedBy(x, t, p)
  BY <1>2, <1>4 DEF MarkedBy
<1>7. \A p : MarkedBy(x, t, p) => MarkedBy(o, t, p) \/ t \notin o.reconsiderable
  BY <1>2, <1>4 DEF MarkedBy, Ready
<1>8. Tended(o, k, x, l, t)
  <2> SUFFICES ASSUME StrandedIn(x, l, t) PROVE StrandedIn(o, k, t)
    BY DEF Tended
  <2>1. HaveTx(o, t)
    BY <1>5, HaveIs DEF StrandedIn
  <2>2. t \notin o.reconsiderable /\ t \notin Ready(o, u)
    BY <1>3 DEF StrandedIn
  <2>3. Txid[u] \notin Parents(t)
    BY <2>1, <2>2 DEF Ready, Children, HaveTx
  <2>4. MissingIn(k, t) = MissingIn(l, t)
    BY <2>3 DEF MissingIn
  <2> QED BY <2>1, <2>2, <2>4 DEF StrandedIn
<1>9. k \subseteq l
  OBVIOUS
<1> HIDE DEF l
<1>10. Follows(o, k, x, l, t)
  BY <1>5, <1>6, <1>7, <1>8, <1>9 DEF Follows
<1> QED BY <1>10 DEF x, l

\* Follows, of the orphanage and the memory pool of a node; c is confirmed.
Goes(s, x, c, t) == Follows(s.m_orphanage, s.mempool \cup c, x.m_orphanage, x.mempool \cup c, t)

\* The parts that concern the orphans are left alone.
Alike(s, x) == x.m_orphanage = s.m_orphanage /\ x.mempool = s.mempool

LEMMA SaneSound == ASSUME NEW s, Sane(s) PROVE Sound(s.m_orphanage)
BY DEF Sane, Within

LEMMA GoesOn ==
  ASSUME NEW s, Sane(s), NEW x, Sane(x), NEW y, NEW c, NEW t, Goes(s, x, c, t), Goes(x, y, c, t)
  PROVE  Goes(s, y, c, t)
BY SaneSound, FollowsOn DEF Goes

LEMMA GoesLoss ==
  ASSUME NEW s, Sane(s), NEW x, Sane(x), x.mempool = s.mempool, NEW t,
         LosesOf(s.m_orphanage, x.m_orphanage, t), NEW c
  PROVE  Goes(s, x, c, t)
BY SaneSound, FollowsLoss DEF Goes

LEMMA GoesAlike ==
  ASSUME NEW s, Sane(s), NEW x, Sane(x), Alike(s, x), NEW c, NEW t PROVE Goes(s, x, c, t)
BY GoesLoss DEF Alike, LosesOf

LEMMA SetRowAlike == ASSUME NEW s, Sane(s), NEW h, NEW row PROVE Alike(s, SetRow(s, h, row))
BY DEF Sane, Fields, Alike, SetRow

LEMMA ForgetAlike ==
  ASSUME NEW s, Sane(s), NEW t PROVE Alike(s, ForgetTxHash(s, t)) /\ Alike(s, ForgetTx(s, t))
<1>1. \A x, h : Sane(x) => Alike(x, ForgetTxHash(x, h)) /\ Sane(ForgetTxHash(x, h))
  BY SetRowAlike, ForgetSane DEF ForgetTxHash
<1> QED BY <1>1 DEF ForgetTx, Alike

LEMMA ResponseAlike ==
  ASSUME NEW s, Sane(s), NEW p, NEW h PROVE Alike(s, ReceivedResponse(s, p, h))
<1>1. Alike(s, s)
  BY DEF Alike
<1> QED BY <1>1, SetRowAlike DEF ReceivedResponse

LEMMA InvsAlike ==
  ASSUME NEW s, Sane(s), NEW p, NEW hashes PROVE Alike(s, ReceivedInvs(s, p, hashes))
BY DEF Sane, Fields, Alike, ReceivedInvs

LEMMA AcceptedGoes ==
  ASSUME NEW s, Sane(s), NEW u, NEW pick, NEW c, NEW t
  PROVE  /\ Goes(s, MempoolAcceptedTx(s, u, pick), c, t)
         /\ ~HaveTx(MempoolAcceptedTx(s, u, pick).m_orphanage, u)
<1> DEFINE x == ForgetTx(s, u)
           w == AddChildrenToWorkSet(s.m_orphanage, u, pick)
           o == EraseTx(w, u)
           y == MempoolAcceptedTx(s, u, pick)
           k == s.mempool \cup c
           l == k \cup {u}
<1>1. Sane(x) /\ Alike(s, x)
  BY ForgetSane, ForgetAlike
<1>2. y = [x EXCEPT !.m_orphanage = EraseTx(AddChildrenToWorkSet(@, u, pick), u), !.mempool = @ \cup {u}]
  BY DEF MempoolAcceptedTx
<1> HIDE DEF x, y
<1>3. y.m_orphanage = o /\ y.mempool = s.mempool \cup {u}
  BY <1>1, <1>2 DEF Sane, Fields, Alike
<1>4. Sound(s.m_orphanage) /\ Sound(w)
  BY SaneSound, WorkSetSound
<1>5. Follows(s.m_orphanage, k, w, l, t)
  BY <1>4, FollowsWork
<1>6. Sound(o) /\ Announcements(o) \subseteq Announcements(w) /\ ~HaveTx(o, u)
  BY <1>4, EraseTxLoses, EraseTxWithin DEF Within
<1> HIDE DEF w, o
<1>7. Follows(w, l, o, l, t)
  BY <1>4, <1>6, FollowsLoss DEF LosesOf
<1>8. Follows(s.m_orphanage, k, o, l, t)
  BY <1>4, <1>5, <1>6, <1>7, FollowsOn
<1>9. y.mempool \cup c = l
  BY <1>3
<1> QED BY <1>3, <1>6, <1>8, <1>9 DEF Goes, y

LEMMA FailedIs ==
  ASSUME NEW s, Sane(s), NEW u, NEW result
  PROVE  /\ Failed(s, u, result).m_orphanage = EraseTx(s.m_orphanage, u)
         /\ Failed(s, u, result).mempool = s.mempool
<1> DEFINE f == IF result = "RECONSIDERABLE" THEN [s EXCEPT !.reconsiderable = @ \cup {u}]
                ELSE [s EXCEPT !.rejects = @ \cup {u}]
           x == ForgetTxHash(f, u)
<1>1. Sane(f) /\ Alike(s, f)
  BY DEF Sane, Fields, Alike
<1>2. Failed(s, u, result) = [x EXCEPT !.m_orphanage = EraseTx(@, u)]
  BY DEF Failed
<1> HIDE DEF f
<1>3. Sane(x) /\ Alike(f, x)
  BY <1>1, ForgetSane, ForgetAlike
<1> HIDE DEF x
<1> QED BY <1>1, <1>2, <1>3 DEF Sane, Fields, Alike

LEMMA FailedGoes ==
  ASSUME NEW s, Sane(s), NEW u, NEW result, NEW c, NEW t
  PROVE  /\ Goes(s, Failed(s, u, result), c, t)
         /\ ~HaveTx(Failed(s, u, result).m_orphanage, u)
<1> DEFINE y == Failed(s, u, result)
<1>1. y.m_orphanage = EraseTx(s.m_orphanage, u) /\ y.mempool = s.mempool /\ Sane(y)
  BY FailedIs, FailedSane
<1> HIDE DEF y
<1>2. Announcements(y.m_orphanage) \subseteq Announcements(s.m_orphanage) /\ ~HaveTx(y.m_orphanage, u)
  BY <1>1, SaneSound, EraseTxLoses
<1>3. Goes(s, y, c, t)
  BY <1>1, <1>2, GoesLoss DEF LosesOf
<1> QED BY <1>2, <1>3 DEF y

\* A later failure leaves the orphan where it is.
LEMMA ResultGoes ==
  ASSUME NEW s, Sane(s), NEW u, NEW p, NEW result, NEW pick, NEW c, NEW t
  PROVE  /\ Goes(s, ProcessResult(s, u, p, result, FALSE, pick), c, t)
         /\ \/ ProcessResult(s, u, p, result, FALSE, pick) = s /\ result = "MISSING_INPUTS"
            \/ ~HaveTx(ProcessResult(s, u, p, result, FALSE, pick).m_orphanage, u)
<1>1. Goes(s, s, c, t)
  BY GoesAlike DEF Alike
<1>2. Goes(s, MempoolAcceptedTx(s, u, pick), c, t) /\ ~HaveTx(MempoolAcceptedTx(s, u, pick).m_orphanage, u)
  BY AcceptedGoes
<1>3. Goes(s, Failed(s, u, result), c, t) /\ ~HaveTx(Failed(s, u, result).m_orphanage, u)
  BY FailedGoes
<1> QED BY <1>1, <1>2, <1>3 DEF ProcessResult, MempoolRejectedTx

LEMMA PackageGoes ==
  ASSUME NEW s, Sane(s), NEW parent, NEW child, NEW p, NEW pick, NEW c, NEW t
  PROVE  Goes(s, ProcessPackageResult(s, parent, child, p, pick), c, t)
<1> DEFINE results == ProcessNewPackage(s, parent, child)
           noted == IF PackageInvalid(s, parent, results)
                    THEN [s EXCEPT !.reconsiderable = @ \cup {{parent, child}}] ELSE s
           x == ProcessResult(noted, child, p, results[2], FALSE, pick)
           y == ProcessResult(x, parent, p, results[1], FALSE, pick)
<1>1. ProcessPackageResult(s, parent, child, p, pick) = y
  BY DEF ProcessPackageResult
<1> HIDE DEF results
<1>2. Sane(noted) /\ Alike(s, noted)
  BY DEF Sane, Fields, Alike
<1> HIDE DEF noted
<1>3. Goes(s, noted, c, t)
  BY <1>2, GoesAlike
<1>4. Sane(x) /\ Goes(noted, x, c, t)
  BY <1>2, ResultSane, ResultGoes
<1> HIDE DEF x
<1>5. Goes(x, y, c, t)
  BY <1>4, ResultGoes
<1> HIDE DEF y
<1>6. Goes(s, x, c, t)
  BY <1>2, <1>3, <1>4, GoesOn
<1> QED BY <1>1, <1>4, <1>5, <1>6, GoesOn

LEMMA TryGoes ==
  ASSUME NEW s, Sane(s), NEW u, NEW p, NEW pick, NEW c, NEW t
  PROVE  Goes(s, TryPackage(s, u, p, pick), c, t)
<1> DEFINE children == Find1P1CPackage(s, u, p)
<1>1. TryPackage(s, u, p, pick)
        = IF children = <<>> THEN s ELSE ProcessPackageResult(s, u, children[1], p, pick)
  BY DEF TryPackage
<1> HIDE DEF children
<1>2. Goes(s, ProcessPackageResult(s, u, children[1], p, pick), c, t)
  BY PackageGoes
<1>3. Goes(s, s, c, t)
  BY GoesAlike DEF Alike
<1> QED BY <1>1, <1>2, <1>3

\* Nothing happens to t but that announcements of it are lost.
Untouched(s, x, t) == x.mempool = s.mempool /\ LosesOf(s.m_orphanage, x.m_orphanage, t)

LEMMA AddUntouched ==
  ASSUME NEW o, Sound(o), NEW u \in Tx, NEW p \in Peer, NEW t, t # u
  PROVE  LosesOf(o, AddTx(o, u, p), t) /\ LosesOf(o, AddAnnouncer(o, u, p), t)
<1>1. LosesOf(o, o, t)
  BY DEF LosesOf
<1>2. LosesOf(o, AddAnnouncement(o, u, p), t)
  <2>1. CASE HaveTxFromPeer(o, u, p)
    BY <1>1, <2>1 DEF AddAnnouncement
  <2>2. CASE ~HaveTxFromPeer(o, u, p)
    <3>1. Announcements(AddAnnouncement(o, u, p)) \subseteq Announcements(o) \cup {NewAnn(u, p)}
      BY <2>2, AddLoses
    <3>2. NewAnn(u, p).tx = u
      BY DEF NewAnn
    <3> QED BY <3>1, <3>2 DEF LosesOf
  <2> QED BY <2>1, <2>2
<1> QED BY <1>1, <1>2 DEF AddTx, AddAnnouncer

LEMMA ResolveIs ==
  ASSUME NEW s, Sane(s), NEW parents, NEW u, NEW p
  PROVE  /\ Resolve(s, parents, u, p).mempool = s.mempool
         /\ ResolveKnown(s, parents, u, p).mempool = s.mempool
         /\ \/ Resolve(s, parents, u, p) = s
            \/ /\ ~HaveTxFromPeer(s.m_orphanage, u, p)
               /\ Resolve(s, parents, u, p).m_orphanage = AddTx(s.m_orphanage, u, p)
         /\ \/ ResolveKnown(s, parents, u, p) = s
            \/ /\ ~HaveTxFromPeer(s.m_orphanage, u, p)
               /\ ResolveKnown(s, parents, u, p).m_orphanage = AddAnnouncer(s.m_orphanage, u, p)
<1> DEFINE x == ReceivedInvs(s, p, parents)
           y == [x EXCEPT !.m_orphanage = AddTx(@, u, p)]
           z == [x EXCEPT !.m_orphanage = AddAnnouncer(@, u, p)]
<1>1. Sane(x) /\ Alike(s, x)
  BY InvsSane, InvsAlike
<1>2. /\ Resolve(s, parents, u, p) = IF MayResolve(s, parents, u, p) THEN y ELSE s
      /\ ResolveKnown(s, parents, u, p) =
           IF parents # {} /\ MayResolve(s, parents, u, p) THEN z ELSE s
  BY DEF Resolve, ResolveKnown
<1> HIDE DEF x
<1>3. /\ y.mempool = s.mempool /\ y.m_orphanage = AddTx(s.m_orphanage, u, p)
      /\ z.mempool = s.mempool /\ z.m_orphanage = AddAnnouncer(s.m_orphanage, u, p)
  BY <1>1 DEF Sane, Fields, Alike
<1> HIDE DEF y, z
<1> QED BY <1>2, <1>3 DEF MayResolve

LEMMA ResolveUntouched ==
  ASSUME NEW s, Sane(s), NEW parents, NEW u \in Tx, NEW p \in Peer, NEW t, t # u
  PROVE  Untouched(s, Resolve(s, parents, u, p), t) /\ Untouched(s, ResolveKnown(s, parents, u, p), t)
<1>1. LosesOf(s.m_orphanage, s.m_orphanage, t)
  BY DEF LosesOf
<1>2. /\ LosesOf(s.m_orphanage, AddTx(s.m_orphanage, u, p), t)
      /\ LosesOf(s.m_orphanage, AddAnnouncer(s.m_orphanage, u, p), t)
  BY SaneSound, AddUntouched
<1> QED BY <1>1, <1>2, ResolveIs DEF Untouched

LEMMA ResolvedUntouched ==
  ASSUME NEW S \in SUBSET Peer, NEW base, Sane(base), NEW parents, NEW u \in Tx, NEW t
  PROVE  /\ Resolved(base, parents, u, S).mempool = base.mempool
         /\ t # u => Untouched(base, Resolved(base, parents, u, S), t)
<1>0. IsFiniteSet(S)
  BY OrphanageAssumption, FS_Subset
<1> DEFINE g == CHOOSE g : ResolvesBy(g, base, parents, u, S)
           Good(x) == /\ Sane(x) /\ x.mempool = base.mempool
                      /\ t # u => Untouched(base, x, t)
<1>1. ResolvesBy(g, base, parents, u, S)
  BY <1>0, ResolvesExist
<1>2. Resolved(base, parents, u, S) = g[S]
  BY DEF Resolved, FoldSet, MapThenFoldSet, ResolvesBy, Any
<1> HIDE DEF g
<1>3. \A s \in SUBSET S : g[s] = IF s = {} THEN base ELSE Resolve(g[s \ {Any(s)}], parents, u, Any(s))
  BY <1>1 DEF ResolvesBy
<1>4. Good(base)
  BY DEF Untouched, LosesOf
<1>5. ASSUME NEW x, Good(x), NEW q \in Peer PROVE Good(Resolve(x, parents, u, q))
  <2>1. Sane(Resolve(x, parents, u, q)) /\ Resolve(x, parents, u, q).mempool = x.mempool
    BY <1>5, ResolveSane, ResolveIs
  <2>2. t # u => Untouched(x, Resolve(x, parents, u, q), t)
    BY <1>5, ResolveUntouched
  <2> QED BY <1>5, <2>1, <2>2 DEF Untouched, LosesOf
<1> HIDE DEF Good
<1> DEFINE B == {s \in SUBSET S : ~Good(g[s])}
<1>6. ASSUME B # {} PROVE FALSE
  <2>1. PICK s \in B : \A x \in s : s \ {x} \notin B
    <3>1. B \subseteq SUBSET S
      OBVIOUS
    <3> HIDE DEF B
    <3> QED BY <1>0, <1>6, <3>1, SmallestBad
  <2>2. CASE s = {}
    BY <1>3, <1>4, <2>2
  <2>3. CASE s # {}
    <3>1. Any(s) \in s /\ Any(s) \in Peer
      BY <2>3, AnyIs
    <3>2. Good(g[s \ {Any(s)}])
      BY <2>1, <3>1
    <3>3. Good(Resolve(g[s \ {Any(s)}], parents, u, Any(s)))
      BY <1>5, <3>1, <3>2
    <3> QED BY <1>3, <2>3, <3>3
  <2> QED BY <2>2, <2>3
<1>7. Good(g[S])
  BY <1>6
<1> QED BY <1>2, <1>7 DEF Good

LEMMA MissingUntouched ==
  ASSUME NEW s, Sane(s), NEW u \in Tx, NEW p \in Peer, NEW t
  PROVE  /\ MissingInputs(s, u, p).mempool = s.mempool
         /\ t # u => Untouched(s, MissingInputs(s, u, p), t)
<1> DEFINE parents == Unknown(s, Parents(u) \cap Hash)
           others == ResolutionCandidates(s, u, p) \ {p}
           first == Resolve(s, parents, u, p)
           kept == Resolved(first, parents, u, others)
           z == ForgetTx(kept, u)
           x == ForgetTx(s, u)
           y == [x EXCEPT !.rejects = @ \cup {u, Txid[u]}]
<1>1. others \in SUBSET Peer
  BY DEF ResolutionCandidates, Pending
<1>2. MissingInputs(s, u, p) = IF u \in s.rejects THEN s
                               ELSE IF RejectedParents(s, u) THEN y ELSE z
  BY DEF MissingInputs, Resolved
<1> HIDE DEF parents, others
<1>3. Sane(first) /\ first.mempool = s.mempool /\ (t # u => Untouched(s, first, t))
  BY ResolveSane, ResolveIs, ResolveUntouched
<1> HIDE DEF first
<1>4. Sane(kept) /\ kept.mempool = first.mempool /\ (t # u => Untouched(first, kept, t))
  BY <1>1, <1>3, ResolvedSane, ResolvedUntouched
<1> HIDE DEF kept
<1>5. Alike(kept, z)
  BY <1>4, ForgetAlike
<1>6. Sane(x) /\ Alike(s, x)
  BY ForgetSane, ForgetAlike
<1> HIDE DEF x
<1>7. Alike(s, y)
  BY <1>6 DEF Sane, Fields, Alike
<1> HIDE DEF y, z
<1>8. z.mempool = s.mempool /\ (t # u => Untouched(s, z, t))
  BY <1>3, <1>4, <1>5 DEF Alike, Untouched, LosesOf
<1>9. y.mempool = s.mempool /\ Untouched(s, y, t) /\ Untouched(s, s, t)
  BY <1>7 DEF Alike, Untouched, LosesOf
<1> QED BY <1>2, <1>8, <1>9

NodeTended(s, x, c, t) ==
  Tended(s.m_orphanage, s.mempool \cup c, x.m_orphanage, x.mempool \cup c, t)

LEMMA GoesTended == ASSUME NEW s, NEW x, NEW c, NEW t, Goes(s, x, c, t) PROVE NodeTended(s, x, c, t)
BY DEF Goes, Follows, NodeTended

LEMMA AlikeTended ==
  ASSUME NEW s, Sane(s), NEW x, Sane(x), Alike(s, x), NEW c, NEW t PROVE NodeTended(s, x, c, t)
BY GoesAlike, GoesTended

LEMMA LossTended ==
  ASSUME NEW s, Sane(s), NEW x, Sane(x), x.mempool = s.mempool,
         Announcements(x.m_orphanage) \subseteq Announcements(s.m_orphanage), NEW c, NEW t
  PROVE  NodeTended(s, x, c, t)
BY GoesLoss, GoesTended DEF LosesOf

LEMMA MissingIs == ASSUME NEW s, NEW t PROVE Missing(s, t) = MissingIn(s.mempool \cup chain, t)
BY DEF Missing, Known, MissingIn

LEMMA ReceivedTended ==
  ASSUME NEW s, Sane(s), NEW u \in Tx, NEW p \in Peer, NEW pick, NEW t
  PROVE  NodeTended(s, ReceivedTx(s, u, p, pick), chain, t)
<1> DEFINE answered == ReceivedResponse(ReceivedResponse(s, p, Txid[u]), p, u)
           result == ProcessTransaction(answered, u)
           processed == ProcessResult(answered, u, p, result, TRUE, pick)
<1>1. ReceivedTx(s, u, p, pick) =
        IF AlreadyHaveTx(answered, u, FALSE) THEN answered
        ELSE IF u \in answered.reconsiderable THEN TryPackage(answered, u, p, pick)
        ELSE IF result = "RECONSIDERABLE" THEN TryPackage(processed, u, p, pick)
        ELSE processed
  BY DEF ReceivedTx
<1>2. Sane(answered) /\ Alike(s, answered)
  BY ResponseSane, ResponseAlike DEF Alike
<1>3. result = "MISSING_INPUTS" => Missing(answered, u) # {}
  BY DEF ProcessTransaction
<1> HIDE DEF answered, result
<1>4. Sane(processed)
  BY <1>2, ResultSane
<1>5. Goes(s, answered, chain, t)
  BY <1>2, GoesAlike
<1>6. CASE result # "MISSING_INPUTS"
  <2>1. processed = IF result = "VALID" THEN MempoolAcceptedTx(answered, u, pick)
                    ELSE Failed(answered, u, result)
    BY <1>6 DEF ProcessResult, MempoolRejectedTx
  <2>2. Goes(answered, processed, chain, t)
    BY <1>2, <2>1, AcceptedGoes, FailedGoes
  <2> HIDE DEF processed
  <2>3. Goes(answered, TryPackage(answered, u, p, pick), chain, t)
        /\ Goes(processed, TryPackage(processed, u, p, pick), chain, t)
    BY <1>2, <1>4, TryGoes
  <2>4. Goes(s, processed, chain, t) /\ Goes(s, TryPackage(answered, u, p, pick), chain, t)
    BY <1>2, <1>5, <2>2, <2>3, GoesOn
  <2>5. Goes(s, TryPackage(processed, u, p, pick), chain, t)
    BY <1>4, <2>3, <2>4, GoesOn
  <2> QED BY <1>1, <1>5, <2>4, <2>5, GoesTended
<1>7. CASE result = "MISSING_INPUTS"
  <2>1. processed = MissingInputs(answered, u, p)
    BY <1>7 DEF ProcessResult, MempoolRejectedTx
  <2>2. Goes(answered, TryPackage(answered, u, p, pick), chain, t)
    BY <1>2, TryGoes
  <2>3. Goes(s, TryPackage(answered, u, p, pick), chain, t)
    BY <1>2, <1>5, <2>2, GoesOn
  <2>4. processed.mempool = answered.mempool /\ (t # u => Untouched(answered, processed, t))
    BY <1>2, <2>1, MissingUntouched
  <2> HIDE DEF processed
  <2>5. CASE t # u
    <3>1. Goes(answered, processed, chain, t)
      BY <1>2, <1>4, <2>4, <2>5, GoesLoss DEF Untouched
    <3>2. Goes(s, processed, chain, t)
      BY <1>2, <1>5, <3>1, GoesOn
    <3> QED BY <1>1, <1>5, <1>7, <2>3, <3>2, GoesTended
  <2>6. CASE t = u
    <3>1. MissingIn(processed.mempool \cup chain, t) # {}
      BY <1>3, <1>7, <2>4, <2>6, MissingIs
    <3>2. NodeTended(s, processed, chain, t)
      BY <3>1 DEF NodeTended, Tended, StrandedIn
    <3> QED BY <1>1, <1>5, <1>7, <2>3, <3>2, GoesTended
  <2> QED BY <2>5, <2>6
<1> QED BY <1>6, <1>7

LEMMA TakenLoses ==
  ASSUME NEW o, NEW p, NEW t, t # ToReconsider(o, p).tx
  PROVE  LosesOf(o, GetTxToReconsider(o, p), t)
<1> DEFINE u == ToReconsider(o, p).tx
           x == GetTxToReconsider(o, p)
           s == o.anns
<1>1. x.anns = [i \in DOMAIN s |-> Unmark(s[i], p, u)]
  BY TakenIs
<1> HIDE DEF u, x, s
<1>2. \A i \in DOMAIN s : x.anns[i].tx = t => x.anns[i] = s[i]
  <2> SUFFICES ASSUME NEW i \in DOMAIN s, x.anns[i].tx = t PROVE x.anns[i] = s[i]
    OBVIOUS
  <2>1. x.anns[i] = Unmark(s[i], p, u)
    BY <1>1
  <2>2. CASE s[i].peer = p /\ s[i].tx = u
    <3>1. x.anns[i] = [s[i] EXCEPT !.m_reconsider = FALSE]
      BY <2>1, <2>2 DEF Unmark
    <3> QED BY <2>2, <3>1 DEF u
  <2> QED BY <2>1, <2>2 DEF Unmark
<1> QED BY <1>1, <1>2 DEF LosesOf, Announcements, x, s

LEMMA ReconsiderTended ==
  ASSUME NEW s, Sane(s), NEW p, NEW pick, HaveTxToReconsider(s.m_orphanage, p), NEW t
  PROVE  NodeTended(s, Reconsider(s, p, pick), chain, t)
<1> DEFINE u == ToReconsider(s.m_orphanage, p).tx
           o == GetTxToReconsider(s.m_orphanage, p)
           taken == [s EXCEPT !.m_orphanage = o]
           result == ProcessTransaction(taken, u)
           y == ProcessResult(taken, u, p, result, FALSE, pick)
<1>1. Reconsider(s, p, pick) = y
  BY DEF Reconsider
<1>2. Within(o)
  BY TakenWithin DEF Sane
<1>3. t # u => LosesOf(s.m_orphanage, o, t)
  BY TakenLoses
<1>4. result = "MISSING_INPUTS" => Missing(taken, u) # {}
  BY DEF ProcessTransaction
<1> HIDE DEF o, u, result
<1>5. Sane(taken) /\ taken.m_orphanage = o /\ taken.mempool = s.mempool
  BY <1>2 DEF Sane, Fields
<1> HIDE DEF taken
<1>6. /\ Goes(taken, y, chain, t)
      /\ (y = taken /\ result = "MISSING_INPUTS") \/ ~HaveTx(y.m_orphanage, u)
  BY <1>5, ResultGoes
<1> HIDE DEF y
<1>7. CASE t # u
  <2>1. Goes(s, taken, chain, t)
    BY <1>3, <1>5, <1>7, GoesLoss
  <2>2. Goes(s, y, chain, t)
    BY <1>5, <1>6, <2>1, GoesOn
  <2> QED BY <1>1, <2>2, GoesTended
<1>8. CASE t = u
  <2>1. CASE y = taken /\ result = "MISSING_INPUTS"
    <3>1. MissingIn(y.mempool \cup chain, t) # {}
      BY <1>4, <1>8, <2>1, MissingIs
    <3> QED BY <1>1, <3>1 DEF NodeTended, Tended, StrandedIn
  <2>2. CASE ~HaveTx(y.m_orphanage, u)
    BY <1>1, <1>8, <2>2 DEF NodeTended, Tended, StrandedIn
  <2> QED BY <1>6, <2>1, <2>2
<1> QED BY <1>7, <1>8

\* One more announcer of an orphan takes no other announcer's mark.
LEMMA AnnouncerTended ==
  ASSUME NEW o, Sound(o), NEW u \in Tx, NEW p \in Peer, ~HaveTxFromPeer(o, u, p),
         HaveTx(o, u), NEW x, Sound(x), x = AddAnnouncer(o, u, p), NEW k
  PROVE  Tended(o, k, x, k, u)
<1>1. Announcements(x) \subseteq Announcements(o) \cup {NewAnn(u, p)}
  BY AddLoses DEF AddAnnouncer
<1> SUFFICES ASSUME StrandedIn(x, k, u), ~StrandedIn(o, k, u) PROVE Excused(o, k, x, u)
  BY DEF Tended
<1>2. u \in o.reconsiderable /\ u \notin x.reconsiderable
  BY DEF StrandedIn
<1>3. PICK a \in Announcements(o) : a.tx = u /\ a.m_reconsider
  BY <1>2, MarksAre DEF MarkedBy
<1> DEFINE q == a.peer
<1>4. MarkedBy(o, u, q) /\ HaveTxFromPeer(o, u, q)
  BY <1>3 DEF MarkedBy, HaveTxFromPeer, From
<1>5. ASSUME HaveTxFromPeer(x, u, q) PROVE FALSE
  <2>1. PICK b \in Announcements(x) : b.tx = u /\ b.peer = q
    BY <1>5 DEF HaveTxFromPeer, From
  <2>2. q # p /\ NewAnn(u, p).peer = p
    BY <1>4 DEF NewAnn
  <2>3. b \in Announcements(o)
    BY <1>1, <2>1, <2>2
  <2>4. a = b
    BY <1>3, <2>1, <2>3 DEF Sound, Distinct, Announcements
  <2>5. MarkedBy(x, u, q)
    BY <1>3, <2>1, <2>4 DEF MarkedBy
  <2> QED BY <1>2, <2>5, MarksAre
<1> QED BY <1>4, <1>5 DEF Excused

LEMMA AnnouncementTended ==
  ASSUME NEW s, Sane(s), NEW u \in Tx, NEW p \in Peer, NEW c, NEW t
  PROVE  NodeTended(s, AddTxAnnouncement(s, p, u), c, t)
<1> DEFINE parents == Unknown(s, Parents(u) \cap Hash)
           x == ResolveKnown(s, parents, u, p)
<1>1. AddTxAnnouncement(s, p, u) =
        IF HaveTx(s.m_orphanage, u) THEN x
        ELSE IF \/ AlreadyHaveTx(s, u, TRUE)
                \/ Count(s, p) >= MAX_PEER_TX_ANNOUNCEMENTS
        THEN s ELSE ReceivedInvs(s, p, {u})
  BY DEF AddTxAnnouncement
<1> HIDE DEF parents
<1>2. NodeTended(s, s, c, t) /\ NodeTended(s, ReceivedInvs(s, p, {u}), c, t)
  <2>1. Alike(s, s)
    BY DEF Alike
  <2> QED BY <2>1, InvsAlike, InvsSane, AlikeTended
<1>3. Sane(x) /\ x.mempool = s.mempool
  BY ResolveSane, ResolveIs
<1>4. t # u => Untouched(s, x, t)
  BY ResolveUntouched
<1>5. \/ x = s
      \/ ~HaveTxFromPeer(s.m_orphanage, u, p) /\ x.m_orphanage = AddAnnouncer(s.m_orphanage, u, p)
  BY ResolveIs
<1> HIDE DEF x
<1>6. ASSUME HaveTx(s.m_orphanage, u) PROVE NodeTended(s, x, c, t)
  <2>1. CASE x = s
    BY <1>2, <2>1
  <2>2. CASE x # s /\ t = u
    <3>1. Sound(s.m_orphanage) /\ Sound(x.m_orphanage)
      BY <1>3, SaneSound
    <3>2. Tended(s.m_orphanage, s.mempool \cup c, x.m_orphanage, s.mempool \cup c, u)
      BY <1>5, <1>6, <2>2, <3>1, AnnouncerTended
    <3> QED BY <1>3, <2>2, <3>2 DEF NodeTended
  <2>3. CASE t # u
    BY <1>3, <1>4, <2>3, GoesLoss, GoesTended DEF Untouched
  <2> QED BY <2>1, <2>2, <2>3
<1> QED BY <1>1, <1>2, <1>6

LEMMA NextTended ==
  ASSUME NodeSane, [DownloadNext]_downloadVars, chain' = chain, NEW t \in Tx
  PROVE  NodeTended(node, node', chain, t)
<1>1. Sane(node) /\ Sane(node')
  BY NodeNext DEF NodeSane
<1>2. ASSUME Alike(node, node') PROVE NodeTended(node, node', chain, t)
  BY <1>1, <1>2, AlikeTended
<1>3. ASSUME NEW p \in Peer, ConnectedPeer(p) PROVE Alike(node, node')
  BY <1>3 DEF ConnectedPeer, Alike
<1>4. ASSUME NEW p \in Peer, DisconnectedPeer(p) PROVE NodeTended(node, node', chain, t)
  <2> DEFINE o == EraseForPeer(node.m_orphanage, p)
             rows == [h \in Hash |-> LET row == [node.m_txrequest[h] EXCEPT ![p] = "none"]
                                     IN  IF Pending(row) = {} THEN Nobody ELSE row]
  <2>1. node' = [node EXCEPT !.m_orphanage = o, !.m_txrequest = rows]
    BY <1>4 DEF DisconnectedPeer
  <2> HIDE DEF o, rows
  <2>2. node'.m_orphanage = o /\ node'.mempool = node.mempool
    BY <1>1, <2>1 DEF Sane, Fields
  <2>3. Announcements(o) \subseteq Announcements(node.m_orphanage)
    BY <1>1, SaneSound, EraseForPeerLoses DEF o
  <2> QED BY <1>1, <2>2, <2>3, LossTended
<1>5. ASSUME NEW p \in Peer, NEW u \in Tx, Inv(p, u) PROVE NodeTended(node, node', chain, t)
  BY <1>1, <1>5, AnnouncementTended DEF Inv
<1>6. ASSUME NEW p \in Peer, NEW u \in Tx, Receive(p, u) PROVE NodeTended(node, node', chain, t)
  BY <1>1, <1>6, ReceivedTended DEF Receive, SetNode
<1>7. ASSUME NEW p \in Peer, NEW h \in Hash, GetRequestsToSend(p, h) PROVE Alike(node, node')
  BY <1>1, <1>7, ForgetAlike, SetRowAlike DEF GetRequestsToSend, SetNode
<1>8. ASSUME NEW p \in Peer, NEW h \in Hash, ReceivedNotFound(p, h) PROVE Alike(node, node')
  BY <1>1, <1>8, ResponseAlike DEF ReceivedNotFound, SetNode
<1>9. ASSUME NEW p \in Peer, ProcessOrphanTx(p) PROVE NodeTended(node, node', chain, t)
  BY <1>1, <1>9, ReconsiderTended DEF ProcessOrphanTx, SetNode
<1>10. ASSUME NEW block \in Blocks, ConnectTip(block) PROVE Alike(node, node')
  <2>1. block = {}
    BY <1>10 DEF ConnectTip
  <2>2. node' = [node EXCEPT !.mempool = {u \in @ : \A b \in block : Inputs[u] \cap Inputs[b] = {}},
                             !.rejects = {}, !.reconsiderable = {}]
    BY <1>10 DEF ConnectTip
  <2>3. /\ node'.m_orphanage = node.m_orphanage
        /\ node'.mempool = {u \in node.mempool : \A b \in block : Inputs[u] \cap Inputs[b] = {}}
    BY <1>1, <2>2 DEF Sane, Fields
  <2> QED BY <2>1, <2>3 DEF Alike
<1>11. ASSUME DisconnectTip PROVE FALSE
  BY <1>11 DEF DisconnectTip
<1>12. ASSUME Notified PROVE NodeTended(node, node', chain, t)
  <2>1. CASE Head(notify) = {}
    <3>1. node' = [node EXCEPT !.recent_confirmed = {}]
      BY <1>12, <2>1 DEF Notified, BlockDisconnected
    <3>2. Alike(node, node')
      BY <1>1, <3>1 DEF Sane, Fields, Alike
    <3> QED BY <1>2, <3>2
  <2>2. CASE Head(notify) # {}
    <3> DEFINE block == Head(notify)
               o == EraseForBlock(node.m_orphanage, block)
               hashes == block \cup {Txid[u] : u \in block}
    <3>1. node' = [node EXCEPT !.m_orphanage = o,
                               !.recent_confirmed = @ \cup hashes,
                               !.m_txrequest = [h \in Hash |-> IF h \in hashes THEN Nobody ELSE @[h]]]
      BY <1>12, <2>2 DEF Notified, BlockConnected
    <3> HIDE DEF o, hashes
    <3>2. node'.m_orphanage = o /\ node'.mempool = node.mempool
      BY <1>1, <3>1 DEF Sane, Fields
    <3>3. Announcements(o) \subseteq Announcements(node.m_orphanage)
      BY <1>1, SaneSound, EraseForBlockLoses DEF o
    <3> QED BY <1>1, <3>2, <3>3, LossTended
  <2> QED BY <2>1, <2>2
<1>13. ASSUME UNCHANGED downloadVars PROVE Alike(node, node')
  BY <1>13 DEF downloadVars, Alike
<1> QED
  BY <1>2, <1>3, <1>4, <1>5, <1>6, <1>7, <1>8, <1>9, <1>10, <1>11, <1>12, <1>13 DEF DownloadNext

\* In every behaviour, for any transactions and peers: an orphan whose parents
\* have arrived is left without anybody to reconsider it only by a block or by
\* the erasure of an announcement.
THEOREM StrandedCorrect == DownloadSpec => StrandedOnlyByErasure
<1> DEFINE Step == \A t \in Tx : ~Stranded(t) /\ Stranded(t)' =>
                     \/ chain' # chain
                     \/ \E a \in Announcements(node.m_orphanage) :
                          /\ a.tx = t
                          /\ a.m_reconsider \/ Missing(node, t) # {}
                          /\ ~HaveTxFromPeer(node'.m_orphanage, t, a.peer)
<1>1. NodeSane /\ [DownloadNext]_downloadVars => [Step]_downloadVars
  <2> SUFFICES ASSUME NodeSane, [DownloadNext]_downloadVars, NEW t \in Tx,
                      ~Stranded(t), Stranded(t)', chain' = chain
               PROVE  \E a \in Announcements(node.m_orphanage) :
                        /\ a.tx = t
                        /\ a.m_reconsider \/ Missing(node, t) # {}
                        /\ ~HaveTxFromPeer(node'.m_orphanage, t, a.peer)
    OBVIOUS
  <2>1. NodeTended(node, node', chain, t)
    BY NextTended
  <2>2. ~StrandedIn(node.m_orphanage, node.mempool \cup chain, t)
    BY DEF Stranded, StrandedIn, Missing, Known, MissingIn
  <2>3. StrandedIn(node'.m_orphanage, node'.mempool \cup chain, t)
    BY DEF Stranded, StrandedIn, Missing, Known, MissingIn
  <2>4. Excused(node.m_orphanage, node.mempool \cup chain, node'.m_orphanage, t)
    BY <2>1, <2>2, <2>3 DEF NodeTended, Tended
  <2>5. PICK p : /\ HaveTxFromPeer(node.m_orphanage, t, p) /\ ~HaveTxFromPeer(node'.m_orphanage, t, p)
                 /\ MarkedBy(node.m_orphanage, t, p) \/ MissingIn(node.mempool \cup chain, t) # {}
    BY <2>4 DEF Excused
  <2>6. CASE MarkedBy(node.m_orphanage, t, p)
    BY <2>5, <2>6 DEF MarkedBy
  <2>7. CASE Missing(node, t) # {}
    <3>1. PICK a \in Announcements(node.m_orphanage) : a.tx = t /\ a.peer = p
      BY <2>5 DEF HaveTxFromPeer, From
    <3> QED BY <2>5, <2>7, <3>1
  <2> QED BY <2>5, <2>6, <2>7, MissingIs
<1> QED BY <1>1, NodeInit, NodeNext, PTL DEF DownloadSpec, StrandedOnlyByErasure

-----------------------------------------------------------------------------
(* A peer within its share *)

\* The announcements of one peer are of different transactions.
LEMMA OwnBound ==
  ASSUME NEW A \in SUBSET Ann, IsFiniteSet(A), \A a, b \in A : a.tx = b.tx => a = b,
         NEW T \in SUBSET Tx, IsFiniteSet(T), TxsOf(A) \subseteq T, NEW v \in [Tx -> Nat]
  PROVE  Size(ByTx(v, A), A) \in Nat /\ Size(v, T) \in Nat /\ Size(ByTx(v, A), A) <= Size(v, T)
<1> DEFINE w == ByTx(v, A)
<1>1. \A a \in A : w[a] = v[a.tx] /\ w[a] \in Nat /\ a.tx \in T
  BY ByTxNat DEF TxsOf
<1>2. IsFiniteSet(Slots(v, T)) /\ Size(v, T) \in Nat /\ Size(w, A) \in Nat
  BY <1>1, SlotsFinite, SizeNat
<1> DEFINE h == [z \in Slots(w, A) |-> <<z[1].tx, z[2]>>]
<1>3. h \in Injection(Slots(w, A), Slots(v, T))
  <2>1. \A z \in Slots(w, A) : /\ z[1] \in A /\ z[1].tx \in T /\ z[2] \in Nat \ {0} /\ z[2] <= v[z[1].tx]
                               /\ z = <<z[1], z[2]>>
    BY <1>1 DEF Slots
  <2>2. h \in [Slots(w, A) -> Slots(v, T)]
    BY <2>1 DEF Slots
  <2>3. ASSUME NEW y \in Slots(w, A), NEW z \in Slots(w, A), h[y] = h[z] PROVE y = z
    <3>1. y[1].tx = z[1].tx /\ y[2] = z[2]
      BY <2>3
    <3>2. y[1] = z[1]
      BY <2>1, <3>1
    <3> QED BY <2>1, <3>1, <3>2
  <2> QED BY <2>2, <2>3 DEF Injection, IsInjective
<1>4. Cardinality(Slots(w, A)) <= Cardinality(Slots(v, T))
  BY <1>2, <1>3, FS_Injection
<1> QED BY <1>2, <1>4 DEF Size

LEMMA Shares ==
  ASSUME NEW m \in Nat, NEW k \in Nat \ {0}, NEW n \in Nat \ {0}, k <= n
  PROVE  m \div n <= m \div k /\ m \div n \in Nat /\ m \div k \in Nat
<1> DEFINE a == m \div n
           b == m \div k
<1>1. a \in Nat /\ b \in Nat /\ a * n <= m /\ m < (b + 1) * k
  OBVIOUS
<1> HIDE DEF a, b
<1>2. ASSUME b < a PROVE FALSE
  <2>1. (b + 1) * k <= a * k
    BY <1>1, <1>2
  <2>2. a * k <= a * n
    BY <1>1
  <2>3. (b + 1) * k \in Nat /\ a * k \in Nat /\ a * n \in Nat
    BY <1>1
  <2> QED BY <1>1, <2>1, <2>2, <2>3
<1> QED BY <1>1, <1>2 DEF a, b

\* What the peer has announced.
Own(o, q) == TxsOf(From(o, q))

\* All of it is among the orphans of H, and those are within a share.
Modest(o, q, H) == Own(o, q) \subseteq OrphansAmong(H) /\ Affordable(OrphansAmong(H))

LEMMA ModestCalm ==
  ASSUME NEW o, Sound(o), NEW q, NEW H, Modest(o, q, H)
  PROVE  q \notin Suspects(o)
<1> SUFFICES ASSUME q \in PeersOf(o) PROVE ~AboveOne(GetDosScore(o, q, MaxPeerLatencyScore(o)))
  BY DEF Suspects
<1> DEFINE A == From(o, q)
           T == OrphansAmong(H)
           m == MaxPeerLatencyScore(o)
<1>1. o \in Orphanages /\ Distinct(o.anns)
  BY DEF Sound
<1>2. A \in SUBSET Ann /\ IsFiniteSet(A) /\ A = OfPeers(Announcements(o), {q})
  BY <1>1, FromIs
<1>3. TxsOf(A) \subseteq T
  BY DEF Modest, Own
<1>4. \A a, b \in A : a.tx = b.tx => a = b
  BY <1>1, <1>2 DEF OfPeers, Announcements, Distinct
<1>5. T \in SUBSET Tx /\ IsFiniteSet(T)
  BY DEF OrphansAmong, Affordable, Modest
<1>6. /\ LatencyOf \in [Tx -> Nat] /\ Weight \in [Tx -> Nat]
  BY Weights
<1>7. /\ Total(Weight, T) = Size(Weight, T) /\ Total(LatencyOf, T) = Size(LatencyOf, T)
  BY <1>5, <1>6, TotalIs
<1>8. /\ Size(Weight, T) <= m_reserved_usage_per_peer
      /\ Size(LatencyOf, T) <= m_max_global_latency_score \div Cardinality(Peer)
  BY <1>7 DEF Affordable, LatencyOf, Modest
<1>9. m_max_global_latency_score \div Cardinality(Peer) <= m
      /\ m \in Nat /\ m_max_global_latency_score \div Cardinality(Peer) \in Nat
  <2>1. PeersOf(o) \in SUBSET Peer /\ IsFiniteSet(Peer) /\ m_max_global_latency_score \in Nat
    BY <1>1, PeersAre, OrphanageAssumption
  <2>2. /\ NumPeers(o) = Cardinality(PeersOf(o)) /\ NumPeers(o) \in Nat \ {0}
    BY <1>1, PeersAre
  <2>3. Cardinality(PeersOf(o)) <= Cardinality(Peer) /\ Cardinality(Peer) \in Nat
    BY <2>1, FS_Subset, FS_CardinalityType
  <2>4. Cardinality(Peer) \in Nat \ {0}
    BY <2>2, <2>3
  <2> QED BY <2>1, <2>2, <2>3, <2>4, Shares DEF MaxPeerLatencyScore
<1> HIDE DEF A, T, m
<1>10. /\ Memory(A) \in Nat /\ Memory(A) <= Size(Weight, T) /\ Size(Weight, T) \in Nat
  BY <1>2, <1>3, <1>4, <1>5, <1>6, OwnBound DEF Memory
<1>11. /\ Latency(A) \in Nat /\ Latency(A) <= Size(LatencyOf, T) /\ Size(LatencyOf, T) \in Nat
  BY <1>2, <1>3, <1>4, <1>5, <1>6, OwnBound DEF Latency
<1>12. Memory(A) <= m_reserved_usage_per_peer /\ m_reserved_usage_per_peer \in Nat
  BY <1>8, <1>10, OrphanageAssumption
<1>13. Latency(A) <= m
  BY <1>8, <1>9, <1>11
<1>14. GetDosScore(o, q, m) \in {<<Memory(A), m_reserved_usage_per_peer>>, <<Latency(A), m>>}
  BY <1>1, ScoreIs DEF A
<1>15. ~AboveOne(<<Memory(A), m_reserved_usage_per_peer>>) /\ ~AboveOne(<<Latency(A), m>>)
  BY <1>9, <1>10, <1>11, <1>12, <1>13 DEF AboveOne
<1> QED BY <1>14, <1>15 DEF m

LEMMA OwnIs == \A o, q, t : t \in Own(o, q) <=> HaveTxFromPeer(o, t, q)
BY DEF Own, TxsOf, HaveTxFromPeer

LEMMA OwnLess ==
  ASSUME NEW o, NEW x, Announcements(x) \subseteq Announcements(o), NEW q
  PROVE  Own(x, q) \subseteq Own(o, q)
BY DEF Own, TxsOf, From

LEMMA LimitOwn ==
  ASSUME NEW o, Sound(o), NEW q, NEW H, Modest(o, q, H)
  PROVE  Own(LimitOrphans(o), q) = Own(o, q)
<1>1. q \notin Suspects(o)
  BY ModestCalm
<1> QED BY <1>1, LimitLoses DEF Own

\* Erasing takes from a modest peer only what was to be erased.
LEMMA EraseOwn ==
  ASSUME NEW o, Sound(o), NEW q, NEW H, Modest(o, q, H), NEW gone \in SUBSET Announcements(o)
  PROVE  Own(LimitOrphans(Erase(o, gone)), q) = {a.tx : a \in From(o, q) \ gone}
<1> DEFINE x == Erase(o, gone)
<1>1. Sound(x) /\ Announcements(x) = Announcements(o) \ gone
  BY EraseIs
<1> HIDE DEF x
<1>2. From(x, q) = From(o, q) \ gone
  BY <1>1 DEF From
<1>3. Own(x, q) \subseteq Own(o, q)
  BY <1>1, OwnLess
<1>4. Modest(x, q, H)
  BY <1>3 DEF Modest
<1>5. Own(LimitOrphans(x), q) = Own(x, q)
  BY <1>1, <1>4, LimitOwn
<1> QED BY <1>2, <1>5 DEF x, Own, TxsOf

LEMMA EraseTxOwn ==
  ASSUME NEW o, Sound(o), NEW q, NEW H, Modest(o, q, H), NEW u
  PROVE  Own(EraseTx(o, u), q) = Own(o, q) \ {u}
<1> DEFINE gone == {a \in Announcements(o) : a.tx = u}
<1>1. EraseTx(o, u) = LimitOrphans(Erase(o, gone)) /\ gone \in SUBSET Announcements(o)
  BY DEF EraseTx
<1>2. Own(EraseTx(o, u), q) = {a.tx : a \in From(o, q) \ gone}
  <2> HIDE DEF gone
  <2> QED BY <1>1, EraseOwn
<1> QED BY <1>2 DEF Own, TxsOf, From

LEMMA EraseForPeerOwn ==
  ASSUME NEW o, Sound(o), NEW q, NEW H, Modest(o, q, H), NEW p, p # q
  PROVE  Own(EraseForPeer(o, p), q) = Own(o, q)
<1> DEFINE gone == From(o, p)
<1>1. gone \in SUBSET Announcements(o)
  BY DEF From
<1>2. Own(LimitOrphans(Erase(o, gone)), q) = {a.tx : a \in From(o, q) \ gone}
  <2> HIDE DEF gone
  <2> QED BY <1>1, EraseOwn
<1>3. From(o, q) \ gone = From(o, q)
  BY DEF From
<1> QED BY <1>2, <1>3 DEF EraseForPeer, Own, TxsOf

Conflicts(t, block) == \E b \in block : Inputs[t] \cap Inputs[b] # {}

LEMMA EraseForBlockOwn ==
  ASSUME NEW o, Sound(o), NEW q, NEW H, Modest(o, q, H), NEW block, NEW t \in Own(o, q)
  PROVE  t \in Own(EraseForBlock(o, block), q) \/ Conflicts(t, block)
<1> DEFINE spent == UNION {Inputs[b] : b \in block}
           gone == {a \in Announcements(o) : Inputs[a.tx] \cap spent # {}}
<1>1. EraseForBlock(o, block) = LimitOrphans(Erase(o, gone)) /\ gone \in SUBSET Announcements(o)
  BY DEF EraseForBlock
<1>2. Own(EraseForBlock(o, block), q) = {a.tx : a \in From(o, q) \ gone}
  <2> HIDE DEF gone
  <2> QED BY <1>1, EraseOwn
<1>3. PICK a \in From(o, q) : a.tx = t
  BY DEF Own, TxsOf
<1>4. CASE a \in gone
  BY <1>3, <1>4 DEF Conflicts
<1>5. CASE a \notin gone
  BY <1>2, <1>3, <1>5
<1> QED BY <1>4, <1>5

\* A new announcement costs a modest peer nothing, if its own ones stay modest.
LEMMA AddOwn ==
  ASSUME NEW o, Sound(o), NEW q, NEW H, Modest(o, q, H), NEW u \in Tx, NEW p \in Peer,
         p = q => u \in OrphansAmong(H)
  PROVE  /\ Own(o, q) \subseteq Own(AddAnnouncement(o, u, p), q)
         /\ Own(AddAnnouncement(o, u, p), q) \subseteq OrphansAmong(H)
<1>1. CASE HaveTxFromPeer(o, u, p)
  BY <1>1 DEF AddAnnouncement, Modest
<1>2. CASE ~HaveTxFromPeer(o, u, p)
  <2> DEFINE x == Appended(o, u, p)
             n == NewAnn(u, p)
  <2>1. /\ Sound(x) /\ Announcements(x) = Announcements(o) \cup {n}
        /\ AddAnnouncement(o, u, p) = LimitOrphans(x)
    BY <1>2, AppendedIs
  <2>2. n.peer = p /\ n.tx = u
    BY DEF NewAnn
  <2> HIDE DEF x, n
  <2>3. Own(o, q) \subseteq Own(x, q)
    BY <2>1, OwnLess
  <2>4. Own(x, q) \subseteq Own(o, q) \cup (IF p = q THEN {u} ELSE {})
    BY <2>1, <2>2 DEF Own, TxsOf, From
  <2>5. Own(x, q) \subseteq OrphansAmong(H)
    BY <2>4 DEF Modest
  <2>6. Modest(x, q, H)
    BY <2>5 DEF Modest
  <2>7. Own(LimitOrphans(x), q) = Own(x, q)
    BY <2>1, <2>6, LimitOwn
  <2> QED BY <2>1, <2>3, <2>5, <2>7
<1> QED BY <1>1, <1>2

LEMMA AddTxOwn ==
  ASSUME NEW o, Sound(o), NEW q, NEW H, Modest(o, q, H), NEW u \in Tx, NEW p \in Peer,
         p = q => u \in OrphansAmong(H)
  PROVE  /\ Own(o, q) \subseteq Own(AddTx(o, u, p), q)
         /\ Own(AddTx(o, u, p), q) \subseteq OrphansAmong(H)
         /\ Own(o, q) \subseteq Own(AddAnnouncer(o, u, p), q)
         /\ Own(AddAnnouncer(o, u, p), q) \subseteq OrphansAmong(H)
<1>1. /\ Own(o, q) \subseteq Own(AddAnnouncement(o, u, p), q)
      /\ Own(AddAnnouncement(o, u, p), q) \subseteq OrphansAmong(H)
  BY AddOwn
<1>2. Own(o, q) \subseteq OrphansAmong(H)
  BY DEF Modest
<1> QED BY <1>1, <1>2 DEF AddTx, AddAnnouncer

LEMMA WorkSetOwn ==
  ASSUME NEW o, Sound(o), NEW u, NEW pick, NEW q
  PROVE  Own(AddChildrenToWorkSet(o, u, pick), q) = Own(o, q)
<1> DEFINE x == AddChildrenToWorkSet(o, u, pick)
<1>1. Announcements(o) \in SUBSET Ann
  BY AnnouncementsType DEF Sound
<1>2. \A a \in Announcements(o) : Mark(o, u, pick, a).tx = a.tx /\ Mark(o, u, pick, a).peer = a.peer
  BY <1>1, MarkIs
<1>3. /\ \A a \in Announcements(x) : \E b \in Announcements(o) : a = Mark(o, u, pick, b)
      /\ \A b \in Announcements(o) : Mark(o, u, pick, b) \in Announcements(x)
  BY WorkSetAnns
<1> HIDE DEF x
<1>4. \A t : HaveTxFromPeer(x, t, q) <=> HaveTxFromPeer(o, t, q)
  BY <1>2, <1>3 DEF HaveTxFromPeer, From
<1> QED BY <1>4, OwnIs DEF x

LEMMA TakenOwn ==
  ASSUME NEW o, Sound(o), NEW p, NEW q
  PROVE  Own(GetTxToReconsider(o, p), q) = Own(o, q)
<1> DEFINE u == ToReconsider(o, p).tx
           x == GetTxToReconsider(o, p)
           s == o.anns
<1>1. x.anns = [i \in DOMAIN s |-> Unmark(s[i], p, u)]
  BY TakenIs
<1>0. \A i \in DOMAIN s : s[i] \in Ann
  BY AnnouncementsType DEF Sound
<1> HIDE DEF u, x, s
<1>2. \A i \in DOMAIN s : x.anns[i].tx = s[i].tx /\ x.anns[i].peer = s[i].peer
  <2> SUFFICES ASSUME NEW i \in DOMAIN s PROVE x.anns[i].tx = s[i].tx /\ x.anns[i].peer = s[i].peer
    OBVIOUS
  <2>1. x.anns[i] = Unmark(s[i], p, u)
    BY <1>1
  <2>2. [s[i] EXCEPT !.m_reconsider = FALSE].tx = s[i].tx
        /\ [s[i] EXCEPT !.m_reconsider = FALSE].peer = s[i].peer
    BY <1>0 DEF Ann
  <2> QED BY <2>1, <2>2 DEF Unmark
<1>3. DOMAIN x.anns = DOMAIN s
  BY <1>1
<1>4. \A t : HaveTxFromPeer(x, t, q) <=> HaveTxFromPeer(o, t, q)
  BY <1>2, <1>3 DEF HaveTxFromPeer, From, Announcements, s
<1> QED BY <1>4, OwnIs DEF x

\* The requests to a peer are all of hashes in H.
Requests == [Hash -> [Peer -> {"none", "candidate", "requested", "completed"}]]
AsksOnly(m, q, H) == m \in Requests /\ \A h \in Hash : m[h][q] # "none" => h \in H

\* The node has of the peer q, in requests and orphans, only what is in H.
Fair(s, q, H) == Sane(s) /\ AsksOnly(s.m_txrequest, q, H) /\ Modest(s.m_orphanage, q, H)

\* The peer q loses no orphan but by a decision.
Spares(s, x, q) ==
  /\ Decided(s) \subseteq Decided(x)
  /\ Own(s.m_orphanage, q) \subseteq Own(x.m_orphanage, q) \cup Decided(x)

SameOrphans(s, x) == x.m_orphanage = s.m_orphanage /\ Decided(s) \subseteq Decided(x)

LEMMA SparesOn ==
  ASSUME NEW s, NEW x, NEW y, NEW q, Spares(s, x, q), Spares(x, y, q) PROVE Spares(s, y, q)
BY DEF Spares

LEMMA SparesSame == ASSUME NEW s, NEW x, NEW q, SameOrphans(s, x) PROVE Spares(s, x, q)
BY DEF Spares, SameOrphans

-----------------------------------------------------------------------------
(* The request tracker *)

LEMMA NobodyIs == /\ Nobody \in [Peer -> {"none", "candidate", "requested", "completed"}]
                  /\ \A q \in Peer : Nobody[q] = "none"
BY DEF Nobody

LEMMA RowAsks ==
  ASSUME NEW m, NEW q \in Peer, NEW H, AsksOnly(m, q, H), NEW h,
         NEW row \in [Peer -> {"none", "candidate", "requested", "completed"}],
         row[q] # "none" /\ h \in Hash => h \in H
  PROVE  AsksOnly([m EXCEPT ![h] = row], q, H)
BY DEF AsksOnly, Requests

\* The other parts of the node.
SameRest(s, x) ==
  /\ DOMAIN x = DOMAIN s
  /\ x.m_orphanage = s.m_orphanage /\ x.mempool = s.mempool
  /\ x.rejects = s.rejects /\ x.reconsiderable = s.reconsiderable

LEMMA RestFair ==
  ASSUME NEW s, NEW x, NEW q, NEW H, Fair(s, q, H), SameRest(s, x), AsksOnly(x.m_txrequest, q, H)
  PROVE  Fair(x, q, H) /\ Spares(s, x, q)
<1>1. Sane(x) /\ Modest(x.m_orphanage, q, H)
  BY DEF Fair, Sane, SameRest
<1>2. SameOrphans(s, x)
  BY DEF SameRest, SameOrphans, Decided
<1> QED BY <1>1, <1>2, SparesSame DEF Fair

LEMMA SetRowFair ==
  ASSUME NEW s, NEW q \in Peer, NEW H, Fair(s, q, H), NEW h,
         NEW row \in [Peer -> {"none", "candidate", "requested", "completed"}],
         row[q] # "none" /\ h \in Hash => h \in H
  PROVE  Fair(SetRow(s, h, row), q, H) /\ Spares(s, SetRow(s, h, row), q)
<1> DEFINE r == IF Pending(row) = {} THEN Nobody ELSE row
           x == SetRow(s, h, row)
<1>1. /\ r \in [Peer -> {"none", "candidate", "requested", "completed"}]
      /\ r[q] # "none" /\ h \in Hash => h \in H
  BY NobodyIs
<1>2. x = [s EXCEPT !.m_txrequest[h] = r]
  BY DEF SetRow
<1> HIDE DEF r, x
<1>3. DOMAIN s = Fields /\ AsksOnly(s.m_txrequest, q, H)
  BY DEF Fair, Sane
<1>4. x.m_txrequest = [s.m_txrequest EXCEPT ![h] = r] /\ SameRest(s, x)
  BY <1>2, <1>3 DEF Fields, SameRest
<1>5. AsksOnly(x.m_txrequest, q, H)
  BY <1>1, <1>3, <1>4, RowAsks
<1> QED BY <1>4, <1>5, RestFair DEF x

LEMMA ForgetHashFair ==
  ASSUME NEW s, NEW q \in Peer, NEW H, Fair(s, q, H), NEW h
  PROVE  Fair(ForgetTxHash(s, h), q, H) /\ Spares(s, ForgetTxHash(s, h), q)
<1>1. Nobody[q] # "none" /\ h \in Hash => h \in H
  BY NobodyIs
<1> QED BY <1>1, NobodyIs, SetRowFair DEF ForgetTxHash

LEMMA ForgetFair ==
  ASSUME NEW s, NEW q \in Peer, NEW H, Fair(s, q, H), NEW t
  PROVE  Fair(ForgetTx(s, t), q, H) /\ Spares(s, ForgetTx(s, t), q)
<1> DEFINE x == ForgetTxHash(s, Txid[t])
<1>1. Fair(x, q, H) /\ Spares(s, x, q)
  BY ForgetHashFair
<1>2. ForgetTx(s, t) = ForgetTxHash(x, t)
  BY DEF ForgetTx
<1> HIDE DEF x
<1>3. Fair(ForgetTxHash(x, t), q, H) /\ Spares(x, ForgetTxHash(x, t), q)
  BY <1>1, ForgetHashFair
<1> QED BY <1>1, <1>2, <1>3, SparesOn

\* Only a row that names the peer already changes for it.
LEMMA StatusFair ==
  ASSUME NEW s, NEW q \in Peer, NEW H, Fair(s, q, H), NEW h \in Hash, NEW p \in Peer,
         s.m_txrequest[h][p] # "none",
         NEW status \in {"none", "candidate", "requested", "completed"}
  PROVE  LET row == [s.m_txrequest[h] EXCEPT ![p] = status]
         IN  Fair(SetRow(s, h, row), q, H) /\ Spares(s, SetRow(s, h, row), q)
<1> DEFINE row == [s.m_txrequest[h] EXCEPT ![p] = status]
<1>1. s.m_txrequest \in Requests /\ (s.m_txrequest[h][q] # "none" => h \in H)
  BY DEF Fair, AsksOnly
<1>2. row \in [Peer -> {"none", "candidate", "requested", "completed"}]
  BY <1>1 DEF Requests
<1>3. row[q] # "none" => h \in H
  BY <1>1 DEF Requests
<1> HIDE DEF row
<1>4. Fair(SetRow(s, h, row), q, H) /\ Spares(s, SetRow(s, h, row), q)
  BY <1>2, <1>3, SetRowFair
<1> QED BY <1>4 DEF row

LEMMA ResponseFair ==
  ASSUME NEW s, NEW q \in Peer, NEW H, Fair(s, q, H), NEW h \in Hash, NEW p \in Peer
  PROVE  Fair(ReceivedResponse(s, p, h), q, H) /\ Spares(s, ReceivedResponse(s, p, h), q)
<1>1. CASE p \in Pending(s.m_txrequest[h])
  <2> DEFINE row == [s.m_txrequest[h] EXCEPT ![p] = "completed"]
  <2>1. s.m_txrequest[h][p] # "none"
    BY <1>1 DEF Pending
  <2>2. Fair(SetRow(s, h, row), q, H) /\ Spares(s, SetRow(s, h, row), q)
    BY <2>1, StatusFair
  <2>3. ReceivedResponse(s, p, h) = SetRow(s, h, row)
    BY <1>1 DEF ReceivedResponse
  <2> HIDE DEF row
  <2> QED BY <2>2, <2>3
<1>2. CASE p \notin Pending(s.m_txrequest[h])
  <2>1. ReceivedResponse(s, p, h) = s
    BY <1>2 DEF ReceivedResponse
  <2> QED BY <2>1 DEF Spares
<1> QED BY <1>1, <1>2

LEMMA InvsFair ==
  ASSUME NEW s, NEW q \in Peer, NEW H, Fair(s, q, H), NEW p \in Peer, NEW hashes,
         p = q => hashes \subseteq H
  PROVE  Fair(ReceivedInvs(s, p, hashes), q, H) /\ Spares(s, ReceivedInvs(s, p, hashes), q)
<1> DEFINE m == s.m_txrequest
           n == [h \in Hash |-> IF h \in hashes /\ m[h][p] = "none"
                                THEN [m[h] EXCEPT ![p] = "candidate"] ELSE m[h]]
           x == ReceivedInvs(s, p, hashes)
<1>1. DOMAIN s = Fields /\ m \in Requests /\ \A h \in Hash : m[h][q] # "none" => h \in H
  BY DEF Fair, Sane, AsksOnly
<1>2. x = [s EXCEPT !.m_txrequest = n]
  BY DEF ReceivedInvs
<1> HIDE DEF m, x
<1>3. n \in Requests
  BY <1>1 DEF Requests
<1>4. \A h \in Hash : n[h][q] # "none" => h \in H
  BY <1>1 DEF Requests
<1> HIDE DEF n
<1>5. x.m_txrequest = n /\ SameRest(s, x)
  BY <1>1, <1>2 DEF Fields, SameRest
<1> QED BY <1>3, <1>4, <1>5, RestFair DEF AsksOnly, x

-----------------------------------------------------------------------------
(* Decisions *)

LEMMA AcceptedFair ==
  ASSUME NEW s, NEW q \in Peer, NEW H, Fair(s, q, H), NEW u, NEW pick
  PROVE  Fair(MempoolAcceptedTx(s, u, pick), q, H) /\ Spares(s, MempoolAcceptedTx(s, u, pick), q)
<1> DEFINE x == ForgetTx(s, u)
           w == AddChildrenToWorkSet(x.m_orphanage, u, pick)
           o == EraseTx(w, u)
           y == MempoolAcceptedTx(s, u, pick)
<1>1. Fair(x, q, H) /\ Spares(s, x, q)
  BY ForgetFair
<1>2. y = [x EXCEPT !.m_orphanage = o, !.mempool = @ \cup {u}]
  BY DEF MempoolAcceptedTx
<1>3. Sane(y)
  BY AcceptedSane DEF Fair
<1> HIDE DEF x, y
<1>4. DOMAIN x = Fields /\ Sound(x.m_orphanage) /\ Modest(x.m_orphanage, q, H)
  BY <1>1, SaneSound DEF Fair, Sane
<1>5. Sound(w) /\ Own(w, q) = Own(x.m_orphanage, q)
  BY <1>4, WorkSetSound, WorkSetOwn
<1> HIDE DEF w
<1>6. Modest(w, q, H)
  BY <1>4, <1>5 DEF Modest
<1>7. Own(o, q) = Own(w, q) \ {u}
  BY <1>5, <1>6, EraseTxOwn
<1> HIDE DEF o
<1>8. /\ y.m_orphanage = o /\ y.mempool = x.mempool \cup {u} /\ y.m_txrequest = x.m_txrequest
      /\ y.rejects = x.rejects /\ y.reconsiderable = x.reconsiderable
  BY <1>2, <1>4 DEF Fields
<1>9. Fair(y, q, H)
  BY <1>1, <1>3, <1>6, <1>7, <1>8 DEF Fair, Modest
<1>10. Spares(x, y, q)
  BY <1>5, <1>7, <1>8 DEF Spares, Decided
<1> QED BY <1>1, <1>9, <1>10, SparesOn DEF y

LEMMA FailedFair ==
  ASSUME NEW s, NEW q \in Peer, NEW H, Fair(s, q, H), NEW u, NEW result
  PROVE  Fair(Failed(s, u, result), q, H) /\ Spares(s, Failed(s, u, result), q)
<1> DEFINE f == IF result = "RECONSIDERABLE" THEN [s EXCEPT !.reconsiderable = @ \cup {u}]
                ELSE [s EXCEPT !.rejects = @ \cup {u}]
           x == ForgetTxHash(f, u)
           o == EraseTx(x.m_orphanage, u)
           y == Failed(s, u, result)
<1>1. DOMAIN s = Fields
  BY DEF Fair, Sane
<1>2. /\ DOMAIN f = Fields /\ f.m_orphanage = s.m_orphanage /\ f.m_txrequest = s.m_txrequest
      /\ Decided(s) \subseteq Decided(f) /\ u \in Decided(f)
  BY <1>1 DEF Fields, Decided
<1>3. y = [x EXCEPT !.m_orphanage = o]
  BY DEF Failed
<1>4. Sane(y)
  BY FailedSane DEF Fair
<1> HIDE DEF f
<1>5. Fair(f, q, H) /\ Spares(s, f, q)
  BY <1>2, SparesSame DEF Fair, Sane, SameOrphans
<1>6. Fair(x, q, H) /\ Spares(f, x, q)
  BY <1>5, ForgetHashFair
<1> HIDE DEF x, y
<1>7. DOMAIN x = Fields /\ Sound(x.m_orphanage) /\ Modest(x.m_orphanage, q, H) /\ u \in Decided(x)
  BY <1>2, <1>6, SaneSound DEF Fair, Sane, Spares
<1>8. Own(o, q) = Own(x.m_orphanage, q) \ {u}
  BY <1>7, EraseTxOwn
<1> HIDE DEF o
<1>9. /\ y.m_orphanage = o /\ y.mempool = x.mempool /\ y.m_txrequest = x.m_txrequest
      /\ y.rejects = x.rejects /\ y.reconsiderable = x.reconsiderable
  BY <1>3, <1>7 DEF Fields
<1>10. Fair(y, q, H)
  BY <1>4, <1>6, <1>7, <1>8, <1>9 DEF Fair, Modest
<1>11. Spares(x, y, q)
  BY <1>7, <1>8, <1>9 DEF Spares, Decided
<1>12. Spares(s, x, q)
  BY <1>5, <1>6, SparesOn
<1> QED BY <1>10, <1>11, <1>12, SparesOn DEF y

LEMMA ResultFair ==
  ASSUME NEW s, NEW q \in Peer, NEW H, Fair(s, q, H), NEW u, NEW p, NEW result, NEW pick
  PROVE  /\ Fair(ProcessResult(s, u, p, result, FALSE, pick), q, H)
         /\ Spares(s, ProcessResult(s, u, p, result, FALSE, pick), q)
<1>1. Spares(s, s, q)
  BY DEF Spares
<1>2. Fair(MempoolAcceptedTx(s, u, pick), q, H) /\ Spares(s, MempoolAcceptedTx(s, u, pick), q)
  BY AcceptedFair
<1>3. Fair(Failed(s, u, result), q, H) /\ Spares(s, Failed(s, u, result), q)
  BY FailedFair
<1> QED BY <1>1, <1>2, <1>3 DEF ProcessResult, MempoolRejectedTx

LEMMA PackageFair ==
  ASSUME NEW s, NEW q \in Peer, NEW H, Fair(s, q, H), NEW parent, NEW child, NEW p, NEW pick
  PROVE  /\ Fair(ProcessPackageResult(s, parent, child, p, pick), q, H)
         /\ Spares(s, ProcessPackageResult(s, parent, child, p, pick), q)
<1> DEFINE results == ProcessNewPackage(s, parent, child)
           noted == IF PackageInvalid(s, parent, results)
                    THEN [s EXCEPT !.reconsiderable = @ \cup {{parent, child}}] ELSE s
           x == ProcessResult(noted, child, p, results[2], FALSE, pick)
           y == ProcessResult(x, parent, p, results[1], FALSE, pick)
<1>1. ProcessPackageResult(s, parent, child, p, pick) = y
  BY DEF ProcessPackageResult
<1> HIDE DEF results
<1>2. DOMAIN s = Fields
  BY DEF Fair, Sane
<1>3. /\ DOMAIN noted = Fields /\ noted.m_orphanage = s.m_orphanage
      /\ noted.m_txrequest = s.m_txrequest /\ Decided(s) \subseteq Decided(noted)
  BY <1>2 DEF Fields, Decided
<1> HIDE DEF noted
<1>4. Fair(noted, q, H) /\ Spares(s, noted, q)
  BY <1>3, SparesSame DEF Fair, Sane, SameOrphans
<1>5. Fair(x, q, H) /\ Spares(noted, x, q)
  BY <1>4, ResultFair
<1> HIDE DEF x
<1>6. Fair(y, q, H) /\ Spares(x, y, q)
  BY <1>5, ResultFair
<1> HIDE DEF y
<1>7. Spares(s, x, q)
  BY <1>4, <1>5, SparesOn
<1> QED BY <1>1, <1>6, <1>7, SparesOn

LEMMA TryFair ==
  ASSUME NEW s, NEW q \in Peer, NEW H, Fair(s, q, H), NEW u, NEW p, NEW pick
  PROVE  Fair(TryPackage(s, u, p, pick), q, H) /\ Spares(s, TryPackage(s, u, p, pick), q)
<1> DEFINE children == Find1P1CPackage(s, u, p)
<1>1. TryPackage(s, u, p, pick)
        = IF children = <<>> THEN s ELSE ProcessPackageResult(s, u, children[1], p, pick)
  BY DEF TryPackage
<1> HIDE DEF children
<1>2. /\ Fair(ProcessPackageResult(s, u, children[1], p, pick), q, H)
      /\ Spares(s, ProcessPackageResult(s, u, children[1], p, pick), q)
  BY PackageFair
<1>3. Spares(s, s, q)
  BY DEF Spares
<1> QED BY <1>1, <1>2, <1>3

LEMMA ReconsiderFair ==
  ASSUME NEW s, NEW q \in Peer, NEW H, Fair(s, q, H), NEW p, NEW pick,
         HaveTxToReconsider(s.m_orphanage, p)
  PROVE  Fair(Reconsider(s, p, pick), q, H) /\ Spares(s, Reconsider(s, p, pick), q)
<1> DEFINE u == ToReconsider(s.m_orphanage, p).tx
           o == GetTxToReconsider(s.m_orphanage, p)
           taken == [s EXCEPT !.m_orphanage = o]
           result == ProcessTransaction(taken, u)
           y == ProcessResult(taken, u, p, result, FALSE, pick)
<1>1. Reconsider(s, p, pick) = y
  BY DEF Reconsider
<1>2. DOMAIN s = Fields /\ Within(s.m_orphanage) /\ Sound(s.m_orphanage)
  BY SaneSound DEF Fair, Sane
<1>3. Within(o) /\ Own(o, q) = Own(s.m_orphanage, q)
  BY <1>2, TakenWithin, TakenOwn
<1> HIDE DEF o, u, result
<1>4. /\ DOMAIN taken = Fields /\ taken.m_orphanage = o /\ taken.m_txrequest = s.m_txrequest
      /\ taken.mempool = s.mempool /\ taken.rejects = s.rejects
      /\ taken.reconsiderable = s.reconsiderable
  BY <1>2 DEF Fields
<1> HIDE DEF taken
<1>5. Fair(taken, q, H) /\ Spares(s, taken, q)
  BY <1>3, <1>4 DEF Fair, Sane, Modest, Spares, Decided
<1>6. Fair(y, q, H) /\ Spares(taken, y, q)
  BY <1>5, ResultFair
<1> HIDE DEF y
<1> QED BY <1>1, <1>5, <1>6, SparesOn

-----------------------------------------------------------------------------
(* New orphans *)

\* If u is kept for the peer q, it is one of its orphans, and q may be asked for
\* its parents.
Resolvable(u, parents, H) == u \in OrphansAmong(H) /\ parents \subseteq H

LEMMA ResolveRequests ==
  ASSUME NEW s, Sane(s), NEW parents, NEW u, NEW p, NEW x,
         x \in {Resolve(s, parents, u, p), ResolveKnown(s, parents, u, p)}
  PROVE  \/ x = s
         \/ /\ x.m_txrequest = ReceivedInvs(s, p, parents).m_txrequest
            /\ Decided(x) = Decided(s)
            /\ \/ x.m_orphanage = AddTx(s.m_orphanage, u, p)
               \/ x.m_orphanage = AddAnnouncer(s.m_orphanage, u, p)
<1> DEFINE i == ReceivedInvs(s, p, parents)
           y == [i EXCEPT !.m_orphanage = AddTx(@, u, p)]
           z == [i EXCEPT !.m_orphanage = AddAnnouncer(@, u, p)]
<1>1. DOMAIN i = Fields /\ i.m_orphanage = s.m_orphanage /\ i.mempool = s.mempool
      /\ i.rejects = s.rejects /\ i.reconsiderable = s.reconsiderable
  BY DEF ReceivedInvs, Sane, Fields
<1>2. x \in {y, z, s}
  BY DEF Resolve, ResolveKnown
<1> HIDE DEF i
<1>3. /\ y.m_orphanage = AddTx(s.m_orphanage, u, p) /\ y.m_txrequest = i.m_txrequest
      /\ Decided(y) = Decided(s)
  BY <1>1 DEF Fields, Decided
<1>4. /\ z.m_orphanage = AddAnnouncer(s.m_orphanage, u, p) /\ z.m_txrequest = i.m_txrequest
      /\ Decided(z) = Decided(s)
  BY <1>1 DEF Fields, Decided
<1> HIDE DEF y, z
<1> QED BY <1>2, <1>3, <1>4 DEF i

LEMMA ResolveFair ==
  ASSUME NEW s, NEW q \in Peer, NEW H, Fair(s, q, H), NEW parents, NEW u \in Tx, NEW p \in Peer,
         p = q => Resolvable(u, parents, H),
         NEW x, x \in {Resolve(s, parents, u, p), ResolveKnown(s, parents, u, p)}
  PROVE  Fair(x, q, H) /\ Spares(s, x, q)
<1>1. CASE x = s
  BY <1>1 DEF Spares
<1>2. CASE x # s
  <2> DEFINE i == ReceivedInvs(s, p, parents)
  <2>1. Sane(s) /\ Sound(s.m_orphanage) /\ Modest(s.m_orphanage, q, H) /\ Sane(x)
    BY ResolveSane, SaneSound DEF Fair
  <2>2. Fair(i, q, H)
    BY InvsFair DEF Resolvable
  <2>3. /\ x.m_txrequest = i.m_txrequest /\ Decided(x) = Decided(s)
        /\ \/ x.m_orphanage = AddTx(s.m_orphanage, u, p)
           \/ x.m_orphanage = AddAnnouncer(s.m_orphanage, u, p)
    BY <1>2, <2>1, ResolveRequests
  <2> HIDE DEF i
  <2>4. p = q => u \in OrphansAmong(H)
    BY DEF Resolvable
  <2>5. /\ Own(s.m_orphanage, q) \subseteq Own(AddTx(s.m_orphanage, u, p), q)
        /\ Own(AddTx(s.m_orphanage, u, p), q) \subseteq OrphansAmong(H)
        /\ Own(s.m_orphanage, q) \subseteq Own(AddAnnouncer(s.m_orphanage, u, p), q)
        /\ Own(AddAnnouncer(s.m_orphanage, u, p), q) \subseteq OrphansAmong(H)
    BY <2>1, <2>4, AddTxOwn
  <2>6. /\ Own(s.m_orphanage, q) \subseteq Own(x.m_orphanage, q)
        /\ Own(x.m_orphanage, q) \subseteq OrphansAmong(H)
    BY <2>3, <2>5
  <2>7. Modest(x.m_orphanage, q, H)
    BY <2>1, <2>6 DEF Modest
  <2>8. AsksOnly(x.m_txrequest, q, H)
    BY <2>2, <2>3 DEF Fair
  <2> QED BY <2>1, <2>3, <2>6, <2>7, <2>8 DEF Fair, Spares
<1> QED BY <1>1, <1>2

LEMMA ResolvedFair ==
  ASSUME NEW S \in SUBSET Peer, NEW base, NEW q \in Peer, NEW H, Fair(base, q, H), NEW parents,
         NEW u \in Tx, q \in S => Resolvable(u, parents, H)
  PROVE  Fair(Resolved(base, parents, u, S), q, H) /\ Spares(base, Resolved(base, parents, u, S), q)
<1>0. IsFiniteSet(S)
  BY OrphanageAssumption, FS_Subset
<1> DEFINE g == CHOOSE g : ResolvesBy(g, base, parents, u, S)
           Good(x) == Fair(x, q, H) /\ Spares(base, x, q)
<1>1. ResolvesBy(g, base, parents, u, S)
  BY <1>0, ResolvesExist
<1>2. Resolved(base, parents, u, S) = g[S]
  BY DEF Resolved, FoldSet, MapThenFoldSet, ResolvesBy, Any
<1> HIDE DEF g
<1>3. \A s \in SUBSET S : g[s] = IF s = {} THEN base ELSE Resolve(g[s \ {Any(s)}], parents, u, Any(s))
  BY <1>1 DEF ResolvesBy
<1>4. Good(base)
  BY DEF Spares
<1>5. ASSUME NEW x, Good(x), NEW p \in S PROVE Good(Resolve(x, parents, u, p))
  <2> DEFINE y == Resolve(x, parents, u, p)
  <2>1. y \in {Resolve(x, parents, u, p), ResolveKnown(x, parents, u, p)} /\ p \in Peer
    OBVIOUS
  <2> HIDE DEF y
  <2>2. Fair(y, q, H) /\ Spares(x, y, q)
    BY <1>5, <2>1, ResolveFair
  <2>3. Spares(base, y, q)
    BY <1>5, <2>2, SparesOn
  <2> QED BY <2>2, <2>3 DEF y
<1> HIDE DEF Good
<1> DEFINE B == {s \in SUBSET S : ~Good(g[s])}
<1>6. ASSUME B # {} PROVE FALSE
  <2>1. PICK s \in B : \A x \in s : s \ {x} \notin B
    <3>1. B \subseteq SUBSET S
      OBVIOUS
    <3> HIDE DEF B
    <3> QED BY <1>0, <1>6, <3>1, SmallestBad
  <2>2. CASE s = {}
    BY <1>3, <1>4, <2>2
  <2>3. CASE s # {}
    <3>1. Any(s) \in s /\ Any(s) \in S
      BY <2>3, AnyIs
    <3>2. Good(g[s \ {Any(s)}])
      BY <2>1, <3>1
    <3>3. Good(Resolve(g[s \ {Any(s)}], parents, u, Any(s)))
      BY <1>5, <3>1, <3>2
    <3> QED BY <1>3, <2>3, <3>3
  <2> QED BY <2>2, <2>3
<1>7. Good(g[S])
  BY <1>6
<1> QED BY <1>2, <1>7 DEF Good

\* A candidate was asked for the orphan, or sent it.
LEMMA CandidateReached ==
  ASSUME NEW s, NEW q \in Peer, NEW H, Fair(s, q, H), NEW u \in Tx, NEW p,
         p = q => u \in H, q \in ResolutionCandidates(s, u, p)
  PROVE  {u, Txid[u]} \cap H # {}
<1>1. u \in Hash /\ Txid[u] \in Hash
  BY DEF Hash
<1>2. \A h \in Hash : q \in Pending(s.m_txrequest[h]) => h \in H
  BY DEF Fair, AsksOnly, Pending
<1> QED BY <1>1, <1>2 DEF ResolutionCandidates

LEMMA MissingFair ==
  ASSUME NEW s, NEW q \in Peer, NEW H, Fair(s, q, H), NEW u \in Tx, NEW p \in Peer,
         NEW stock, Closed(stock, H), p = q => u \in H, Parents(u) \cap Hash # {}
  PROVE  Fair(MissingInputs(s, u, p), q, H) /\ Spares(s, MissingInputs(s, u, p), q)
<1> DEFINE parents == Unknown(s, Parents(u) \cap Hash)
           cands == ResolutionCandidates(s, u, p)
           others == cands \ {p}
           first == Resolve(s, parents, u, p)
           kept == Resolved(first, parents, u, others)
           z == ForgetTx(kept, u)
           x == ForgetTx(s, u)
           y == [x EXCEPT !.rejects = @ \cup {u, Txid[u]}]
<1>1. others \in SUBSET Peer /\ p \in cands
  BY DEF ResolutionCandidates, Pending
<1>2. MissingInputs(s, u, p) = IF u \in s.rejects THEN s
                               ELSE IF RejectedParents(s, u) THEN y ELSE z
  BY DEF MissingInputs, Resolved
<1>3. parents \subseteq Parents(u) \cap Hash
  BY DEF Unknown
<1>4. ASSUME q \in cands PROVE Resolvable(u, parents, H)
  <2>1. {u, Txid[u]} \cap H # {}
    BY <1>4, CandidateReached
  <2>2. Parents(u) \cap Hash \subseteq H
    BY <2>1 DEF Closed
  <2> HIDE DEF parents
  <2> QED BY <1>3, <2>1, <2>2 DEF Resolvable, OrphansAmong
<1> HIDE DEF parents, cands
<1>5. Fair(first, q, H) /\ Spares(s, first, q)
  <2>1. first \in {Resolve(s, parents, u, p), ResolveKnown(s, parents, u, p)}
    OBVIOUS
  <2> HIDE DEF first
  <2> QED BY <1>1, <1>4, <2>1, ResolveFair
<1> HIDE DEF first
<1>6. Fair(kept, q, H) /\ Spares(first, kept, q)
  BY <1>1, <1>4, <1>5, ResolvedFair
<1> HIDE DEF kept
<1>7. Fair(z, q, H) /\ Spares(kept, z, q)
  BY <1>6, ForgetFair
<1> HIDE DEF z
<1>8. Spares(s, kept, q)
  BY <1>5, <1>6, SparesOn
<1>9. Spares(s, z, q)
  BY <1>7, <1>8, SparesOn
<1>10. Fair(x, q, H) /\ Spares(s, x, q)
  BY ForgetFair
<1> HIDE DEF x
<1>11. DOMAIN x = Fields
  BY <1>10 DEF Fair, Sane
<1>12. /\ DOMAIN y = Fields /\ y.m_orphanage = x.m_orphanage /\ y.m_txrequest = x.m_txrequest
       /\ Decided(x) \subseteq Decided(y)
  BY <1>11 DEF Fields, Decided
<1> HIDE DEF y
<1>13. Fair(y, q, H) /\ Spares(x, y, q)
  BY <1>10, <1>12, SparesSame DEF Fair, Sane, SameOrphans
<1>14. Spares(s, y, q)
  BY <1>10, <1>13, SparesOn
<1>15. Spares(s, s, q)
  BY DEF Spares
<1> QED BY <1>2, <1>7, <1>9, <1>13, <1>14, <1>15

LEMMA ReceivedFair ==
  ASSUME NEW s, NEW q \in Peer, NEW H, Fair(s, q, H), NEW u \in Tx, NEW p \in Peer, NEW pick,
         NEW stock, Closed(stock, H), p = q => u \in H
  PROVE  Fair(ReceivedTx(s, u, p, pick), q, H) /\ Spares(s, ReceivedTx(s, u, p, pick), q)
<1> DEFINE first == ReceivedResponse(s, p, Txid[u])
           answered == ReceivedResponse(first, p, u)
           result == ProcessTransaction(answered, u)
           processed == ProcessResult(answered, u, p, result, TRUE, pick)
<1>1. ReceivedTx(s, u, p, pick) =
        IF AlreadyHaveTx(answered, u, FALSE) THEN answered
        ELSE IF u \in answered.reconsiderable THEN TryPackage(answered, u, p, pick)
        ELSE IF result = "RECONSIDERABLE" THEN TryPackage(processed, u, p, pick)
        ELSE processed
  BY DEF ReceivedTx
<1>2. u \in Hash /\ Txid[u] \in Hash
  BY DEF Hash
<1>3. Fair(first, q, H) /\ Spares(s, first, q)
  BY <1>2, ResponseFair
<1> HIDE DEF first
<1>4. Fair(answered, q, H) /\ Spares(first, answered, q)
  BY <1>2, <1>3, ResponseFair
<1>5. result = "MISSING_INPUTS" => Parents(u) \cap Hash # {}
  BY DEF ProcessTransaction, Missing
<1> HIDE DEF answered, result
<1>6. Spares(s, answered, q)
  BY <1>3, <1>4, SparesOn
<1>7. Fair(processed, q, H) /\ Spares(answered, processed, q)
  <2>1. CASE result = "VALID"
    <3>1. processed = MempoolAcceptedTx(answered, u, pick)
      BY <2>1 DEF ProcessResult
    <3> HIDE DEF processed
    <3> QED BY <1>4, <3>1, AcceptedFair
  <2>2. CASE result = "MISSING_INPUTS"
    <3>1. processed = MissingInputs(answered, u, p)
      BY <2>2 DEF ProcessResult, MempoolRejectedTx
    <3> HIDE DEF processed
    <3> QED BY <1>4, <1>5, <2>2, <3>1, MissingFair
  <2>3. CASE result # "VALID" /\ result # "MISSING_INPUTS"
    <3>1. processed = Failed(answered, u, result)
      BY <2>3 DEF ProcessResult, MempoolRejectedTx
    <3> HIDE DEF processed
    <3> QED BY <1>4, <3>1, FailedFair
  <2> QED BY <2>1, <2>2, <2>3
<1> HIDE DEF processed
<1>8. Spares(s, processed, q)
  BY <1>6, <1>7, SparesOn
<1>9. /\ Fair(TryPackage(answered, u, p, pick), q, H)
      /\ Spares(answered, TryPackage(answered, u, p, pick), q)
  BY <1>4, TryFair
<1>10. /\ Fair(TryPackage(processed, u, p, pick), q, H)
       /\ Spares(processed, TryPackage(processed, u, p, pick), q)
  BY <1>7, TryFair
<1>11. Spares(s, TryPackage(answered, u, p, pick), q) /\ Spares(s, TryPackage(processed, u, p, pick), q)
  BY <1>6, <1>8, <1>9, <1>10, SparesOn
<1> QED BY <1>1, <1>4, <1>6, <1>7, <1>8, <1>9, <1>10, <1>11

LEMMA AnnouncementFair ==
  ASSUME NEW s, NEW q \in Peer, NEW H, Fair(s, q, H), NEW u \in Tx, NEW p \in Peer,
         NEW stock, Closed(stock, H), p = q => u \in H
  PROVE  Fair(AddTxAnnouncement(s, p, u), q, H) /\ Spares(s, AddTxAnnouncement(s, p, u), q)
<1> DEFINE parents == Unknown(s, Parents(u) \cap Hash)
           x == ResolveKnown(s, parents, u, p)
           i == ReceivedInvs(s, p, {u})
<1>1. AddTxAnnouncement(s, p, u) \in {x, s, i}
  BY DEF AddTxAnnouncement
<1>2. Spares(s, s, q)
  BY DEF Spares
<1>3. Fair(i, q, H) /\ Spares(s, i, q)
  <2>1. p = q => {u} \subseteq H
    OBVIOUS
  <2> QED BY <2>1, InvsFair
<1>4. parents \subseteq Parents(u) \cap Hash
  BY DEF Unknown
<1> HIDE DEF parents, i
<1>5. CASE x = s
  BY <1>1, <1>2, <1>3, <1>5
<1>6. CASE x # s
  <2>1. parents # {}
    BY <1>6 DEF ResolveKnown
  <2>2. ASSUME p = q PROVE Resolvable(u, parents, H)
    <3>1. {u, Txid[u]} \cap H # {}
      BY <2>2
    <3>2. Parents(u) \cap Hash \subseteq H
      BY <3>1 DEF Closed
    <3> QED BY <1>4, <2>1, <3>1, <3>2 DEF Resolvable, OrphansAmong
  <2>3. x \in {Resolve(s, parents, u, p), ResolveKnown(s, parents, u, p)}
    OBVIOUS
  <2> HIDE DEF x
  <2>4. Fair(x, q, H) /\ Spares(s, x, q)
    BY <2>2, <2>3, ResolveFair
  <2> QED BY <1>1, <1>2, <1>3, <2>4
<1> QED BY <1>5, <1>6

-----------------------------------------------------------------------------
(* Every step is fair *)

\* A step in which the peer q may lose the orphan t.
Departs(q, t) ==
  \/ q \notin connected'
  \/ t \in Decided(node')
  \/ notify # <<>> /\ notify' = Tail(notify) /\ Conflicts(t, Head(notify))

Protected(q) ==
  \A t \in Own(node.m_orphanage, q) : t \in Own(node'.m_orphanage, q) \/ Departs(q, t)

LEMMA SparesProtected == ASSUME NEW q, Spares(node, node', q) PROVE Protected(q)
BY DEF Spares, Protected, Departs

LEMMA RowsLost ==
  ASSUME NEW m, NEW q \in Peer, NEW H, AsksOnly(m, q, H), NEW n \in Requests,
         \A h \in Hash : n[h][q] # "none" => m[h][q] # "none"
  PROVE  AsksOnly(n, q, H)
BY DEF AsksOnly

LEMMA DisconnectedFair ==
  ASSUME NEW q \in Peer, NEW H, Fair(node, q, H), NEW p \in Peer, DisconnectedPeer(p)
  PROVE  Fair(node', q, H) /\ Protected(q)
<1> DEFINE o == EraseForPeer(node.m_orphanage, p)
           m == node.m_txrequest
           rows == [h \in Hash |-> LET row == [m[h] EXCEPT ![p] = "none"]
                                   IN  IF Pending(row) = {} THEN Nobody ELSE row]
<1>1. node' = [node EXCEPT !.m_orphanage = o, !.m_txrequest = rows] /\ p \notin connected'
  BY DEF DisconnectedPeer
<1>2. /\ DOMAIN node = Fields /\ Within(node.m_orphanage) /\ Sound(node.m_orphanage)
      /\ Modest(node.m_orphanage, q, H) /\ AsksOnly(m, q, H) /\ m \in Requests
  BY SaneSound DEF Fair, Sane, AsksOnly
<1>3. AsksOnly(rows, q, H)
  <2> HIDE DEF m
  <2>1. rows \in Requests
    BY <1>2, NobodyIs DEF Requests
  <2>2. \A h \in Hash : rows[h][q] # "none" => m[h][q] # "none"
    BY <1>2, NobodyIs DEF Requests
  <2> HIDE DEF rows
  <2> QED BY <1>2, <2>1, <2>2, RowsLost
<1> HIDE DEF m, rows
<1>4. Within(o) /\ Own(o, q) \subseteq Own(node.m_orphanage, q)
  BY <1>2, EraseForPeerWithin, EraseForPeerLoses, OwnLess
<1>5. p # q => Own(o, q) = Own(node.m_orphanage, q)
  BY <1>2, EraseForPeerOwn
<1> HIDE DEF o
<1>6. DOMAIN node' = Fields /\ node'.m_orphanage = o /\ node'.m_txrequest = rows
  BY <1>1, <1>2 DEF Fields
<1> QED BY <1>1, <1>2, <1>3, <1>4, <1>5, <1>6 DEF Fair, Sane, Modest, Protected, Departs

LEMMA NotifiedFair ==
  ASSUME NEW q \in Peer, NEW H, Fair(node, q, H), Notified
  PROVE  Fair(node', q, H) /\ Protected(q)
<1>0. notify # <<>> /\ notify' = Tail(notify)
  BY DEF Notified
<1>1. /\ DOMAIN node = Fields /\ Sound(node.m_orphanage)
      /\ Modest(node.m_orphanage, q, H) /\ AsksOnly(node.m_txrequest, q, H)
      /\ node.m_txrequest \in Requests
  BY SaneSound DEF Fair, Sane, AsksOnly
<1>2. CASE Head(notify) = {}
  <2>1. node' = [node EXCEPT !.recent_confirmed = {}]
    BY <1>2 DEF Notified, BlockDisconnected
  <2>2. SameRest(node, node') /\ node'.m_txrequest = node.m_txrequest
    BY <1>1, <2>1 DEF Fields, SameRest
  <2> QED BY <1>1, <2>2, RestFair, SparesProtected
<1>3. CASE Head(notify) # {}
  <2> DEFINE block == Head(notify)
             o == EraseForBlock(node.m_orphanage, block)
             hashes == block \cup {Txid[u] : u \in block}
             m == node.m_txrequest
             rows == [h \in Hash |-> IF h \in hashes THEN Nobody ELSE m[h]]
  <2>1. node' = [node EXCEPT !.m_orphanage = o, !.recent_confirmed = @ \cup hashes,
                             !.m_txrequest = rows]
    BY <1>3 DEF Notified, BlockConnected
  <2> HIDE DEF hashes
  <2>2. AsksOnly(rows, q, H)
    <3> HIDE DEF m
    <3>1. m \in Requests /\ AsksOnly(m, q, H)
      BY <1>1 DEF m
    <3>2. rows \in Requests
      BY <3>1, NobodyIs DEF Requests
    <3>3. \A h \in Hash : rows[h][q] # "none" => m[h][q] # "none"
      BY NobodyIs
    <3> HIDE DEF rows
    <3> QED BY <3>1, <3>2, <3>3, RowsLost
  <2> HIDE DEF m, rows
  <2>3. Within(o) /\ Own(o, q) \subseteq Own(node.m_orphanage, q)
    BY <1>1, EraseForBlockWithin, EraseForBlockLoses, OwnLess
  <2>4. \A t \in Own(node.m_orphanage, q) : t \in Own(o, q) \/ Conflicts(t, block)
    BY <1>1, EraseForBlockOwn
  <2> HIDE DEF o
  <2>5. DOMAIN node' = Fields /\ node'.m_orphanage = o /\ node'.m_txrequest = rows
    BY <1>1, <2>1 DEF Fields
  <2> QED BY <1>0, <1>1, <2>2, <2>3, <2>4, <2>5 DEF Fair, Sane, Modest, Protected, Departs
<1> QED BY <1>2, <1>3

\* A change of the tip clears the filters; orphans and requests stay.
LEMMA TipFair ==
  ASSUME NEW q \in Peer, NEW H, Fair(node, q, H), NEW block, ConnectTip(block) \/ DisconnectTip
  PROVE  Fair(node', q, H) /\ Protected(q)
<1>1. DOMAIN node = Fields
  BY DEF Fair, Sane
<1>2. DOMAIN node' = Fields /\ node'.m_orphanage = node.m_orphanage /\ node'.m_txrequest = node.m_txrequest
  BY <1>1 DEF ConnectTip, DisconnectTip, Fields
<1> QED BY <1>2 DEF Fair, Sane, Protected

LEMMA StepFair ==
  ASSUME NEW q \in Peer, NEW H, Closed(has[q], H), Fair(node, q, H), [DownloadNext]_downloadVars
  PROVE  Fair(node', q, H) /\ Protected(q)
<1>0. has[q] \subseteq H
  BY DEF Closed
<1>1. ASSUME node' = node PROVE Fair(node', q, H) /\ Protected(q)
  BY <1>1 DEF Protected
<1>2. ASSUME NEW p \in Peer, ConnectedPeer(p) PROVE node' = node
  BY <1>2 DEF ConnectedPeer
<1>3. ASSUME NEW p \in Peer, NEW u \in Tx, Inv(p, u) PROVE Fair(node', q, H) /\ Protected(q)
  <2>1. node' = AddTxAnnouncement(node, p, u) /\ (p = q => u \in H)
    BY <1>0, <1>3 DEF Inv
  <2>2. Fair(node', q, H) /\ Spares(node, node', q)
    BY <2>1, AnnouncementFair
  <2> QED BY <2>2, SparesProtected
<1>4. ASSUME NEW p \in Peer, NEW u \in Tx, Receive(p, u) PROVE Fair(node', q, H) /\ Protected(q)
  <2>1. PICK pick : node' = ReceivedTx(node, u, p, pick)
    BY <1>4 DEF Receive, SetNode
  <2>2. p = q => u \in H
    BY <1>0, <1>4 DEF Receive
  <2>3. Fair(node', q, H) /\ Spares(node, node', q)
    BY <2>1, <2>2, ReceivedFair
  <2> QED BY <2>3, SparesProtected
<1>5. ASSUME NEW p \in Peer, NEW h \in Hash, GetRequestsToSend(p, h)
      PROVE  Fair(node', q, H) /\ Protected(q)
  <2> DEFINE row == [node.m_txrequest[h] EXCEPT ![p] = "requested"]
  <2>1. node' \in {ForgetTxHash(node, h), SetRow(node, h, row)} /\ node.m_txrequest[h][p] # "none"
    BY <1>5 DEF GetRequestsToSend, SetNode, Requestable
  <2>2. Fair(SetRow(node, h, row), q, H) /\ Spares(node, SetRow(node, h, row), q)
    BY <2>1, StatusFair
  <2> HIDE DEF row
  <2>3. Fair(ForgetTxHash(node, h), q, H) /\ Spares(node, ForgetTxHash(node, h), q)
    BY ForgetHashFair
  <2>4. Fair(node', q, H) /\ Spares(node, node', q)
    BY <2>1, <2>2, <2>3
  <2> QED BY <2>4, SparesProtected
<1>6. ASSUME NEW p \in Peer, NEW h \in Hash, ReceivedNotFound(p, h)
      PROVE  Fair(node', q, H) /\ Protected(q)
  <2>1. node' = ReceivedResponse(node, p, h)
    BY <1>6 DEF ReceivedNotFound, SetNode
  <2>2. Fair(node', q, H) /\ Spares(node, node', q)
    BY <2>1, ResponseFair
  <2> QED BY <2>2, SparesProtected
<1>7. ASSUME NEW p \in Peer, ProcessOrphanTx(p) PROVE Fair(node', q, H) /\ Protected(q)
  <2>1. PICK pick : node' = Reconsider(node, p, pick)
    BY <1>7 DEF ProcessOrphanTx, SetNode
  <2>2. HaveTxToReconsider(node.m_orphanage, p)
    BY <1>7 DEF ProcessOrphanTx
  <2>3. Fair(node', q, H) /\ Spares(node, node', q)
    BY <2>1, <2>2, ReconsiderFair
  <2> QED BY <2>3, SparesProtected
<1>8. ASSUME UNCHANGED downloadVars PROVE node' = node
  BY <1>8 DEF downloadVars
<1> QED
  BY <1>1, <1>2, <1>3, <1>4, <1>5, <1>6, <1>7, <1>8, DisconnectedFair, NotifiedFair, TipFair
     DEF DownloadNext

\* Whatever a frugal peer may come to be asked for is all that it is asked for,
\* and all that its orphans are of.
NodeFair ==
  \A q \in Peer : \A H \in SUBSET Hash :
    Closed(has[q], H) /\ Affordable(OrphansAmong(H)) => Fair(node, q, H)

LEMMA FairInit == DownloadInit => NodeFair
<1> SUFFICES ASSUME DownloadInit, NEW q \in Peer, NEW H \in SUBSET Hash, Affordable(OrphansAmong(H))
             PROVE  Fair(node, q, H)
  BY DEF NodeFair
<1>1. Sane(node)
  BY NodeInit DEF NodeSane
<1>2. node.m_orphanage = Empty /\ node.m_txrequest = [h \in Hash |-> Nobody]
  BY DEF DownloadInit
<1>3. Own(Empty, q) = {}
  BY DEF Own, TxsOf, From, Announcements, Empty
<1>4. AsksOnly(node.m_txrequest, q, H)
  BY <1>2, NobodyIs DEF AsksOnly, Requests
<1> QED BY <1>1, <1>2, <1>3, <1>4 DEF Fair, Modest

LEMMA HasFixed == [DownloadNext]_downloadVars => has' = has
BY DEF DownloadNext, downloadVars, ConnectedPeer, DisconnectedPeer, SetNode, Inv, GetRequestsToSend,
       ReceivedNotFound, Receive, ProcessOrphanTx, ConnectTip, DisconnectTip, Notified

LEMMA FairNext == NodeFair /\ [DownloadNext]_downloadVars => NodeFair'
<1> SUFFICES ASSUME NodeFair, [DownloadNext]_downloadVars, NEW q \in Peer, NEW H \in SUBSET Hash,
                    Closed(has'[q], H), Affordable(OrphansAmong(H))
             PROVE  Fair(node', q, H)
  BY DEF NodeFair
<1>1. Closed(has[q], H)
  BY HasFixed
<1>2. Fair(node, q, H)
  BY <1>1 DEF NodeFair
<1> QED BY <1>1, <1>2, StepFair

\* In every behaviour, for any transactions and peers: a peer all of whose
\* possible orphans are within its share loses an orphan only by leaving, by a
\* decision about the orphan, or to a block in conflict with it.
THEOREM ShareCorrect == DownloadSpec => ShareProtected
<1> DEFINE Step == \A p \in connected, t \in Tx :
                     HaveTxFromPeer(node.m_orphanage, t, p)
                       => \/ HaveTxFromPeer(node'.m_orphanage, t, p)
                          \/ p \notin connected'
                          \/ t \in Decided(node')
                          \/ /\ notify # <<>> /\ notify' = Tail(notify)
                             /\ \E b \in Head(notify) : Inputs[t] \cap Inputs[b] # {}
                          \/ ~Frugal(p)
<1>1. NodeSane /\ NodeFair /\ [DownloadNext]_downloadVars => [Step]_downloadVars
  <2> SUFFICES ASSUME NodeSane, NodeFair, [DownloadNext]_downloadVars, NEW p \in connected, NEW t \in Tx,
                      HaveTxFromPeer(node.m_orphanage, t, p), Frugal(p),
                      ~HaveTxFromPeer(node'.m_orphanage, t, p)
               PROVE  \/ p \notin connected'
                      \/ t \in Decided(node')
                      \/ /\ notify # <<>> /\ notify' = Tail(notify)
                         /\ \E b \in Head(notify) : Inputs[t] \cap Inputs[b] # {}
    OBVIOUS
  <2>1. p \in Peer
    <3>1. Announcements(node.m_orphanage) \in SUBSET Ann
      BY SaneSound, AnnouncementsType DEF NodeSane, Sound
    <3> QED BY <3>1 DEF HaveTxFromPeer, From, Ann
  <2>2. PICK H \in SUBSET Hash : Closed(has[p], H) /\ Affordable(OrphansAmong(H))
    BY DEF Frugal
  <2>3. Fair(node, p, H)
    BY <2>1, <2>2 DEF NodeFair
  <2>4. Protected(p)
    BY <2>1, <2>2, <2>3, StepFair
  <2>5. Departs(p, t)
    BY <2>4, OwnIs DEF Protected
  <2> QED BY <2>5 DEF Departs, Conflicts
<1> QED BY <1>1, NodeInit, NodeNext, FairInit, FairNext, PTL DEF DownloadSpec, ShareProtected
=============================================================================
