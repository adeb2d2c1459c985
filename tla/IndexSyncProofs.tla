-------------------------- MODULE IndexSyncProofs --------------------------
(***************************************************************************)
(* For every tree of blocks, any number of changes of the chain, restarts  *)
(* and crashes: what the index has committed can be read back, its running *)
(* totals are those of its best block, no block is lost where the          *)
(* notifications take over from the sync thread, and a caller that was let *)
(* go on finds the tip it waited for.                                      *)
(*                                                                         *)
(* Entries by height are overwritten by other branches.  What keeps the    *)
(* committed ones is that a block leaves the chain of the running totals   *)
(* only through CustomRemove, which copies its entry to the hash index     *)
(* (IInv).  The notifications in the queue form a chain of moves that ends *)
(* at the tip or above, and the index is on that chain (JInv).             *)
(***************************************************************************)
EXTENDS IndexSync, WellFoundedInduction, TLAPS

MaybeBlock == Blocks \cup {Null}

Events ==
  {Connected(b) : b \in Blocks \ {Genesis}} \cup {Flushed(b) : b \in Blocks}
    \cup {[type |-> "wake"]}

Databases ==
  [height : [Heights -> [block : MaybeBlock, stats : SUBSET Blocks]],
   hash : [Blocks -> (SUBSET Blocks) \cup {Null}],
   locator : MaybeBlock, muhash : SUBSET Blocks]

TypeOK ==
  /\ tip \in Blocks /\ flushed \in Blocks
  /\ queue \in Seq(Events)
  /\ best \in MaybeBlock /\ pindex \in MaybeBlock /\ next \in MaybeBlock
  /\ iter \in MaybeBlock /\ current \in MaybeBlock
  /\ stats \in SUBSET Blocks
  /\ db \in Databases

(* Where the running totals are at each point of the thread.               *)
PhaseOK ==
  /\ pc \in {"top", "commit", "check", "timed", "exited", "ready"} => current = pindex
  /\ pc \in {"commit", "check"} => best = pindex /\ iter = pindex /\ pindex \in Blocks
  /\ pc = "ready" => best = current /\ best \in Blocks
  /\ pc \in {"rewind", "append"} => current = iter /\ next \in Blocks
  /\ pc = "rewind" => iter = Prev(next) \/ (iter \in Blocks /\ Prev(next) \in Ancestors[iter])
  /\ pc = "append" => iter = Prev(next)
  /\ pc # "assert"

(* The blocks that the statistics of a block sum up.                       *)
Total(b) == IF b = Null THEN {} ELSE Ancestors[b]

(* An entry for the block is in the database.                              *)
Kept(b) == db.height[Height[b]].block = b \/ db.hash[b] # Null

DataOK ==
  /\ stats = Total(current)
  /\ db.muhash = Total(db.locator)
  /\ \A h \in Heights : db.height[h].block # Null
                          => db.height[h].stats = Ancestors[db.height[h].block]
  /\ \A b \in Blocks : db.hash[b] # Null => db.hash[b] = Ancestors[b]
  /\ \A b \in Total(current) \cup Total(db.locator) : Kept(b)
  /\ \A b \in Total(db.locator) \ Total(current) : db.hash[b] # Null

IInv == TypeOK /\ PhaseOK /\ DataOK

-----------------------------------------------------------------------------
(* The tree of blocks *)

Branch(b) ==
  /\ Genesis \in Ancestors[b] /\ b \in Ancestors[b]
  /\ \A c \in Ancestors[b] : /\ Height[c] <= Height[b]
                             /\ Ancestors[c] \subseteq Ancestors[b]
                             /\ c = b \/ Height[c] < Height[b]
  /\ \A c, d \in Ancestors[b] : Height[c] = Height[d] => c = d
  /\ \A h \in 0..Height[b] : \E c \in Ancestors[b] : Height[c] = h

(* Smallest counterexample by height.                                      *)
LEMMA Branches == \A b \in Blocks : Branch(b)
<1> DEFINE Bad == {b \in Blocks : ~Branch(b)}
           T == {Height[b] : b \in Bad}
<1>0. Height \in [Blocks -> Nat] /\ Parent \in [Blocks -> Blocks]
      /\ Ancestors \in [Blocks -> SUBSET Blocks]
  BY BlockAssumption
<1> SUFFICES ASSUME Bad # {} PROVE FALSE
  OBVIOUS
<1>1. T \subseteq Nat /\ T # {}
  BY <1>0
<1>2. PICK x \in T : \A y \in T : ~(<<y, x>> \in OpToRel(<, Nat))
  BY <1>1, WFMin, NatLessThanWellFounded
<1>3. \A y \in T : ~(y < x)
  BY <1>1, <1>2 DEF OpToRel
<1>4. PICK b \in Bad : x = Height[b]
  OBVIOUS
<1>5. CASE b = Genesis
  <2>1. Ancestors[b] = {b} /\ Height[b] = 0
    BY <1>5, BlockAssumption
  <2>2. Branch(b)
    BY <1>5, <2>1 DEF Branch
  <2> QED BY <2>2
<1>6. CASE b # Genesis
  <2> DEFINE p == Parent[b]
  <2>1. /\ b \in Blocks /\ p \in Blocks /\ Ancestors[b] = {b} \cup Ancestors[p]
        /\ Height[b] = Height[p] + 1 /\ Height[p] \in Nat
    BY <1>0, <1>6, BlockAssumption
  <2>2. Branch(p)
    <3>1. Height[p] < x
      BY <1>4, <2>1
    <3> QED BY <1>3, <2>1, <3>1
  <2> HIDE DEF p
  <2>3. \A c \in Ancestors[p] : c \in Blocks /\ Height[c] \in Nat /\ Height[c] <= Height[p]
                                /\ Height[c] < Height[b] /\ Ancestors[c] \subseteq Ancestors[b]
    BY <1>0, <2>1, <2>2 DEF Branch
  <2>4. ASSUME NEW h \in 0..Height[b] PROVE \E c \in Ancestors[b] : Height[c] = h
    <3>1. CASE h = Height[b]
      BY <2>1, <3>1
    <3>2. CASE h # Height[b]
      <4>1. h \in 0..Height[p]
        BY <2>1, <3>2
      <4> QED BY <2>1, <2>2, <4>1 DEF Branch
    <3> QED BY <3>1, <3>2
  <2>5. \A c, d \in Ancestors[b] : Height[c] = Height[d] => c = d
    BY <2>1, <2>2, <2>3 DEF Branch
  <2>6. \A c \in Ancestors[b] : /\ Height[c] <= Height[b]
                                /\ Ancestors[c] \subseteq Ancestors[b]
                                /\ c = b \/ Height[c] < Height[b]
    BY <2>1, <2>3
  <2>7. Genesis \in Ancestors[b] /\ b \in Ancestors[b]
    BY <2>1, <2>2 DEF Branch
  <2>8. Branch(b)
    BY <2>4, <2>5, <2>6, <2>7 DEF Branch
  <2> QED BY <2>8
<1> QED BY <1>5, <1>6

LEMMA Tree ==
  ASSUME NEW b \in Blocks
  PROVE  /\ Genesis \in Blocks /\ Null \notin Blocks
         /\ Parent[b] \in Blocks /\ Height[b] \in Nat /\ Ancestors[b] \subseteq Blocks
         /\ Height[b] \in Heights /\ Ancestors[b] # Null
         /\ b # Genesis => /\ Ancestors[b] = {b} \cup Ancestors[Parent[b]]
                           /\ b \notin Ancestors[Parent[b]]
                           /\ Height[b] = Height[Parent[b]] + 1
                           /\ Height[b] - 1 = Height[Parent[b]]
BY BlockAssumption DEF Heights

LEMMA ForkIs ==
  ASSUME NEW a \in Blocks, NEW b \in Blocks
  PROVE  Fork(a, b) \in Ancestors[a] \cap Ancestors[b]
<1> DEFINE C == Ancestors[a] \cap Ancestors[b]
           T == {Height[a] - Height[c] : c \in C}
<1>1. /\ C \subseteq Blocks /\ C # {}
      /\ \A c \in C : Height[c] \in Nat /\ Height[c] <= Height[a] /\ Height[a] \in Nat
  BY Branches, Tree DEF Branch
<1>2. T \subseteq Nat /\ T # {}
  BY <1>1
<1>3. PICK x \in T : \A y \in T : ~(<<y, x>> \in OpToRel(<, Nat))
  BY <1>2, WFMin, NatLessThanWellFounded
<1>4. \A y \in T : ~(y < x)
  BY <1>2, <1>3 DEF OpToRel
<1>5. PICK f \in C : x = Height[a] - Height[f]
  OBVIOUS
<1>6. \A g \in C : Height[g] <= Height[f]
  <2> SUFFICES ASSUME NEW g \in C PROVE Height[g] <= Height[f]
    OBVIOUS
  <2>1. ~(Height[a] - Height[g] < Height[a] - Height[f])
    BY <1>4, <1>5
  <2> QED BY <1>1, <2>1
<1> QED BY <1>6 DEF Fork

(* The blocks of a path connect to each other.                             *)
LEMMA PathIs ==
  ASSUME NEW b \in Blocks, NEW f \in Ancestors[b], NEW i \in 1..Height[b] - Height[f]
  PROVE  /\ Path(f, b)[i] \in Blocks \ {Genesis}
         /\ i = 1 => Parent[Path(f, b)[i]] = f
<1> DEFINE c == Path(f, b)[i]
<1>1. f \in Blocks /\ Height[f] \in Nat /\ Height[b] \in Nat
  BY Tree
<1>2. Height[f] + i \in 0..Height[b]
  BY <1>1
<1>3. c \in Ancestors[b] /\ Height[c] = Height[f] + i
  BY <1>1, <1>2, Branches DEF Path, Branch
<1> HIDE DEF c
<1>4. c \in Blocks \ {Genesis}
  BY <1>1, <1>3, Tree, BlockAssumption
<1>5. Parent[c] \in Ancestors[b] /\ Height[Parent[c]] = Height[c] - 1
  <2>1. Ancestors[c] \subseteq Ancestors[b] /\ Parent[c] \in Ancestors[Parent[c]]
    BY <1>3, <1>4, Branches, Tree DEF Branch
  <2> QED BY <1>4, <2>1, Tree
<1>6. i = 1 => Parent[c] = f
  BY <1>1, <1>3, <1>5, Branches DEF Branch
<1> QED BY <1>4, <1>6 DEF c

-----------------------------------------------------------------------------
(* The data *)

LEMMA EmptyType ==
  /\ EmptyDB \in Databases
  /\ EmptyDB.locator = Null /\ EmptyDB.muhash = {}
  /\ \A h \in Heights : EmptyDB.height[h].block = Null
  /\ \A b \in Blocks : EmptyDB.hash[b] = Null
BY DEF EmptyDB, NoEntry, MaybeBlock, Databases

LEMMA InitInv == Init => IInv
<1> SUFFICES ASSUME Init PROVE IInv
  OBVIOUS
<1>1. TypeOK
  BY EmptyType DEF Init, TypeOK, MaybeBlock
<1>2. PhaseOK
  BY DEF Init, PhaseOK
<1>3. DataOK
  BY EmptyType DEF Init, DataOK, Total
<1> QED BY <1>1, <1>2, <1>3 DEF IInv

(* The locator comes to be where the running totals are.                   *)
LEMMA CommitData ==
  ASSUME TypeOK, DataOK, Commit(current), UNCHANGED <<stats, current>>
  PROVE  DataOK' /\ db' \in Databases
<1>1. CASE current = Null
  BY <1>1 DEF Commit, TypeOK, Databases, DataOK, Kept, Total
<1>2. CASE current # Null
  <2>1. db' = [db EXCEPT !.locator = current, !.muhash = stats]
    BY <1>2 DEF Commit
  <2>2. /\ db'.height = db.height /\ db'.hash = db.hash
        /\ db'.locator = current /\ db'.muhash = stats
    BY <2>1 DEF TypeOK, Databases
  <2>3. db' \in Databases
    BY <2>1 DEF TypeOK, Databases
  <2>4. Total(current') = Total(current) /\ Total(db'.locator) = Total(current)
    BY <2>2 DEF Total
  <2>5. DataOK'
    BY <2>2, <2>4 DEF DataOK, Kept
  <2> QED BY <2>3, <2>5
<1> QED BY <1>1, <1>2

(* A block is added on top of what is summed up: the entry it overwrites   *)
(* is of no block that is summed up, and was copied if it is committed.    *)
LEMMA AppendData ==
  ASSUME TypeOK, DataOK, NEW b \in Blocks, current = Prev(b), CustomAppend(b)
  PROVE  /\ DataOK'
         /\ db' \in Databases
         /\ stats' \in SUBSET Blocks
<1> DEFINE entry == [block |-> b, stats |-> stats \cup {b}]
<1>1. /\ stats' = stats \cup {b} /\ current' = b
      /\ db' = [db EXCEPT !.height[Height[b]] = entry]
  BY DEF CustomAppend
<1>2. entry \in [block : MaybeBlock, stats : SUBSET Blocks] /\ Height[b] \in Heights
  BY Tree DEF TypeOK, Databases, MaybeBlock
<1>3. /\ db'.height = [db.height EXCEPT ![Height[b]] = entry]
      /\ db'.hash = db.hash /\ db'.locator = db.locator /\ db'.muhash = db.muhash
  BY <1>1 DEF TypeOK, Databases
<1>4. db' \in Databases
  BY <1>1, <1>2 DEF TypeOK, Databases
<1>5. Total(b) = Ancestors[b] /\ Ancestors[b] = Total(current) \cup {b} /\ b \in Ancestors[b]
  <2>1. CASE b = Genesis
    BY <2>1, Tree, BlockAssumption DEF Prev, Total
  <2>2. CASE b # Genesis
    BY <2>2, Tree DEF Prev, Total
  <2> QED BY <2>1, <2>2
<1>6. stats' = Total(current') /\ stats' = Ancestors[b]
  BY <1>1, <1>5 DEF DataOK
<1>7. /\ db'.height[Height[b]].block = b /\ db'.height[Height[b]].stats = Ancestors[b]
      /\ \A h \in Heights \ {Height[b]} : db'.height[h] = db.height[h]
  BY <1>1, <1>2, <1>3, <1>6 DEF TypeOK, Databases
<1>8. \A c \in Ancestors[b] : c = b \/ Height[c] # Height[b]
  BY <1>5, Branches DEF Branch
<1>9. Total(db.locator) \subseteq Blocks /\ Ancestors[b] \subseteq Blocks
  BY Tree DEF TypeOK, Databases, Total, MaybeBlock
<1>10. ASSUME NEW c \in Total(db.locator) \ Ancestors[b] PROVE db'.hash[c] # Null
  BY <1>3, <1>5 DEF DataOK
<1>11. ASSUME NEW c \in Ancestors[b] \cup Total(db.locator)
       PROVE  db'.height[Height[c]].block = c \/ db'.hash[c] # Null
  <2>1. CASE c = b
    BY <1>7, <2>1
  <2>2. CASE c # b /\ c \in Ancestors[b]
    <3>1. Height[c] \in Heights \ {Height[b]}
      BY <1>8, <1>9, <2>2, Tree
    <3>2. Kept(c)
      BY <1>5, <2>2 DEF DataOK
    <3> QED BY <1>3, <1>7, <3>1, <3>2 DEF Kept
  <2>3. CASE c \notin Ancestors[b]
    BY <1>10, <2>3
  <2> QED BY <2>1, <2>2, <2>3
<1>12. \A h \in Heights : db'.height[h].block # Null
                            => db'.height[h].stats = Ancestors[db'.height[h].block]
  BY <1>7 DEF DataOK
<1>13. DataOK'
  <2>1. db'.muhash = Total(db'.locator) /\ Total(db'.locator) = Total(db.locator)
    BY <1>3 DEF DataOK, Total
  <2>2. Total(current') = Ancestors[b]
    BY <1>1, <1>5
  <2>3. \A c \in Blocks : db'.hash[c] # Null => db'.hash[c] = Ancestors[c]
    BY <1>3 DEF DataOK
  <2> HIDE DEF entry
  <2> QED BY <1>6, <1>10, <1>11, <1>12, <2>1, <2>2, <2>3 DEF DataOK, Kept
<1> QED BY <1>4, <1>6, <1>9, <1>13

(* The block on top of what is summed up is removed, and kept by its hash. *)
LEMMA RemoveData ==
  ASSUME TypeOK, DataOK, NEW b \in Blocks \ {Genesis}, current = b, CustomRemove(b), pc = "rewind"
  PROVE  /\ DataOK'
         /\ db' \in Databases
         /\ stats' \in SUBSET Blocks /\ current' \in Blocks
         /\ \/ pc' = "fatal" /\ UNCHANGED <<current, iter>>
            \/ pc' = "rewind" /\ current' = Parent[b] /\ iter' = Parent[b]
<1> DEFINE entry == db.height[Height[b]]
           p == Parent[b]
<1>1. /\ p \in Blocks /\ Height[b] \in Heights /\ Height[p] \in Heights
      /\ Height[b] - 1 = Height[p] /\ Ancestors[b] = {b} \cup Ancestors[p]
      /\ b \notin Ancestors[p] /\ b # Null /\ p # Null /\ Null \notin Blocks
      /\ Ancestors[b] \subseteq Blocks /\ Ancestors[b] # Null
  BY Tree
<1>2. stats = Ancestors[b] /\ Total(current) = Ancestors[b]
  BY <1>1 DEF DataOK, Total
<1>3. entry \in [block : MaybeBlock, stats : SUBSET Blocks]
  BY <1>1 DEF TypeOK, Databases
<1>4. db' = [db EXCEPT !.hash = [db.hash EXCEPT ![entry.block] = entry.stats]]
  BY DEF CustomRemove, CopyHeightIndexToHashIndex
<1>5. /\ db'.height = db.height /\ db'.locator = db.locator /\ db'.muhash = db.muhash
      /\ db'.hash = [db.hash EXCEPT ![entry.block] = entry.stats]
  BY <1>4 DEF TypeOK, Databases
<1>6. db' \in Databases
  BY <1>3, <1>4 DEF TypeOK, Databases
<1>7. /\ \A c \in Blocks : db'.hash[c] = IF c = entry.block THEN entry.stats ELSE db.hash[c]
      /\ entry.block # Null => entry.stats = Ancestors[entry.block]
  BY <1>1, <1>5 DEF TypeOK, Databases, DataOK
<1>8. \A c \in Blocks : Ancestors[c] # Null
  BY Tree
<1> HIDE DEF entry
<1>9. \A c \in Blocks : /\ db'.hash[c] # Null => db'.hash[c] = Ancestors[c]
                        /\ db.hash[c] # Null => db'.hash[c] # Null
  BY <1>1, <1>7, <1>8 DEF DataOK
<1>10. db'.hash[b] # Null
  <2>1. Kept(b)
    BY <1>1, <1>2 DEF DataOK
  <2>2. CASE entry.block = b
    BY <1>1, <1>7, <2>2
  <2>3. CASE entry.block # b
    BY <1>9, <2>1, <2>3 DEF Kept, entry
  <2> QED BY <2>2, <2>3
<1>11. Total(db'.locator) = Total(db.locator) /\ Total(db.locator) \subseteq Blocks
  BY <1>5, Tree DEF TypeOK, Databases, Total, MaybeBlock
<1>12. ASSUME current' = b \/ current' = p, stats' = Total(current') PROVE DataOK'
  <2>1. Total(current') \subseteq Total(current) /\ Total(current) \ Total(current') \subseteq {b}
    BY <1>1, <1>2, <1>12 DEF Total
  <2>2. \A c \in Blocks : Kept(c) => db'.height[Height[c]].block = c \/ db'.hash[c] # Null
    BY <1>5, <1>9 DEF Kept
  <2>3. \A c \in Total(current') \cup Total(db'.locator) :
          db'.height[Height[c]].block = c \/ db'.hash[c] # Null
    BY <1>1, <1>2, <1>11, <2>1, <2>2 DEF DataOK
  <2>4. \A c \in Total(db'.locator) \ Total(current') : db'.hash[c] # Null
    BY <1>9, <1>10, <1>11, <2>1 DEF DataOK
  <2>5. db'.muhash = Total(db'.locator)
    BY <1>5, <1>11 DEF DataOK
  <2>6. \A h \in Heights : db'.height[h].block # Null
                             => db'.height[h].stats = Ancestors[db'.height[h].block]
    BY <1>5 DEF DataOK
  <2> QED BY <1>9, <1>12, <2>3, <2>4, <2>5, <2>6 DEF DataOK, Kept
<1>13. CASE ~PreviousReadable(b)
  <2>1. pc' = "fatal" /\ UNCHANGED <<stats, current, iter>>
    BY <1>13 DEF CustomRemove
  <2>2. current' = b /\ stats' = Total(current')
    BY <1>1, <1>2, <2>1 DEF Total
  <2> QED BY <1>1, <1>2, <1>6, <1>12, <2>1, <2>2
<1>14. CASE PreviousReadable(b)
  <2>1. /\ stats' = stats \ {b} /\ current' = p /\ iter' = p
        /\ pc' = IF db.height[Height[b] - 1].stats = stats' THEN pc ELSE "assert"
    BY <1>14 DEF CustomRemove
  <2>2. stats' = Ancestors[p] /\ stats' = Total(current')
    BY <1>1, <1>2, <2>1 DEF Total
  <2>3. db.height[Height[b] - 1].stats = Ancestors[p]
    BY <1>1, <1>14 DEF PreviousReadable, DataOK
  <2>4. pc' = "rewind"
    BY <2>1, <2>2, <2>3
  <2> QED BY <1>1, <1>6, <1>12, <2>1, <2>2, <2>4
<1> QED BY <1>13, <1>14

-----------------------------------------------------------------------------
(* Steps *)

LEMMA SameIndex ==
  ASSUME IInv, UNCHANGED index, tip' \in Blocks, flushed' \in Blocks, queue' \in Seq(Events)
  PROVE  IInv'
<1>1. TypeOK'
  BY DEF IInv, TypeOK, index
<1>2. PhaseOK'
  BY DEF IInv, PhaseOK, index, Prev
<1>3. DataOK'
  BY DEF IInv, DataOK, index, Total, Kept
<1> QED BY <1>1, <1>2, <1>3 DEF IInv

LEMMA Enqueued ==
  ASSUME queue \in Seq(Events), NEW events \in Seq(Events), Enqueue(events)
  PROVE  queue' \in Seq(Events)
BY DEF Enqueue

LEMMA EventsAre ==
  /\ \A b \in Blocks \ {Genesis} : Connected(b) \in Events
  /\ \A b \in Blocks : Flushed(b) \in Events /\ <<Flushed(b)>> \in Seq(Events)
  /\ <<>> \in Seq(Events) /\ <<[type |-> "wake"]>> \in Seq(Events)
<1>1. [type |-> "wake"] \in Events /\ \A b \in Blocks : Flushed(b) \in Events
  BY DEF Events
<1> QED BY <1>1 DEF Events

LEMMA ActivateQueue ==
  ASSUME IInv, NEW b \in Blocks, ActivateBestChainStep(b)
  PROVE  flushed' \in Blocks /\ queue' \in Seq(Events)
<1> DEFINE fork == Fork(tip, b)
           path == Path(fork, b)
           blocks == [i \in 1 .. Len(path) |-> Connected(path[i])]
           on(i) == IF i = 1 THEN fork ELSE path[i - 1]
<1>1. fork \in Ancestors[b] /\ fork \in Blocks
  BY ForkIs, Tree DEF IInv, TypeOK
<1> HIDE DEF fork
<1>2. Height[b] - Height[fork] \in Nat
  BY <1>1, Branches, Tree DEF Branch
<1>3. Len(path) = Height[b] - Height[fork]
  BY <1>2 DEF Path
<1>4. \A i \in 1 .. Len(path) : path[i] \in Blocks \ {Genesis}
  BY <1>1, <1>3, PathIs
<1> HIDE DEF path
<1>5. blocks \in Seq(Events)
  <2>1. \A i \in 1 .. Len(path) : Connected(path[i]) \in Events
    BY <1>4, EventsAre
  <2>2. Len(path) \in Nat
    BY <1>2, <1>3
  <2> QED BY <2>1, <2>2
<1> HIDE DEF blocks
<1>6. queue \in Seq(Events) /\ flushed \in Blocks
  BY DEF IInv, TypeOK
<1>7. \/ Enqueue(blocks) /\ flushed' = flushed
      \/ \E i \in 1 .. Len(path) : flushed' = path[i] /\ Enqueue(<<Flushed(on(i))>> \o blocks)
  BY DEF ActivateBestChainStep, fork, path, blocks
<1>8. CASE Enqueue(blocks) /\ flushed' = flushed
  BY <1>5, <1>6, <1>8, Enqueued
<1>9. ASSUME NEW i \in 1 .. Len(path), flushed' = path[i], Enqueue(<<Flushed(on(i))>> \o blocks)
      PROVE  flushed' \in Blocks /\ queue' \in Seq(Events)
  <2>1. on(i) \in Blocks
    <3>1. CASE i = 1
      BY <1>1, <3>1
    <3>2. CASE i # 1
      <4>1. i - 1 \in 1 .. Len(path)
        BY <1>2, <1>3, <3>2
      <4> QED BY <1>4, <3>2, <4>1
    <3> QED BY <3>1, <3>2
  <2>2. <<Flushed(on(i))>> \in Seq(Events)
    BY <2>1, EventsAre
  <2>3. <<Flushed(on(i))>> \o blocks \in Seq(Events)
    BY <1>5, <2>2
  <2> QED BY <1>4, <1>6, <1>9, <2>3, Enqueued
<1> QED BY <1>7, <1>8, <1>9

LEMMA ValidationStep ==
  ASSUME IInv, Validation \/ Interrupt \/ ShutdownFlush \/ BlockUntilSynced
  PROVE  IInv'
<1>0. tip \in Blocks /\ flushed \in Blocks /\ queue \in Seq(Events) /\ Parent[tip] \in Blocks
  BY Tree DEF IInv, TypeOK
<1>1. CASE DisconnectTip
  <2>1. tip' = Parent[tip] /\ UNCHANGED index /\ FlushInStep(Parent[tip], tip)
    BY <1>1 DEF DisconnectTip
  <2>2. flushed' \in Blocks /\ queue' \in Seq(Events)
    BY <1>0, <2>1, EventsAre, Enqueued DEF FlushInStep
  <2> QED BY <1>0, <2>1, <2>2, SameIndex
<1>2. ASSUME NEW b \in Blocks, ActivateBestChainStep(b) PROVE IInv'
  <2>1. flushed' \in Blocks /\ queue' \in Seq(Events)
    BY <1>2, ActivateQueue
  <2>2. tip' \in Blocks /\ UNCHANGED index
    BY <1>2 DEF ActivateBestChainStep
  <2> QED BY <2>1, <2>2, SameIndex
<1>3. CASE FlushStateToDisk \/ ShutdownFlush
  <2>1. flushed' = tip /\ tip' = tip /\ UNCHANGED index /\ Enqueue(<<Flushed(tip)>>)
    BY <1>3 DEF FlushStateToDisk, ShutdownFlush
  <2> QED BY <1>0, <2>1, EventsAre, Enqueued, SameIndex
<1>4. CASE Interrupt
  BY <1>0, <1>4, SameIndex DEF Interrupt, chain
<1>5. CASE BlockUntilSynced
  <2>1. UNCHANGED chain /\ UNCHANGED index /\ (UNCHANGED queue \/ Enqueue(<<[type |-> "wake"]>>))
    BY <1>5 DEF BlockUntilSynced
  <2>2. queue' \in Seq(Events)
    BY <1>0, <2>1, EventsAre, Enqueued
  <2> QED BY <1>0, <2>1, <2>2, SameIndex DEF chain
<1> QED BY <1>1, <1>2, <1>3, <1>4, <1>5 DEF Validation

LEMMA SkipStep ==
  ASSUME IInv, IgnoreEvent \/ BlockConnectedElsewhere \/ Woken
  PROVE  IInv'
<1>1. UNCHANGED <<tip, flushed>> /\ UNCHANGED index /\ queue # <<>> /\ queue' = Tail(queue)
  BY DEF IgnoreEvent, BlockConnectedElsewhere, Woken, Callback, Event, Dequeue, chain
<1>2. queue' \in Seq(Events) /\ tip \in Blocks /\ flushed \in Blocks
  BY <1>1 DEF IInv, TypeOK
<1> QED BY <1>1, <1>2, SameIndex

(* A commit, wherever it happens, is of the block that is summed up.       *)
LEMMA CommitStep ==
  ASSUME IInv, SyncInterrupted \/ SyncCommit \/ SyncTimed \/ ChainStateFlushed
  PROVE  IInv'
<1>1. UNCHANGED <<tip, flushed, pindex, next, iter, stats, current>>
  BY DEF SyncInterrupted, SyncCommit, SyncTimed, ChainStateFlushed, Sync, Callback, chain
<1>2. queue' \in Seq(Events)
  BY DEF SyncInterrupted, SyncCommit, SyncTimed, ChainStateFlushed, Sync, Callback, Event,
         Dequeue, IInv, TypeOK
<1>3. best' \in MaybeBlock
  BY DEF SyncInterrupted, SyncCommit, SyncTimed, ChainStateFlushed, IInv, TypeOK
<1>4. db' = db \/ Commit(current)
  BY DEF SyncInterrupted, SyncCommit, SyncTimed, ChainStateFlushed, Sync, Callback, IInv, PhaseOK
<1>5. DataOK' /\ db' \in Databases
  <2>1. CASE db' = db
    BY <1>1, <2>1 DEF IInv, TypeOK, DataOK, Total, Kept
  <2>2. CASE Commit(current)
    BY <1>1, <2>2, CommitData DEF IInv
  <2> QED BY <1>4, <2>1, <2>2
<1>6. TypeOK'
  BY <1>1, <1>2, <1>3, <1>5 DEF IInv, TypeOK
<1>7. PhaseOK'
  BY <1>1 DEF SyncInterrupted, SyncCommit, SyncTimed, ChainStateFlushed, Sync, Callback, IInv, PhaseOK
<1> QED BY <1>5, <1>6, <1>7 DEF IInv

(* The next block to index connects to the block indexed last, or below.   *)
LEMMA NextSyncIs ==
  ASSUME NEW p \in MaybeBlock, tip \in Blocks
  PROVE  /\ NextSyncBlock(p) \in MaybeBlock
         /\ NextSyncBlock(p) = Null => p \in Blocks
         /\ NextSyncBlock(p) # Null =>
              \/ p = Prev(NextSyncBlock(p))
              \/ p \in Blocks /\ Prev(NextSyncBlock(p)) \in Ancestors[p]
<1>0. Null \notin Blocks /\ Genesis \in Blocks
  BY BlockAssumption
<1>1. CASE p = Null
  BY <1>0, <1>1 DEF NextSyncBlock, Prev, MaybeBlock
<1>2. CASE p # Null
  <2> DEFINE fork == Fork(p, tip)
  <2>1. p \in Blocks /\ fork \in Ancestors[p] /\ fork \in Ancestors[tip] /\ fork \in Blocks
    BY <1>2, ForkIs, Tree DEF MaybeBlock
  <2>2. NextSyncBlock(p) = IF fork = tip THEN Null ELSE Path(fork, tip)[1]
    BY <1>2 DEF NextSyncBlock
  <2> HIDE DEF fork
  <2>3. CASE fork = tip
    BY <2>1, <2>2, <2>3 DEF MaybeBlock
  <2>4. CASE fork # tip
    <3>1. Height[fork] < Height[tip] /\ Height[fork] \in Nat /\ Height[tip] \in Nat
      BY <2>1, <2>4, Branches, Tree DEF Branch
    <3>2. 1 \in 1 .. Height[tip] - Height[fork]
      BY <3>1
    <3>3. Path(fork, tip)[1] \in Blocks \ {Genesis} /\ Parent[Path(fork, tip)[1]] = fork
      BY <2>1, <3>2, PathIs
    <3> QED BY <1>0, <2>1, <2>2, <2>4, <3>3 DEF Prev, MaybeBlock
  <2> QED BY <2>3, <2>4
<1> QED BY <1>1, <1>2

LEMMA SyncStep ==
  ASSUME IInv, SyncNext \/ SyncCheck
  PROVE  IInv'
<1>1. /\ UNCHANGED <<tip, flushed, queue, pindex, stats, current, db>>
      /\ next' = NextSyncBlock(pindex)
  BY DEF SyncNext, SyncCheck, Sync, chain
<1>2. /\ next' \in MaybeBlock
      /\ next' = Null => pindex \in Blocks
      /\ next' # Null => pindex = Prev(next') \/ (pindex \in Blocks /\ Prev(next') \in Ancestors[pindex])
  BY <1>1, NextSyncIs DEF IInv, TypeOK
<1>3. current = pindex
  BY DEF SyncNext, SyncCheck, Sync, IInv, PhaseOK
<1>4. iter' = pindex
  BY DEF SyncNext, SyncCheck, Sync, IInv, PhaseOK
<1>5. TypeOK'
  BY <1>1, <1>2, <1>4 DEF SyncNext, SyncCheck, IInv, TypeOK
<1>6. DataOK'
  BY <1>1 DEF IInv, DataOK, Total, Kept
<1>7. next' # Null => next' \in Blocks
  BY <1>2 DEF MaybeBlock
<1>8. PhaseOK'
  <2>1. CASE SyncNext
    BY <1>1, <1>2, <1>3, <1>4, <1>7, <2>1 DEF SyncNext, PhaseOK
  <2>2. CASE SyncCheck
    BY <1>1, <1>2, <1>3, <1>4, <1>7, <2>2 DEF SyncCheck, Sync, IInv, PhaseOK
  <2> QED BY <2>1, <2>2
<1> QED BY <1>5, <1>6, <1>8 DEF IInv

LEMMA BlockConnectedStep ==
  ASSUME IInv, BlockConnected
  PROVE  IInv'
<1> DEFINE b == Head(queue).block
<1>1. /\ pc = "ready" /\ synced /\ queue # <<>> /\ Head(queue).type = "BlockConnected"
      /\ Connects(b) /\ next' = b /\ iter' = best /\ pindex' = best /\ pc' = "rewind"
      /\ UNCHANGED <<tip, flushed, synced, best, stats, current, db>> /\ queue' = Tail(queue)
  BY DEF BlockConnected, Event, Callback, Dequeue, chain
<1>2. Head(queue) \in Events /\ queue' \in Seq(Events)
  BY <1>1 DEF IInv, TypeOK
<1>3. b \in Blocks \ {Genesis}
  BY <1>1, <1>2 DEF Events, Connected, Flushed
<1>4. best = current /\ best \in Blocks /\ Parent[b] \in Ancestors[best]
  BY <1>1, <1>3 DEF IInv, PhaseOK, Connects
<1>5. TypeOK'
  BY <1>1, <1>2, <1>3, <1>4 DEF IInv, TypeOK, MaybeBlock
<1>6. PhaseOK'
  BY <1>1, <1>3, <1>4 DEF PhaseOK, Prev
<1>7. DataOK'
  BY <1>1 DEF IInv, DataOK, Total, Kept
<1> QED BY <1>5, <1>6, <1>7 DEF IInv

LEMMA RewindStep ==
  ASSUME IInv, RewindBlock
  PROVE  IInv'
<1>1. /\ pc = "rewind" /\ iter # Prev(next) /\ CustomRemove(iter)
      /\ UNCHANGED <<tip, flushed, queue, best, pindex, next>>
  BY DEF RewindBlock, chain
<1>2. current = iter /\ next \in Blocks /\ iter \in Blocks /\ Prev(next) \in Ancestors[iter]
  BY <1>1 DEF IInv, PhaseOK
<1>3. iter # Genesis
  BY <1>1, <1>2, BlockAssumption
<1>4. Prev(next) \in Ancestors[Parent[iter]] /\ Parent[iter] \in Blocks
  BY <1>1, <1>2, <1>3, Tree
<1>5. PICK b \in Blocks \ {Genesis} : b = iter
  BY <1>2, <1>3
<1>6. CustomRemove(b)
  BY <1>1, <1>5 DEF CustomRemove, CopyHeightIndexToHashIndex, PreviousReadable
<1>7. /\ DataOK' /\ db' \in Databases /\ stats' \in SUBSET Blocks /\ current' \in Blocks
      /\ \/ pc' = "fatal" /\ UNCHANGED <<current, iter>>
         \/ pc' = "rewind" /\ current' = Parent[b] /\ iter' = Parent[b]
  BY <1>1, <1>2, <1>5, <1>6, RemoveData DEF IInv
<1>8. TypeOK'
  BY <1>1, <1>4, <1>5, <1>7 DEF IInv, TypeOK, MaybeBlock
<1>9. PhaseOK'
  <2>1. CASE pc' = "fatal"
    BY <2>1 DEF PhaseOK
  <2>2. CASE pc' = "rewind" /\ current' = Parent[b] /\ iter' = Parent[b]
    BY <1>1, <1>2, <1>4, <1>5, <2>2 DEF PhaseOK, Prev
  <2> QED BY <1>7, <2>1, <2>2
<1> QED BY <1>7, <1>8, <1>9 DEF IInv

LEMMA RewindEndStep ==
  ASSUME IInv, RewindEnd
  PROVE  IInv'
<1>1. /\ pc = "rewind" /\ iter = Prev(next) /\ pc' = "append" /\ best' \in {best, iter}
      /\ UNCHANGED <<tip, flushed, queue, pindex, next, iter, stats, current, db>>
  BY DEF RewindEnd, chain
<1>2. TypeOK'
  BY <1>1 DEF IInv, TypeOK
<1>3. PhaseOK'
  BY <1>1 DEF IInv, PhaseOK, Prev
<1>4. DataOK'
  BY <1>1 DEF IInv, DataOK, Total, Kept
<1> QED BY <1>2, <1>3, <1>4 DEF IInv

LEMMA ProcessStep ==
  ASSUME IInv, ProcessBlock
  PROVE  IInv'
<1>1. /\ pc = "append" /\ UNCHANGED <<tip, flushed, queue, next, iter>>
  BY DEF ProcessBlock, chain
<1>2. current = Prev(next) /\ next \in Blocks
  BY <1>1 DEF IInv, PhaseOK
<1>3. Appendable(next)
  BY <1>2 DEF Appendable, Prev
<1>4. /\ CustomAppend(next) /\ pindex' = next
      /\ \/ pc' = "ready" /\ best' = next
         \/ pc' \in {"top", "timed"} /\ best' = best
  BY <1>3 DEF ProcessBlock
<1>5. PICK b \in Blocks : b = next
  BY <1>2
<1>6. CustomAppend(b)
  BY <1>4, <1>5 DEF CustomAppend
<1>7. DataOK' /\ db' \in Databases /\ stats' \in SUBSET Blocks
  BY <1>2, <1>5, <1>6, AppendData DEF IInv
<1>8. current' = b
  BY <1>6 DEF CustomAppend
<1>9. TypeOK'
  BY <1>1, <1>4, <1>5, <1>7, <1>8 DEF IInv, TypeOK, MaybeBlock
<1>10. PhaseOK'
  BY <1>4, <1>5, <1>8 DEF PhaseOK
<1> QED BY <1>7, <1>9, <1>10 DEF IInv

(* The index starts from what was committed.                               *)
LEMMA RestartStep ==
  ASSUME IInv, Restart
  PROVE  IInv'
<1>1. /\ tip' = flushed /\ flushed' = flushed /\ queue' = <<>> /\ db' = db
      /\ best' = db.locator /\ pindex' = db.locator /\ current' = db.locator
      /\ stats' = db.muhash /\ next' = Null /\ iter' = Null
      /\ pc' \in {"refused", "ready", "top"}
      /\ pc' = "ready" => db.locator = flushed
  BY DEF Restart, InitIndex
<1>2. db.locator \in MaybeBlock /\ db.muhash \in SUBSET Blocks /\ flushed \in Blocks
  BY DEF IInv, TypeOK, Databases
<1>3. TypeOK'
  BY <1>1, <1>2 DEF IInv, TypeOK, MaybeBlock
<1>4. PhaseOK'
  BY <1>1, <1>2 DEF PhaseOK
<1>5. DataOK'
  BY <1>1 DEF IInv, DataOK, Total, Kept
<1> QED BY <1>3, <1>4, <1>5 DEF IInv

LEMMA NextInv == IInv /\ [Next]_vars => IInv'
<1> SUFFICES ASSUME IInv, [Next]_vars PROVE IInv'
  OBVIOUS
<1>1. CASE UNCHANGED vars
  BY <1>1, SameIndex DEF vars, chain, IInv, TypeOK
<1>2. CASE Thread
  BY <1>2, CommitStep, SyncStep, RewindStep, RewindEndStep, ProcessStep DEF Thread
<1>3. CASE Callbacks
  BY <1>3, SkipStep, CommitStep, BlockConnectedStep DEF Callbacks
<1>4. CASE Validation \/ BlockUntilSynced \/ Interrupt \/ ShutdownFlush
  BY <1>4, ValidationStep
<1>5. CASE Shutdown \/ Crash
  BY <1>5, RestartStep DEF Shutdown, Crash
<1> QED BY <1>1, <1>2, <1>3, <1>4, <1>5 DEF Next

-----------------------------------------------------------------------------
LEMMA InvImplies == IInv => IndexConsistent
<1> SUFFICES ASSUME IInv PROVE IndexConsistent
  OBVIOUS
<1>1. CommittedReadable
  <2> SUFFICES ASSUME db.locator # Null
               PROVE  LookUpOne(db.locator) = db.muhash /\ db.muhash = Ancestors[db.locator]
    BY DEF CommittedReadable
  <2> DEFINE b == db.locator
  <2>1. b \in Blocks /\ b \in Ancestors[b] /\ Height[b] \in Heights
    BY Branches, Tree DEF IInv, TypeOK, Databases, MaybeBlock, Branch
  <2>2. db.muhash = Ancestors[b] /\ Kept(b)
    BY <2>1 DEF IInv, DataOK, Total
  <2>3. LookUpOne(b) = Ancestors[b]
    BY <2>1, <2>2, BlockAssumption DEF IInv, DataOK, LookUpOne, Kept
  <2> QED BY <2>2, <2>3
<1>2. TotalsOfBest
  BY BlockAssumption DEF TotalsOfBest, Quiet, IInv, PhaseOK, DataOK, Total
<1> QED BY <1>1, <1>2 DEF IndexConsistent

(* However the chain was reorganised and wherever the process died, what   *)
(* CustomInit reads after a restart is there and matches the running hash, *)
(* and the totals of a running index are those of its best block.          *)
THEOREM IndexCorrect == Spec => []IndexConsistent
BY InitInv, NextInv, InvImplies, PTL DEF Spec

-----------------------------------------------------------------------------
(* Where the notifications lead.  Those of connected blocks form a chain   *)
(* of moves: each block connects to the one before it or below.  So once   *)
(* one of them connects to the index all later ones do, and the last of    *)
(* them is at the tip or above.                                            *)

Conn(q, i) == q[i].type = "BlockConnected"

Linked(q) ==
  \A i, j \in DOMAIN q :
    (i < j /\ Conn(q, i) /\ Conn(q, j) /\ \A k \in DOMAIN q : i < k /\ k < j => ~Conn(q, k))
      => Parent[q[j].block] \in Ancestors[q[i].block]

(* The last block among the first n notifications is t or above it.        *)
LeadsTo(q, n, t) ==
  \A i \in DOMAIN q :
    (i <= n /\ Conn(q, i) /\ \A k \in DOMAIN q : i < k /\ k <= n => ~Conn(q, k))
      => t \in Ancestors[q[i].block]

(* An index at x has t, or takes one of them.                              *)
StartsAt(q, n, t, x) ==
  \/ t \in Ancestors[x]
  \/ \E i \in DOMAIN q : i <= n /\ Conn(q, i) /\ Parent[q[i].block] \in Ancestors[x]

(* The entry of the block stays readable until the process ends.           *)
Safe(b) == b \in Total(current) \/ db.hash[b] # Null

Working == synced /\ pc \in {"ready", "rewind", "append"}
At == IF pc \in {"rewind", "append"} THEN next ELSE best

QueueLeads ==
  /\ Linked(queue) /\ LeadsTo(queue, Len(queue), tip)
  /\ Working => StartsAt(queue, Len(queue), tip, At)

(* Only the notifications move an index that is in sync.                   *)
SyncedPhase ==
  /\ pc = "ready" => synced
  /\ synced => pc \in {"ready", "rewind", "append", "fatal", "refused"}
  /\ Working => best \in Blocks /\ (pc # "ready" => next # Genesis)

BestSafe == \A b \in Total(best) : Safe(b)

WaiterOK ==
  /\ waiter # Null => waiter \in [tip : Blocks, done : BOOLEAN]
  /\ waiter # Null /\ waiter.done => Safe(waiter.tip)
  /\ \A w \in DOMAIN queue : queue[w].type = "wake" =>
       /\ synced /\ waiter # Null
       /\ \/ Safe(waiter.tip)
          \/ /\ LeadsTo(queue, w, waiter.tip)
             /\ Working => StartsAt(queue, w, waiter.tip, At)

JInv == SyncedPhase /\ QueueLeads /\ BestSafe /\ WaiterOK

-----------------------------------------------------------------------------
(* Queues *)

(* The least index of a set.                                               *)
LEMMA Least == ASSUME NEW S, S \subseteq Nat, S # {} PROVE \E x \in S : \A y \in S : x <= y
<1>1. PICK x \in S : \A y \in S : ~(<<y, x>> \in OpToRel(<, Nat))
  BY WFMin, NatLessThanWellFounded
<1>2. x \in Nat /\ \A y \in S : y \in Nat /\ ~(y < x)
  BY <1>1 DEF OpToRel
<1> QED BY <1>2

LEMMA TailIs ==
  ASSUME NEW q \in Seq(Events), q # <<>>
  PROVE  /\ Tail(q) \in Seq(Events) /\ Len(Tail(q)) = Len(q) - 1 /\ Len(q) \in Nat \ {0}
         /\ DOMAIN q = 1 .. Len(q) /\ DOMAIN Tail(q) = 1 .. Len(q) - 1
         /\ \A i \in DOMAIN Tail(q) : i + 1 \in DOMAIN q /\ Tail(q)[i] = q[i + 1]
         /\ \A i \in DOMAIN q : i # 1 => i - 1 \in DOMAIN Tail(q) /\ Tail(q)[i - 1] = q[i]
         /\ Head(q) = q[1]
OBVIOUS

LEMMA TailLinked ==
  ASSUME NEW q \in Seq(Events), q # <<>>, Linked(q) PROVE Linked(Tail(q))
<1> DEFINE r == Tail(q)
<1>0. /\ DOMAIN q = 1 .. Len(q) /\ DOMAIN r = 1 .. Len(q) - 1 /\ Len(q) \in Nat
      /\ \A i \in DOMAIN r : i + 1 \in DOMAIN q /\ r[i] = q[i + 1]
  BY TailIs
<1>1. \A i \in DOMAIN q : i # 1 => i - 1 \in DOMAIN r /\ r[i - 1] = q[i]
  BY TailIs
<1> HIDE DEF r
<1>2. SUFFICES ASSUME NEW i \in DOMAIN r, NEW j \in DOMAIN r, i < j, Conn(r, i), Conn(r, j),
                      \A k \in DOMAIN r : i < k /\ k < j => ~Conn(r, k)
               PROVE  Parent[r[j].block] \in Ancestors[r[i].block]
  BY DEF Linked, r
<1>3. /\ i + 1 \in DOMAIN q /\ j + 1 \in DOMAIN q /\ i + 1 < j + 1
      /\ Conn(q, i + 1) /\ Conn(q, j + 1)
  BY <1>0, <1>2 DEF Conn
<1>4. ASSUME NEW k \in DOMAIN q, i + 1 < k, k < j + 1 PROVE ~Conn(q, k)
  <2>1. k - 1 \in DOMAIN r /\ r[k - 1] = q[k] /\ i < k - 1 /\ k - 1 < j
    BY <1>0, <1>1, <1>4
  <2> QED BY <1>2, <2>1 DEF Conn
<1>5. Parent[q[j + 1].block] \in Ancestors[q[i + 1].block]
  BY <1>3, <1>4 DEF Linked
<1> QED BY <1>0, <1>5

LEMMA TailLeads ==
  ASSUME NEW q \in Seq(Events), q # <<>>, NEW n \in Nat \ {0}, NEW t, LeadsTo(q, n, t)
  PROVE  LeadsTo(Tail(q), n - 1, t)
<1> DEFINE r == Tail(q)
<1>0. /\ DOMAIN q = 1 .. Len(q) /\ DOMAIN r = 1 .. Len(q) - 1 /\ Len(q) \in Nat
      /\ \A i \in DOMAIN r : i + 1 \in DOMAIN q /\ r[i] = q[i + 1]
  BY TailIs
<1>1. \A i \in DOMAIN q : i # 1 => i - 1 \in DOMAIN r /\ r[i - 1] = q[i]
  BY TailIs
<1> HIDE DEF r
<1>2. SUFFICES ASSUME NEW i \in DOMAIN r, i <= n - 1, Conn(r, i),
                      \A k \in DOMAIN r : i < k /\ k <= n - 1 => ~Conn(r, k)
               PROVE  t \in Ancestors[r[i].block]
  BY DEF LeadsTo, r
<1>3. i + 1 \in DOMAIN q /\ i + 1 <= n /\ Conn(q, i + 1)
  BY <1>0, <1>2 DEF Conn
<1>4. ASSUME NEW k \in DOMAIN q, i + 1 < k, k <= n PROVE ~Conn(q, k)
  <2>1. k - 1 \in DOMAIN r /\ r[k - 1] = q[k] /\ i < k - 1 /\ k - 1 <= n - 1
    BY <1>0, <1>1, <1>4
  <2> QED BY <1>2, <2>1 DEF Conn
<1>5. t \in Ancestors[q[i + 1].block]
  BY <1>3, <1>4 DEF LeadsTo
<1> QED BY <1>0, <1>5

(* A notification that the index does not take leaves the others.          *)
LEMMA TailStarts ==
  ASSUME NEW q \in Seq(Events), q # <<>>, NEW n \in Nat \ {0}, NEW t, NEW x,
         StartsAt(q, n, t, x), Conn(q, 1) => Parent[q[1].block] \notin Ancestors[x]
  PROVE  StartsAt(Tail(q), n - 1, t, x)
<1> DEFINE r == Tail(q)
<1>1. /\ \A i \in DOMAIN q : i \in Nat /\ (i # 1 => i - 1 \in DOMAIN r /\ r[i - 1] = q[i])
  BY TailIs
<1> HIDE DEF r
<1>2. CASE t \in Ancestors[x]
  BY <1>2 DEF StartsAt
<1>3. ASSUME NEW i \in DOMAIN q, i <= n, Conn(q, i), Parent[q[i].block] \in Ancestors[x]
      PROVE  StartsAt(r, n - 1, t, x)
  <2>1. i # 1
    BY <1>3
  <2>2. i - 1 \in DOMAIN r /\ i - 1 <= n - 1 /\ Conn(r, i - 1)
        /\ Parent[r[i - 1].block] \in Ancestors[x]
    BY <1>1, <1>3, <2>1 DEF Conn
  <2> QED BY <2>2 DEF StartsAt
<1> QED BY <1>2, <1>3 DEF StartsAt, r

(* One that the index takes leads it on.                                   *)
LEMMA TailTaken ==
  ASSUME NEW q \in Seq(Events), q # <<>>, NEW n \in Nat \ {0}, NEW t,
         Linked(q), LeadsTo(q, n, t), Conn(q, 1)
  PROVE  StartsAt(Tail(q), n - 1, t, q[1].block)
<1> DEFINE r == Tail(q)
           S == {i \in DOMAIN q : i # 1 /\ i <= n /\ Conn(q, i)}
<1>1. /\ \A i \in DOMAIN q : i \in Nat /\ i >= 1 /\ (i # 1 => i - 1 \in DOMAIN r /\ r[i - 1] = q[i])
      /\ 1 \in DOMAIN q
  BY TailIs
<1> HIDE DEF r
<1>2. CASE S = {}
  <2>1. \A k \in DOMAIN q : 1 < k /\ k <= n => ~Conn(q, k)
    BY <1>1, <1>2
  <2>2. t \in Ancestors[q[1].block]
    BY <1>1, <2>1 DEF LeadsTo
  <2> QED BY <2>2 DEF StartsAt
<1>3. CASE S # {}
  <2>1. PICK j \in S : \A y \in S : j <= y
    BY <1>1, <1>3, Least
  <2>2. j \in DOMAIN q /\ 1 < j /\ j <= n /\ Conn(q, j)
    BY <1>1, <2>1
  <2>3. \A k \in DOMAIN q : 1 < k /\ k < j => ~Conn(q, k)
    BY <1>1, <2>1, <2>2
  <2>4. Parent[q[j].block] \in Ancestors[q[1].block]
    BY <1>1, <2>2, <2>3 DEF Linked
  <2>5. j - 1 \in DOMAIN r /\ j - 1 <= n - 1 /\ Conn(r, j - 1)
        /\ Parent[r[j - 1].block] \in Ancestors[q[1].block]
    BY <1>1, <2>2, <2>4 DEF Conn
  <2> QED BY <2>5 DEF StartsAt, r
<1> QED BY <1>2, <1>3

(* What is appended does not matter to the notifications before.           *)
LEMMA ConcatIs ==
  ASSUME NEW q \in Seq(Events), NEW e \in Seq(Events)
  PROVE  /\ q \o e \in Seq(Events) /\ Len(q \o e) = Len(q) + Len(e)
         /\ Len(q) \in Nat /\ Len(e) \in Nat
         /\ DOMAIN q = 1 .. Len(q) /\ DOMAIN e = 1 .. Len(e)
         /\ DOMAIN (q \o e) = 1 .. Len(q) + Len(e)
         /\ \A i \in DOMAIN q : (q \o e)[i] = q[i]
         /\ \A i \in DOMAIN e : (q \o e)[Len(q) + i] = e[i]
OBVIOUS

LEMMA ConcatBefore ==
  ASSUME NEW q \in Seq(Events), NEW e \in Seq(Events), NEW n \in 0 .. Len(q), NEW t, NEW x
  PROVE  /\ LeadsTo(q, n, t) => LeadsTo(q \o e, n, t)
         /\ StartsAt(q, n, t, x) => StartsAt(q \o e, n, t, x)
<1> DEFINE r == q \o e
<1>1. /\ Len(q) \in Nat /\ Len(e) \in Nat /\ DOMAIN q = 1 .. Len(q)
      /\ DOMAIN r = 1 .. Len(q) + Len(e) /\ \A i \in DOMAIN q : r[i] = q[i]
  BY ConcatIs
<1> HIDE DEF r
<1>2. \A i \in DOMAIN q : i \in DOMAIN r /\ (Conn(r, i) <=> Conn(q, i))
  BY <1>1 DEF Conn
<1>3. \A i \in DOMAIN r : i <= n => i \in DOMAIN q
  BY <1>1
<1>4. LeadsTo(q, n, t) => LeadsTo(r, n, t)
  <2> SUFFICES ASSUME LeadsTo(q, n, t), NEW i \in DOMAIN r, i <= n, Conn(r, i),
                      \A k \in DOMAIN r : i < k /\ k <= n => ~Conn(r, k)
               PROVE  t \in Ancestors[r[i].block]
    BY DEF LeadsTo
  <2>1. i \in DOMAIN q /\ Conn(q, i) /\ \A k \in DOMAIN q : i < k /\ k <= n => ~Conn(q, k)
    BY <1>2, <1>3
  <2> QED BY <1>1, <2>1 DEF LeadsTo
<1>5. StartsAt(q, n, t, x) => StartsAt(r, n, t, x)
  BY <1>1, <1>2 DEF StartsAt
<1> QED BY <1>4, <1>5 DEF r

(* A notification of another kind is appended.                             *)
LEMMA AppendOther ==
  ASSUME NEW q \in Seq(Events), NEW e \in Events, e.type # "BlockConnected", NEW t, NEW x
  PROVE  /\ Linked(q) => Linked(q \o <<e>>)
         /\ LeadsTo(q, Len(q), t) => LeadsTo(q \o <<e>>, Len(q \o <<e>>), t)
         /\ StartsAt(q, Len(q), t, x) => StartsAt(q \o <<e>>, Len(q \o <<e>>), t, x)
<1> DEFINE r == q \o <<e>>
           n == Len(q)
<1>1. /\ n \in Nat /\ Len(r) = n + 1 /\ DOMAIN q = 1 .. n
      /\ DOMAIN r = 1 .. n + 1 /\ (\A i \in DOMAIN q : r[i] = q[i]) /\ r[n + 1] = e
  OBVIOUS
<1> HIDE DEF r, n
<1>2. \A i \in DOMAIN r : Conn(r, i) <=> (i \in DOMAIN q /\ Conn(q, i))
  BY <1>1 DEF Conn
<1>3. \A i \in DOMAIN q : i \in DOMAIN r /\ i <= n /\ i <= n + 1
  BY <1>1
<1>4. Linked(q) => Linked(r)
  <2> SUFFICES ASSUME Linked(q), NEW i \in DOMAIN r, NEW j \in DOMAIN r, i < j,
                      Conn(r, i), Conn(r, j),
                      \A k \in DOMAIN r : i < k /\ k < j => ~Conn(r, k)
               PROVE  Parent[r[j].block] \in Ancestors[r[i].block]
    BY DEF Linked
  <2>1. /\ i \in DOMAIN q /\ j \in DOMAIN q /\ Conn(q, i) /\ Conn(q, j)
        /\ \A k \in DOMAIN q : i < k /\ k < j => ~Conn(q, k)
    BY <1>2, <1>3
  <2>2. Parent[q[j].block] \in Ancestors[q[i].block]
    BY <2>1 DEF Linked
  <2> QED BY <1>1, <2>1, <2>2
<1>5. LeadsTo(q, n, t) => LeadsTo(r, n + 1, t)
  <2> SUFFICES ASSUME LeadsTo(q, n, t), NEW i \in DOMAIN r, Conn(r, i),
                      \A k \in DOMAIN r : i < k /\ k <= n + 1 => ~Conn(r, k)
               PROVE  t \in Ancestors[r[i].block]
    BY DEF LeadsTo
  <2>1. i \in DOMAIN q /\ i <= n /\ Conn(q, i) /\ \A k \in DOMAIN q : i < k /\ k <= n => ~Conn(q, k)
    BY <1>2, <1>3
  <2> QED BY <1>1, <2>1 DEF LeadsTo
<1>6. StartsAt(q, n, t, x) => StartsAt(r, n + 1, t, x)
  BY <1>1, <1>2, <1>3 DEF StartsAt
<1> QED BY <1>1, <1>4, <1>5, <1>6 DEF r, n

LEMMA ConnBlock ==
  ASSUME NEW q \in Seq(Events), NEW i \in DOMAIN q, Conn(q, i)
  PROVE  q[i].block \in Blocks
<1>1. q[i] \in Events
  OBVIOUS
<1> QED BY <1>1 DEF Conn, Events, Connected, Flushed

LEMMA Below ==
  ASSUME NEW c \in Blocks, NEW a \in Ancestors[c]
  PROVE  a \in Blocks /\ Ancestors[a] \subseteq Ancestors[c] /\ a \in Ancestors[a]
<1>1. a \in Blocks /\ Ancestors[a] \subseteq Ancestors[c]
  BY Branches, Tree DEF Branch
<1> QED BY <1>1, Branches DEF Branch

LEMMA PathLinks ==
  ASSUME NEW b \in Blocks, NEW f \in Ancestors[b], f # b
  PROVE  /\ Len(Path(f, b)) \in Nat \ {0} /\ Path(f, b)[Len(Path(f, b))] = b
         /\ \A i \in 1 .. Len(Path(f, b)) : Path(f, b)[i] \in Blocks \ {Genesis}
         /\ Parent[Path(f, b)[1]] = f
         /\ \A i \in 1 .. Len(Path(f, b)) : i # 1 => Parent[Path(f, b)[i]] = Path(f, b)[i - 1]
<1> DEFINE n == Height[b] - Height[f]
           path == Path(f, b)
<1>1. f \in Blocks /\ Height[f] \in Nat /\ Height[b] \in Nat /\ Height[f] < Height[b]
  BY Branches, Tree DEF Branch
<1>2. n \in Nat \ {0} /\ Len(path) = n
  BY <1>1 DEF Path
<1>3. ASSUME NEW i \in 1 .. n
      PROVE  path[i] \in Ancestors[b] /\ Height[path[i]] = Height[f] + i
  <2>1. Height[f] + i \in 0 .. Height[b]
    BY <1>1
  <2> QED BY <2>1, Branches DEF Path, Branch
<1>4. \A c, d \in Ancestors[b] : Height[c] = Height[d] => c = d
  BY Branches DEF Branch
<1>5. b \in Ancestors[b]
  BY Branches DEF Branch
<1>6. \A i \in 1 .. n : path[i] \in Blocks \ {Genesis} /\ (i = 1 => Parent[path[i]] = f)
  BY PathIs
<1> HIDE DEF path
<1>7. path[n] = b
  <2>1. n \in 1 .. n /\ Height[f] + n = Height[b]
    BY <1>1, <1>2
  <2> QED BY <1>3, <1>4, <1>5, <2>1
<1>8. ASSUME NEW i \in 1 .. n, i # 1 PROVE Parent[path[i]] = path[i - 1]
  <2>1. i - 1 \in 1 .. n
    BY <1>2, <1>8
  <2>2. path[i] \in Blocks \ {Genesis} /\ path[i] \in Ancestors[b] /\ Height[path[i]] = Height[f] + i
        /\ path[i - 1] \in Ancestors[b] /\ Height[path[i - 1]] = Height[f] + (i - 1)
    BY <1>3, <1>6, <2>1
  <2>3. Parent[path[i]] \in Ancestors[b]
    <3>1. Parent[path[i]] \in Ancestors[path[i]]
      BY <2>2, Tree, Branches DEF Branch
    <3> QED BY <2>2, <3>1, Below
  <2>4. Height[path[i]] = Height[Parent[path[i]]] + 1 /\ Height[Parent[path[i]]] \in Nat
    BY <2>2, Tree
  <2>5. Height[Parent[path[i]]] = Height[path[i - 1]]
    BY <1>1, <2>2, <2>4
  <2> QED BY <1>4, <2>2, <2>3, <2>5
<1>9. 1 \in 1 .. n
  BY <1>2
<1> HIDE DEF n
<1> QED BY <1>2, <1>6, <1>7, <1>8, <1>9 DEF path

(* The blocks of a step of ActivateBestChain are appended.                 *)
LEMMA AppendPath ==
  ASSUME NEW q \in Seq(Events), NEW t \in Blocks, NEW b \in Blocks,
         NEW f \in Ancestors[t], f \in Ancestors[b], f # b,
         NEW path, path = Path(f, b),
         NEW e \in Seq(Events), e = [i \in 1 .. Len(path) |-> Connected(path[i])],
         Linked(q), LeadsTo(q, Len(q), t)
  PROVE  /\ Linked(q \o e) /\ LeadsTo(q \o e, Len(q \o e), b)
         /\ \A x \in Blocks : StartsAt(q, Len(q), t, x) => StartsAt(q \o e, Len(q \o e), b, x)
<1> DEFINE r == q \o e
           n == Len(q)
           m == Len(path)
<1>0. /\ m \in Nat \ {0} /\ path[m] = b
      /\ \A i \in 1 .. m : path[i] \in Blocks \ {Genesis}
      /\ Parent[path[1]] = f
      /\ \A i \in 1 .. m : i # 1 => Parent[path[i]] = path[i - 1]
  BY PathLinks
<1> HIDE DEF m
<1>1. /\ n \in Nat /\ Len(e) = m /\ DOMAIN q = 1 .. n /\ DOMAIN e = 1 .. m
      /\ DOMAIN r = 1 .. n + m /\ Len(r) = n + m
      /\ \A i \in DOMAIN q : r[i] = q[i]
      /\ \A i \in DOMAIN e : r[n + i] = e[i]
  <2>1. DOMAIN e = 1 .. m /\ m \in Nat
    BY <1>0 DEF m
  <2>2. Len(e) = m
    BY <1>0, <2>1
  <2> QED BY <2>1, <2>2, ConcatIs
<1> HIDE DEF r, n
<1>2. \A i \in 1 .. m : e[i] = Connected(path[i])
  BY DEF m
<1>3. ASSUME NEW i \in DOMAIN r, i > n
      PROVE  /\ Conn(r, i) /\ i - n \in 1 .. m /\ r[i].block = path[i - n]
  <2>1. i - n \in 1 .. m /\ n + (i - n) = i
    BY <1>0, <1>1, <1>3
  <2>2. r[i] = Connected(path[i - n])
    BY <1>1, <1>2, <2>1
  <2> QED BY <2>1, <2>2 DEF Conn, Connected
<1>4. \A i \in DOMAIN r : i <= n => i \in DOMAIN q /\ (Conn(r, i) <=> Conn(q, i)) /\ r[i] = q[i]
  BY <1>0, <1>1 DEF Conn
<1>5. n + 1 \in DOMAIN r /\ n + 1 > n /\ n + m \in DOMAIN r /\ n + m > n
  BY <1>0, <1>1
<1>6. ASSUME NEW i \in DOMAIN r, NEW j \in DOMAIN r, i < j, Conn(r, i), Conn(r, j),
             \A k \in DOMAIN r : i < k /\ k < j => ~Conn(r, k)
      PROVE  Parent[r[j].block] \in Ancestors[r[i].block]
  <2>0. i \in Nat /\ j \in Nat
    BY <1>0, <1>1
  <2>1. CASE j <= n
    <3>1. i <= n
      BY <1>1, <1>6, <2>0, <2>1
    <3>2. /\ i \in DOMAIN q /\ j \in DOMAIN q /\ Conn(q, i) /\ Conn(q, j)
          /\ r[i] = q[i] /\ r[j] = q[j]
      BY <1>4, <1>6, <2>1, <3>1
    <3>3. ASSUME NEW k \in DOMAIN q, i < k, k < j PROVE ~Conn(q, k)
      <4>1. k \in DOMAIN r /\ k <= n
        BY <1>0, <1>1
      <4> QED BY <1>4, <1>6, <3>3, <4>1
    <3>4. Parent[q[j].block] \in Ancestors[q[i].block]
      BY <1>6, <3>2, <3>3 DEF Linked
    <3> QED BY <3>2, <3>4
  <2>2. CASE j > n /\ i > n
    <3>1. i + 1 \in DOMAIN r /\ i + 1 > n
      BY <1>1, <1>6, <2>0, <2>2
    <3>2. i + 1 = j
      <4>1. Conn(r, i + 1)
        BY <1>3, <3>1
      <4>2. ~(i < i + 1 /\ i + 1 < j)
        BY <1>6, <3>1, <4>1
      <4> QED BY <1>6, <2>0, <4>2
    <3>3. /\ i - n \in 1 .. m /\ r[i].block = path[i - n]
          /\ j - n \in 1 .. m /\ r[j].block = path[j - n]
      BY <1>3, <2>2
    <3>4. j - n # 1 /\ (j - n) - 1 = i - n
      BY <1>1, <2>0, <3>2, <3>3
    <3>5. Parent[path[j - n]] = path[i - n]
      BY <1>0, <3>3, <3>4
    <3>6. path[i - n] \in Ancestors[path[i - n]]
      BY <1>0, <3>3, Branches DEF Branch
    <3> QED BY <3>3, <3>5, <3>6
  <2>3. CASE j > n /\ i <= n
    <3>1. j = n + 1
      <4>1. Conn(r, n + 1)
        BY <1>3, <1>5
      <4>2. ~(i < n + 1 /\ n + 1 < j)
        BY <1>5, <1>6, <4>1
      <4>3. n \in Nat
        BY <1>1
      <4> QED BY <2>0, <2>3, <4>2, <4>3
    <3>2. j - n = 1 /\ r[j].block = path[j - n]
      <4>1. n \in Nat
        BY <1>1
      <4>2. j - n = 1
        BY <3>1, <4>1
      <4>3. r[j].block = path[j - n]
        BY <1>3, <2>3
      <4> QED BY <4>2, <4>3
    <3>3. Parent[r[j].block] = f
      BY <1>0, <3>2
    <3>4. i \in DOMAIN q /\ Conn(q, i) /\ r[i] = q[i] /\ i <= n
      BY <1>4, <1>6, <2>3
    <3>5. ASSUME NEW k \in DOMAIN q, i < k, k <= n PROVE ~Conn(q, k)
      <4>1. k \in DOMAIN r /\ k <= n /\ k < j
        BY <1>0, <1>1, <3>1
      <4> QED BY <1>4, <1>6, <3>5, <4>1
    <3>6. t \in Ancestors[q[i].block]
      BY <3>4, <3>5 DEF LeadsTo, n
    <3>7. f \in Ancestors[q[i].block]
      BY <3>4, <3>6, ConnBlock, Below
    <3> QED BY <3>3, <3>4, <3>7
  <2> QED BY <1>1, <2>0, <2>1, <2>2, <2>3
<1>7. Linked(r)
  BY <1>6 DEF Linked
<1>8. LeadsTo(r, n + m, b)
  <2> SUFFICES ASSUME NEW i \in DOMAIN r, \A k \in DOMAIN r : i < k /\ k <= n + m => ~Conn(r, k)
               PROVE  b \in Ancestors[r[i].block]
    BY DEF LeadsTo
  <2>1. i = n + m
    <3>1. Conn(r, n + m)
      BY <1>3, <1>5
    <3>2. n + m <= n + m
      BY <1>0, <1>1
    <3>3. ~(i < n + m)
      BY <1>5, <3>1, <3>2
    <3>4. n \in Nat /\ m \in Nat /\ i \in 1 .. n + m
      BY <1>0, <1>1
    <3> HIDE DEF n
    <3> QED BY <3>3, <3>4
  <2>2. r[i].block = path[m]
    <3>1. i - n = m
      BY <1>0, <1>1, <2>1
    <3> QED BY <1>3, <1>5, <2>1, <3>1
  <2> QED BY <1>0, <2>2, Branches DEF Branch
<1>9. ASSUME NEW x \in Blocks, StartsAt(q, n, t, x) PROVE StartsAt(r, n + m, b, x)
  <2>1. CASE t \in Ancestors[x]
    <3>1. f \in Ancestors[x]
      BY <2>1, Below
    <3>2. Conn(r, n + 1) /\ r[n + 1].block = path[1]
      <4>1. (n + 1) - n = 1
        BY <1>1
      <4> QED BY <1>3, <1>5, <4>1
    <3>3. n + 1 <= n + m
      BY <1>0, <1>1
    <3> QED BY <1>0, <1>5, <3>1, <3>2, <3>3 DEF StartsAt
  <2>2. ASSUME NEW i \in DOMAIN q, Conn(q, i), Parent[q[i].block] \in Ancestors[x]
        PROVE  StartsAt(r, n + m, b, x)
    <3>1. i \in DOMAIN r /\ i <= n + m /\ i <= n
      BY <1>0, <1>1
    <3>2. Conn(r, i) /\ Parent[r[i].block] \in Ancestors[x]
      BY <1>4, <2>2, <3>1
    <3> QED BY <3>1, <3>2 DEF StartsAt
  <2> QED BY <1>9, <2>1, <2>2 DEF StartsAt
<1> QED BY <1>1, <1>7, <1>8, <1>9 DEF r, n

-----------------------------------------------------------------------------
(* What stays readable *)

LEMMA SafeReadable ==
  ASSUME IInv, NEW b \in Blocks, Safe(b)
  PROVE  LookUpOne(b) = Ancestors[b]
<1>1. Kept(b)
  BY DEF IInv, DataOK, Safe, Kept
<1>2. Height[b] \in Heights /\ b # Null
  BY Tree
<1> QED BY <1>1, <1>2 DEF IInv, DataOK, LookUpOne, Kept

(* Nothing that is readable is lost, but in a restart.                     *)
Steady == Validation \/ Thread \/ Callbacks \/ BlockUntilSynced \/ Interrupt \/ ShutdownFlush

LEMMA SafeStays ==
  ASSUME IInv, Steady, NEW b \in Blocks, Safe(b)
  PROVE  Safe(b)'
<1>1. CASE UNCHANGED <<current, db>>
  BY <1>1 DEF Safe, Total
<1>2. ASSUME NEW c, Commit(c), current' = current PROVE Safe(b)'
  <2>1. db'.hash = db.hash
    BY <1>2 DEF Commit, IInv, TypeOK, Databases
  <2> QED BY <1>2, <2>1 DEF Safe, Total
<1>3. CASE SyncInterrupted \/ SyncCommit \/ SyncTimed
  BY <1>2, <1>3 DEF SyncInterrupted, SyncCommit, SyncTimed
<1>4. CASE ChainStateFlushed
  BY <1>1, <1>2, <1>4 DEF ChainStateFlushed
<1>5. CASE RewindBlock
  <2>1. /\ pc = "rewind" /\ iter # Prev(next) /\ CustomRemove(iter)
    BY <1>5 DEF RewindBlock
  <2>2. current = iter /\ iter \in Blocks /\ Prev(next) \in Ancestors[iter] /\ iter # Genesis
    BY <2>1, BlockAssumption DEF IInv, PhaseOK
  <2> DEFINE entry == db.height[Height[iter]]
  <2>3. Height[iter] \in Heights /\ iter # Null /\ Ancestors[iter] = {iter} \cup Ancestors[Parent[iter]]
        /\ Parent[iter] \in Blocks /\ Parent[iter] # Null
    BY <2>2, Tree
  <2>4. entry \in [block : MaybeBlock, stats : SUBSET Blocks]
    BY <2>3 DEF IInv, TypeOK, Databases
  <2>5. db'.hash = [db.hash EXCEPT ![entry.block] = entry.stats]
    BY <2>1 DEF CustomRemove, CopyHeightIndexToHashIndex, IInv, TypeOK, Databases
  <2>6. entry.block # Null => entry.stats = Ancestors[entry.block]
    BY <2>3 DEF IInv, DataOK
  <2>7. Kept(iter) /\ db.hash \in [Blocks -> (SUBSET Blocks) \cup {Null}]
    <3>1. iter \in Ancestors[iter] /\ Total(current) = Ancestors[iter]
      BY <2>2, <2>3, Branches DEF Total, Branch
    <3> QED BY <3>1 DEF IInv, DataOK, TypeOK, Databases
  <2>8. (entry.block = iter) \/ db.hash[iter] # Null
    BY <2>7 DEF Kept
  <2> HIDE DEF entry
  <2>9. \A c \in Blocks : db'.hash[c] = IF c = entry.block THEN entry.stats ELSE db.hash[c]
    BY <2>5, <2>7
  <2>10. \A c \in Blocks : Ancestors[c] # Null /\ c # Null
    BY Tree
  <2>11. (db.hash[b] # Null => db'.hash[b] # Null) /\ db'.hash[iter] # Null
    BY <2>2, <2>6, <2>8, <2>9, <2>10
  <2>12. current' = iter \/ current' = Parent[iter]
    BY <2>1, <2>2 DEF CustomRemove
  <2> QED BY <2>2, <2>3, <2>11, <2>12 DEF Safe, Total
<1>6. CASE ProcessBlock
  <2>1. current = Prev(next) /\ next \in Blocks
    BY <1>6 DEF ProcessBlock, IInv, PhaseOK
  <2>2. CustomAppend(next)
    BY <1>6, <2>1 DEF ProcessBlock, Appendable, Prev
  <2>3. current' = next /\ db'.hash = db.hash
    BY <2>2 DEF CustomAppend, IInv, TypeOK, Databases
  <2>4. Total(current) \subseteq Total(next)
    BY <2>1, Tree DEF Total, Prev
  <2> QED BY <2>3, <2>4 DEF Safe
<1>7. CASE Validation \/ BlockUntilSynced \/ Interrupt \/ ShutdownFlush
  BY <1>1, <1>7 DEF Validation, DisconnectTip, ActivateBestChainStep, FlushStateToDisk,
     BlockUntilSynced, Interrupt, ShutdownFlush, index
<1>8. CASE SyncNext \/ SyncCheck \/ RewindEnd
  BY <1>1, <1>8 DEF SyncNext, SyncCheck, RewindEnd
<1>9. CASE IgnoreEvent \/ BlockConnected \/ BlockConnectedElsewhere \/ Woken
  BY <1>1, <1>9 DEF IgnoreEvent, BlockConnected, BlockConnectedElsewhere, Woken, index
<1> QED BY <1>3, <1>4, <1>5, <1>6, <1>7, <1>8, <1>9 DEF Steady, Thread, Callbacks

(* The best block is where the totals are, or where it was before.         *)
LEMMA BestMoves == ASSUME IInv, [Next]_vars PROVE best' = best \/ best' = current'
<1>1. CASE SyncInterrupted \/ SyncNext \/ SyncTimed
  BY <1>1 DEF SyncInterrupted, SyncNext, SyncTimed, Sync, IInv, PhaseOK
<1>2. CASE RewindEnd
  BY <1>2 DEF RewindEnd, IInv, PhaseOK
<1>3. CASE ProcessBlock
  BY <1>3 DEF ProcessBlock, CustomAppend
<1>4. CASE Restart
  BY <1>4 DEF Restart, InitIndex
<1>5. CASE SyncCommit \/ SyncCheck \/ RewindBlock
  BY <1>5 DEF SyncCommit, SyncCheck, RewindBlock
<1>6. CASE Callbacks
  BY <1>6 DEF Callbacks, IgnoreEvent, BlockConnected, BlockConnectedElsewhere, ChainStateFlushed,
     Woken, index
<1>7. CASE Validation \/ BlockUntilSynced \/ Interrupt \/ ShutdownFlush
  BY <1>7 DEF Validation, DisconnectTip, ActivateBestChainStep, FlushStateToDisk,
     BlockUntilSynced, Interrupt, ShutdownFlush, index
<1>8. CASE UNCHANGED vars
  BY <1>8 DEF vars, index
<1> QED BY <1>1, <1>2, <1>3, <1>4, <1>5, <1>6, <1>7, <1>8 DEF Next, Thread, Shutdown, Crash

LEMMA BestStays == ASSUME IInv, BestSafe, [Next]_vars PROVE BestSafe'
<1>1. CASE best' = current'
  BY <1>1 DEF BestSafe, Safe
<1>2. CASE best' = best /\ Steady
  <2>1. Total(best) \subseteq Blocks
    BY Tree DEF IInv, TypeOK, MaybeBlock, Total
  <2>2. \A b \in Total(best) : Safe(b)'
    BY <1>2, <2>1, SafeStays DEF BestSafe
  <2>3. Total(best') = Total(best)
    BY <1>2
  <2> QED BY <2>2, <2>3 DEF BestSafe
<1>3. CASE Restart
  BY <1>1, <1>3 DEF Restart, InitIndex
<1>4. CASE UNCHANGED vars
  BY <1>4 DEF vars, index, BestSafe, Safe
<1> QED BY <1>1, <1>2, <1>3, <1>4, BestMoves DEF Next, Steady, Shutdown, Crash

LEMMA PhaseStays == ASSUME IInv, SyncedPhase, [Next]_vars PROVE SyncedPhase'
<1>1. CASE SyncInterrupted \/ SyncNext \/ SyncCommit \/ SyncTimed
  BY <1>1 DEF SyncInterrupted, SyncNext, SyncCommit, SyncTimed, Sync, SyncedPhase, Working
<1>2. CASE SyncCheck
  BY <1>2 DEF SyncCheck, Sync, SyncedPhase, Working, IInv, PhaseOK
<1>3. CASE RewindBlock
  <2>1. UNCHANGED <<synced, best, next>> /\ pc = "rewind" /\ pc' \in {"rewind", "fatal", "assert"}
    BY <1>3 DEF RewindBlock, CustomRemove
  <2>2. pc' # "assert"
    BY <1>3, RewindStep DEF IInv, PhaseOK
  <2> QED BY <2>1, <2>2 DEF SyncedPhase, Working
<1>4. CASE RewindEnd
  <2>1. UNCHANGED <<synced, next>> /\ pc = "rewind" /\ pc' = "append" /\ best' \in {best, iter}
        /\ iter = Prev(next) /\ next \in Blocks
    BY <1>4 DEF RewindEnd, IInv, PhaseOK
  <2>2. next # Genesis => iter \in Blocks
    BY <2>1, Tree DEF Prev
  <2> QED BY <2>1, <2>2 DEF SyncedPhase, Working
<1>5. CASE ProcessBlock
  BY <1>5 DEF ProcessBlock, SyncedPhase, Working, IInv, PhaseOK, Appendable, Prev
<1>6. CASE BlockConnected
  <2>1. /\ pc = "ready" /\ synced /\ queue # <<>> /\ Head(queue).type = "BlockConnected"
        /\ next' = Head(queue).block /\ pc' = "rewind" /\ UNCHANGED <<synced, best>>
    BY <1>6 DEF BlockConnected, Event, Callback
  <2>2. Head(queue) \in Events
    BY <2>1 DEF IInv, TypeOK
  <2>3. next' # Genesis
    BY <2>1, <2>2 DEF Events, Connected, Flushed
  <2> QED BY <2>1, <2>3 DEF SyncedPhase, Working
<1>7. CASE UNCHANGED <<pc, synced, best, next>>
  BY <1>7 DEF SyncedPhase, Working
<1>8. CASE IgnoreEvent \/ BlockConnectedElsewhere \/ ChainStateFlushed \/ Woken
  BY <1>7, <1>8 DEF IgnoreEvent, BlockConnectedElsewhere, ChainStateFlushed, Woken, index
<1>9. CASE Validation \/ BlockUntilSynced \/ Interrupt \/ ShutdownFlush
  BY <1>7, <1>9 DEF Validation, DisconnectTip, ActivateBestChainStep, FlushStateToDisk,
     BlockUntilSynced, Interrupt, ShutdownFlush, index
<1>10. CASE UNCHANGED vars
  BY <1>7, <1>10 DEF vars, index
<1>11. CASE Restart
  BY <1>11 DEF Restart, InitIndex, SyncedPhase, Working, IInv, TypeOK
<1> QED BY <1>1, <1>2, <1>3, <1>4, <1>5, <1>6, <1>8, <1>9, <1>10, <1>11
        DEF Next, Thread, Callbacks, Shutdown, Crash

-----------------------------------------------------------------------------
(* The thread works on the index: the queue and the waiter stay.           *)
LEMMA ThreadKeeps ==
  ASSUME IInv, JInv, Steady, UNCHANGED <<queue, tip, waiter>>, synced => synced',
         Working' => \/ Working /\ At' = At
                     \/ ~synced /\ tip \in Ancestors[At']
  PROVE  QueueLeads' /\ WaiterOK'
<1>0. QueueLeads /\ WaiterOK
  BY DEF JInv
<1>1. QueueLeads'
  <2>1. Linked(queue') /\ LeadsTo(queue', Len(queue'), tip')
    BY <1>0 DEF QueueLeads
  <2>2. Working' => StartsAt(queue', Len(queue'), tip', At')
    <3>1. CASE Working /\ At' = At
      BY <1>0, <3>1 DEF QueueLeads
    <3>2. CASE tip \in Ancestors[At']
      BY <3>2 DEF StartsAt
    <3> QED BY <3>1, <3>2
  <2> QED BY <2>1, <2>2 DEF QueueLeads
<1>2. waiter # Null => waiter.tip \in Blocks /\ (Safe(waiter.tip) => Safe(waiter.tip)')
  BY <1>0, SafeStays DEF WaiterOK
<1>3. ASSUME NEW w \in DOMAIN queue', queue'[w].type = "wake"
      PROVE  /\ synced' /\ waiter' # Null
             /\ \/ Safe(waiter.tip)'
                \/ /\ LeadsTo(queue', w, waiter.tip)
                   /\ Working' => StartsAt(queue', w, waiter.tip, At')
  BY <1>0, <1>2, <1>3 DEF WaiterOK
<1>4. WaiterOK'
  BY <1>0, <1>2, <1>3 DEF WaiterOK
<1> QED BY <1>1, <1>4

LEMMA ThreadStep == ASSUME IInv, JInv, Thread PROVE QueueLeads' /\ WaiterOK'
<1>0. Steady /\ UNCHANGED <<queue, tip, waiter>>
  BY DEF Steady, Thread, SyncInterrupted, SyncNext, SyncCommit, SyncCheck, SyncTimed, RewindBlock,
         RewindEnd, ProcessBlock, Sync, chain
<1>1. CASE SyncInterrupted \/ SyncNext \/ SyncCommit \/ SyncTimed
  <2>1. ~synced /\ ~synced'
    BY <1>1 DEF SyncInterrupted, SyncNext, SyncCommit, SyncTimed, Sync
  <2> QED BY <1>0, <2>1, ThreadKeeps DEF Working
<1>2. CASE SyncCheck
  <2>1. ~synced /\ next' = NextSyncBlock(pindex) /\ UNCHANGED best /\ best = pindex /\ pindex \in Blocks
        /\ IF next' = Null THEN synced' = TRUE /\ pc' = "ready" ELSE synced' = FALSE /\ pc' = "rewind"
    BY <1>2 DEF SyncCheck, Sync, IInv, PhaseOK
  <2>2. ASSUME next' = Null PROVE tip \in Ancestors[best]
    <3>1. tip \in Blocks /\ pindex # Null
      BY <2>1, Tree DEF IInv, TypeOK
    <3> DEFINE fork == Fork(pindex, tip)
    <3>2. fork \in Ancestors[pindex] /\ fork \in Ancestors[tip]
      BY <2>1, <3>1, ForkIs
    <3>3. NextSyncBlock(pindex) = IF fork = tip THEN Null ELSE Path(fork, tip)[1]
      BY <3>1 DEF NextSyncBlock
    <3> HIDE DEF fork
    <3>4. fork = tip
      <4>1. fork # tip => Path(fork, tip)[1] \in Blocks
        BY <3>1, <3>2, PathLinks
      <4>2. NextSyncBlock(pindex) = Null /\ Null \notin Blocks
        BY <2>1, <2>2, BlockAssumption
      <4> QED BY <3>3, <4>1, <4>2
    <3> QED BY <2>1, <3>2, <3>4
  <2>3. Working' => tip \in Ancestors[At']
    BY <2>1, <2>2 DEF Working, At
  <2> QED BY <1>0, <2>1, <2>3, ThreadKeeps
<1>3. CASE RewindBlock \/ RewindEnd
  <2>1. UNCHANGED <<synced, next>> /\ pc = "rewind" /\ pc' \in {"rewind", "fatal", "assert", "append"}
    BY <1>3 DEF RewindBlock, RewindEnd, CustomRemove
  <2>2. Working' => Working /\ At' = At
    BY <2>1 DEF Working, At
  <2> QED BY <1>0, <2>1, <2>2, ThreadKeeps
<1>4. CASE ProcessBlock
  <2>1. /\ UNCHANGED <<synced, next>> /\ pc = "append"
        /\ pc' = "fatal" \/ (synced /\ pc' = "ready" /\ best' = next) \/ pc' \in {"top", "timed"}
    BY <1>4 DEF ProcessBlock
  <2>2. Working' => Working /\ At' = At
    BY <2>1 DEF Working, At
  <2> QED BY <1>0, <2>1, <2>2, ThreadKeeps
<1> QED BY <1>1, <1>2, <1>3, <1>4 DEF Thread

(* A notification is taken from the queue.                                 *)
LEMMA DequeueKeeps ==
  ASSUME IInv, JInv, Steady, queue # <<>>, queue' = Tail(queue), UNCHANGED <<tip, synced>>,
         waiter' = waiter \/ (/\ waiter # Null /\ Safe(waiter.tip)
                              /\ waiter' = [waiter EXCEPT !.done = TRUE]),
         Working' => Working,
         \A n \in Nat \ {0}, t \in Blocks :
           Working' /\ LeadsTo(queue, n, t) /\ StartsAt(queue, n, t, At)
             => StartsAt(queue', n - 1, t, At')
  PROVE  QueueLeads' /\ WaiterOK'
<1>0. QueueLeads /\ WaiterOK /\ queue \in Seq(Events) /\ tip \in Blocks
  BY DEF JInv, IInv, TypeOK
<1>1. /\ queue' \in Seq(Events) /\ Len(queue') = Len(queue) - 1 /\ Len(queue) \in Nat \ {0}
      /\ \A i \in DOMAIN queue' : i + 1 \in DOMAIN queue /\ queue'[i] = queue[i + 1]
      /\ \A i \in DOMAIN queue : i \in Nat \ {0}
  BY <1>0, TailIs
<1>2. QueueLeads'
  <2>1. Linked(queue') /\ LeadsTo(queue', Len(queue) - 1, tip)
    BY <1>0, <1>1, TailLinked, TailLeads DEF QueueLeads
  <2>2. Working' => StartsAt(queue', Len(queue) - 1, tip, At')
    BY <1>0, <1>1 DEF QueueLeads
  <2> QED BY <1>1, <2>1, <2>2 DEF QueueLeads
<1>3. waiter # Null =>
        /\ waiter' # Null /\ waiter'.tip = waiter.tip /\ waiter.tip \in Blocks
        /\ waiter' \in [tip : Blocks, done : BOOLEAN]
        /\ Safe(waiter.tip) => Safe(waiter.tip)'
        /\ waiter'.done => Safe(waiter.tip)
  <2> SUFFICES ASSUME waiter # Null
               PROVE  /\ waiter' # Null /\ waiter'.tip = waiter.tip /\ waiter.tip \in Blocks
                      /\ waiter' \in [tip : Blocks, done : BOOLEAN]
                      /\ Safe(waiter.tip) => Safe(waiter.tip)'
                      /\ waiter'.done => Safe(waiter.tip)
    OBVIOUS
  <2>1. waiter \in [tip : Blocks, done : BOOLEAN] /\ (waiter.done => Safe(waiter.tip))
    BY <1>0 DEF WaiterOK
  <2>2. waiter' \in [tip : Blocks, done : BOOLEAN] /\ waiter'.tip = waiter.tip
    BY <2>1
  <2>3. waiter'.done => Safe(waiter.tip)
    BY <2>1
  <2>4. waiter' # Null
    BY <2>2, BlockAssumption
  <2>5. Safe(waiter.tip) => Safe(waiter.tip)'
    BY <2>1, SafeStays
  <2> QED BY <2>1, <2>2, <2>3, <2>4, <2>5
<1>4. ASSUME NEW w \in DOMAIN queue', queue'[w].type = "wake"
      PROVE  /\ synced' /\ waiter' # Null
             /\ \/ Safe(waiter.tip)'
                \/ /\ LeadsTo(queue', w, waiter'.tip)
                   /\ Working' => StartsAt(queue', w, waiter'.tip, At')
  <2>1. w + 1 \in DOMAIN queue /\ queue[w + 1].type = "wake" /\ w + 1 \in Nat \ {0}
    BY <1>1, <1>4
  <2>2. /\ synced /\ waiter # Null
        /\ \/ Safe(waiter.tip)
           \/ /\ LeadsTo(queue, w + 1, waiter.tip)
              /\ Working => StartsAt(queue, w + 1, waiter.tip, At)
    BY <1>0, <2>1 DEF WaiterOK
  <2>3. waiter.tip \in Blocks /\ waiter'.tip = waiter.tip /\ waiter' # Null
    BY <1>3, <2>2
  <2>4. CASE Safe(waiter.tip)
    BY <1>3, <2>2, <2>3, <2>4
  <2>5. CASE /\ LeadsTo(queue, w + 1, waiter.tip)
             /\ Working => StartsAt(queue, w + 1, waiter.tip, At)
    <3>1. w \in Nat /\ (w + 1) - 1 = w
      <4>1. w \in 1 .. Len(queue')
        BY <1>1
      <4> QED BY <1>1, <4>1
    <3>2. LeadsTo(queue', (w + 1) - 1, waiter.tip)
      BY <1>0, <2>1, <2>5, TailLeads
    <3>3. Working' => StartsAt(queue', (w + 1) - 1, waiter.tip, At')
      BY <2>1, <2>3, <2>5
    <3> QED BY <2>2, <2>3, <3>1, <3>2, <3>3
  <2> QED BY <2>2, <2>4, <2>5
<1>5. WaiterOK'
  <2>1. waiter = Null => waiter' = Null
    OBVIOUS
  <2>2. waiter' # Null => waiter' \in [tip : Blocks, done : BOOLEAN]
    BY <1>3, <2>1
  <2>3. waiter' # Null /\ waiter'.done => Safe(waiter.tip)'
    BY <1>3, <2>1
  <2> QED BY <1>4, <2>2, <2>3 DEF WaiterOK
<1> QED BY <1>2, <1>5

LEMMA CallbackStep == ASSUME IInv, JInv, Callbacks PROVE QueueLeads' /\ WaiterOK'
<1>0. /\ Steady /\ UNCHANGED <<tip, synced>> /\ queue # <<>> /\ queue' = Tail(queue)
      /\ queue \in Seq(Events)
  <2>1. Steady /\ queue \in Seq(Events)
    BY DEF Steady, IInv, TypeOK
  <2> QED BY <2>1 DEF Callbacks, IgnoreEvent, BlockConnected, BlockConnectedElsewhere,
          ChainStateFlushed, Woken, Event, Callback, Dequeue, chain, index
<1>1. Head(queue) = queue[1]
  BY <1>0, TailIs
<1>2. CASE IgnoreEvent
  <2>1. ~synced /\ UNCHANGED waiter
    BY <1>2 DEF IgnoreEvent
  <2> QED BY <1>0, <2>1, DequeueKeeps DEF Working
<1>3. CASE BlockConnected
  <2>1. /\ pc = "ready" /\ synced /\ pc' = "rewind" /\ next' = queue[1].block /\ Conn(queue, 1)
        /\ UNCHANGED waiter
    BY <1>1, <1>3 DEF BlockConnected, Callback, Event, Conn
  <2>2. Working /\ At' = queue[1].block
    BY <2>1 DEF Working, At
  <2>3. \A n \in Nat \ {0}, t \in Blocks :
          LeadsTo(queue, n, t) => StartsAt(queue', n - 1, t, queue[1].block)
    BY <1>0, <2>1, TailTaken DEF JInv, QueueLeads
  <2> QED BY <1>0, <2>1, <2>2, <2>3, DequeueKeeps
<1>4. CASE BlockConnectedElsewhere \/ ChainStateFlushed
  <2>1. /\ UNCHANGED <<pc, best, next, waiter>> /\ pc = "ready" /\ synced
        /\ Conn(queue, 1) => Parent[queue[1].block] \notin Ancestors[best]
    BY <1>1, <1>4 DEF BlockConnectedElsewhere, ChainStateFlushed, Callback, Event, Conn, Connects, index
  <2>2. Working /\ At = best /\ At' = best
    BY <2>1 DEF Working, At
  <2>3. \A n \in Nat \ {0}, t \in Blocks :
          StartsAt(queue, n, t, best) => StartsAt(queue', n - 1, t, best)
    BY <1>0, <2>1, TailStarts
  <2> QED BY <1>0, <2>1, <2>2, <2>3, DequeueKeeps
<1>5. CASE Woken
  <2>1. /\ UNCHANGED <<pc, best, next>> /\ pc = "ready" /\ queue[1].type = "wake"
        /\ waiter' = [waiter EXCEPT !.done = TRUE]
    BY <1>1, <1>5 DEF Woken, Event, index
  <2>2. ~Conn(queue, 1) /\ 1 \in DOMAIN queue /\ \A i \in DOMAIN queue : i >= 1 /\ i \in Nat
    BY <1>0, <2>1, TailIs DEF Conn
  <2>3. synced /\ waiter # Null
    BY <2>1, <2>2 DEF JInv, WaiterOK
  <2>4. Working /\ At = best /\ At' = best
    BY <2>1, <2>3 DEF Working, At
  <2>5. Safe(waiter.tip)
    <3>1. CASE StartsAt(queue, 1, waiter.tip, best)
      <4>1. \A i \in DOMAIN queue : i <= 1 => i = 1
        BY <2>2
      <4>2. waiter.tip \in Ancestors[best]
        BY <2>2, <3>1, <4>1 DEF StartsAt
      <4>3. best \in Blocks /\ best # Null
        BY <2>4, Tree DEF JInv, SyncedPhase
      <4> QED BY <4>2, <4>3 DEF JInv, BestSafe, Total
    <3> QED BY <2>1, <2>2, <2>4, <3>1 DEF JInv, WaiterOK
  <2>6. \A n \in Nat \ {0}, t \in Blocks :
          StartsAt(queue, n, t, best) => StartsAt(queue', n - 1, t, best)
    BY <1>0, <2>2, TailStarts
  <2> QED BY <1>0, <2>1, <2>3, <2>4, <2>5, <2>6, DequeueKeeps
<1> QED BY <1>2, <1>3, <1>4, <1>5 DEF Callbacks

-----------------------------------------------------------------------------
(* Validation goes on: the index and the waiter stay.                      *)
LEMMA EnqueueKeeps ==
  ASSUME IInv, JInv, Steady, UNCHANGED index, UNCHANGED waiter,
         NEW e \in Seq(Events), queue' = queue \o e,
         \A i \in DOMAIN e : e[i].type # "wake",
         Linked(queue'), LeadsTo(queue', Len(queue'), tip'),
         Working /\ StartsAt(queue, Len(queue), tip, At) => StartsAt(queue', Len(queue'), tip', At)
  PROVE  QueueLeads' /\ WaiterOK'
<1>0. QueueLeads /\ WaiterOK /\ queue \in Seq(Events)
  BY DEF JInv, IInv, TypeOK
<1>1. (Working' <=> Working) /\ At' = At /\ synced' = synced
  BY DEF Working, At, index
<1>2. QueueLeads'
  BY <1>0, <1>1 DEF QueueLeads
<1>3. waiter # Null => waiter.tip \in Blocks /\ (Safe(waiter.tip) => Safe(waiter.tip)')
  BY <1>0, SafeStays DEF WaiterOK
<1>4. ASSUME NEW w \in DOMAIN queue', queue'[w].type = "wake"
      PROVE  /\ synced' /\ waiter' # Null
             /\ \/ Safe(waiter.tip)'
                \/ /\ LeadsTo(queue', w, waiter.tip)
                   /\ Working' => StartsAt(queue', w, waiter.tip, At')
  <2>1. /\ Len(queue) \in Nat /\ Len(e) \in Nat /\ DOMAIN e = 1 .. Len(e)
        /\ DOMAIN queue = 1 .. Len(queue) /\ DOMAIN queue' = 1 .. Len(queue) + Len(e)
        /\ \A i \in DOMAIN queue : queue'[i] = queue[i]
        /\ \A i \in DOMAIN e : queue'[Len(queue) + i] = e[i]
    BY <1>0, ConcatIs
  <2>2. w \in 1 .. Len(queue)
    <3>1. ASSUME w > Len(queue) PROVE FALSE
      <4>1. w - Len(queue) \in DOMAIN e /\ Len(queue) + (w - Len(queue)) = w
        BY <2>1, <3>1
      <4>2. queue'[w] = e[w - Len(queue)]
        BY <2>1, <4>1
      <4> QED BY <1>4, <4>1, <4>2
    <3> QED BY <2>1, <3>1
  <2>3. w \in DOMAIN queue /\ queue[w].type = "wake" /\ w \in 0 .. Len(queue)
    BY <1>4, <2>1, <2>2
  <2>4. /\ synced /\ waiter # Null
        /\ \/ Safe(waiter.tip)
           \/ /\ LeadsTo(queue, w, waiter.tip)
              /\ Working => StartsAt(queue, w, waiter.tip, At)
    BY <1>0, <2>3 DEF WaiterOK
  <2>5. /\ LeadsTo(queue, w, waiter.tip) => LeadsTo(queue', w, waiter.tip)
        /\ StartsAt(queue, w, waiter.tip, At) => StartsAt(queue', w, waiter.tip, At)
    BY <1>0, <2>3, ConcatBefore
  <2> QED BY <1>1, <1>3, <2>4, <2>5
<1>5. WaiterOK'
  BY <1>0, <1>3, <1>4 DEF WaiterOK
<1> QED BY <1>2, <1>5

LEMMA AtBlock == ASSUME IInv, JInv, Working PROVE At \in Blocks
BY DEF IInv, PhaseOK, JInv, SyncedPhase, Working, At

(* Nothing, or the news of a flush, is appended while the tip stays or     *)
(* falls back to a block below it.                                         *)
LEMMA FlushKeeps ==
  ASSUME IInv, JInv, Steady, UNCHANGED index, UNCHANGED waiter, tip' \in Ancestors[tip],
         queue' = queue \/ \E b \in Blocks : queue' = queue \o <<Flushed(b)>>
  PROVE  QueueLeads' /\ WaiterOK'
<1>0. QueueLeads /\ queue \in Seq(Events) /\ tip \in Blocks
  BY DEF JInv, IInv, TypeOK
<1> DEFINE n == Len(queue)
<1>1. Linked(queue) /\ LeadsTo(queue, n, tip')
  <2>1. LeadsTo(queue, n, tip)
    BY <1>0 DEF QueueLeads
  <2>2. \A i \in DOMAIN queue : Conn(queue, i) /\ tip \in Ancestors[queue[i].block]
                                  => tip' \in Ancestors[queue[i].block]
    BY <1>0, ConnBlock, Below
  <2>3. LeadsTo(queue, n, tip')
    BY <2>1, <2>2 DEF LeadsTo
  <2> QED BY <1>0, <2>3 DEF QueueLeads
<1>2. Working /\ StartsAt(queue, n, tip, At) => StartsAt(queue, n, tip', At)
  <2>1. Working /\ tip \in Ancestors[At] => tip' \in Ancestors[At]
    BY <1>0, AtBlock, Below
  <2> QED BY <2>1 DEF StartsAt
<1>3. CASE queue' = queue
  <2>1. <<>> \in Seq(Events) /\ queue' = queue \o <<>> /\ \A i \in DOMAIN <<>> : <<>>[i].type # "wake"
    BY <1>0, <1>3
  <2> QED BY <1>1, <1>2, <1>3, <2>1, EnqueueKeeps
<1>4. ASSUME NEW b \in Blocks, queue' = queue \o <<Flushed(b)>> PROVE QueueLeads' /\ WaiterOK'
  <2> DEFINE e == Flushed(b)
  <2>1. e \in Events /\ <<e>> \in Seq(Events)
    BY EventsAre
  <2>2. e.type # "BlockConnected" /\ e.type # "wake"
    BY DEF Flushed
  <2> HIDE DEF e
  <2>3. \A i \in DOMAIN <<e>> : <<e>>[i].type # "wake"
    BY <2>2
  <2>4. Linked(queue \o <<e>>) /\ LeadsTo(queue \o <<e>>, Len(queue \o <<e>>), tip')
    BY <1>0, <1>1, <2>1, <2>2, AppendOther
  <2>5. StartsAt(queue, n, tip', At) => StartsAt(queue \o <<e>>, Len(queue \o <<e>>), tip', At)
    BY <1>0, <2>1, <2>2, AppendOther
  <2>6. queue' = queue \o <<e>>
    BY <1>4 DEF e
  <2> QED BY <1>2, <2>1, <2>3, <2>4, <2>5, <2>6, EnqueueKeeps
<1> QED BY <1>3, <1>4

LEMMA ActivateKeeps ==
  ASSUME IInv, JInv, NEW b \in Blocks, ActivateBestChainStep(b)
  PROVE  QueueLeads' /\ WaiterOK'
<1> DEFINE f == Fork(tip, b)
           path == Path(f, b)
           blocks == [i \in 1 .. Len(path) |-> Connected(path[i])]
           on(i) == IF i = 1 THEN f ELSE path[i - 1]
<1>0. /\ QueueLeads /\ queue \in Seq(Events) /\ tip \in Blocks /\ Steady
      /\ UNCHANGED index /\ UNCHANGED waiter /\ tip' = b /\ b # tip /\ Height[b] >= Height[tip]
  BY DEF JInv, IInv, TypeOK, ActivateBestChainStep, Steady, Validation
<1>1. f \in Ancestors[tip] /\ f \in Ancestors[b] /\ f \in Blocks
  BY <1>0, ForkIs, Tree
<1>2. f # b
  <2>1. b \in Ancestors[tip] => Height[b] < Height[tip]
    BY <1>0, Branches DEF Branch
  <2>2. Height[b] \in Nat /\ Height[tip] \in Nat
    BY <1>0, Tree
  <2> QED BY <1>0, <1>1, <2>1, <2>2
<1>3. \/ queue' = queue \o blocks
      \/ \E i \in 1 .. Len(path) : queue' = queue \o (<<Flushed(on(i))>> \o blocks)
  BY DEF ActivateBestChainStep, Enqueue
<1> HIDE DEF f
<1>4. Len(path) \in Nat \ {0} /\ \A i \in 1 .. Len(path) : path[i] \in Blocks \ {Genesis}
  BY <1>1, <1>2, PathLinks
<1> HIDE DEF path
<1>5. /\ blocks \in Seq(Events)
      /\ \A i \in DOMAIN blocks : blocks[i].type # "wake"
  <2>1. \A i \in 1 .. Len(path) : Connected(path[i]) \in Events
    BY <1>4, EventsAre
  <2>2. \A i \in 1 .. Len(path) : blocks[i].type = "BlockConnected"
    BY DEF Connected
  <2> QED BY <1>4, <2>1, <2>2
<1>6. blocks = [i \in 1 .. Len(path) |-> Connected(path[i])] /\ path = Path(f, b)
  BY DEF path
<1> HIDE DEF blocks
<1>7. ASSUME NEW q \in Seq(Events), Linked(q), LeadsTo(q, Len(q), tip)
      PROVE  /\ Linked(q \o blocks) /\ LeadsTo(q \o blocks, Len(q \o blocks), b)
             /\ \A x \in Blocks : StartsAt(q, Len(q), tip, x)
                                    => StartsAt(q \o blocks, Len(q \o blocks), b, x)
  BY <1>0, <1>1, <1>2, <1>5, <1>6, <1>7, AppendPath
<1>8. Linked(queue) /\ LeadsTo(queue, Len(queue), tip) /\ (Working => At \in Blocks)
  BY <1>0, AtBlock DEF QueueLeads
<1>9. CASE queue' = queue \o blocks
  BY <1>0, <1>5, <1>7, <1>8, <1>9, EnqueueKeeps
<1>10. ASSUME NEW i \in 1 .. Len(path), queue' = queue \o (<<Flushed(on(i))>> \o blocks)
       PROVE  QueueLeads' /\ WaiterOK'
  <2> DEFINE e == Flushed(on(i))
             q == queue \o <<e>>
             new == <<e>> \o blocks
  <2>1. on(i) \in Blocks
    <3>1. CASE i = 1
      BY <1>1, <3>1
    <3>2. CASE i # 1
      <4>1. i - 1 \in 1 .. Len(path)
        BY <1>4, <3>2
      <4> QED BY <1>4, <3>2, <4>1
    <3> QED BY <3>1, <3>2
  <2> HIDE DEF on
  <2>2. e \in Events /\ <<e>> \in Seq(Events)
    BY <2>1, EventsAre
  <2>3. e.type # "BlockConnected" /\ e.type # "wake"
    BY DEF Flushed
  <2>4. queue' = queue \o new
    BY <1>10
  <2> HIDE DEF e
  <2>5. /\ q \in Seq(Events) /\ Linked(q) /\ LeadsTo(q, Len(q), tip)
        /\ \A x \in Blocks : StartsAt(queue, Len(queue), tip, x) => StartsAt(q, Len(q), tip, x)
    BY <1>0, <1>8, <2>2, <2>3, AppendOther
  <2>6. q \o blocks = queue \o new /\ new \in Seq(Events)
    BY <1>0, <1>5, <2>2
  <2>7. \A j \in DOMAIN new : new[j].type # "wake"
    <3>1. /\ DOMAIN new = 1 .. 1 + Len(blocks) /\ new[1] = e /\ Len(blocks) \in Nat
          /\ \A j \in DOMAIN blocks : new[1 + j] = blocks[j]
          /\ DOMAIN blocks = 1 .. Len(blocks)
      BY <1>5, <2>2
    <3>2. ASSUME NEW j \in DOMAIN new, j # 1 PROVE j - 1 \in DOMAIN blocks /\ new[j] = blocks[j - 1]
      <4>1. j - 1 \in DOMAIN blocks /\ 1 + (j - 1) = j
        BY <3>1, <3>2
      <4> QED BY <3>1, <4>1
    <3> QED BY <1>5, <2>3, <3>1, <3>2
  <2> HIDE DEF q, new
  <2>8. /\ Linked(queue') /\ LeadsTo(queue', Len(queue'), b)
        /\ \A x \in Blocks : StartsAt(q, Len(q), tip, x) => StartsAt(queue', Len(queue'), b, x)
    BY <1>7, <2>4, <2>5, <2>6
  <2> QED BY <1>0, <1>8, <2>4, <2>5, <2>6, <2>7, <2>8, EnqueueKeeps
<1> QED BY <1>3, <1>9, <1>10

(* The caller finds the tip in the index, or waits for all notifications.  *)
LEMMA WaitStep == ASSUME IInv, JInv, BlockUntilSynced PROVE QueueLeads' /\ WaiterOK'
<1>0. /\ QueueLeads /\ WaiterOK /\ queue \in Seq(Events) /\ tip \in Blocks /\ synced
      /\ UNCHANGED <<tip, index>> /\ waiter = Null
  BY DEF JInv, IInv, TypeOK, BlockUntilSynced, chain
<1>1. (Working' <=> Working) /\ At' = At /\ synced' /\ (Safe(tip)' <=> Safe(tip))
  BY <1>0 DEF Working, At, index, Safe, Total
<1>2. Working
  BY <1>0 DEF BlockUntilSynced, JInv, SyncedPhase, Up, Working
<1>3. \A w \in DOMAIN queue : queue[w].type # "wake"
  BY <1>0 DEF WaiterOK
<1>4. CASE tip \in Ancestors[best]
  <2>1. waiter' = Waiter(tip, TRUE) /\ queue' = queue
    BY <1>4 DEF BlockUntilSynced
  <2>2. waiter' \in [tip : Blocks, done : BOOLEAN] /\ waiter'.tip = tip
    BY <1>0, <2>1 DEF Waiter
  <2>3. Safe(tip)
    <3>1. best \in Blocks /\ best # Null
      BY <1>2, Tree DEF JInv, SyncedPhase
    <3> QED BY <1>4, <3>1 DEF JInv, BestSafe, Total
  <2>4. QueueLeads'
    BY <1>0, <1>1, <2>1 DEF QueueLeads
  <2>5. Safe(waiter.tip)'
    BY <1>0, <1>1, <2>2, <2>3 DEF Safe
  <2>6. WaiterOK'
    BY <1>3, <2>1, <2>2, <2>5 DEF WaiterOK
  <2> QED BY <2>4, <2>6
<1>5. CASE tip \notin Ancestors[best]
  <2> DEFINE e == [type |-> "wake"]
  <2>1. waiter' = Waiter(tip, FALSE) /\ queue' = queue \o <<e>>
    BY <1>5 DEF BlockUntilSynced, Enqueue
  <2>2. waiter' \in [tip : Blocks, done : BOOLEAN] /\ waiter'.tip = tip /\ ~waiter'.done
    BY <1>0, <2>1 DEF Waiter
  <2>3. e \in Events /\ e.type # "BlockConnected"
    BY DEF Events
  <2> HIDE DEF e
  <2>4. /\ Linked(queue') /\ LeadsTo(queue', Len(queue'), tip)
        /\ StartsAt(queue', Len(queue'), tip, At)
    BY <1>0, <1>2, <2>1, <2>3, AppendOther DEF QueueLeads
  <2>5. QueueLeads'
    BY <1>0, <1>1, <2>4 DEF QueueLeads
  <2>6. \A w \in DOMAIN queue' : queue'[w].type = "wake" => w = Len(queue')
    BY <1>0, <1>3, <2>1, <2>3
  <2>7. waiter' # Null
    BY <2>2, BlockAssumption
  <2>8. \A w \in DOMAIN queue' : queue'[w].type = "wake" =>
          /\ synced' /\ waiter' # Null
          /\ LeadsTo(queue', w, waiter'.tip)
          /\ Working' => StartsAt(queue', w, waiter'.tip, At')
    BY <1>1, <2>2, <2>4, <2>6, <2>7
  <2>9. WaiterOK'
    BY <2>2, <2>8 DEF WaiterOK
  <2> QED BY <2>5, <2>9
<1> QED BY <1>4, <1>5

LEMMA EmptyQueue ==
  ASSUME NEW t \in Blocks, NEW x
  PROVE  Linked(<<>>) /\ LeadsTo(<<>>, Len(<<>>), t) /\ (StartsAt(<<>>, Len(<<>>), t, x) <=> t \in Ancestors[x])
BY DEF Linked, LeadsTo, StartsAt

LEMMA RestartKeeps == ASSUME IInv, Restart PROVE QueueLeads' /\ WaiterOK'
<1>1. queue' = <<>> /\ waiter' = Null /\ tip' \in Blocks /\ next' = Null
      /\ (synced' => best' = tip') /\ pc' \in {"refused", "ready", "top"}
  BY DEF Restart, InitIndex, IInv, TypeOK
<1>2. Working' => At' = tip'
  BY <1>1 DEF Working, At
<1>3. tip' \in Ancestors[tip']
  BY <1>1, Branches DEF Branch
<1>4. Linked(queue') /\ LeadsTo(queue', Len(queue'), tip')
      /\ StartsAt(queue', Len(queue'), tip', tip')
  BY <1>1, <1>3, EmptyQueue
<1>5. QueueLeads'
  BY <1>2, <1>4 DEF QueueLeads
<1>6. WaiterOK'
  BY <1>1 DEF WaiterOK
<1> QED BY <1>5, <1>6

LEMMA InitLeads == Init => JInv
<1> SUFFICES ASSUME Init PROVE JInv
  OBVIOUS
<1>1. queue = <<>> /\ waiter = Null /\ tip \in Blocks /\ ~synced /\ pc = "top" /\ best = Null
  BY DEF Init
<1>2. Linked(queue) /\ LeadsTo(queue, Len(queue), tip)
  BY <1>1, EmptyQueue
<1>3. QueueLeads
  BY <1>1, <1>2 DEF QueueLeads, Working
<1>4. SyncedPhase /\ BestSafe /\ WaiterOK
  BY <1>1 DEF SyncedPhase, Working, BestSafe, Total, WaiterOK
<1> QED BY <1>3, <1>4 DEF JInv

LEMMA NextLeads == IInv /\ JInv /\ [Next]_vars => JInv'
<1> SUFFICES ASSUME IInv, JInv, [Next]_vars PROVE QueueLeads' /\ WaiterOK'
  BY PhaseStays, BestStays DEF JInv
<1>0. tip \in Blocks /\ tip \in Ancestors[tip] /\ Parent[tip] \in Blocks
  BY Tree, Branches DEF IInv, TypeOK, Branch
<1>1. CASE DisconnectTip
  <2>1. Steady /\ UNCHANGED index /\ UNCHANGED waiter /\ tip' = Parent[tip] /\ tip # Genesis
    BY <1>1 DEF DisconnectTip, Steady, Validation
  <2>2. tip' \in Ancestors[tip]
    <3>1. Ancestors[tip] = {tip} \cup Ancestors[Parent[tip]]
      BY <1>0, <2>1, Tree
    <3>2. Parent[tip] \in Ancestors[Parent[tip]]
      BY <1>0, Branches DEF Branch
    <3> QED BY <2>1, <3>1, <3>2
  <2>3. queue' = queue \/ queue' = queue \o <<Flushed(tip)>>
    <3>1. Enqueue(<<>>) \/ Enqueue(<<Flushed(tip)>>)
      BY <1>1 DEF DisconnectTip, FlushInStep
    <3>2. queue \in Seq(Events)
      BY DEF IInv, TypeOK
    <3> QED BY <3>1, <3>2 DEF Enqueue
  <2> QED BY <1>0, <2>1, <2>2, <2>3, FlushKeeps
<1>2. CASE FlushStateToDisk \/ ShutdownFlush
  <2>1. Steady /\ UNCHANGED index /\ UNCHANGED waiter /\ tip' = tip /\ queue' = queue \o <<Flushed(tip)>>
    BY <1>2 DEF FlushStateToDisk, ShutdownFlush, Steady, Validation, Enqueue
  <2> QED BY <1>0, <2>1, FlushKeeps
<1>3. CASE Interrupt
  <2>1. Steady /\ UNCHANGED index /\ UNCHANGED waiter /\ tip' = tip /\ queue' = queue
    BY <1>3 DEF Interrupt, Steady, chain
  <2> QED BY <1>0, <2>1, FlushKeeps
<1>4. CASE \E b \in Blocks : ActivateBestChainStep(b)
  BY <1>4, ActivateKeeps
<1>5. CASE UNCHANGED vars
  BY <1>5 DEF vars, chain, index, JInv, QueueLeads, WaiterOK, Working, At, Safe
<1>6. CASE Thread
  BY <1>6, ThreadStep
<1>7. CASE Callbacks
  BY <1>7, CallbackStep
<1>8. CASE BlockUntilSynced
  BY <1>8, WaitStep
<1>9. CASE Shutdown \/ Crash
  BY <1>9, RestartKeeps DEF Shutdown, Crash
<1> QED BY <1>1, <1>2, <1>3, <1>4, <1>5, <1>6, <1>7, <1>8, <1>9 DEF Next, Validation

-----------------------------------------------------------------------------
(* From what the queue leads to, to what the index promises.               *)
LEMMA LeadsImply == IInv /\ JInv => NothingMissed /\ WaiterServed
<1> SUFFICES ASSUME IInv, JInv PROVE NothingMissed /\ WaiterServed
  OBVIOUS
<1>1. NothingMissed
  <2> SUFFICES ASSUME Quiet, queue = <<>> PROVE tip \in Ancestors[best]
    BY DEF NothingMissed
  <2>1. Working /\ At = best /\ tip \in Blocks
    BY DEF Quiet, Working, At, IInv, TypeOK
  <2>2. StartsAt(<<>>, Len(<<>>), tip, best)
    BY <2>1 DEF JInv, QueueLeads
  <2> QED BY <2>1, <2>2, EmptyQueue
<1>2. WaiterServed
  BY SafeReadable DEF WaiterServed, JInv, WaiterOK
<1> QED BY <1>1, <1>2

(* Of a backlog that was queued before m_synced was set as well: once a    *)
(* notification connects to the index all later ones do, and the last of   *)
(* them brings it to the tip or above.                                     *)
THEOREM NotificationsLead == Spec => [](IInv /\ JInv)
BY InitInv, NextInv, InitLeads, NextLeads, PTL DEF Spec

(* No block is lost where BlockConnected takes over from Sync, however the *)
(* chain moved and whatever backlog was waiting when m_synced was set:     *)
(* with an empty queue the index is at the tip or above it.                *)
THEOREM NothingMissedCorrect == Spec => []NothingMissed
BY NotificationsLead, LeadsImply, PTL

(* A caller that BlockUntilSyncedToCurrentChain let go on can look up the  *)
(* tip that it asked for, whatever the index was made to rewind since.     *)
THEOREM WaiterServedCorrect == Spec => []WaiterServed
BY NotificationsLead, LeadsImply, PTL
=============================================================================
