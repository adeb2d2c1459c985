--------------------------- MODULE TxRequestProofs ---------------------------
(***************************************************************************)
(* For any peers, transactions, priorities and delays, and whatever the    *)
(* clock does: the tracker is as its sanity checks want it after every     *)
(* call and between the steps of SetTimePoint, and it implements the rules *)
(* of its header file.                                                     *)
(***************************************************************************)
EXTENDS TxRequest, WellFoundedInduction, TLAPS

(* SelectionSane and NotOnlyCompleted, of the announcements of one         *)
(* transaction.                                                            *)
Unique(row) == \A p, q \in Peer : Selected(row[p]) /\ Selected(row[q]) => p = q
SelectedIfReady(row) ==
  (\E p \in Peer : row[p] = "ready") => \E p \in Peer : Selected(row[p])
BestIsBest(row, t) ==
  \A p, q \in Peer : row[p] = "best" /\ row[q] = "ready" => Priority(t, p) > Priority(t, q)
Pending(s) == s \in {"delayed", "ready", "best", "requested"}
NotFailed(row) ==
  (\E p \in Peer : row[p] = "completed") => \E p \in Peer : Pending(row[p])

RowSane(row, t) ==
  Unique(row) /\ SelectedIfReady(row) /\ BestIsBest(row, t) /\ NotFailed(row)

RowsSane == \A t \in TxHash : RowSane(state[t], t)

(* What each loop of SetTimePoint leaves behind, until the call ends.      *)
NoPast == \A t \in TxHash, p \in Peer : Waiting(state[t][p]) => time[t][p] > now
NoFuture == \A t \in TxHash, p \in Peer : Selectable(state[t][p]) => time[t][p] <= now
LoopsDone ==
  /\ pc \in {"future", "returned"} => NoPast
  /\ pc = "returned" => NoFuture

(* A time is kept for a pending announcement only.                         *)
TimesTidy ==
  \A t \in TxHash, p \in Peer : state[t][p] \in {"none", "completed"} => time[t][p] = 0

IInv == TypeOK /\ RowsSane /\ LoopsDone /\ TimesTidy

Rows == [Peer -> States]

-----------------------------------------------------------------------------
(* Priorities *)

LEMMA PriorityNat ==
  \A t \in TxHash, p \in Peer : Priority(t, p) \in Nat /\ Priority(t, p) < 2 * TopBit
BY SaltAssumption DEF Priority

(* The preferred bit is above the hash, so that no two peers tie.          *)
LEMMA PriorityDistinct ==
  ASSUME NEW t \in TxHash, NEW p \in Peer, NEW q \in Peer, Priority(t, p) = Priority(t, q)
  PROVE  p = q
<1>1. Salt[t][p] \in Nat /\ Salt[t][q] \in Nat /\ Salt[t][p] < TopBit /\ Salt[t][q] < TopBit
  BY SaltAssumption
<1>2. TopBit \in Nat
  BY SaltAssumption
<1>3. Salt[t][p] = Salt[t][q]
  <2>1. CASE p \in Preferred /\ q \in Preferred
    BY <1>1, <1>2, <2>1 DEF Priority
  <2>2. CASE p \notin Preferred /\ q \notin Preferred
    BY <1>1, <1>2, <2>2 DEF Priority
  <2>3. CASE p \in Preferred /\ q \notin Preferred
    BY <1>1, <1>2, <2>3 DEF Priority
  <2>4. CASE p \notin Preferred /\ q \in Preferred
    BY <1>1, <1>2, <2>4 DEF Priority
  <2> QED BY <2>1, <2>2, <2>3, <2>4
<1> QED BY <1>3, SaltAssumption

(* Some peer of a set has the highest priority.                            *)
LEMMA HighestExists ==
  ASSUME NEW t \in TxHash, NEW S \in SUBSET Peer, S # {}
  PROVE  \E q \in S : \A r \in S : Priority(t, r) <= Priority(t, q)
<1> DEFINE below(p) == 2 * TopBit - Priority(t, p)
           T == {below(p) : p \in S}
<1>1. T \subseteq Nat /\ T # {}
  BY PriorityNat, SaltAssumption
<1>2. PICK x \in T : \A y \in T : ~(<<y, x>> \in OpToRel(<, Nat))
  BY <1>1, WFMin, NatLessThanWellFounded
<1>3. \A y \in T : ~(y < x)
  BY <1>1, <1>2 DEF OpToRel
<1>4. PICK q \in S : x = below(q)
  OBVIOUS
<1>5. ASSUME NEW r \in S PROVE Priority(t, r) <= Priority(t, q)
  <2>1. ~(below(r) < below(q))
    BY <1>3, <1>4
  <2> QED BY <2>1, PriorityNat, SaltAssumption
<1> QED BY <1>5

-----------------------------------------------------------------------------
(* What the operations make of the announcements of a transaction *)

LEMMA NobodySane == \A t \in TxHash : Nobody \in Rows /\ RowSane(Nobody, t)
BY DEF Nobody, Rows, States, RowSane, Unique, SelectedIfReady, BestIsBest, NotFailed, Selected

LEMMA AnnouncedSane ==
  ASSUME NEW t \in TxHash, NEW row \in Rows, RowSane(row, t), NEW p \in Peer, row[p] = "none"
  PROVE  LET new == [row EXCEPT ![p] = "delayed"] IN new \in Rows /\ RowSane(new, t)
<1> DEFINE new == [row EXCEPT ![p] = "delayed"]
<1>1. new \in Rows
  BY DEF Rows, States
<1>2. new[p] = "delayed" /\ \A q \in Peer \ {p} : new[q] = row[q]
  BY DEF Rows
<1> HIDE DEF new
<1>3. RowSane(new, t)
  BY <1>2 DEF RowSane, Unique, SelectedIfReady, BestIsBest, NotFailed, Selected, Pending
<1> QED BY <1>1, <1>3 DEF new

LEMMA PromoteSane ==
  ASSUME NEW t \in TxHash, NEW row \in Rows, RowSane(row, t), NEW p \in Peer, row[p] = "delayed"
  PROVE  PromoteCandidateReady(row, t, p) \in Rows /\ RowSane(PromoteCandidateReady(row, t, p), t)
<1> DEFINE new == PromoteCandidateReady(row, t, p)
           after == After(row, t, p)
           best == {q \in after : row[q] = "best"}
           swap == best # {} /\ (\A q \in after : row[q] # "ready")
                     /\ \A q \in best : Priority(t, p) > Priority(t, q)
<1> SUFFICES new \in Rows /\ RowSane(new, t)
  OBVIOUS
<1>0. \A q \in Peer : Priority(t, q) \in Nat
  BY PriorityNat
<1>1. \A q \in Peer : q \in after <=>
    /\ q # p
    /\ Selected(row[q]) \/ (row[q] = "ready" /\ Priority(t, q) > Priority(t, p))
  BY DEF After
<1>2. \A q \in Peer : q \in best <=> q # p /\ row[q] = "best"
  BY <1>1 DEF Selected
<1>a. after \subseteq Peer /\ best \subseteq after
  BY DEF After
<1>3. CASE after = {}
  <2>1. new = [row EXCEPT ![p] = "best"]
    BY <1>3 DEF PromoteCandidateReady
  <2>2. new \in Rows /\ new[p] = "best" /\ \A q \in Peer \ {p} : new[q] = row[q]
    BY <2>1 DEF Rows, States
  <2>3. \A q \in Peer \ {p} : ~Selected(row[q]) /\ (row[q] = "ready" => ~(Priority(t, q) > Priority(t, p)))
    BY <1>1, <1>3
  <2>4. \A q \in Peer \ {p} : row[q] = "ready" => Priority(t, p) > Priority(t, q)
    BY <1>0, <2>3, PriorityDistinct
  <2> HIDE DEF new, after, best, swap
  <2> QED BY <2>2, <2>3, <2>4
          DEF RowSane, Unique, SelectedIfReady, BestIsBest, NotFailed, Selected, Pending
<1>4. CASE after # {} /\ swap
  <2>1. new = [q \in Peer |-> IF q = p THEN "best" ELSE IF q \in best THEN "ready" ELSE row[q]]
    BY <1>4 DEF PromoteCandidateReady
  <2>2. new \in Rows /\ new[p] = "best"
    BY <2>1 DEF Rows, States
  <2>3. \A q \in Peer \ {p} : new[q] = IF row[q] = "best" THEN "ready" ELSE row[q]
    BY <1>2, <2>1
  <2>4. PICK b \in Peer \ {p} : row[b] = "best" /\ Priority(t, p) > Priority(t, b)
    BY <1>2, <1>4, <1>a
  <2>5. \A q \in Peer \ {p} : Selected(row[q]) => q = b
    BY <2>4 DEF RowSane, Unique, Selected
  <2>6. \A q \in Peer \ {p} : row[q] = "ready" => Priority(t, p) > Priority(t, q)
    BY <1>0, <2>4 DEF RowSane, BestIsBest
  <2> HIDE DEF new, after, best, swap
  <2> QED BY <2>2, <2>3, <2>4, <2>5, <2>6
          DEF RowSane, Unique, SelectedIfReady, BestIsBest, NotFailed, Selected, Pending
<1>5. CASE after # {} /\ ~swap
  <2>1. new = [row EXCEPT ![p] = "ready"]
    BY <1>5 DEF PromoteCandidateReady
  <2>2. new \in Rows /\ new[p] = "ready" /\ \A q \in Peer \ {p} : new[q] = row[q]
    BY <2>1 DEF Rows, States
  <2>3. \E q \in Peer : Selected(row[q])
    BY <1>1, <1>5, <1>a DEF RowSane, SelectedIfReady
  <2>4. \A q \in Peer : row[q] = "best" => Priority(t, q) > Priority(t, p)
    <3> SUFFICES ASSUME NEW q \in Peer, row[q] = "best", ~(Priority(t, q) > Priority(t, p))
                 PROVE  FALSE
      OBVIOUS
    <3>1. Priority(t, p) > Priority(t, q)
      BY <1>0, PriorityDistinct
    <3>2. \A r \in best : r = q
      BY <1>2, <1>a DEF RowSane, Unique, Selected
    <3>3. q \in best
      BY <1>2
    <3>4. PICK r \in after : row[r] = "ready"
      BY <1>5, <3>1, <3>2, <3>3
    <3>5. r \in Peer /\ Priority(t, r) > Priority(t, p)
      BY <1>1, <1>a, <3>4 DEF Selected
    <3>6. Priority(t, q) > Priority(t, r)
      BY <3>4, <3>5 DEF RowSane, BestIsBest
    <3> QED BY <1>0, <3>1, <3>5, <3>6
  <2> HIDE DEF new, after, best, swap
  <2> QED BY <2>2, <2>3, <2>4
          DEF RowSane, Unique, SelectedIfReady, BestIsBest, NotFailed, Selected, Pending
<1> QED BY <1>3, <1>4, <1>5

(* A selected announcement that changes leaves the place to the best of    *)
(* the ready ones.                                                         *)
LEMMA ReselectSane ==
  ASSUME NEW t \in TxHash, NEW row \in Rows, RowSane(row, t), NEW p \in Peer, Pending(row[p]),
         NEW s \in {"delayed", "completed"},
         s = "completed" => ~IsOnlyNonCompleted(row, p)
  PROVE  /\ ChangeAndReselect(row, t, p, s) \in Rows
         /\ ChangeAndReselect(row, t, p, s)[p] = s
         /\ RowSane(ChangeAndReselect(row, t, p, s), t)
         /\ \A q \in Peer \ {p} : Waiting(ChangeAndReselect(row, t, p, s)[q]) => Waiting(row[q])
<1> DEFINE new == ChangeAndReselect(row, t, p, s)
<1> SUFFICES new \in Rows /\ new[p] = s /\ RowSane(new, t)
             /\ \A q \in Peer \ {p} : Waiting(new[q]) => Waiting(row[q])
  OBVIOUS
<1>0. \A q \in Peer : Priority(t, q) \in Nat
  BY PriorityNat
<1>1. new \in Rows /\ new[p] = s
  BY DEF ChangeAndReselect, Rows, States
<1>2. \A q \in Peer \ {p} :
        new[q] = IF Selected(row[p]) /\ Precedes(row, t, q, p) THEN "best" ELSE row[q]
  BY DEF ChangeAndReselect
<1>3. s = "completed" => \E q \in Peer \ {p} : Pending(row[q])
  BY DEF IsOnlyNonCompleted, Pending, Rows, States
<1> HIDE DEF new
<1>4. \A q \in Peer \ {p} : new[q] # row[q] => new[q] = "best" /\ row[q] = "ready"
  BY <1>2 DEF Precedes
<1>5. \A q \in Peer \ {p} : Waiting(new[q]) => Waiting(row[q])
  BY <1>4 DEF Waiting
<1>6. NotFailed(new)
  <2>1. \A q \in Peer \ {p} : Pending(row[q]) => Pending(new[q])
    BY <1>4 DEF Pending
  <2>2. \E q \in Peer : Pending(new[q])
    BY <1>1, <1>3, <2>1 DEF Pending
  <2> QED BY <2>2 DEF NotFailed
<1>7. Unique(new) /\ SelectedIfReady(new) /\ BestIsBest(new, t)
  <2>1. CASE ~Selected(row[p])
    <3>1. \A q \in Peer \ {p} : new[q] = row[q]
      BY <1>2, <2>1
    <3> QED BY <1>1, <2>1, <3>1 DEF RowSane, Unique, SelectedIfReady, BestIsBest, Selected
  <2>2. CASE Selected(row[p]) /\ \A q \in Peer : row[q] # "ready"
    <3>1. \A q \in Peer \ {p} : new[q] = row[q] /\ ~Selected(new[q]) /\ new[q] # "ready"
      BY <1>4, <2>2 DEF RowSane, Unique
    <3>2. ~Selected(new[p]) /\ new[p] # "ready"
      BY <1>1 DEF Selected
    <3> QED BY <3>1, <3>2 DEF Unique, SelectedIfReady, BestIsBest, Selected
  <2>3. CASE Selected(row[p]) /\ \E q \in Peer : row[q] = "ready"
    <3> DEFINE S == {q \in Peer : row[q] = "ready"}
    <3>1. PICK b \in S : \A r \in S : Priority(t, r) <= Priority(t, b)
      <4>1. S \in SUBSET Peer /\ S # {}
        BY <2>3
      <4> QED BY <4>1, HighestExists
    <3>2. b \in Peer \ {p} /\ row[b] = "ready"
      BY <2>3 DEF Selected
    <3>3. \A q \in Peer \ {p} : ~Selected(row[q])
      BY <2>3 DEF RowSane, Unique
    <3>4. Precedes(row, t, b, p)
      BY <3>1, <3>2, <3>3 DEF Precedes, Selected
    <3>5. \A q \in Peer : Precedes(row, t, q, p) => q = b
      <4> SUFFICES ASSUME NEW q \in Peer, Precedes(row, t, q, p) PROVE q = b
        OBVIOUS
      <4>1. q \in S /\ Priority(t, b) <= Priority(t, q)
        BY <3>2 DEF Precedes
      <4>2. Priority(t, q) = Priority(t, b)
        BY <1>0, <3>1, <3>2, <4>1
      <4> QED BY <3>2, <4>2, PriorityDistinct
    <3>6. new[b] = "best" /\ \A q \in Peer \ {p, b} : new[q] = row[q]
      BY <1>2, <2>3, <3>2, <3>4, <3>5
    <3>7. \A q \in Peer \ {b} : row[q] = "ready" => Priority(t, b) > Priority(t, q)
      <4> SUFFICES ASSUME NEW q \in Peer \ {b}, row[q] = "ready"
                   PROVE  Priority(t, b) > Priority(t, q)
        OBVIOUS
      <4>1. Priority(t, q) <= Priority(t, b)
        BY <3>1
      <4>2. Priority(t, q) # Priority(t, b)
        BY <3>2, PriorityDistinct
      <4> QED BY <1>0, <3>2, <4>1, <4>2
    <3> HIDE DEF S
    <3> QED BY <1>1, <3>2, <3>3, <3>6, <3>7
            DEF Unique, SelectedIfReady, BestIsBest, Selected
  <2> QED BY <2>1, <2>2, <2>3
<1> QED BY <1>1, <1>5, <1>6, <1>7 DEF RowSane

LEMMA CompletedSane ==
  ASSUME NEW t \in TxHash, NEW row \in Rows, RowSane(row, t), NEW p \in Peer, row[p] # "none"
  PROVE  /\ MakeCompleted(row, t, p) \in Rows
         /\ RowSane(MakeCompleted(row, t, p), t)
         /\ MakeCompleted(row, t, p)[p] \in {"none", "completed"}
<1>1. CASE row[p] = "completed"
  BY <1>1 DEF MakeCompleted
<1>2. CASE row[p] # "completed" /\ IsOnlyNonCompleted(row, p)
  <2>1. MakeCompleted(row, t, p) = Nobody
    BY <1>2 DEF MakeCompleted
  <2>2. Nobody[p] = "none"
    BY DEF Nobody
  <2> QED BY <2>1, <2>2, NobodySane
<1>3. CASE row[p] # "completed" /\ ~IsOnlyNonCompleted(row, p)
  <2>1. MakeCompleted(row, t, p) = ChangeAndReselect(row, t, p, "completed")
    BY <1>3 DEF MakeCompleted
  <2>2. Pending(row[p])
    BY <1>3 DEF Pending, Rows, States
  <2> QED BY <1>3, <2>1, <2>2, ReselectSane
<1> QED BY <1>1, <1>2, <1>3

LEMMA ErasedSane ==
  ASSUME NEW t \in TxHash, NEW row \in Rows, RowSane(row, t), NEW p \in Peer,
         row[p] \in {"none", "completed"}
  PROVE  LET new == [row EXCEPT ![p] = "none"] IN new \in Rows /\ RowSane(new, t)
<1> DEFINE new == [row EXCEPT ![p] = "none"]
<1>1. new \in Rows
  BY DEF Rows, States
<1>2. new[p] = "none" /\ \A q \in Peer \ {p} : new[q] = row[q]
  BY DEF Rows
<1> HIDE DEF new
<1>3. RowSane(new, t)
  BY <1>2 DEF RowSane, Unique, SelectedIfReady, BestIsBest, NotFailed, Selected, Pending
<1> QED BY <1>1, <1>3 DEF new

LEMMA RequestedSane ==
  ASSUME NEW t \in TxHash, NEW row \in Rows, RowSane(row, t), NEW p \in Peer
  PROVE  /\ Requested(row, p) \in Rows
         /\ RowSane(Requested(row, p), t)
         /\ Requested(row, p)[p] = "requested"
         /\ \A q \in Peer \ {p} : Waiting(Requested(row, p)[q]) => Waiting(row[q])
         /\ \A q \in Peer : Selectable(Requested(row, p)[q]) => q # p /\ Selectable(row[q])
<1> DEFINE new == Requested(row, p)
<1>1. new \in Rows /\ new[p] = "requested"
  BY DEF Requested, Rows, States
<1>2. \A q \in Peer \ {p} : \/ new[q] = row[q]
                            \/ row[q] = "best" /\ new[q] = "ready"
                            \/ row[q] = "requested" /\ new[q] = "completed"
  BY DEF Requested
<1>3. \A q \in Peer \ {p} : ~Selected(new[q])
  BY DEF Requested, RowSane, Unique, Selected
<1> HIDE DEF new
<1>4. RowSane(new, t)
  <2>1. Unique(new) /\ SelectedIfReady(new) /\ NotFailed(new)
    BY <1>1, <1>3 DEF Unique, SelectedIfReady, NotFailed, Selected, Pending
  <2>2. BestIsBest(new, t)
    BY <1>1, <1>3 DEF BestIsBest, Selected
  <2> QED BY <2>1, <2>2 DEF RowSane
<1>5. \A q \in Peer \ {p} : Waiting(new[q]) => Waiting(row[q])
  BY <1>2 DEF Waiting
<1>6. \A q \in Peer : Selectable(new[q]) => q # p /\ Selectable(row[q])
  BY <1>1, <1>2 DEF Selectable
<1> QED BY <1>1, <1>4, <1>5, <1>6 DEF new

-----------------------------------------------------------------------------
(* Steps *)

LEMMA TimesType ==
  ASSUME NEW row \in Rows, NEW times \in [Peer -> Int]
  PROVE  /\ Times(row, times) \in [Peer -> Int]
         /\ \A p \in Peer : row[p] \in {"none", "completed"} => Times(row, times)[p] = 0
         /\ \A p \in Peer : row[p] \notin {"none", "completed"} => Times(row, times)[p] = times[p]
  BY DEF Times

(* What a new row of a transaction has to be like.                         *)
LEMMA SetRowStep ==
  ASSUME TypeOK, RowsSane, TimesTidy,
         NEW t \in TxHash, NEW row \in Rows, RowSane(row, t),
         NEW times \in [Peer -> Int], SetRow(t, row, times)
  PROVE  /\ state' \in [TxHash -> [Peer -> States]] /\ time' \in [TxHash -> [Peer -> Int]]
         /\ RowsSane' /\ TimesTidy'
<1>1. state' = [state EXCEPT ![t] = row] /\ time' = [time EXCEPT ![t] = Times(row, times)]
  BY DEF SetRow
<1>2. /\ state' \in [TxHash -> [Peer -> States]] /\ time' \in [TxHash -> [Peer -> Int]]
      /\ state'[t] = row /\ \A u \in TxHash \ {t} : state'[u] = state[u]
      /\ time'[t] = Times(row, times) /\ \A u \in TxHash \ {t} : time'[u] = time[u]
  BY <1>1, TimesType DEF TypeOK, Rows
<1>3. RowsSane'
  <2> SUFFICES ASSUME NEW u \in TxHash PROVE RowSane(state'[u], u)
    BY DEF RowsSane, RowSane, Unique, SelectedIfReady, BestIsBest, NotFailed
  <2> QED BY <1>2 DEF RowsSane
<1>4. TimesTidy'
  BY <1>2, TimesType DEF TimesTidy
<1> QED BY <1>2, <1>3, <1>4

LEMMA InitInv == Init => IInv
<1> SUFFICES ASSUME Init PROVE IInv
  OBVIOUS
<1>1. TypeOK
  BY TimeAssumption DEF Init, TypeOK, Nobody, Cleared, States
<1>2. \A t \in TxHash : state[t] = Nobody
  BY DEF Init
<1>3. RowsSane
  BY <1>2, NobodySane DEF RowsSane
<1>4. LoopsDone
  BY DEF Init, LoopsDone
<1>5. TimesTidy
  BY DEF Init, TimesTidy, Cleared
<1> QED BY <1>1, <1>3, <1>4, <1>5 DEF IInv

(* The calls that find the tracker idle and leave it so.                   *)
LEMMA IdleStep ==
  ASSUME TypeOK, Idle,
         state' \in [TxHash -> [Peer -> States]], time' \in [TxHash -> [Peer -> Int]],
         RowsSane', TimesTidy'
  PROVE  IInv'
<1>1. TypeOK'
  BY DEF Idle, TypeOK
<1>2. LoopsDone'
  BY DEF Idle, LoopsDone
<1> QED BY <1>1, <1>2 DEF IInv

LEMMA CallStep ==
  ASSUME IInv, NEW p \in Peer, NEW t \in TxHash,
         \/ \E delay \in ReqDelays : ReceivedInv(p, t, delay)
         \/ RequestedTx(p, t)
         \/ ReceivedResponse(p, t)
  PROVE  IInv'
<1> USE DEF IInv
<1>1. /\ state[t] \in Rows /\ RowSane(state[t], t) /\ time[t] \in [Peer -> Int]
      /\ now \in Int /\ ExpiryInterval \in Int /\ ReqDelays \subseteq Int
  BY TimeAssumption DEF TypeOK, Rows, RowsSane, now
<1>2. ASSUME NEW delay \in ReqDelays, ReceivedInv(p, t, delay) PROVE IInv'
  <2>1. [time[t] EXCEPT ![p] = now + delay] \in [Peer -> Int]
    BY <1>1
  <2>2. /\ [state[t] EXCEPT ![p] = "delayed"] \in Rows
        /\ RowSane([state[t] EXCEPT ![p] = "delayed"], t)
    BY <1>1, <1>2, AnnouncedSane DEF ReceivedInv, Exists
  <2> QED BY <1>2, <2>1, <2>2, SetRowStep, IdleStep DEF ReceivedInv
<1>3. CASE RequestedTx(p, t)
  <2>1. [time[t] EXCEPT ![p] = now + ExpiryInterval] \in [Peer -> Int]
    BY <1>1
  <2> QED BY <1>1, <1>3, <2>1, RequestedSane, SetRowStep, IdleStep DEF RequestedTx
<1>4. CASE ReceivedResponse(p, t)
  BY <1>1, <1>4, CompletedSane, SetRowStep, IdleStep DEF ReceivedResponse, Exists
<1> QED BY <1>2, <1>3, <1>4

LEMMA ForgetStep ==
  ASSUME IInv, NEW t \in TxHash, ForgetTxHash(t)
  PROVE  IInv'
<1>1. Cleared \in [Peer -> Int]
  BY DEF Cleared
<1> QED BY <1>1, NobodySane, SetRowStep, IdleStep DEF ForgetTxHash, IInv

LEMMA DisconnectStep ==
  ASSUME IInv, NEW p \in Peer, DisconnectedPeer(p)
  PROVE  IInv'
<1> DEFINE row(t) == IF Exists(state[t], p)
                     THEN [MakeCompleted(state[t], t, p) EXCEPT ![p] = "none"]
                     ELSE state[t]
<1>1. ASSUME NEW t \in TxHash PROVE row(t) \in Rows /\ RowSane(row(t), t)
  <2>1. state[t] \in Rows /\ RowSane(state[t], t)
    BY DEF IInv, TypeOK, Rows, RowsSane
  <2>2. CASE Exists(state[t], p)
    BY <2>1, <2>2, CompletedSane, ErasedSane DEF Exists
  <2> QED BY <2>1, <2>2
<1>2. /\ state' = [t \in TxHash |-> row(t)]
      /\ time' = [t \in TxHash |-> Times(row(t), time[t])]
      /\ Idle
  BY DEF DisconnectedPeer
<1> HIDE DEF row
<1>3. state' \in [TxHash -> [Peer -> States]]
  BY <1>1, <1>2 DEF Rows
<1>4. \A t \in TxHash : time[t] \in [Peer -> Int]
  BY DEF IInv, TypeOK
<1>5. time' \in [TxHash -> [Peer -> Int]]
  BY <1>1, <1>2, <1>4, TimesType
<1>6. RowsSane'
  <2> SUFFICES ASSUME NEW u \in TxHash PROVE RowSane(state'[u], u)
    BY DEF RowsSane, RowSane, Unique, SelectedIfReady, BestIsBest, NotFailed
  <2> QED BY <1>1, <1>2
<1>7. TimesTidy'
  BY <1>1, <1>2, <1>4, TimesType DEF TimesTidy
<1> QED BY <1>2, <1>3, <1>5, <1>6, <1>7, IdleStep DEF IInv

LEMMA LoopStep ==
  ASSUME IInv, NEW p \in Peer, NEW t \in TxHash, PastEvent(p, t) \/ FutureEvent(p, t)
  PROVE  IInv'
<1> USE DEF IInv
<1>1. state[t] \in Rows /\ RowSane(state[t], t) /\ time[t] \in [Peer -> Int]
  BY DEF TypeOK, Rows, RowsSane
<1>2. CASE PastEvent(p, t)
  <2> DEFINE row == IF state[t][p] = "delayed" THEN PromoteCandidateReady(state[t], t, p)
                    ELSE MakeCompleted(state[t], t, p)
  <2>1. row \in Rows /\ RowSane(row, t)
    BY <1>1, <1>2, PromoteSane, CompletedSane DEF PastEvent, FirstEvent, Waiting
  <2>2. SetRow(t, row, time[t]) /\ UNCHANGED <<back, pc, caller, ret>> /\ pc = "past"
    BY <1>2 DEF PastEvent
  <2> HIDE DEF row
  <2>3. /\ state' \in [TxHash -> [Peer -> States]] /\ time' \in [TxHash -> [Peer -> Int]]
        /\ RowsSane' /\ TimesTidy'
    BY <1>1, <2>1, <2>2, SetRowStep
  <2>4. TypeOK'
    BY <2>2, <2>3 DEF TypeOK
  <2>5. LoopsDone'
    BY <2>2 DEF LoopsDone
  <2> QED BY <2>3, <2>4, <2>5
<1>3. CASE FutureEvent(p, t)
  <2> DEFINE row == ChangeAndReselect(state[t], t, p, "delayed")
  <2>0. Pending(state[t][p])
    BY <1>3 DEF FutureEvent, LastEvent, Selectable, Pending
  <2>1. /\ row \in Rows /\ RowSane(row, t) /\ row[p] = "delayed"
        /\ \A q \in Peer \ {p} : Waiting(row[q]) => Waiting(state[t][q])
    BY <1>1, <2>0, ReselectSane
  <2>2. /\ SetRow(t, row, time[t]) /\ UNCHANGED <<back, pc, caller, ret>>
        /\ pc = "future" /\ time[t][p] > now
    BY <1>3 DEF FutureEvent
  <2> HIDE DEF row
  <2>3. /\ state' \in [TxHash -> [Peer -> States]] /\ time' \in [TxHash -> [Peer -> Int]]
        /\ RowsSane' /\ TimesTidy'
    BY <1>1, <2>1, <2>2, SetRowStep
  <2>4. TypeOK'
    BY <2>2, <2>3 DEF TypeOK
  <2>5. NoPast
    BY <2>2 DEF LoopsDone
  <2>6. /\ state'[t] = row /\ \A u \in TxHash \ {t} : state'[u] = state[u]
        /\ time'[t] = Times(row, time[t]) /\ \A u \in TxHash \ {t} : time'[u] = time[u]
    BY <2>2 DEF SetRow, TypeOK
  <2>7. \A q \in Peer : Waiting(row[q]) => Times(row, time[t])[q] = time[t][q]
    BY <1>1, <2>1, TimesType DEF Waiting
  <2>8. \A q \in Peer : Waiting(row[q]) => time[t][q] > now
    BY <2>1, <2>2, <2>5 DEF NoPast
  <2>9. now' = now
    BY <2>2 DEF now
  <2>10. NoPast'
    <3> SUFFICES ASSUME NEW u \in TxHash, NEW q \in Peer, Waiting(state'[u][q])
                 PROVE  time'[u][q] > now
      BY <2>9 DEF NoPast, Waiting
    <3>1. CASE u = t
      BY <2>6, <2>7, <2>8, <3>1
    <3>2. CASE u # t
      BY <2>5, <2>6, <3>2 DEF NoPast
    <3> QED BY <3>1, <3>2
  <2> QED BY <2>2, <2>3, <2>4, <2>10 DEF LoopsDone
<1> QED BY <1>2, <1>3

(* The caller acts on the advice: both loops' results last.                *)
LEMMA AdvisedStep ==
  ASSUME IInv, NEW t \in TxHash, RequestAdvised(t)
  PROVE  IInv'
<1> USE DEF IInv
<1>1. /\ state[t] \in Rows /\ RowSane(state[t], t) /\ time[t] \in [Peer -> Int]
      /\ now \in Int /\ ExpiryInterval \in Nat \ {0}
  BY TimeAssumption DEF TypeOK, Rows, RowsSane, now
<1>2. /\ pc = "returned" /\ UNCHANGED <<back, pc, caller>> /\ ret' = ret \ {t}
      /\ caller \in Peer /\ NoPast /\ NoFuture /\ now' = now
  BY DEF RequestAdvised, TypeOK, LoopsDone, now
<1> DEFINE times == [time[t] EXCEPT ![caller] = now + ExpiryInterval]
           req == Requested(state[t], caller)
<1>3. \/ SetRow(t, Nobody, Cleared)
      \/ SetRow(t, req, times)
  BY DEF RequestAdvised
<1>4. /\ Cleared \in [Peer -> Int] /\ times \in [Peer -> Int]
      /\ times[caller] = now + ExpiryInterval /\ \A q \in Peer \ {caller} : times[q] = time[t][q]
  BY <1>1, <1>2 DEF Cleared
<1>5. /\ req \in Rows /\ RowSane(req, t) /\ req[caller] = "requested"
      /\ \A q \in Peer \ {caller} : Waiting(req[q]) => Waiting(state[t][q])
      /\ \A q \in Peer : Selectable(req[q]) => q # caller /\ Selectable(state[t][q])
  BY <1>1, <1>2, RequestedSane
<1> HIDE DEF times, req
<1>6. PICK row \in Rows, ts \in [Peer -> Int] :
        /\ SetRow(t, row, ts) /\ RowSane(row, t)
        /\ \A q \in Peer : Waiting(row[q]) => ts[q] > now
        /\ \A q \in Peer : Selectable(row[q]) => ts[q] <= now
  <2>1. CASE SetRow(t, Nobody, Cleared)
    <3>1. \A q \in Peer : ~Waiting(Nobody[q]) /\ ~Selectable(Nobody[q])
      BY DEF Nobody, Waiting, Selectable
    <3> QED BY <1>4, <2>1, <3>1, NobodySane
  <2>2. CASE SetRow(t, req, times)
    <3>1. \A q \in Peer : Waiting(req[q]) => times[q] > now
      BY <1>1, <1>2, <1>4, <1>5 DEF NoPast
    <3>2. \A q \in Peer : Selectable(req[q]) => times[q] <= now
      BY <1>2, <1>4, <1>5 DEF NoFuture
    <3> QED BY <1>4, <1>5, <2>2, <3>1, <3>2
  <2> QED BY <1>3, <2>1, <2>2
<1>7. /\ state' \in [TxHash -> [Peer -> States]] /\ time' \in [TxHash -> [Peer -> Int]]
      /\ RowsSane' /\ TimesTidy'
  BY <1>6, SetRowStep
<1>8. TypeOK'
  BY <1>2, <1>7 DEF TypeOK
<1>9. /\ state'[t] = row /\ \A u \in TxHash \ {t} : state'[u] = state[u]
      /\ time'[t] = Times(row, ts) /\ \A u \in TxHash \ {t} : time'[u] = time[u]
  BY <1>6 DEF SetRow, TypeOK
<1>10. \A q \in Peer : Waiting(row[q]) \/ Selectable(row[q]) => Times(row, ts)[q] = ts[q]
  BY TimesType DEF Waiting, Selectable
<1>11. ASSUME NEW u \in TxHash, NEW q \in Peer
       PROVE  /\ Waiting(state'[u][q]) => time'[u][q] > now
              /\ Selectable(state'[u][q]) => time'[u][q] <= now
  <2>1. CASE u = t
    BY <1>6, <1>9, <1>10, <2>1
  <2>2. CASE u # t
    BY <1>2, <1>9, <2>2 DEF NoPast, NoFuture
  <2> QED BY <2>1, <2>2
<1>12. NoPast' /\ NoFuture'
  BY <1>2, <1>11 DEF NoPast, NoFuture, Waiting, Selectable
<1> QED BY <1>7, <1>8, <1>12 DEF LoopsDone

LEMMA ControlStep ==
  ASSUME IInv,
         \/ \E p \in Peer : GetRequestable(p)
         \/ NoPastEvent \/ Answer \/ Return
  PROVE  IInv'
<1> USE DEF IInv
<1>1. UNCHANGED <<state, time, back>>
  BY DEF GetRequestable, NoPastEvent, Answer, Return
<1>2. RowsSane' /\ TimesTidy' /\ (NoPast <=> NoPast') /\ (NoFuture <=> NoFuture')
  BY <1>1 DEF RowsSane, TimesTidy, NoPast, NoFuture, now, RowSane, Unique, SelectedIfReady,
              BestIsBest, NotFailed, Selected, Pending, Waiting, Selectable
<1>3. TypeOK'
  BY <1>1, NullAssumption DEF GetRequestable, NoPastEvent, Answer, Return, TypeOK
<1>4. LoopsDone'
  BY <1>2 DEF GetRequestable, NoPastEvent, Answer, Return, LoopsDone, NoPast, NoFuture
<1> QED BY <1>2, <1>3, <1>4

LEMMA ClockStep ==
  ASSUME IInv, Tick \/ ClockBack
  PROVE  IInv'
<1> USE DEF IInv
<1>1. pc = "idle" /\ UNCHANGED <<state, pc, caller, ret>>
  BY DEF Tick, ClockBack
<1>2. back' \in 0..MaxBack
  BY TimeAssumption DEF Tick, ClockBack, TypeOK
<1>3. RowsSane'
  BY <1>1 DEF RowsSane, RowSane, Unique, SelectedIfReady, BestIsBest, NotFailed
<1>4. LoopsDone'
  BY <1>1 DEF LoopsDone
<1>5. time' \in [TxHash -> [Peer -> Int]] /\ TimesTidy'
  <2>1. CASE UNCHANGED time
    BY <1>1, <2>1 DEF TypeOK, TimesTidy
  <2>2. CASE time' = [t \in TxHash |-> Times(state[t], Earlier(time[t]))]
    <3>1. \A t \in TxHash : state[t] \in Rows /\ Earlier(time[t]) \in [Peer -> Int]
      BY TimeAssumption DEF TypeOK, Rows, Earlier
    <3> QED BY <1>1, <2>2, <3>1, TimesType DEF TimesTidy
  <2> QED BY <2>1, <2>2 DEF Tick, ClockBack
<1>6. TypeOK'
  BY <1>1, <1>2, <1>5 DEF TypeOK
<1> QED BY <1>3, <1>4, <1>5, <1>6

LEMMA NextInv == IInv /\ [Next]_vars => IInv'
<1> SUFFICES ASSUME IInv, [Next]_vars PROVE IInv'
  OBVIOUS
<1>1. CASE UNCHANGED vars
  BY <1>1 DEF vars, IInv, TypeOK, RowsSane, LoopsDone, TimesTidy, NoPast, NoFuture, now, RowSane,
              Unique, SelectedIfReady, BestIsBest, NotFailed
<1>2. CASE Next
  <2>1. ASSUME NEW p \in Peer, NEW t \in TxHash,
               (\E delay \in ReqDelays : ReceivedInv(p, t, delay))
                 \/ RequestedTx(p, t) \/ ReceivedResponse(p, t)
        PROVE IInv'
    BY <2>1, CallStep
  <2>2. ASSUME NEW t \in TxHash, ForgetTxHash(t) PROVE IInv'
    BY <2>2, ForgetStep
  <2>3. ASSUME NEW p \in Peer, DisconnectedPeer(p) PROVE IInv'
    BY <2>3, DisconnectStep
  <2>4. CASE Proceed
    BY <2>4, LoopStep, AdvisedStep, ControlStep DEF Proceed
  <2>5. ASSUME NEW p \in Peer, GetRequestable(p) PROVE IInv'
    BY <2>5, ControlStep
  <2>6. CASE Tick \/ ClockBack
    BY <2>6, ClockStep
  <2> QED BY <1>2, <2>1, <2>2, <2>3, <2>4, <2>5, <2>6 DEF Next
<1> QED BY <1>1, <1>2

-----------------------------------------------------------------------------
LEMMA InvImplies == IInv => TrackerSane
<1> SUFFICES ASSUME IInv PROVE TrackerSane
  OBVIOUS
<1>1. SelectionSane
  BY DEF IInv, RowsSane, RowSane, Unique, SelectedIfReady, BestIsBest, SelectionSane
<1>2. NotOnlyCompleted
  BY DEF IInv, RowsSane, RowSane, NotFailed, NotOnlyCompleted, Pending, Candidate
<1>3. TimePointSane
  BY DEF IInv, LoopsDone, NoPast, NoFuture, TimePointSane
<1> QED BY <1>1, <1>2, <1>3 DEF TrackerSane

(* Every state of the tracker is of its types and satisfies the inductive  *)
(* invariant.                                                              *)
THEOREM TypeCorrect == Spec => []TypeOK
<1>1. IInv => TypeOK
  BY DEF IInv
<1> QED BY <1>1, InitInv, NextInv, PTL DEF Spec

(* TxRequestTracker passes SanityCheck after every call and between the    *)
(* steps of SetTimePoint, and PostGetRequestableSanityCheck when           *)
(* GetRequestable returns: the second loop, which moves announcements      *)
(* back, makes no work for the first.                                      *)
THEOREM TrackerCorrect == Spec => []TrackerSane
BY InitInv, NextInv, InvImplies, PTL DEF Spec

-----------------------------------------------------------------------------
(***************************************************************************)
(* The tracker implements the rules of txrequest.h.  Moving announcements  *)
(* between delayed, ready and best is invisible to the rules; that the     *)
(* neighbour in the index is the best choice comes from the invariant.     *)
(***************************************************************************)
(* The announcements of a transaction, and the advice, as the rules see    *)
(* them.                                                                   *)
Abs(row) == [p \in Peer |-> IF row[p] \in {"delayed", "ready", "best"} THEN "candidate"
                            ELSE row[p]]
ann == [t \in TxHash |-> [p \in Peer |-> IF Candidate(p, t) THEN "candidate" ELSE state[t][p]]]
advised == IF pc = "returned" THEN [peer |-> caller, txs |-> ret] ELSE Null

(* What is left of the advice is still the best choice.                    *)
AdviceStands == pc = "returned" => \A t \in ret : state[t][caller] = "best"

RInv == IInv /\ AdviceStands

LEMMA AnnAbs == ann = [t \in TxHash |-> Abs(state[t])]
BY DEF ann, Abs, Candidate

-----------------------------------------------------------------------------
(* The operations on a row, as the rules see them *)

LEMMA AbsPending ==
  ASSUME NEW row \in Rows
  PROVE  /\ Rules!Pending(Abs(row)) = {p \in Peer : Pending(row[p])}
         /\ \A p \in Peer : p \notin Rules!Pending(Abs(row)) => row[p] \in {"none", "completed"}
BY DEF Rules!Pending, Abs, Pending, Rows, States

LEMMA AbsTimes ==
  ASSUME NEW row \in Rows, NEW times
  PROVE  Times(row, times) = Rules!TidyTime(Abs(row), times)
BY AbsPending DEF Times, Rules!TidyTime, Pending

LEMMA AbsNobody == Abs(Nobody) = Rules!Nobody
BY DEF Abs, Nobody, Rules!Nobody

LEMMA TidySane ==
  ASSUME NEW t \in TxHash, NEW row \in Rows, RowSane(row, t)
  PROVE  Rules!Tidy(Abs(row)) = Abs(row)
<1>1. CASE Rules!Pending(Abs(row)) = {}
  <2>1. \A p \in Peer : row[p] = "none"
    BY <1>1, AbsPending DEF RowSane, NotFailed
  <2> QED BY <1>1, <2>1 DEF Rules!Tidy, Rules!Nobody, Abs
<1> QED BY <1>1 DEF Rules!Tidy

LEMMA AbsPromote ==
  ASSUME NEW t \in TxHash, NEW row \in Rows, NEW p \in Peer, row[p] = "delayed"
  PROVE  Abs(PromoteCandidateReady(row, t, p)) = Abs(row)
<1> DEFINE new == PromoteCandidateReady(row, t, p)
<1>1. \A q \in Peer : \/ new[q] = row[q]
                      \/ new[q] \in {"ready", "best"} /\ row[q] \in {"delayed", "ready", "best"}
  BY DEF PromoteCandidateReady, Rows
<1> QED BY <1>1 DEF Abs

LEMMA AbsReselect ==
  ASSUME NEW t \in TxHash, NEW row \in Rows, NEW p \in Peer, NEW s
  PROVE  Abs(ChangeAndReselect(row, t, p, s)) = Abs([row EXCEPT ![p] = s])
<1> DEFINE new == ChangeAndReselect(row, t, p, s)
<1>1. new[p] = s /\ \A q \in Peer \ {p} : \/ new[q] = row[q]
                                          \/ new[q] = "best" /\ row[q] = "ready"
  BY DEF ChangeAndReselect, Precedes
<1>2. [row EXCEPT ![p] = s][p] = s /\ \A q \in Peer \ {p} : [row EXCEPT ![p] = s][q] = row[q]
  BY DEF Rows
<1> QED BY <1>1, <1>2 DEF Abs

LEMMA AbsCompleted ==
  ASSUME NEW t \in TxHash, NEW row \in Rows, RowSane(row, t), NEW p \in Peer, Pending(row[p])
  PROVE  Abs(MakeCompleted(row, t, p)) = Rules!Tidy([Abs(row) EXCEPT ![p] = "completed"])
<1> DEFINE new == [row EXCEPT ![p] = "completed"]
<1>0. new \in Rows /\ new[p] = "completed" /\ \A q \in Peer \ {p} : new[q] = row[q]
  BY DEF Rows, States
<1>1. Abs(new) = [Abs(row) EXCEPT ![p] = "completed"]
  BY DEF Abs, Rows
<1>2. Rules!Pending(Abs(new)) = {} <=> IsOnlyNonCompleted(row, p)
  <2>1. Rules!Pending(Abs(new)) = {q \in Peer \ {p} : Pending(row[q])}
    BY <1>0, AbsPending DEF Pending
  <2> QED BY <2>1 DEF IsOnlyNonCompleted, Pending, Rows, States
<1>3. row[p] # "completed"
  BY DEF Pending
<1>4. CASE IsOnlyNonCompleted(row, p)
  BY <1>1, <1>2, <1>3, <1>4, AbsNobody DEF MakeCompleted, Rules!Tidy
<1>5. CASE ~IsOnlyNonCompleted(row, p)
  <2>1. MakeCompleted(row, t, p) = ChangeAndReselect(row, t, p, "completed")
    BY <1>3, <1>5 DEF MakeCompleted
  <2>2. Abs(MakeCompleted(row, t, p)) = Abs(new)
    BY <2>1, AbsReselect
  <2>3. Rules!Tidy(Abs(new)) = Abs(new)
    BY <1>2, <1>5 DEF Rules!Tidy
  <2> QED BY <1>1, <2>2, <2>3
<1> QED BY <1>4, <1>5

LEMMA AbsErased ==
  ASSUME NEW t \in TxHash, NEW row \in Rows, RowSane(row, t), NEW p \in Peer, row[p] # "none"
  PROVE  Abs([MakeCompleted(row, t, p) EXCEPT ![p] = "none"])
           = Rules!Tidy([Abs(row) EXCEPT ![p] = "none"])
<1> DEFINE mid == MakeCompleted(row, t, p)
           new == [mid EXCEPT ![p] = "none"]
           gone == [row EXCEPT ![p] = "none"]
<1>1. mid \in Rows /\ RowSane(mid, t) /\ mid[p] \in {"none", "completed"}
  BY CompletedSane
<1>2. new \in Rows /\ RowSane(new, t)
  BY <1>1, ErasedSane
<1>3. gone \in Rows /\ Abs(gone) = [Abs(row) EXCEPT ![p] = "none"]
  BY DEF Abs, Rows, States
<1>4. CASE row[p] = "completed"
  <2>1. new = gone
    BY <1>4 DEF MakeCompleted
  <2> QED BY <1>2, <1>3, <2>1, TidySane
<1>5. CASE row[p] # "completed" /\ IsOnlyNonCompleted(row, p)
  <2>1. new = Nobody
    BY <1>5 DEF MakeCompleted, Nobody
  <2>2. \A q \in Peer : gone[q] \in {"none", "completed"}
    BY <1>5 DEF IsOnlyNonCompleted, Rows
  <2> HIDE DEF gone
  <2>3. Rules!Pending(Abs(gone)) = {}
    BY <1>3, <2>2, AbsPending DEF Pending
  <2> QED BY <1>3, <2>1, <2>3, AbsNobody DEF Rules!Tidy
<1>6. CASE row[p] # "completed" /\ ~IsOnlyNonCompleted(row, p)
  <2>1. mid = ChangeAndReselect(row, t, p, "completed")
    BY <1>6 DEF MakeCompleted
  <2>2. Abs(new) = [Abs(mid) EXCEPT ![p] = "none"]
    BY <1>1 DEF Abs, Rows
  <2>3. Abs(mid) = Abs([row EXCEPT ![p] = "completed"])
    BY <2>1, AbsReselect
  <2>4. Abs(new) = Abs(gone)
    BY <2>2, <2>3 DEF Abs, Rows
  <2> QED BY <1>2, <1>3, <2>4, TidySane
<1> QED BY <1>4, <1>5, <1>6

LEMMA AbsRequested ==
  ASSUME NEW t \in TxHash, NEW row \in Rows, RowSane(row, t), NEW p \in Peer
  PROVE  Abs(Requested(row, p)) = [q \in Peer |-> IF q = p THEN "requested"
                                                  ELSE IF Abs(row)[q] = "requested" THEN "completed"
                                                  ELSE Abs(row)[q]]
<1>1. row[p] = "best" => \A q \in Peer \ {p} : row[q] # "requested"
  BY DEF RowSane, Unique, Selected
<1> QED BY <1>1 DEF Abs, Requested

-----------------------------------------------------------------------------
(* The advice *)

LEMMA AdviceInit == Init => AdviceStands
BY DEF Init, AdviceStands

LEMMA AdviceStep == RInv /\ [Next]_vars => AdviceStands'
<1> SUFFICES ASSUME RInv, [Next]_vars PROVE AdviceStands'
  OBVIOUS
<1>0. IInv'
  BY NextInv DEF RInv
<1> SUFFICES ASSUME pc' = "returned", NEW t \in TxHash, t \in ret'
             PROVE  state'[t][caller'] = "best"
  BY <1>0 DEF AdviceStands, IInv, TypeOK
<1>1. CASE UNCHANGED vars
  BY <1>1 DEF vars, RInv, AdviceStands
<1>2. CASE Answer
  BY <1>2 DEF Answer
<1>3. ASSUME NEW u \in TxHash, RequestAdvised(u) PROVE state'[t][caller'] = "best"
  <2>1. pc = "returned" /\ t \in ret /\ t # u /\ caller' = caller
    BY <1>3 DEF RequestAdvised
  <2>2. state'[t] = state[t]
    BY <1>3, <2>1 DEF RequestAdvised, SetRow, RInv, IInv, TypeOK
  <2> QED BY <2>1, <2>2 DEF RInv, AdviceStands
<1>4. CASE pc = "idle" /\ Next
  BY <1>4 DEF Next, Idle, ReceivedInv, RequestedTx, ReceivedResponse, ForgetTxHash,
              DisconnectedPeer, GetRequestable, Proceed, PastEvent, FutureEvent, RequestAdvised,
              NoPastEvent, Answer, Return, Tick, ClockBack
<1>5. CASE pc # "idle" /\ Next
  <2>1. Proceed
    BY <1>5 DEF Next, Idle, ReceivedInv, RequestedTx, ReceivedResponse, ForgetTxHash,
                DisconnectedPeer, GetRequestable, Tick, ClockBack
  <2> QED BY <1>2, <1>3, <2>1 DEF Proceed, PastEvent, FutureEvent, NoPastEvent, Return
<1> QED BY <1>1, <1>4, <1>5

(* A preferred peer beats any other; among peers that are both preferred   *)
(* or both not, the salted hash decides.                                   *)
LEMMA PriorityOrder ==
  ASSUME NEW t \in TxHash, NEW p \in Peer, NEW q \in Peer, Priority(t, p) > Priority(t, q)
  PROVE  /\ q \in Preferred => p \in Preferred
         /\ (p \in Preferred <=> q \in Preferred) => Salt[t][p] > Salt[t][q]
<1>1. Salt[t][p] \in Nat /\ Salt[t][q] \in Nat /\ Salt[t][p] < TopBit /\ TopBit \in Nat
  BY SaltAssumption
<1>2. CASE p \in Preferred
  BY <1>1, <1>2 DEF Priority
<1>3. CASE p \notin Preferred
  BY <1>1, <1>3 DEF Priority
<1> QED BY <1>2, <1>3

(* When both loops are done, the best announcement of a transaction is     *)
(* what the rules call requestable.                                        *)
LEMMA BestIsRequestable ==
  ASSUME IInv, NoPast, NoFuture, NEW t \in TxHash, NEW p \in Peer
  PROVE  state[t][p] = "best"
           <=> Rules!BestPeer(t, p) /\ \A q \in Peer : ann[t][q] # "requested"
<1> DEFINE row == state[t]
           E == Rules!Eligible(t)
<1>1. row \in Rows /\ RowSane(row, t) /\ \A q \in Peer : time[t][q] \in Int /\ Salt[t][q] \in Nat
  BY SaltAssumption DEF IInv, TypeOK, Rows, RowsSane
<1>2. now \in Int /\ Rules!now = now
  BY DEF IInv, TypeOK, now, Rules!now
<1>3. \A q \in Peer : ann[t][q] = IF row[q] \in {"delayed", "ready", "best"} THEN "candidate"
                                  ELSE row[q]
  BY DEF ann, Candidate
<1>4. E = {q \in Peer : Selectable(row[q])}
  <2>1. E = {q \in Peer : ann[t][q] = "candidate" /\ time[t][q] <= now}
    BY <1>2 DEF Rules!Eligible, ann
  <2>2. \A q \in Peer : row[q] = "delayed" => ~(time[t][q] <= now)
    BY <1>1, <1>2 DEF NoPast, Waiting
  <2>3. \A q \in Peer : Selectable(row[q]) => time[t][q] <= now
    BY DEF NoFuture
  <2>4. \A q \in Peer : ann[t][q] = "candidate" <=> row[q] = "delayed" \/ Selectable(row[q])
    BY <1>1, <1>3 DEF Selectable, Rows, States
  <2> QED BY <2>1, <2>2, <2>3, <2>4
<1> DEFINE pool == IF E \cap Preferred # {} THEN E \cap Preferred ELSE E
<1>5. Rules!BestPeer(t, p) <=> p \in pool /\ \A q \in pool : Salt[t][q] <= Salt[t][p]
  BY DEF Rules!BestPeer
<1>6. (\A q \in Peer : ann[t][q] # "requested") <=> \A q \in Peer : row[q] # "requested"
  BY <1>3
<1> HIDE DEF row, E
<1>7. ASSUME row[p] = "best"
      PROVE  p \in pool /\ (\A q \in pool : Salt[t][q] <= Salt[t][p])
             /\ \A q \in Peer : row[q] # "requested"
  <2>1. \A q \in Peer \ {p} : ~Selected(row[q])
    BY <1>1, <1>7 DEF RowSane, Unique, Selected
  <2>2. \A q \in E \ {p} : q \in Peer /\ Priority(t, p) > Priority(t, q)
    BY <1>1, <1>4, <1>7, <2>1 DEF RowSane, BestIsBest, Selectable, Selected
  <2>3. p \in E
    BY <1>4, <1>7 DEF Selectable
  <2>4. \A q \in E \ {p} : /\ q \in Preferred => p \in Preferred
                           /\ (p \in Preferred <=> q \in Preferred) => Salt[t][p] > Salt[t][q]
    BY <2>2, PriorityOrder
  <2>5. p \in pool
    BY <2>3, <2>4
  <2>6. \A q \in pool : q \in E /\ (p \in Preferred <=> q \in Preferred)
    BY <2>5
  <2>7. ASSUME NEW q \in pool PROVE Salt[t][q] <= Salt[t][p]
    <3>1. CASE q = p
      BY <1>1, <3>1
    <3>2. CASE q # p
      BY <1>1, <2>2, <2>4, <2>6, <3>2
    <3> QED BY <3>1, <3>2
  <2>8. row[p] # "requested"
    BY <1>7
  <2> QED BY <2>1, <2>5, <2>7, <2>8 DEF Selected
<1>8. ASSUME p \in pool, \A q \in pool : Salt[t][q] <= Salt[t][p],
             \A q \in Peer : row[q] # "requested"
      PROVE  row[p] = "best"
  <2> SUFFICES ASSUME row[p] # "best" PROVE FALSE
    OBVIOUS
  <2>1. row[p] = "ready"
    BY <1>4, <1>8 DEF Selectable
  <2>2. PICK b \in Peer : row[b] = "best"
    BY <1>1, <1>8, <2>1 DEF RowSane, SelectedIfReady, Selected
  <2>3. Priority(t, b) > Priority(t, p)
    BY <1>1, <2>1, <2>2 DEF RowSane, BestIsBest
  <2>4. /\ p \in Preferred => b \in Preferred
        /\ (b \in Preferred <=> p \in Preferred) => Salt[t][b] > Salt[t][p]
    BY <2>3, PriorityOrder
  <2>5. b \in E
    BY <1>4, <2>2 DEF Selectable
  <2>6. b \in pool /\ (b \in Preferred <=> p \in Preferred)
    BY <1>8, <2>4, <2>5
  <2> QED BY <1>1, <1>8, <2>2, <2>4, <2>6
<1> QED BY <1>5, <1>6, <1>7, <1>8 DEF row

-----------------------------------------------------------------------------
(* The steps, as the rules see them *)

LEMMA AnnNext == ann' = [t \in TxHash |-> Abs(state'[t])]
BY DEF ann, Abs, Candidate

LEMMA SetRowRules ==
  ASSUME IInv, NEW t \in TxHash, NEW row \in Rows, NEW times, SetRow(t, row, times)
  PROVE  /\ ann' = [ann EXCEPT ![t] = Abs(row)]
         /\ time' = [time EXCEPT ![t] = Rules!TidyTime(Abs(row), times)]
<1>1. state' = [state EXCEPT ![t] = row] /\ time' = [time EXCEPT ![t] = Times(row, times)]
  BY DEF SetRow
<1>2. state \in [TxHash -> [Peer -> States]]
  BY DEF IInv, TypeOK
<1> QED BY <1>1, <1>2, AnnAbs, AnnNext, AbsTimes

(* A step that changes only which candidates are delayed, ready and best.  *)
LEMMA SameRules ==
  ASSUME IInv, NEW t \in TxHash, NEW row \in Rows, Abs(row) = Abs(state[t]),
         SetRow(t, row, time[t])
  PROVE  ann' = ann /\ time' = time
<1>1. ann' = [ann EXCEPT ![t] = Abs(row)] /\ ann[t] = Abs(row)
  BY SetRowRules, AnnAbs
<1>2. state[t] \in Rows /\ time \in [TxHash -> [Peer -> Int]]
  BY DEF IInv, TypeOK, Rows
<1>3. Times(row, time[t]) = Times(state[t], time[t])
  BY <1>2, AbsTimes
<1>4. Times(state[t], time[t]) = time[t]
  BY <1>2 DEF Times, IInv, TimesTidy
<1>5. time' = [time EXCEPT ![t] = Times(row, time[t])]
  BY DEF SetRow
<1>6. ann = [u \in TxHash |-> Abs(state[u])]
  BY AnnAbs
<1> QED BY <1>1, <1>2, <1>3, <1>4, <1>5, <1>6

LEMMA RulesInit == Init => Rules!Init
<1> SUFFICES ASSUME Init PROVE Rules!Init
  OBVIOUS
<1>1. ann = [t \in TxHash |-> Rules!Nobody]
  BY AnnAbs, AbsNobody DEF Init
<1> QED BY <1>1 DEF Init, Rules!Init, ann, Cleared, Rules!Cleared

(* An answer, or an expiry.                                                *)
LEMMA CompleteRules ==
  ASSUME IInv, NEW p \in Peer, NEW t \in TxHash, Pending(state[t][p]), pc # "returned",
         SetRow(t, MakeCompleted(state[t], t, p), time[t]), UNCHANGED <<back, pc, caller, ret>>
  PROVE  Rules!Complete(p, t)
<1>1. state[t] \in Rows /\ RowSane(state[t], t)
  BY DEF IInv, TypeOK, Rows, RowsSane
<1>2. ann[t] = Abs(state[t])
  BY AnnAbs
<1> DEFINE row == MakeCompleted(state[t], t, p)
           abs == [ann[t] EXCEPT ![p] = "completed"]
<1>3. row \in Rows /\ Abs(row) = Rules!Tidy(abs)
  BY <1>1, <1>2, CompletedSane, AbsCompleted DEF Pending
<1>4. /\ ann' = [ann EXCEPT ![t] = Rules!Tidy(abs)]
      /\ time' = [time EXCEPT ![t] = Rules!TidyTime(Rules!Tidy(abs), time[t])]
  BY <1>3, SetRowRules
<1>5. p \in Rules!Pending(ann[t])
  BY <1>1, <1>2, AbsPending
<1>6. advised' = advised
  BY DEF advised
<1> QED BY <1>4, <1>5, <1>6 DEF Rules!Complete, Rules!SetRow, ann, advised

(* Calls between which nothing is advised.                                 *)
LEMMA CallRules ==
  ASSUME IInv, NEW p \in Peer, NEW t \in TxHash
  PROVE  /\ \A delay \in ReqDelays : ReceivedInv(p, t, delay) => Rules!ReceivedInv(p, t, delay)
         /\ RequestedTx(p, t) => Rules!RequestedTx(p, t)
         /\ ReceivedResponse(p, t) => Rules!ReceivedResponse(p, t) \/ UNCHANGED Rules!vars
<1>1. /\ state[t] \in Rows /\ RowSane(state[t], t) /\ time \in [TxHash -> [Peer -> Int]]
      /\ state \in [TxHash -> Rows]
  BY DEF IInv, TypeOK, Rows, RowsSane
<1>2. ann[t] = Abs(state[t]) /\ ann \in [TxHash -> [Peer -> {"candidate"} \cup States]]
  BY <1>1, AnnAbs DEF Abs, Rows
<1>3. ASSUME Idle PROVE advised = Null /\ advised' = Null /\ back' = back
  BY <1>3 DEF Idle, advised
<1>4. ASSUME NEW delay \in ReqDelays, ReceivedInv(p, t, delay)
      PROVE  Rules!ReceivedInv(p, t, delay)
  <2> DEFINE row == [state[t] EXCEPT ![p] = "delayed"]
             times == [time[t] EXCEPT ![p] = now + delay]
  <2>1. /\ Idle /\ state[t][p] = "none" /\ SetRow(t, row, times)
    BY <1>4 DEF ReceivedInv, Exists
  <2>2. row \in Rows
    BY <1>1 DEF Rows, States
  <2>3. ann' = [ann EXCEPT ![t] = Abs(row)] /\ time' = [time EXCEPT ![t] = Times(row, times)]
    BY <2>1, <2>2, SetRowRules DEF SetRow
  <2>4. Abs(row) = [ann[t] EXCEPT ![p] = "candidate"]
    BY <1>1, <1>2 DEF Abs, Rows
  <2>5. Times(row, times) = times
    BY <1>1 DEF Times, Rows, IInv, TimesTidy
  <2>6. ann[t][p] = "none"
    BY <1>2, <2>1 DEF Abs
  <2>7. ann' = [ann EXCEPT ![t][p] = "candidate"] /\ time' = [time EXCEPT ![t][p] = now + delay]
    BY <2>3, <2>4, <2>5
  <2> QED BY <1>3, <2>1, <2>6, <2>7 DEF Rules!ReceivedInv, ann, advised, now, Rules!now
<1>5. ASSUME RequestedTx(p, t) PROVE Rules!RequestedTx(p, t)
  <2> DEFINE row == Requested(state[t], p)
             times == [time[t] EXCEPT ![p] = now + ExpiryInterval]
             abs == [q \in Peer |-> IF q = p THEN "requested"
                                    ELSE IF ann[t][q] = "requested" THEN "completed"
                                    ELSE ann[t][q]]
  <2>1. Idle /\ Candidate(p, t) /\ SetRow(t, row, times)
    BY <1>5 DEF RequestedTx, Candidate
  <2>2. row \in Rows /\ RowSane(row, t) /\ Abs(row) = abs
    BY <1>1, <1>2, RequestedSane, AbsRequested
  <2>3. Rules!Tidy(abs) = abs
    BY <2>2, TidySane
  <2>4. /\ ann' = [ann EXCEPT ![t] = Rules!Tidy(abs)]
        /\ time' = [time EXCEPT ![t] = Rules!TidyTime(Rules!Tidy(abs), times)]
    BY <2>1, <2>2, <2>3, SetRowRules
  <2>5. ann[t][p] = "candidate"
    BY <2>1 DEF ann
  <2> QED BY <1>3, <2>1, <2>4, <2>5
          DEF Rules!RequestedTx, Rules!MayAct, Rules!SetRow, ann, advised, now, Rules!now
<1>6. ASSUME ReceivedResponse(p, t) PROVE Rules!ReceivedResponse(p, t) \/ UNCHANGED Rules!vars
  <2>1. Idle /\ state[t][p] # "none" /\ SetRow(t, MakeCompleted(state[t], t, p), time[t])
    BY <1>6 DEF ReceivedResponse, Exists
  <2>2. CASE state[t][p] = "completed"
    <3>1. MakeCompleted(state[t], t, p) = state[t]
      BY <2>2 DEF MakeCompleted
    <3>2. ann' = ann /\ time' = time
      BY <1>1, <2>1, <3>1, SameRules
    <3> QED BY <1>3, <2>1, <3>2 DEF Rules!vars, ann, advised
  <2>3. CASE state[t][p] # "completed"
    <3>1. Pending(state[t][p])
      BY <1>1, <2>1, <2>3 DEF Pending, Rows, States
    <3>2. pc # "returned" /\ UNCHANGED <<back, pc, caller, ret>>
      BY <2>1 DEF Idle
    <3>3. Rules!Complete(p, t)
      BY <2>1, <3>1, <3>2, CompleteRules
    <3> QED BY <3>2, <3>3 DEF Rules!ReceivedResponse
  <2> QED BY <2>2, <2>3
<1> QED BY <1>4, <1>5, <1>6

LEMMA ForgetRules ==
  ASSUME IInv, NEW t \in TxHash, NEW p \in Peer, SetRow(t, Nobody, Cleared), back' = back,
         Rules!MayAct(p, t)
  PROVE  Rules!ForgetTxHash(t)
<1>1. ann' = [ann EXCEPT ![t] = Rules!Nobody]
  BY NobodySane, SetRowRules, AbsNobody
<1>2. Times(Nobody, Cleared) = Rules!Cleared
  BY DEF Times, Nobody, Cleared, Rules!Cleared
<1>3. time' = [time EXCEPT ![t] = Rules!Cleared]
  BY <1>2 DEF SetRow
<1> QED BY <1>1, <1>3 DEF Rules!ForgetTxHash, ann

LEMMA DisconnectRules ==
  ASSUME IInv, NEW p \in Peer, DisconnectedPeer(p)
  PROVE  Rules!DisconnectedPeer(p)
<1> DEFINE row(t) == IF Exists(state[t], p)
                     THEN [MakeCompleted(state[t], t, p) EXCEPT ![p] = "none"]
                     ELSE state[t]
           abs(t) == Rules!Tidy([ann[t] EXCEPT ![p] = "none"])
<1>1. /\ Idle /\ state' = [t \in TxHash |-> row(t)]
      /\ time' = [t \in TxHash |-> Times(row(t), time[t])]
  BY DEF DisconnectedPeer
<1>2. ASSUME NEW t \in TxHash PROVE row(t) \in Rows /\ Abs(row(t)) = abs(t)
  <2>1. state[t] \in Rows /\ RowSane(state[t], t) /\ ann[t] = Abs(state[t])
    BY AnnAbs DEF IInv, TypeOK, Rows, RowsSane
  <2>2. CASE Exists(state[t], p)
    <3>1. state[t][p] # "none"
      BY <2>2 DEF Exists
    <3>2. Abs(row(t)) = abs(t)
      BY <2>1, <2>2, <3>1, AbsErased
    <3>3. row(t) \in Rows
      BY <2>1, <2>2, <3>1, CompletedSane, ErasedSane
    <3> QED BY <3>2, <3>3
  <2>3. CASE ~Exists(state[t], p)
    <3>1. [Abs(state[t]) EXCEPT ![p] = "none"] = Abs(state[t])
      BY <2>1, <2>3 DEF Abs, Exists
    <3> QED BY <2>1, <2>3, <3>1, TidySane
  <2> QED BY <2>2, <2>3
<1> HIDE DEF row
<1>3. ann' = [t \in TxHash |-> abs(t)]
  BY <1>1, <1>2, AnnNext
<1>4. time' = [t \in TxHash |-> Rules!TidyTime(ann'[t], time[t])]
  <2>1. \A t \in TxHash : ann'[t] = Abs(row(t))
    BY <1>2, <1>3
  <2>2. \A t \in TxHash : Times(row(t), time[t]) = Rules!TidyTime(Abs(row(t)), time[t])
    BY <1>2, AbsTimes
  <2> QED BY <1>1, <2>1, <2>2
<1>5. advised = Null /\ advised' = Null /\ back' = back
  BY <1>1 DEF Idle, advised
<1> QED BY <1>3, <1>4, <1>5 DEF Rules!DisconnectedPeer, ann, advised

LEMMA LoopRules ==
  ASSUME IInv, NEW p \in Peer, NEW t \in TxHash, PastEvent(p, t) \/ FutureEvent(p, t)
  PROVE  Rules!Expire(p, t) \/ UNCHANGED Rules!vars
<1>1. state[t] \in Rows /\ RowSane(state[t], t) /\ ann[t] = Abs(state[t])
  BY AnnAbs DEF IInv, TypeOK, Rows, RowsSane
<1>2. pc # "returned" /\ UNCHANGED <<back, pc, caller, ret>>
  BY DEF PastEvent, FutureEvent
<1>3. ASSUME NEW row \in Rows, SetRow(t, row, time[t]), Abs(row) = Abs(state[t])
      PROVE  UNCHANGED Rules!vars
  <2>1. ann' = ann /\ time' = time
    BY <1>3, SameRules
  <2> QED BY <1>2, <2>1 DEF Rules!vars, ann
<1>4. CASE PastEvent(p, t) /\ state[t][p] = "delayed"
  BY <1>1, <1>3, <1>4, PromoteSane, AbsPromote DEF PastEvent
<1>5. CASE PastEvent(p, t) /\ state[t][p] # "delayed"
  <2>1. /\ state[t][p] = "requested" /\ time[t][p] <= now
        /\ SetRow(t, MakeCompleted(state[t], t, p), time[t])
    BY <1>5 DEF PastEvent, FirstEvent, Waiting
  <2>2. Rules!Complete(p, t)
    BY <1>2, <2>1, CompleteRules DEF Pending
  <2>3. ann[t][p] = "requested"
    BY <1>1, <2>1 DEF Abs
  <2> QED BY <1>2, <2>1, <2>2, <2>3
          DEF Rules!Expire, Rules!Expired, Rules!ReceivedResponse, ann, now, Rules!now
<1>6. CASE FutureEvent(p, t)
  <2>1. SetRow(t, ChangeAndReselect(state[t], t, p, "delayed"), time[t]) /\ Selectable(state[t][p])
    BY <1>6 DEF FutureEvent, LastEvent
  <2>2. Abs([state[t] EXCEPT ![p] = "delayed"]) = Abs(state[t])
    BY <1>1, <2>1 DEF Abs, Selectable, Rows
  <2>3. Pending(state[t][p])
    BY <2>1 DEF Pending, Selectable
  <2>4. ChangeAndReselect(state[t], t, p, "delayed") \in Rows
    BY <1>1, <2>3, ReselectSane
  <2> QED BY <1>1, <1>3, <2>1, <2>2, <2>4, AbsReselect
<1> QED BY <1>4, <1>5, <1>6

(* The answer of GetRequestable is the advice of the rules.                *)
LEMMA AnswerRules ==
  ASSUME IInv, Answer
  PROVE  \E p \in Peer : Rules!Advise(p)
<1>1. caller \in Peer /\ NoPast /\ NoFuture /\ pc = "future" /\ UNCHANGED <<state, time, back, caller>>
      /\ pc' = "returned" /\ ret' = {t \in TxHash : state[t][caller] = "best"}
  BY DEF Answer, IInv, TypeOK, LoopsDone, NoFuture
<1>2. ret' = Rules!Requestable(caller)
  BY <1>1, BestIsRequestable DEF Rules!Requestable, ann
<1>3. \A t \in TxHash, q \in Peer : ~Rules!Expired(q, t)
  <2> SUFFICES ASSUME NEW t \in TxHash, NEW q \in Peer, Rules!Expired(q, t) PROVE FALSE
    OBVIOUS
  <2>1. state[t][q] = "requested" /\ time[t][q] <= now
    BY DEF Rules!Expired, Candidate, now, Rules!now
  <2>2. time[t][q] > now /\ time[t][q] \in Int /\ now \in Int
    BY <1>1, <2>1 DEF NoPast, Waiting, IInv, TypeOK, now
  <2> QED BY <2>1, <2>2
<1>4. ann' = ann
  BY <1>1 DEF ann, Candidate
<1>5. Rules!Advise(caller)
  BY <1>1, <1>2, <1>3, <1>4 DEF Rules!Advise, ann
<1> QED BY <1>1, <1>5

LEMMA AdvisedRules ==
  ASSUME RInv, NEW t \in TxHash, RequestAdvised(t)
  PROVE  Rules!ForgetTxHash(t) \/ \E p \in Peer : Rules!RequestedTx(p, t)
<1> DEFINE row == Requested(state[t], caller)
           times == [time[t] EXCEPT ![caller] = now + ExpiryInterval]
           abs == [q \in Peer |-> IF q = caller THEN "requested"
                                  ELSE IF ann[t][q] = "requested" THEN "completed"
                                  ELSE ann[t][q]]
<1>1. /\ pc = "returned" /\ t \in ret /\ ret' = ret \ {t} /\ UNCHANGED <<back, pc, caller>>
      /\ SetRow(t, Nobody, Cleared) \/ SetRow(t, row, times)
  BY DEF RequestAdvised
<1>2. /\ caller \in Peer /\ ret \in SUBSET TxHash /\ state[t] \in Rows /\ RowSane(state[t], t)
      /\ ann[t] = Abs(state[t]) /\ state[t][caller] = "best" /\ IInv
  BY <1>1, AnnAbs DEF RInv, AdviceStands, IInv, TypeOK, Rows, RowsSane
<1>3. [peer |-> caller, txs |-> ret] # Null
  BY <1>2, NullAssumption
<1>4. Rules!MayAct(caller, t)
  BY <1>1, <1>3 DEF Rules!MayAct, Rules!Advised
<1>5. CASE SetRow(t, Nobody, Cleared)
  BY <1>1, <1>2, <1>4, <1>5, ForgetRules
<1>6. CASE SetRow(t, row, times)
  <2>1. row \in Rows /\ RowSane(row, t) /\ Abs(row) = abs
    <3>1. row \in Rows /\ RowSane(row, t)
      BY <1>2, RequestedSane
    <3>2. Abs(row) = abs
      BY <1>2, AbsRequested
    <3> QED BY <3>1, <3>2
  <2>2. Rules!Tidy(abs) = abs
    BY <2>1, TidySane
  <2>3. /\ ann' = [ann EXCEPT ![t] = Rules!Tidy(abs)]
        /\ time' = [time EXCEPT ![t] = Rules!TidyTime(Rules!Tidy(abs), times)]
    BY <1>2, <1>6, <2>1, <2>2, SetRowRules
  <2>4. ann[t][caller] = "candidate"
    BY <1>2 DEF Abs
  <2>5. PICK p \in Peer : p = caller
    BY <1>2
  <2>6. Rules!MayAct(p, t)
    BY <1>1, <1>3, <2>5 DEF Rules!MayAct, Rules!Advised
  <2>7. Rules!RequestedTx(p, t)
    BY <1>1, <2>3, <2>4, <2>5, <2>6 DEF Rules!RequestedTx, Rules!SetRow, ann, now, Rules!now
  <2> QED BY <2>7
<1> QED BY <1>1, <1>5, <1>6

LEMMA ControlRules ==
  ASSUME IInv,
         \/ \E p \in Peer : GetRequestable(p)
         \/ NoPastEvent \/ Return
  PROVE  Rules!Return \/ UNCHANGED Rules!vars
<1>1. UNCHANGED <<state, time, back>>
  BY DEF GetRequestable, NoPastEvent, Return
<1>2. ann' = ann
  BY <1>1 DEF ann, Candidate
<1>3. CASE Return
  <2>1. pc = "returned" /\ ret = {} /\ pc' = "idle" /\ caller \in Peer /\ ret \in SUBSET TxHash
    BY <1>3 DEF Return, IInv, TypeOK
  <2>2. [peer |-> caller, txs |-> ret] # Null
    BY <2>1, NullAssumption
  <2> QED BY <1>1, <1>2, <2>1, <2>2 DEF Rules!Return, ann
<1>4. CASE ~Return
  <2>1. pc # "returned" /\ pc' # "returned"
    BY <1>4 DEF GetRequestable, NoPastEvent
  <2> QED BY <1>1, <1>2, <2>1 DEF Rules!vars, ann
<1> QED BY <1>3, <1>4

LEMMA ClockRules ==
  ASSUME IInv, Tick \/ ClockBack
  PROVE  Rules!Clock
<1>1. pc = "idle" /\ UNCHANGED <<state, pc, caller, ret>> /\ back \in 0..MaxBack
  BY DEF Tick, ClockBack, IInv, TypeOK
<1>2. ann' = ann
  BY <1>1 DEF ann, Candidate
<1>3. ASSUME NEW t \in TxHash
      PROVE  Times(state[t], Earlier(time[t])) = Rules!TidyTime(ann[t], Rules!Earlier(time[t]))
  <2>1. state[t] \in Rows /\ ann[t] = Abs(state[t])
    BY AnnAbs DEF IInv, TypeOK, Rows
  <2>2. Earlier(time[t]) = Rules!Earlier(time[t])
    BY DEF Earlier, Rules!Earlier
  <2> QED BY <2>1, <2>2, AbsTimes
<1>4. CASE ClockBack
  BY <1>1, <1>2, <1>4 DEF ClockBack, Rules!Clock, ann
<1>5. CASE Tick /\ back > 0
  BY <1>1, <1>2, <1>5 DEF Tick, Rules!Clock, ann
<1>6. CASE Tick /\ ~(back > 0)
  <2>1. back = 0 /\ back' = back /\ time' = [t \in TxHash |-> Times(state[t], Earlier(time[t]))]
    BY <1>1, <1>6, TimeAssumption DEF Tick
  <2>2. time' = [t \in TxHash |-> Rules!TidyTime(ann[t], Rules!Earlier(time[t]))]
    BY <1>3, <2>1
  <2> QED BY <1>1, <1>2, <2>1, <2>2 DEF Rules!Clock, ann
<1> QED BY <1>4, <1>5, <1>6

LEMMA RulesStep == RInv /\ [Next]_vars => [Rules!Next]_(Rules!vars)
<1> SUFFICES ASSUME RInv, [Next]_vars PROVE Rules!Next \/ UNCHANGED Rules!vars
  OBVIOUS
<1>0. IInv
  BY DEF RInv
<1>1. CASE UNCHANGED vars
  BY <1>1 DEF vars, Rules!vars, Candidate
<1>2. ASSUME NEW p \in Peer, NEW t \in TxHash,
             (\E delay \in ReqDelays : ReceivedInv(p, t, delay))
               \/ RequestedTx(p, t) \/ ReceivedResponse(p, t)
      PROVE Rules!Next \/ UNCHANGED Rules!vars
  BY <1>0, <1>2, CallRules DEF Rules!Next
<1>3. ASSUME NEW t \in TxHash, ForgetTxHash(t) PROVE Rules!Next \/ UNCHANGED Rules!vars
  <2>1. CASE Peer = {}
    <3>1. state' = state /\ time' = time
      <4>1. \A u \in TxHash : state[u] = Nobody /\ time[u] = Times(Nobody, Cleared)
        BY <1>0, <2>1 DEF IInv, TypeOK, Nobody, Times, Cleared
      <4> QED BY <1>0, <1>3, <4>1 DEF ForgetTxHash, SetRow, IInv, TypeOK
    <3> QED BY <1>3, <3>1 DEF ForgetTxHash, Idle, Rules!vars, Candidate
  <2>2. ASSUME NEW p \in Peer PROVE Rules!Next \/ UNCHANGED Rules!vars
    <3>1. SetRow(t, Nobody, Cleared) /\ back' = back /\ Rules!MayAct(p, t)
      BY <1>3 DEF ForgetTxHash, Idle, Rules!MayAct
    <3> QED BY <1>0, <3>1, ForgetRules DEF Rules!Next
  <2> QED BY <2>1, <2>2
<1>4. ASSUME NEW p \in Peer, DisconnectedPeer(p) PROVE Rules!Next \/ UNCHANGED Rules!vars
  BY <1>0, <1>4, DisconnectRules DEF Rules!Next
<1>5. CASE \/ \E p \in Peer : GetRequestable(p)
           \/ NoPastEvent \/ Return
  BY <1>0, <1>5, ControlRules DEF Rules!Next
<1>6. ASSUME NEW p \in Peer, NEW t \in TxHash, PastEvent(p, t) \/ FutureEvent(p, t)
      PROVE Rules!Next \/ UNCHANGED Rules!vars
  BY <1>0, <1>6, LoopRules DEF Rules!Next
<1>7. CASE Answer
  BY <1>0, <1>7, AnswerRules DEF Rules!Next
<1>8. ASSUME NEW t \in TxHash, RequestAdvised(t) PROVE Rules!Next \/ UNCHANGED Rules!vars
  BY <1>8, AdvisedRules DEF Rules!Next
<1>9. CASE Tick \/ ClockBack
  BY <1>0, <1>9, ClockRules DEF Rules!Next
<1> QED BY <1>1, <1>2, <1>3, <1>4, <1>5, <1>6, <1>7, <1>8, <1>9 DEF Next, Proceed

(* TxRequestTracker does what the comment that begins txrequest.h          *)
(* promises: it advises a request only of the best candidate whose time    *)
(* has come, with no request outstanding, and never of a failed peer,      *)
(* whatever the clock does.                                                *)
THEOREM RulesCorrect == Spec => ImplementsRules
<1>1. Init => RInv
  BY InitInv, AdviceInit DEF RInv
<1>2. RInv /\ [Next]_vars => RInv'
  BY NextInv, AdviceStep DEF RInv
<1> QED BY <1>1, <1>2, RulesInit, RulesStep, PTL DEF Spec, ImplementsRules, Rules!Spec
=============================================================================
