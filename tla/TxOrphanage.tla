---------------------------- MODULE TxOrphanage ----------------------------
(***************************************************************************)
(* TxOrphanage (node/txorphanage.cpp): transactions whose parents are      *)
(* missing, with the peers that announced them.  Every operation runs      *)
(* under m_tx_download_mutex and is a function of the orphanage's value:   *)
(*                                                                         *)
(*   anns            the announcements of m_orphans in the order of their  *)
(*                   entry sequence numbers, each with its m_reconsider    *)
(*   reconsiderable  m_reconsiderable_wtxids                               *)
(*                                                                         *)
(* A transaction stands for its wtxid.  What the code caches of m_orphans  *)
(* (the per-peer and the unique totals, the index by outpoint) is computed *)
(* from it.                                                                *)
(***************************************************************************)
EXTENDS Integers, Sequences, FiniteSets, FiniteSetsExt

CONSTANTS
    Tx, Peer,           \* a peer is its NodeId
    Txid,               \* Txid[t]: the transaction without its witness
    Inputs,             \* Inputs[t]: the outpoints <<txid, n>> that t spends
    Weight,             \* Weight[t]: GetTransactionWeight
    InputScore,         \* InputScore[t]: the number of inputs / 10
    MAX_STANDARD_TX_WEIGHT,
    m_max_global_latency_score,
    m_reserved_usage_per_peer

ASSUME OrphanageAssumption ==
    /\ Peer \subseteq Nat /\ IsFiniteSet(Peer)
    /\ Weight \in [Tx -> Nat] /\ InputScore \in [Tx -> Nat]
    /\ m_reserved_usage_per_peer \in Nat \ {0}
    /\ m_max_global_latency_score \in Nat
    /\ m_max_global_latency_score >= Cardinality(Peer)

Parents(t) == {out[1] : out \in Inputs[t]}

Empty == [anns |-> <<>>, reconsiderable |-> {}]

Announcements(o) == {o.anns[i] : i \in DOMAIN o.anns}
Orphans(o) == {a.tx : a \in Announcements(o)}
From(o, p) == {a \in Announcements(o) : a.peer = p}
PeersOf(o) == {a.peer : a \in Announcements(o)}

HaveTx(o, t) == t \in Orphans(o)
HaveTxFromPeer(o, t, p) == \E a \in From(o, p) : a.tx = t
Announcers(o, t) == {a.peer : a \in {b \in Announcements(o) : b.tx = t}}

-----------------------------------------------------------------------------
(* Erasing announcements *)

\* The announcements that stay, in their order.
Kept(anns, gone) ==
    LET upTo[n \in 0..Len(anns)] ==
          IF n = 0 THEN <<>>
          ELSE IF anns[n] \in gone THEN upTo[n - 1] ELSE Append(upTo[n - 1], anns[n])
    IN  upTo[Len(anns)]

\* Mutant: the set of reconsiderable transactions is not kept up to date.
EraseKeepingSet(o, gone) ==
    [o EXCEPT !.anns = Kept(@, gone)]

Erase(o, gone) ==
    [anns |-> Kept(o.anns, gone),
     reconsiderable |-> o.reconsiderable \ {a.tx : a \in {b \in gone : b.m_reconsider}}]

-----------------------------------------------------------------------------
(* Limits *)

LatencyScore(t) == 1 + InputScore[t]

Total(f, S) == MapThenSumSet(LAMBDA x : f[x], S)

TotalLatencyScore(o) == Len(o.anns) + Total(InputScore, Orphans(o))
TotalOrphanUsage(o) == Total(Weight, Orphans(o))

NumPeers(o) == Max({Cardinality(PeersOf(o)), 1})
MaxPeerLatencyScore(o) == m_max_global_latency_score \div NumPeers(o)
MaxGlobalUsage(o) == m_reserved_usage_per_peer * NumPeers(o)

NeedsTrim(o) ==
    \/ TotalLatencyScore(o) > m_max_global_latency_score
    \/ TotalOrphanUsage(o) > MaxGlobalUsage(o)

\* FeeFrac: ordered by ratio, and at equal ratios by denominator, largest first.
Exceeds(a, b) ==
    \/ a[1] * b[2] > b[1] * a[2]
    \/ a[1] * b[2] = b[1] * a[2] /\ a[2] < b[2]

AboveOne(a) == a[1] > a[2]

GetDosScore(o, p, max_lat) ==
    LET own == From(o, p)
        latency == <<Total([a \in own |-> LatencyScore(a.tx)], own), max_lat>>
        memory == <<Total([a \in own |-> Weight[a.tx]], own), m_reserved_usage_per_peer>>
    IN  IF Exceeds(memory, latency) THEN memory ELSE latency

\* The peer at the top of the heap: the worst score, then the latest peer.
WorstPeer(o, heap, max_lat) ==
    CHOOSE p \in heap :
      \A q \in heap \ {p} :
        LET sp == GetDosScore(o, p, max_lat)
            sq == GetDosScore(o, q, max_lat)
        IN  Exceeds(sp, sq) \/ (sp = sq /\ p > q)

\* The oldest announcement of the peer that is not to be reconsidered, or
\* else its oldest one.
OldestOf(o, p) ==
    LET first == {i \in DOMAIN o.anns : o.anns[i].peer = p /\ ~o.anns[i].m_reconsider}
        any == {i \in DOMAIN o.anns : o.anns[i].peer = p}
    IN  o.anns[Min(IF first # {} THEN first ELSE any)]

\* Mutant: the oldest announcement of all goes, whoever made it.
LimitOldest(o) ==
    LET trimmed[n \in 0..Len(o.anns)] ==
          IF n = 0 THEN o
          ELSE IF NeedsTrim(trimmed[n - 1]) THEN Erase(trimmed[n - 1], {trimmed[n - 1].anns[1]})
          ELSE trimmed[n - 1]
    IN  trimmed[Len(o.anns)]

\* Evicts one announcement of the worst peer at a time while a global limit is
\* exceeded.  The latency limit is that of the beginning, and only peers that
\* exceed a limit then are considered.  The inner loop of the code stays with a
\* peer while it is the worst one, which comes to the same.
LimitOrphans(o) ==
    LET max_lat == MaxPeerLatencyScore(o)
        suspects == {p \in PeersOf(o) : AboveOne(GetDosScore(o, p, max_lat))}
        trimmed[n \in 0..Len(o.anns)] ==
          IF n = 0 THEN o
          ELSE LET x == trimmed[n - 1]
                   heap == suspects \cap PeersOf(x)
               IN  IF NeedsTrim(x) /\ heap # {}
                   THEN Erase(x, {OldestOf(x, WorstPeer(x, heap, max_lat))})
                   ELSE x
    IN  IF NeedsTrim(o) THEN trimmed[Len(o.anns)] ELSE o

-----------------------------------------------------------------------------
(* Operations *)

AddAnnouncement(o, t, p) ==
    IF HaveTxFromPeer(o, t, p) THEN o
    ELSE LimitOrphans([o EXCEPT !.anns = Append(@, [tx |-> t, peer |-> p, m_reconsider |-> FALSE])])

AddTx(o, t, p) == IF Weight[t] > MAX_STANDARD_TX_WEIGHT THEN o ELSE AddAnnouncement(o, t, p)

AddAnnouncer(o, t, p) == IF HaveTx(o, t) THEN AddAnnouncement(o, t, p) ELSE o

EraseTx(o, t) == LimitOrphans(Erase(o, {a \in Announcements(o) : a.tx = t}))

EraseForPeer(o, p) == IF From(o, p) = {} THEN o ELSE LimitOrphans(Erase(o, From(o, p)))

\* The orphans that the block contains and those in conflict with it.
EraseForBlock(o, block) ==
    LET spent == UNION {Inputs[b] : b \in block}
    IN  LimitOrphans(Erase(o, {a \in Announcements(o) : Inputs[a.tx] \cap spent # {}}))

Children(o, t) == {c \in Orphans(o) : Txid[t] \in Parents(c)}

\* Each child that nobody has to reconsider is assigned to a random announcer:
\* to pick[c], if c is an announcer.
AddChildrenToWorkSet(o, t, pick) ==
    LET ready == Children(o, t) \ o.reconsiderable
        assigned(c) == IF pick[c] \in Announcers(o, c) THEN pick[c]
                       ELSE CHOOSE p \in Announcers(o, c) : TRUE
        mark(a) == [a EXCEPT !.m_reconsider = @ \/ (a.tx \in ready /\ a.peer = assigned(a.tx))]
    IN  [anns |-> [i \in DOMAIN o.anns |-> mark(o.anns[i])],
         reconsiderable |-> o.reconsiderable \cup ready]

HaveTxToReconsider(o, p) == \E a \in From(o, p) : a.m_reconsider

\* The oldest announcement the peer has to reconsider.
ToReconsider(o, p) ==
    o.anns[Min({i \in DOMAIN o.anns : o.anns[i].peer = p /\ o.anns[i].m_reconsider})]

GetTxToReconsider(o, p) ==
    LET t == ToReconsider(o, p).tx
    IN  [anns |-> [i \in DOMAIN o.anns |->
                     IF o.anns[i].peer = p /\ o.anns[i].tx = t
                     THEN [o.anns[i] EXCEPT !.m_reconsider = FALSE] ELSE o.anns[i]],
         reconsiderable |-> o.reconsiderable \ {t}]

\* From the newest announcement to the oldest; those to be reconsidered first.
GetChildrenFromSamePeer(o, t, p) ==
    LET newest == [i \in DOMAIN o.anns |-> o.anns[Len(o.anns) + 1 - i]]
        children(r) == SelectSeq(newest, LAMBDA a : /\ a.peer = p
                                                    /\ Txid[t] \in Parents(a.tx)
                                                    /\ a.m_reconsider = r)
        all == children(TRUE) \o children(FALSE)
    IN  [i \in DOMAIN all |-> all[i].tx]
=============================================================================
