----------------------------- MODULE TxDownload -----------------------------
(***************************************************************************)
(* TxDownloadManagerImpl (node/txdownloadman_impl.cpp) and its callers in  *)
(* net_processing.cpp: transactions that peers announce are requested,     *)
(* validated, kept as orphans while a parent is missing, and tried again   *)
(* with a parent that does not pay for itself.                             *)
(*                                                                         *)
(* A transaction stands for its wtxid; two of them may have one txid.  The *)
(* request tracker is the one of RequestRules without its clock: which of  *)
(* several candidates is asked, and when a request expires, is left open.  *)
(* The filters are sets, without the false positives of a Bloom filter.    *)
(* The memory pool is what decides the result of a validation.             *)
(***************************************************************************)
EXTENDS TxOrphanage

CONSTANTS
    Pays,            \* transactions that pay for themselves and a parent
    BadScript,       \* transactions with a script that fails
    Stocks,          \* what the peers may have to announce and send
    Honest,          \* peers that answer what they are asked
    Blocks,          \* sets of transactions that the next block may contain
    MAX_PEER_TX_ANNOUNCEMENTS,
    MaxConnects,     \* bound: MaxConnects[p], connections of peer p
    MaxTips          \* bound: changes of the tip

VARIABLES
    node,       \* the state of TxDownloadManagerImpl, and the memory pool
    connected,  \* m_peer_info
    told,       \* history: paying transactions that honest peers announced and still have
    chain,      \* the confirmed transactions
    has,        \* has[p]: the transactions of peer p; never changes
    notify,     \* the block notifications that were not handled yet
    connects,   \* counts towards MaxConnects
    tips        \* counts towards MaxTips

downloadVars == <<node, connected, told, chain, notify, has, connects, tips>>

ASSUME TransactionAssumption ==
    /\ Pays \subseteq Tx \ BadScript
    /\ Stocks \subseteq [Peer -> SUBSET Tx]
    /\ Honest \subseteq Peer

Hash == Tx \cup {Txid[t] : t \in Tx}

Nobody == [p \in Peer |-> "none"]

DownloadInit ==
    /\ node = [m_txrequest |-> [h \in Hash |-> Nobody], m_orphanage |-> Empty,
               rejects |-> {}, reconsiderable |-> {}, recent_confirmed |-> {}, mempool |-> {}]
    /\ connected = {}
    /\ told = {}
    /\ chain = {}
    /\ has \in Stocks
    /\ notify = <<>>
    /\ tips = 0
    /\ connects = [p \in Peer |-> 0]

-----------------------------------------------------------------------------
(* TxRequestTracker *)

Pending(row) == {p \in Peer : row[p] \in {"candidate", "requested"}}

SetRow(s, h, row) ==
    [s EXCEPT !.m_txrequest[h] = IF Pending(row) = {} THEN Nobody ELSE row]

ForgetTxHash(s, h) == SetRow(s, h, Nobody)

ForgetTx(s, t) == ForgetTxHash(ForgetTxHash(s, Txid[t]), t)

ReceivedResponse(s, p, h) ==
    IF p \in Pending(s.m_txrequest[h])
    THEN SetRow(s, h, [s.m_txrequest[h] EXCEPT ![p] = "completed"]) ELSE s

\* No effect on a hash the peer announced before.
ReceivedInvs(s, p, hashes) ==
    [s EXCEPT !.m_txrequest =
        [h \in Hash |-> IF h \in hashes /\ @[h][p] = "none"
                        THEN [@[h] EXCEPT ![p] = "candidate"] ELSE @[h]]]

Count(s, p) == Cardinality({h \in Hash : s.m_txrequest[h][p] # "none"})

-----------------------------------------------------------------------------
(* Validation *)

Known(s) == {Txid[t] : t \in s.mempool \cup chain}

\* A txid outside the model is that of a confirmed transaction.
Missing(s, t) == {h \in Parents(t) \cap Hash : h \notin Known(s)}

\* A confirmed transaction is recognized by its outputs in the coins cache,
\* which are taken to be there; without them its inputs would be missing.
ProcessTransaction(s, t) ==
    IF Txid[t] \in Known(s) THEN "CONFLICT"
    ELSE IF Missing(s, t) # {} THEN "MISSING_INPUTS"
    ELSE IF t \notin Pays THEN "RECONSIDERABLE"
    ELSE IF t \in BadScript THEN "NOT_STANDARD"
    ELSE "VALID"

\* The results of a package of a parent and a child, the parent's first.  A
\* parent whose txid is known fails; the child is validated by itself then.
ProcessNewPackage(s, parent, child) ==
    IF Txid[parent] \in Known(s) THEN <<"CONFLICT", ProcessTransaction(s, child)>>
    ELSE IF child \notin Pays THEN <<"RECONSIDERABLE", "RECONSIDERABLE">>
    ELSE IF parent \in BadScript THEN <<"NOT_STANDARD", "MISSING_INPUTS">>
    ELSE <<"VALID", "VALID">>

PackageInvalid(s, parent, results) ==
    \/ results[2] # "VALID"
    \/ results[1] # "VALID" /\ Txid[parent] \notin {Txid[t] : t \in s.mempool}

-----------------------------------------------------------------------------
(* TxDownloadManagerImpl *)

AlreadyHaveTx(s, h, include_reconsiderable) ==
    \/ h \in Orphans(s.m_orphanage)
    \/ include_reconsiderable /\ h \in s.reconsiderable
    \/ h \in s.recent_confirmed
    \/ h \in s.rejects
    \/ h \in s.mempool \cup {Txid[t] : t \in s.mempool}

Unknown(s, hashes) == {h \in hashes : ~AlreadyHaveTx(s, h, FALSE)}

MayResolve(s, parents, t, p) ==
    /\ p \in connected
    /\ ~HaveTxFromPeer(s.m_orphanage, t, p)
    /\ Count(s, p) + Cardinality(parents) <= MAX_PEER_TX_ANNOUNCEMENTS

\* MaybeAddOrphanResolutionCandidate, and the orphan kept for the candidate.
Resolve(s, parents, t, p) ==
    IF MayResolve(s, parents, t, p)
    THEN [ReceivedInvs(s, p, parents) EXCEPT !.m_orphanage = AddTx(@, t, p)] ELSE s

\* The same for one more peer that announces an orphan.
ResolveKnown(s, parents, t, p) ==
    IF parents # {} /\ MayResolve(s, parents, t, p)
    THEN [ReceivedInvs(s, p, parents) EXCEPT !.m_orphanage = AddAnnouncer(@, t, p)] ELSE s

AddTxAnnouncement(s, p, t) ==
    IF HaveTx(s.m_orphanage, t) THEN ResolveKnown(s, Unknown(s, Parents(t) \cap Hash), t, p)
    ELSE IF \/ AlreadyHaveTx(s, t, TRUE)
            \/ Count(s, p) >= MAX_PEER_TX_ANNOUNCEMENTS
    THEN s
    ELSE ReceivedInvs(s, p, {t})

\* The newest child of the peer that has not failed, by itself or with t.
Find1P1CPackage(s, t, p) ==
    SelectSeq(GetChildrenFromSamePeer(s.m_orphanage, t, p),
              LAMBDA c : {t, c} \notin s.reconsiderable /\ Txid[c] \notin s.rejects)

\* Mutant: the orphans that wait for t are not tried again.
MempoolAcceptedQuietly(s, t, pick) ==
    [ForgetTx(s, t) EXCEPT !.m_orphanage = EraseTx(@, t), !.mempool = @ \cup {t}]

MempoolAcceptedTx(s, t, pick) ==
    [ForgetTx(s, t) EXCEPT !.m_orphanage = EraseTx(AddChildrenToWorkSet(@, t, pick), t),
                           !.mempool = @ \cup {t}]

\* A parent that was rejected, or a second one that does not pay for itself.
RejectedParents(s, t) ==
    \/ Parents(t) \cap s.rejects # {}
    \/ Cardinality({h \in Parents(t) \cap s.reconsiderable : h \notin {Txid[u] : u \in s.mempool}}) > 1

\* The peer that sent it, and those that announced it and did not fail.
ResolutionCandidates(s, t, p) ==
    {p} \cup Pending(s.m_txrequest[Txid[t]]) \cup Pending(s.m_txrequest[t])

\* A new orphan: kept for each peer that can resolve it, in order.  The code
\* also counts and asks for parents confirmed too long ago for its filter; such
\* a parent is one outside Hash here, and left out.
MissingInputs(s, t, p) ==
    LET parents == Unknown(s, Parents(t) \cap Hash)
        others == ResolutionCandidates(s, t, p) \ {p}
        kept == FoldSet(LAMBDA q, x : Resolve(x, parents, t, q), Resolve(s, parents, t, p), others)
    IN  IF t \in s.rejects THEN s
        ELSE IF RejectedParents(s, t)
        THEN [ForgetTx(s, t) EXCEPT !.rejects = @ \cup {t, Txid[t]}]
        ELSE ForgetTx(kept, t)

\* Mutant: the txid of a rejected transaction is forgotten with its wtxid.
FailedForgetBoth(s, t, result) ==
    LET filtered == IF result = "RECONSIDERABLE" THEN [s EXCEPT !.reconsiderable = @ \cup {t}]
                    ELSE [s EXCEPT !.rejects = @ \cup {t}]
    IN  [ForgetTx(filtered, t) EXCEPT !.m_orphanage = EraseTx(@, t)]

Failed(s, t, result) ==
    LET filtered == IF result = "RECONSIDERABLE" THEN [s EXCEPT !.reconsiderable = @ \cup {t}]
                    ELSE [s EXCEPT !.rejects = @ \cup {t}]
    IN  [ForgetTxHash(filtered, t) EXCEPT !.m_orphanage = EraseTx(@, t)]

\* Only a first failure makes an orphan.
MempoolRejectedTx(s, t, p, result, first_time_failure) ==
    IF result # "MISSING_INPUTS" THEN Failed(s, t, result)
    ELSE IF first_time_failure THEN MissingInputs(s, t, p)
    ELSE s

-----------------------------------------------------------------------------
(* PeerManagerImpl *)

ProcessResult(s, t, p, result, first_time_failure, pick) ==
    IF result = "VALID" THEN MempoolAcceptedTx(s, t, pick)
    ELSE MempoolRejectedTx(s, t, p, result, first_time_failure)

\* The child first, so that it is no orphan when its parent is accepted.
ProcessPackageResult(s, parent, child, p, pick) ==
    LET results == ProcessNewPackage(s, parent, child)
        noted == IF PackageInvalid(s, parent, results)
                 THEN [s EXCEPT !.reconsiderable = @ \cup {{parent, child}}] ELSE s
    IN  ProcessResult(ProcessResult(noted, child, p, results[2], FALSE, pick),
                      parent, p, results[1], FALSE, pick)

TryPackage(s, t, p, pick) ==
    LET children == Find1P1CPackage(s, t, p)
    IN  IF children = <<>> THEN s ELSE ProcessPackageResult(s, t, children[1], p, pick)

\* The TX message.
ReceivedTx(s, t, p, pick) ==
    LET answered == ReceivedResponse(ReceivedResponse(s, p, Txid[t]), p, t)
        result == ProcessTransaction(answered, t)
        processed == ProcessResult(answered, t, p, result, TRUE, pick)
    IN  IF AlreadyHaveTx(answered, t, FALSE) THEN answered
        ELSE IF t \in answered.reconsiderable THEN TryPackage(answered, t, p, pick)
        ELSE IF result = "RECONSIDERABLE" THEN TryPackage(processed, t, p, pick)
        ELSE processed

\* An iteration of the loop of ProcessOrphanTx, which goes on while inputs are
\* missing; another iteration is another step here.
Reconsider(s, p, pick) ==
    LET t == ToReconsider(s.m_orphanage, p).tx
        taken == [s EXCEPT !.m_orphanage = GetTxToReconsider(@, p)]
    IN  ProcessResult(taken, t, p, ProcessTransaction(taken, t), FALSE, pick)

\* A random announcer for each orphan.
Picks(s) == {f \in [Orphans(s.m_orphanage) -> Peer] :
               \A t \in Orphans(s.m_orphanage) : f[t] \in Announcers(s.m_orphanage, t)}

-----------------------------------------------------------------------------
(* Messages and callbacks *)

ConnectedPeer(p) ==
    /\ p \notin connected
    /\ connects[p] < MaxConnects[p]
    /\ connects' = [connects EXCEPT ![p] = @ + 1]
    /\ connected' = connected \cup {p}
    /\ UNCHANGED <<has, node, told, chain, notify, tips>>

DisconnectedPeer(p) ==
    /\ p \in connected
    /\ connected' = connected \ {p}
    /\ told' = {x \in told : x[1] # p}
    /\ node' = [node EXCEPT
         !.m_orphanage = EraseForPeer(@, p),
         !.m_txrequest = [h \in Hash |-> LET row == [@[h] EXCEPT ![p] = "none"]
                                        IN  IF Pending(row) = {} THEN Nobody ELSE row]]
    /\ UNCHANGED <<has, chain, notify, connects, tips>>

SetNode(s) == node' = s /\ UNCHANGED <<has, connected, told, chain, notify, connects, tips>>

\* An inv by wtxid (no peer announces by txid), which the peers that the
\* properties are about send only once.
Inv(p, t) ==
    /\ p \in connected
    /\ t \in has[p]
    /\ <<p, t>> \notin told
    /\ told' = told \cup ({<<p, t>>} \cap (Honest \X Pays))
    /\ node' = AddTxAnnouncement(node, p, t)
    /\ UNCHANGED <<has, connected, chain, notify, connects, tips>>

Requestable(p, h) ==
    /\ node.m_txrequest[h][p] = "candidate"
    /\ \A q \in Peer : node.m_txrequest[h][q] # "requested"

\* GetRequestsToSend, for one of the announcements.
GetRequestsToSend(p, h) ==
    /\ Requestable(p, h)
    /\ SetNode(IF AlreadyHaveTx(node, h, FALSE) THEN ForgetTxHash(node, h)
               ELSE SetRow(node, h, [node.m_txrequest[h] EXCEPT ![p] = "requested"]))

Unanswered(p, h) == p \notin Honest /\ node.m_txrequest[h][p] = "requested"

\* The request expires, or a notfound message answers it.
ReceivedNotFound(p, h) ==
    /\ Unanswered(p, h)
    /\ SetNode(ReceivedResponse(node, p, h))

\* A transaction that was asked for, or that was not.
Receive(p, t) ==
    /\ p \in connected
    /\ t \in has[p]
    /\ \E pick \in Picks(node) : SetNode(ReceivedTx(node, t, p, pick))

ProcessOrphanTx(p) ==
    /\ HaveTxToReconsider(node.m_orphanage, p)
    /\ \E pick \in Picks(node) : SetNode(Reconsider(node, p, pick))

-----------------------------------------------------------------------------
(* Blocks *)

\* A block is connected: the memory pool and, by ActiveTipChange, the filters
\* change at once; BlockConnected comes later.
ConnectTip(block) ==
    /\ tips < MaxTips
    /\ tips' = tips + 1
    /\ chain = {}
    /\ chain' = block
    /\ node' = [node EXCEPT !.mempool = {t \in @ : \A b \in block : Inputs[t] \cap Inputs[b] = {}},
                            !.rejects = {}, !.reconsiderable = {}]
    /\ notify' = Append(notify, block)
    /\ UNCHANGED <<has, connected, told, connects>>

\* Its transactions return to the memory pool, whatever they pay.
DisconnectTip ==
    /\ tips < MaxTips
    /\ tips' = tips + 1
    /\ chain # {}
    /\ chain' = {}
    /\ node' = [node EXCEPT !.mempool = @ \cup chain, !.rejects = {}, !.reconsiderable = {}]
    /\ notify' = Append(notify, {})
    /\ UNCHANGED <<has, connected, told, connects>>

BlockConnected(s, block) ==
    LET hashes == block \cup {Txid[t] : t \in block}
    IN  [s EXCEPT !.m_orphanage = EraseForBlock(@, block),
                  !.recent_confirmed = @ \cup hashes,
                  !.m_txrequest = [h \in Hash |-> IF h \in hashes THEN Nobody ELSE @[h]]]

BlockDisconnected(s) == [s EXCEPT !.recent_confirmed = {}]

Notified ==
    /\ notify # <<>>
    /\ node' = IF Head(notify) = {} THEN BlockDisconnected(node) ELSE BlockConnected(node, Head(notify))
    /\ notify' = Tail(notify)
    /\ UNCHANGED <<has, connected, told, chain, connects, tips>>

DownloadNext ==
    \/ \E p \in Peer :
         \/ ConnectedPeer(p)
         \/ DisconnectedPeer(p)
         \/ \E t \in Tx : Inv(p, t) \/ Receive(p, t)
         \/ \E h \in Hash : GetRequestsToSend(p, h) \/ ReceivedNotFound(p, h)
         \/ ProcessOrphanTx(p)
    \/ \E block \in Blocks : ConnectTip(block)
    \/ DisconnectTip
    \/ Notified

DownloadSpec == DownloadInit /\ [][DownloadNext]_downloadVars

\* A honest peer was asked for t, by either hash.
Asked(p, t) ==
    /\ t \in has[p]
    /\ \E h \in {t, Txid[t]} : node.m_txrequest[h][p] = "requested"

\* The loops of SendMessages and ProcessMessages come to every peer, honest
\* peers answer, requests to others expire, and the queue of the validation
\* interface is worked off.  Each of these steps ends what enables it, so that
\* its weak fairness says that it is not enabled for ever.
Fairness ==
    /\ \A p \in Peer, h \in Hash : []<>~Requestable(p, h) /\ []<>~Unanswered(p, h)
    /\ \A p \in Peer : []<>~HaveTxToReconsider(node.m_orphanage, p)
    /\ \A p \in Honest, t \in Tx : []<>~Asked(p, t)
    /\ []<>(notify = <<>>)

FairSpec == DownloadSpec /\ Fairness

-----------------------------------------------------------------------------
(* Correctness *)

\* SanityCheck: the orphanage is within its limits after every call, also when
\* a call only erased orphans and the limits shrank with the number of peers.
WithinLimits == ~NeedsTrim(node.m_orphanage)

\* SanityCheck: each reconsiderable orphan is to be reconsidered by exactly one
\* peer, and no other orphan is by any.
ReconsiderableExact ==
    LET o == node.m_orphanage
        marked == {a \in Announcements(o) : a.m_reconsider}
    IN  /\ o.reconsiderable = {a.tx : a \in marked}
        /\ \A a, b \in marked : a.tx = b.tx => a = b

\* What the orphanage's own SanityCheck asserts, after every call.
OrphanageSane == WithinLimits /\ ReconsiderableExact

\* Hashes that a peer with the given transactions may come to announce or to be
\* asked for: with a transaction also its parents, also if another peer sends it.
Closed(stock, hashes) ==
    /\ stock \subseteq hashes
    /\ \A t \in Tx : {t, Txid[t]} \cap hashes # {} => Parents(t) \cap Hash \subseteq hashes

OrphansAmong(hashes) == {t \in Tx : {t, Txid[t]} \cap hashes # {} /\ Parents(t) \cap Hash # {}}

Affordable(orphans) ==
    /\ IsFiniteSet(orphans)
    /\ Total(Weight, orphans) <= m_reserved_usage_per_peer
    /\ Total([t \in Tx |-> LatencyScore(t)], orphans)
         <= m_max_global_latency_score \div Cardinality(Peer)

\* All that may become an orphan of the peer is within its share.
Frugal(p) ==
    \E hashes \in SUBSET Hash : Closed(has[p], hashes) /\ Affordable(OrphansAmong(hashes))

\* Accepted, or rejected by itself.
Decided(s) == s.mempool \cup s.rejects \cup s.reconsiderable

\* LimitOrphans: whatever other peers do, a peer that stays within its share
\* loses an orphan only by leaving, when the orphan is decided, or to a block
\* that spends the same outputs.
ShareProtected ==
    [][\A p \in connected, t \in Tx :
         HaveTxFromPeer(node.m_orphanage, t, p)
           => \/ HaveTxFromPeer(node'.m_orphanage, t, p)
              \/ p \notin connected'
              \/ t \in Decided(node')
              \/ /\ notify # <<>> /\ notify' = Tail(notify)
                 /\ \E b \in Head(notify) : Inputs[t] \cap Inputs[b] # {}
              \/ ~Frugal(p)]_downloadVars

\* Nobody has to reconsider the orphan, though its parents have arrived.
Stranded(t) ==
    /\ HaveTx(node.m_orphanage, t)
    /\ Missing(node, t) = {}
    /\ t \notin node.m_orphanage.reconsiderable

\* AddChildrenToWorkSet: an orphan whose parents have arrived is left alone only
\* if a block brought them, or if an announcement of it was erased, though another
\* peer had announced it too: the one that was to reconsider it (its peer left),
\* or one that was to get that mark in the same call.
StrandedOnlyByErasure ==
    [][\A t \in Tx : ~Stranded(t) /\ Stranded(t)' =>
         \/ chain' # chain
         \/ \E a \in Announcements(node.m_orphanage) :
              /\ a.tx = t
              /\ a.m_reconsider \/ Missing(node, t) # {}
              /\ ~HaveTxFromPeer(node'.m_orphanage, t, a.peer)]_downloadVars

\* A transaction that a honest peer announces, and stays to provide with its
\* parent, is accepted in the end, if it pays for both: whatever comes first,
\* with another peer that withholds transactions, answers with a changed
\* witness or with poor children, fills the orphanage or leaves.  Exceptions
\* are an orphan that was left alone, as above, and a parent without a witness
\* (also one whose witness was stripped): its txid is its wtxid, and what is
\* forgotten with the one is forgotten with the other.  The honest peer's
\* parent has a witness in the model, and no peer strips one.
HonestTxAccepted ==
    \A p \in Honest, t \in Pays :
      <>Stranded(t) \/ []<>(<<p, t>> \in told => Txid[t] \in Known(node))
=============================================================================
