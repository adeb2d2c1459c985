---------------------------- MODULE RequestRules ----------------------------
(***************************************************************************)
(* What TxRequestTracker promises, as the comment that begins txrequest.h  *)
(* states it: which peer a transaction may be requested from, and when.    *)
(* An announcement is a candidate, requested or completed; how the tracker *)
(* finds the best candidate is not part of the promise.                    *)
(*                                                                         *)
(* Times are relative to the latest moment the clock has shown; see        *)
(* TxRequest.                                                              *)
(***************************************************************************)
EXTENDS Integers

CONSTANTS
    Peer, TxHash,
    Preferred,        \* peers whose announcements are preferred
    Salt,             \* the salted hash of a transaction and a peer
    ReqDelays,        \* how far after now a caller may put reqtime
    ExpiryInterval,   \* GETDATA_TX_INTERVAL
    MaxBack,          \* how far the clock may go backwards
    Null

VARIABLES
    ann,      \* ann[t][p]: the announcement of t by p
    time,     \* reqtime of a candidate, expiry of a request
    back,     \* how far the clock is behind its latest moment
    advised   \* what GetRequestable just returned, to whom

vars == <<ann, time, back, advised>>

now == -back

Nobody == [p \in Peer |-> "none"]
Cleared == [p \in Peer |-> 0]

Pending(row) == {p \in Peer : row[p] \in {"candidate", "requested"}}

\* If only already-failed announcements remain, they are all forgotten.
Tidy(row) == IF Pending(row) = {} THEN Nobody ELSE row

TidyTime(row, times) == [p \in Peer |-> IF p \in Pending(row) THEN times[p] ELSE 0]

SetRow(t, row, times) ==
    /\ ann' = [ann EXCEPT ![t] = Tidy(row)]
    /\ time' = [time EXCEPT ![t] = TidyTime(Tidy(row), times)]

Init ==
    /\ ann = [t \in TxHash |-> Nobody]
    /\ time = [t \in TxHash |-> Cleared]
    /\ back = 0
    /\ advised = Null

ReceivedInv(p, t, delay) ==
    /\ advised = Null
    /\ ann[t][p] = "none"
    /\ ann' = [ann EXCEPT ![t][p] = "candidate"]
    /\ time' = [time EXCEPT ![t][p] = now + delay]
    /\ UNCHANGED <<back, advised>>

DisconnectedPeer(p) ==
    /\ advised = Null
    /\ ann' = [t \in TxHash |-> Tidy([ann[t] EXCEPT ![p] = "none"])]
    /\ time' = [t \in TxHash |-> TidyTime(ann'[t], time[t])]
    /\ UNCHANGED <<back, advised>>

\* The caller may act between two calls, or on what it was just advised.
Advised(p, t) == advised # Null /\ advised.peer = p /\ t \in advised.txs

MayAct(p, t) ==
    \/ advised = Null /\ UNCHANGED advised
    \/ Advised(p, t) /\ advised' = [advised EXCEPT !.txs = @ \ {t}]

ForgetTxHash(t) ==
    /\ \E p \in Peer : MayAct(p, t)
    /\ ann' = [ann EXCEPT ![t] = Nobody]
    /\ time' = [time EXCEPT ![t] = Cleared]
    /\ UNCHANGED back

\* A request that the caller makes ends one that is outstanding.
RequestedTx(p, t) ==
    /\ MayAct(p, t)
    /\ ann[t][p] = "candidate"
    /\ SetRow(t, [q \in Peer |-> IF q = p THEN "requested"
                                 ELSE IF ann[t][q] = "requested" THEN "completed"
                                 ELSE ann[t][q]],
              [time[t] EXCEPT ![p] = now + ExpiryInterval])
    /\ UNCHANGED back

\* An answer, or the passing of the expiry, completes an announcement.
Complete(p, t) ==
    /\ p \in Pending(ann[t])
    /\ SetRow(t, [ann[t] EXCEPT ![p] = "completed"], time[t])
    /\ UNCHANGED <<back, advised>>

ReceivedResponse(p, t) == advised = Null /\ Complete(p, t)

Expired(p, t) == ann[t][p] = "requested" /\ time[t][p] <= now

Expire(p, t) == Expired(p, t) /\ ReceivedResponse(p, t)

Eligible(t) == {p \in Peer : ann[t][p] = "candidate" /\ time[t][p] <= now}

\* Among eligible peers: preferred ones first, then the random choice.
BestPeer(t, p) ==
    LET pool == IF Eligible(t) \cap Preferred # {} THEN Eligible(t) \cap Preferred
                ELSE Eligible(t)
    IN  p \in pool /\ \A q \in pool : Salt[t][q] <= Salt[t][p]

Requestable(p) ==
    {t \in TxHash : BestPeer(t, p) /\ \A q \in Peer : ann[t][q] # "requested"}

\* The answer of GetRequestable: no request is outstanding for it, and the
\* peer is the best choice now.
Advise(p) ==
    /\ advised = Null
    /\ \A t \in TxHash, q \in Peer : ~Expired(q, t)
    /\ advised' = [peer |-> p, txs |-> Requestable(p)]
    /\ UNCHANGED <<ann, time, back>>

Return ==
    /\ advised # Null
    /\ advised.txs = {}
    /\ advised' = Null
    /\ UNCHANGED <<ann, time, back>>

Earlier(times) == [p \in Peer |-> IF times[p] > -MaxBack THEN times[p] - 1 ELSE times[p]]

Clock ==
    /\ advised = Null
    /\ UNCHANGED <<ann, advised>>
    /\ \/ back > 0 /\ back' = back - 1 /\ UNCHANGED time
       \/ back < MaxBack /\ back' = back + 1 /\ UNCHANGED time
       \/ /\ back = 0
          /\ UNCHANGED back
          /\ time' = [t \in TxHash |-> TidyTime(ann[t], Earlier(time[t]))]

Next ==
    \/ \E p \in Peer, t \in TxHash :
         \/ \E delay \in ReqDelays : ReceivedInv(p, t, delay)
         \/ RequestedTx(p, t)
         \/ ReceivedResponse(p, t)
         \/ Expire(p, t)
    \/ \E t \in TxHash : ForgetTxHash(t)
    \/ \E p \in Peer : DisconnectedPeer(p) \/ Advise(p)
    \/ Return
    \/ Clock

Spec == Init /\ [][Next]_vars
=============================================================================
