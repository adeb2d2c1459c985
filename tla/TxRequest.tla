----------------------------- MODULE TxRequest -----------------------------
(***************************************************************************)
(* TxRequestTracker: which peer announced which transaction, and whom to   *)
(* ask for it.  Every call runs under m_tx_download_mutex, so that calls   *)
(* do not interleave; the loops of SetTimePoint take a step for each       *)
(* announcement they move, during which `pc' is not "idle".                *)
(*                                                                         *)
(* The announcements of one transaction are a row: a function from peers   *)
(* to states.  The ByTxHash index orders a row by state and, among the     *)
(* ready ones, by priority; the code finds the best candidate by looking   *)
(* at an announcement's neighbour in that order.  Sequence numbers, which  *)
(* only sort a result, and m_peerinfo, which caches the sizes of subsets   *)
(* of the index, are left out.  A completed announcement keeps no time.    *)
(*                                                                         *)
(* Time is relative, so that it never ends: a stored time is how far it is *)
(* after the latest moment the clock has shown, and the clock itself is    *)
(* `back' before that moment.  A time MaxBack in the past is past whatever *)
(* the clock does, and is not distinguished from earlier ones.             *)
(***************************************************************************)
EXTENDS Integers

CONSTANTS
    Peer, TxHash,
    Preferred,        \* peers whose announcements are preferred
    Salt,             \* the salted hash of a transaction and a peer
    TopBit,           \* the bit of a priority above all bits of the hash
    ReqDelays,        \* how far after now a caller may put reqtime
    ExpiryInterval,   \* GETDATA_TX_INTERVAL
    MaxBack,          \* how far the clock may go backwards
    Null

VARIABLES
    state,   \* state[t][p]: the announcement of t by p
    time,    \* m_time: reqtime of a candidate, expiry of a request
    back,    \* how far the clock is behind its latest moment
    pc,      \* the loop that GetRequestable is in
    caller,  \* the peer GetRequestable is called for
    ret      \* what it returned

vars == <<state, time, back, pc, caller, ret>>

States == {"none", "delayed", "ready", "best", "requested", "completed"}

ASSUME SaltAssumption ==
    /\ TopBit \in Nat
    /\ Salt \in [TxHash -> [Peer -> Nat]]
    /\ \A t \in TxHash, p \in Peer : Salt[t][p] < TopBit
    /\ \A t \in TxHash, p, q \in Peer : Salt[t][p] = Salt[t][q] => p = q

ASSUME TimeAssumption ==
    /\ MaxBack \in Nat
    /\ ExpiryInterval \in Nat \ {0}
    /\ ReqDelays \subseteq Nat

ASSUME NullAssumption ==
    /\ Null \notin Peer
    /\ \A p \in Peer, txs \in SUBSET TxHash : Null # [peer |-> p, txs |-> txs]

now == -back

-----------------------------------------------------------------------------
(* Announcement and its priority *)

Selected(s) == s \in {"best", "requested"}
Waiting(s) == s \in {"requested", "delayed"}
Selectable(s) == s \in {"ready", "best"}

\* Mutant: the preferred bit does not reach above the hash.
PriorityUnshifted(t, p) == Salt[t][p] + (IF p \in Preferred THEN 1 ELSE 0)
Priority(t, p) == Salt[t][p] + (IF p \in Preferred THEN TopBit ELSE 0)

Nobody == [p \in Peer |-> "none"]
Cleared == [p \in Peer |-> 0]

\* The announcements that come after a ready one of p in the ByTxHash index.
After(row, t, p) ==
    {q \in Peer \ {p} : \/ Selected(row[q])
                        \/ row[q] = "ready" /\ Priority(t, q) > Priority(t, p)}

\* Mutant: a candidate that becomes ready never replaces the best one.
PromoteNoReplace(row, t, p) ==
    IF After(row, t, p) = {} THEN [row EXCEPT ![p] = "best"] ELSE [row EXCEPT ![p] = "ready"]

\* Ready, and best if nothing comes after it or if the next is a worse best.
PromoteCandidateReady(row, t, p) ==
    LET after == After(row, t, p)
        best == {q \in after : row[q] = "best"}
        nextIsBest == best # {} /\ \A q \in after : row[q] # "ready"
    IN  IF after = {} THEN [row EXCEPT ![p] = "best"]
        ELSE IF nextIsBest /\ \A q \in best : Priority(t, p) > Priority(t, q)
        THEN [q \in Peer |-> IF q = p THEN "best" ELSE IF q \in best THEN "ready" ELSE row[q]]
        ELSE [row EXCEPT ![p] = "ready"]

\* q's announcement is ready and immediately precedes the selected one of p.
Precedes(row, t, q, p) ==
    /\ row[q] = "ready"
    /\ \A r \in Peer : row[r] = "ready" => Priority(t, r) <= Priority(t, q)
    /\ row[p] = "requested" => \A r \in Peer : row[r] # "best"

\* Mutant: the next best announcement is not selected.
ChangeOnly(row, t, p, new) == [row EXCEPT ![p] = new]
ChangeAndReselect(row, t, p, new) ==
    [q \in Peer |-> IF q = p THEN new
                    ELSE IF Selected(row[p]) /\ Precedes(row, t, q, p) THEN "best"
                    ELSE row[q]]

IsOnlyNonCompleted(row, p) == \A q \in Peer \ {p} : row[q] \in {"none", "completed"}

MakeCompleted(row, t, p) ==
    IF row[p] = "completed" THEN row
    ELSE IF IsOnlyNonCompleted(row, p) THEN Nobody
    ELSE ChangeAndReselect(row, t, p, "completed")

Exists(row, p) == row[p] # "none"

Times(row, times) == [p \in Peer |-> IF row[p] \in {"none", "completed"} THEN 0 ELSE times[p]]

SetRow(t, row, times) ==
    /\ state' = [state EXCEPT ![t] = row]
    /\ time' = [time EXCEPT ![t] = Times(row, times)]

-----------------------------------------------------------------------------
(* Calls *)

Init ==
    /\ state = [t \in TxHash |-> Nobody]
    /\ time = [t \in TxHash |-> Cleared]
    /\ back = 0
    /\ pc = "idle" /\ caller = Null /\ ret = {}

Idle == pc = "idle" /\ UNCHANGED <<back, pc, caller, ret>>

ReceivedInv(p, t, delay) ==
    /\ Idle
    /\ ~Exists(state[t], p)
    /\ SetRow(t, [state[t] EXCEPT ![p] = "delayed"], [time[t] EXCEPT ![p] = now + delay])

\* Completes and erases the announcements of the peer.  They are of different
\* transactions, so that one does not affect another.
DisconnectedPeer(p) ==
    LET row(t) == IF Exists(state[t], p)
                  THEN [MakeCompleted(state[t], t, p) EXCEPT ![p] = "none"]
                  ELSE state[t]
    IN  /\ Idle
        /\ state' = [t \in TxHash |-> row(t)]
        /\ time' = [t \in TxHash |-> Times(row(t), time[t])]

ForgetTxHash(t) == Idle /\ SetRow(t, Nobody, Cleared)

\* A candidate that is not the best one takes the place of what is selected.
Requested(row, p) ==
    [q \in Peer |-> IF q = p THEN "requested"
                    ELSE IF row[p] = "best" THEN row[q]
                    ELSE IF row[q] = "best" THEN "ready"
                    ELSE IF row[q] = "requested" THEN "completed"
                    ELSE row[q]]

RequestedTx(p, t) ==
    /\ Idle
    /\ state[t][p] \in {"delayed", "ready", "best"}
    /\ SetRow(t, Requested(state[t], p), [time[t] EXCEPT ![p] = now + ExpiryInterval])

ReceivedResponse(p, t) ==
    /\ Idle
    /\ Exists(state[t], p)
    /\ SetRow(t, MakeCompleted(state[t], t, p), time[t])

-----------------------------------------------------------------------------
(* GetRequestable: SetTimePoint's two loops, then the answer *)

GetRequestable(p) ==
    /\ pc = "idle"
    /\ pc' = "past" /\ caller' = p
    /\ UNCHANGED <<state, time, back, ret>>

\* An announcement that ByTime begins with: waiting, for the earliest time.
FirstEvent(p, t) ==
    /\ Waiting(state[t][p])
    /\ \A q \in Peer, u \in TxHash : Waiting(state[u][q]) => time[t][p] <= time[u][q]

\* A step of the first loop: a candidate becomes ready or a request expires.
PastEvent(p, t) ==
    /\ pc = "past"
    /\ FirstEvent(p, t)
    /\ time[t][p] <= now
    /\ SetRow(t, IF state[t][p] = "delayed" THEN PromoteCandidateReady(state[t], t, p)
                 ELSE MakeCompleted(state[t], t, p), time[t])
    /\ UNCHANGED <<back, pc, caller, ret>>

NoPastEvent ==
    /\ pc = "past"
    /\ \A p \in Peer, t \in TxHash : Waiting(state[t][p]) => time[t][p] > now
    /\ pc' = "future"
    /\ UNCHANGED <<state, time, back, caller, ret>>

\* An announcement that ByTime ends with: selectable, of the latest time.
LastEvent(p, t) ==
    /\ Selectable(state[t][p])
    /\ \A q \in Peer, u \in TxHash : Selectable(state[u][q]) => time[u][q] <= time[t][p]

\* A step of the second loop: the clock went backwards.
FutureEvent(p, t) ==
    /\ pc = "future"
    /\ LastEvent(p, t)
    /\ time[t][p] > now
    /\ SetRow(t, ChangeAndReselect(state[t], t, p, "delayed"), time[t])
    /\ UNCHANGED <<back, pc, caller, ret>>

Answer ==
    /\ pc = "future"
    /\ \A p \in Peer, t \in TxHash : Selectable(state[t][p]) => time[t][p] <= now
    /\ pc' = "returned"
    /\ ret' = {t \in TxHash : state[t][caller] = "best"}
    /\ UNCHANGED <<state, time, back, caller>>

\* GetRequestsToSend goes through what it was told to request: a transaction
\* it has by now is forgotten, any other one is requested.
RequestAdvised(t) ==
    /\ pc = "returned"
    /\ t \in ret
    /\ ret' = ret \ {t}
    /\ \/ SetRow(t, Nobody, Cleared)
       \/ SetRow(t, Requested(state[t], caller), [time[t] EXCEPT ![caller] = now + ExpiryInterval])
    /\ UNCHANGED <<back, pc, caller>>

Return ==
    /\ pc = "returned"
    /\ ret = {}
    /\ pc' = "idle" /\ caller' = Null
    /\ UNCHANGED <<state, time, back, ret>>

-----------------------------------------------------------------------------
(* The clock, which calls read *)

Earlier(times) == [p \in Peer |-> IF times[p] > -MaxBack THEN times[p] - 1 ELSE times[p]]

\* Time passes: the clock shows a later moment than ever, or catches up.
Tick ==
    /\ pc = "idle"
    /\ IF back > 0
       THEN back' = back - 1 /\ UNCHANGED time
       ELSE /\ time' = [t \in TxHash |-> Times(state[t], Earlier(time[t]))]
            /\ UNCHANGED back
    /\ UNCHANGED <<state, pc, caller, ret>>

ClockBack ==
    /\ pc = "idle"
    /\ back < MaxBack
    /\ back' = back + 1
    /\ UNCHANGED <<state, time, pc, caller, ret>>

Proceed ==
    \/ \E p \in Peer, t \in TxHash : PastEvent(p, t) \/ FutureEvent(p, t)
    \/ \E t \in TxHash : RequestAdvised(t)
    \/ NoPastEvent
    \/ Answer
    \/ Return

Next ==
    \/ \E p \in Peer, t \in TxHash :
         \/ \E delay \in ReqDelays : ReceivedInv(p, t, delay)
         \/ RequestedTx(p, t)
         \/ ReceivedResponse(p, t)
    \/ \E t \in TxHash : ForgetTxHash(t)
    \/ \E p \in Peer : DisconnectedPeer(p) \/ GetRequestable(p)
    \/ Proceed
    \/ Tick
    \/ ClockBack

Spec == Init /\ [][Next]_vars

\* A call returns; time passes, between calls; and between calls SendMessages
\* asks again and again what to request from each peer.
FairSpec ==
    /\ Spec
    /\ WF_vars(Proceed)
    /\ SF_vars(Tick)
    /\ \A p \in Peer : SF_vars(GetRequestable(p))

-----------------------------------------------------------------------------
(* Correctness *)

Candidate(p, t) == state[t][p] \in {"delayed", "ready", "best"}

\* Every announcement is in one of the states; a call that was answered
\* knows whom it was for.
TypeOK ==
    /\ state \in [TxHash -> [Peer -> States]]
    /\ time \in [TxHash -> [Peer -> Int]]
    /\ back \in 0..MaxBack
    /\ pc \in {"idle", "past", "future", "returned"}
    /\ caller \in Peer \cup {Null}
    /\ (caller = Null) <=> (pc = "idle")
    /\ ret \subseteq TxHash

\* SanityCheck: at most one announcement of a transaction is selected, one is
\* if any is ready, and the best one has the highest priority of the ready
\* ones; in between the steps of SetTimePoint too.
SelectionSane ==
    \A t \in TxHash :
      /\ \A p, q \in Peer : Selected(state[t][p]) /\ Selected(state[t][q]) => p = q
      /\ (\E p \in Peer : state[t][p] = "ready") => \E p \in Peer : Selected(state[t][p])
      /\ \A p, q \in Peer : state[t][p] = "best" /\ state[t][q] = "ready"
                             => Priority(t, p) > Priority(t, q)

\* SanityCheck: a transaction with only completed announcements was forgotten,
\* so that its failed peers may announce it again.
NotOnlyCompleted ==
    \A t \in TxHash : (\E p \in Peer : state[t][p] = "completed")
                      => \E p \in Peer : Candidate(p, t) \/ state[t][p] = "requested"

\* PostGetRequestableSanityCheck: after SetTimePoint nothing waits for the past
\* and nothing is ready for the future.  When it returns, the second loop has
\* not made a waiting announcement that the first one would have to handle.
TimePointSane ==
    pc = "returned" =>
      \A t \in TxHash, p \in Peer :
        /\ Waiting(state[t][p]) => time[t][p] > now
        /\ Selectable(state[t][p]) => time[t][p] <= now

\* What SanityCheck and PostGetRequestableSanityCheck assert of the tracker.
TrackerSane == SelectionSane /\ NotOnlyCompleted /\ TimePointSane

\* The tracker with its index order and neighbours does what the rules at the
\* top of txrequest.h promise, whatever the clock does: which candidate is
\* advised, when, and that a failed peer is not advised again.
Rules == INSTANCE RequestRules WITH
    ann <- [t \in TxHash |-> [p \in Peer |-> IF Candidate(p, t) THEN "candidate" ELSE state[t][p]]],
    advised <- IF pc = "returned" THEN [peer |-> caller, txs |-> ret] ELSE Null

ImplementsRules == Rules!Spec

\* A peer's announcement does not starve: with no other peer coming and going
\* and no clock running backwards for ever, it is at some time requested or
\* dropped, even if every better peer announces and never answers.
NotStarved ==
    <>[][~ClockBack /\ \A q \in Peer : ~DisconnectedPeer(q)]_vars =>
      \A p \in Peer, t \in TxHash : Candidate(p, t) ~> ~Candidate(p, t)
=============================================================================
