---------------------------- MODULE HeadersSync ----------------------------
(***************************************************************************)
(* A node at its genesis block fetches the headers of a peer (net_process- *)
(* ing.cpp) through HeadersSyncState (headerssync.cpp): a chain that has   *)
(* not shown enough work is downloaded twice, and in between only          *)
(* commitments to some of its headers are kept.                            *)
(*                                                                         *)
(* The chain and the clock are those of HeaderChain; the chain is the      *)
(* peer's and grows while it is fetched.  The hash of a header determines  *)
(* its ancestors, so it is modelled by the chain that ends in the header.  *)
(* A commitment keeps that hash where the code keeps one salted bit of it: *)
(* the model asks what the commitments are worth when they tell two        *)
(* headers apart, and leaves out how likely that is.                       *)
(***************************************************************************)
EXTENDS HeaderChain

CONSTANTS
    MinimumChainWork,        \* GetAntiDoSWorkThreshold of a node at its genesis block
    max_headers_result,      \* the length of a full headers message
    commitment_period,
    redownload_buffer_size,
    MaxBlockRate,            \* 6: blocks per second at which the median time keeps moving
    ForeignSteps,            \* how far apart the headers of a dishonest peer's own chain are
    MaxTimeouts,             \* bound: getheaders that stay unanswered for too long
    MaxAnswers               \* bound: messages of a dishonest peer

ASSUME HeadersSyncAssumption ==
    /\ MinimumChainWork \in Int /\ MaxBlockRate \in Nat /\ ForeignSteps \subseteq Int
    /\ max_headers_result \in Nat \ {0} /\ commitment_period \in Nat \ {0}
    /\ redownload_buffer_size \in Nat /\ redownload_buffer_size + 1 >= commitment_period

VARIABLES
    honest,         \* whether the peer serves its chain and nothing else
    index,          \* the headers of the block index
    m_headers_sync, \* the HeadersSyncState of the peer, or NoSync
    asked,          \* the getheaders the peer has not answered: where each continues from
    recent,         \* whether m_last_getheaders_timestamp holds off another getheaders
    timeouts,       \* counts towards MaxTimeouts
    answers,        \* counts towards MaxAnswers
    served          \* history: the chain of the last message

nodeVars == <<index, m_headers_sync, asked, recent, served>>
vars == <<chainVars, nodeVars, honest, timeouts, answers>>

NoSync == [m_download_state |-> "FINAL"]

Init ==
    /\ ChainInit
    /\ honest \in BOOLEAN
    /\ index = {<<Genesis>>}
    /\ m_headers_sync = NoSync
    /\ asked = <<<<Genesis>>>> /\ recent = TRUE
    /\ timeouts = 0 /\ answers = 0
    /\ served = <<Genesis>>

-----------------------------------------------------------------------------
(* HeadersSyncState *)

NewSync(start, offset) ==
    LET seconds == now - GetMedianTimePast(start) + MAX_FUTURE_BLOCK_TIME
    IN  [m_download_state |-> "PRESYNC", ok |-> TRUE,
         m_chain_start |-> start, m_commit_offset |-> offset,
         m_max_commitments |-> (MaxBlockRate * seconds) \div commitment_period,
         m_header_commitments |-> <<>>,
         m_current_chain_work |-> ChainWork(start), m_last_header_received |-> start,
         m_redownloaded_headers |-> <<>>, m_redownload_chain_work |-> 0,
         m_redownload_buffer_first_prev_hash |-> <<>>, m_redownload_buffer_last_hash |-> <<>>,
         m_process_all_remaining_headers |-> FALSE]

HasCommitment(s, height) == height % commitment_period = s.m_commit_offset

\* Presync of one header: its difficulty, its commitment, its work.
ValidateAndProcessSingleHeader(s, hdr) ==
    LET last == s.m_last_header_received
        current == Append(last, hdr)
        commitments == IF HasCommitment(s, Height(current))
                       THEN Append(s.m_header_commitments, current)
                       ELSE s.m_header_commitments
        valid == /\ s.ok
                 /\ PermittedDifficultyTransition(Height(current), Tip(last).nBits, hdr.nBits)
                 /\ Len(commitments) <= s.m_max_commitments
    IN  IF ~valid THEN [s EXCEPT !.ok = FALSE]
        ELSE [s EXCEPT !.m_header_commitments = commitments,
                       !.m_current_chain_work = @ + GetBlockProof(hdr.nBits),
                       !.m_last_header_received = current]

\* Mutant: the redownload starts where the presync ended.
ToRedownloadFromLast(s) ==
    [s EXCEPT !.m_download_state = "REDOWNLOAD",
              !.m_redownloaded_headers = <<>>,
              !.m_redownload_buffer_first_prev_hash = s.m_last_header_received,
              !.m_redownload_buffer_last_hash = s.m_last_header_received,
              !.m_redownload_chain_work = ChainWork(s.m_chain_start)]

ToRedownload(s) ==
    [s EXCEPT !.m_download_state = "REDOWNLOAD",
              !.m_redownloaded_headers = <<>>,
              !.m_redownload_buffer_first_prev_hash = s.m_chain_start,
              !.m_redownload_buffer_last_hash = s.m_chain_start,
              !.m_redownload_chain_work = ChainWork(s.m_chain_start)]

EnoughWorkSeen(s) ==
    IF s.ok /\ s.m_current_chain_work >= MinimumChainWork THEN ToRedownload(s) ELSE s

ValidateAndStoreHeadersCommitments(s, prev, headers) ==
    IF prev # s.m_last_header_received THEN [s EXCEPT !.ok = FALSE]
    ELSE EnoughWorkSeen(FoldLeft(ValidateAndProcessSingleHeader, s, headers))

\* Redownload of one header: its difficulty, its work, its commitment while
\* the work seen again is not enough.
ValidateAndStoreRedownloadedHeader(s, hdr) ==
    LET current == Append(s.m_redownload_buffer_last_hash, hdr)
        previous_nBits == IF s.m_redownloaded_headers # <<>>
                          THEN Last(s.m_redownloaded_headers).nBits
                          ELSE Tip(s.m_chain_start).nBits
        work == s.m_redownload_chain_work + GetBlockProof(hdr.nBits)
        all == s.m_process_all_remaining_headers \/ work >= MinimumChainWork
        checked == ~all /\ HasCommitment(s, Height(current))
        valid == /\ s.ok
                 /\ PermittedDifficultyTransition(Height(current), previous_nBits, hdr.nBits)
                 /\ checked => /\ s.m_header_commitments # <<>>
                               /\ Head(s.m_header_commitments) = current
    IN  IF ~valid THEN [s EXCEPT !.ok = FALSE]
        ELSE [s EXCEPT !.m_redownload_chain_work = work,
                       !.m_process_all_remaining_headers = all,
                       !.m_header_commitments = IF checked THEN Tail(@) ELSE @,
                       !.m_redownloaded_headers = Append(@, hdr),
                       !.m_redownload_buffer_last_hash = current]

\* Mutant: one header too many leaves the buffer.
PopOneMore(s) ==
    LET size == Len(s.m_redownloaded_headers)
    IN  IF s.m_process_all_remaining_headers THEN size
        ELSE Max({0, size - redownload_buffer_size + 1})

\* PopHeadersReadyForAcceptance: how many headers leave the buffer.
ReadyForAcceptance(s) ==
    LET size == Len(s.m_redownloaded_headers)
    IN  IF s.m_process_all_remaining_headers THEN size
        ELSE Max({0, size - redownload_buffer_size})

\* Mutant: the hash that completes the next header is not moved on.
PopForgetsHash(s) ==
    [s EXCEPT !.m_redownloaded_headers = SubSeq(@, ReadyForAcceptance(s) + 1, Len(@))]

PopHeadersReadyForAcceptance(s) ==
    LET ready == SubSeq(s.m_redownloaded_headers, 1, ReadyForAcceptance(s))
    IN  [s EXCEPT !.m_redownloaded_headers = SubSeq(@, ReadyForAcceptance(s) + 1, Len(@)),
                  !.m_redownload_buffer_first_prev_hash = @ \o ready]

\* The result of ProcessNextHeaders: the state afterwards, whether the headers
\* were all right, whether more are wanted, and those that are ready, with the
\* header before them.
Result(s, request_more, prev, ready) ==
    [sync |-> IF s.ok /\ request_more THEN s ELSE NoSync,
     success |-> s.ok, request_more |-> s.ok /\ request_more, prev |-> prev, ready |-> ready]

\* In the first phase; the message that shows enough work is followed by the
\* second phase even if it is not full.
Presynced(s, full) == Result(s, full \/ s.m_download_state = "REDOWNLOAD", <<>>, <<>>)

\* In the second phase, when nothing is left in the buffer of a chain that has
\* shown enough work, or the peer has no more, the sync is over.
Released(popped, full, prev, ready) ==
    LET complete == popped.m_redownloaded_headers = <<>> /\ popped.m_process_all_remaining_headers
    IN  Result(popped, full /\ ~complete, prev, ready)

Redownloaded(s, full) ==
    IF ~s.ok THEN Result(s, FALSE, <<>>, <<>>)
    ELSE Released(PopHeadersReadyForAcceptance(s), full, s.m_redownload_buffer_first_prev_hash,
                  SubSeq(s.m_redownloaded_headers, 1, ReadyForAcceptance(s)))

ProcessNextHeaders(s, prev, headers) ==
    LET full == Len(headers) = max_headers_result
    IN  IF s.m_download_state = "PRESYNC"
        THEN Presynced(ValidateAndStoreHeadersCommitments(s, prev, headers), full)
        ELSE IF prev # s.m_redownload_buffer_last_hash
        THEN Redownloaded([s EXCEPT !.ok = FALSE], full)
        ELSE Redownloaded(FoldLeft(ValidateAndStoreRedownloadedHeader, s, headers), full)

\* Where the next getheaders of the sync continues from.
NextHeadersRequestLocator(s) ==
    IF s.m_download_state = "PRESYNC" THEN s.m_last_header_received
    ELSE s.m_redownload_buffer_last_hash

-----------------------------------------------------------------------------
(* The headers message, as a function of what the node has about the peer *)

Node == [index |-> index, sync |-> m_headers_sync, asked |-> asked, recent |-> recent]

BestHeader(n) == CHOOSE b \in n.index : \A c \in n.index : ChainWork(c) <= ChainWork(b)

MaybeSendGetHeaders(n, locator) ==
    IF n.recent THEN n ELSE [n EXCEPT !.asked = Append(@, locator), !.recent = TRUE]

RequestMore(n, request_more) ==
    IF request_more THEN MaybeSendGetHeaders(n, NextHeadersRequestLocator(n.sync)) ELSE n

\* What the node has, and the headers that the message stands for, after the
\* sync has taken it with result r.
Continued(n, prev, headers, r) ==
    [node |-> RequestMore([n EXCEPT !.sync = r.sync,
                                    !.recent = IF r.success THEN FALSE ELSE @], r.request_more),
     success |-> r.success,
     prev |-> IF r.success THEN r.prev ELSE prev,
     headers |-> IF r.success THEN r.ready ELSE headers]

IsContinuationOfLowWorkHeadersSync(n, prev, headers) ==
    Continued(n, prev, headers, ProcessNextHeaders(n.sync, prev, headers))

HandleUnconnectingHeaders(n) == MaybeSendGetHeaders(n, BestHeader(n))

\* Too little work: a sync starts with a full message, another is ignored.
TryLowWorkHeadersSync(n, prev, headers, offset) ==
    IF Len(headers) = max_headers_result
    THEN IsContinuationOfLowWorkHeadersSync(
            [n EXCEPT !.sync = NewSync(prev, offset)], prev, headers).node
    ELSE n

\* ProcessNewBlockHeaders stores the headers up to the first that is refused.
Accepted(n, prev, headers) ==
    LET upTo(i) == prev \o SubSeq(headers, 1, i)
        fine(i) == upTo(i) \in n.index \/ CheckHeader(upTo(i - 1), headers[i]) = "accepted"
    IN  {i \in DOMAIN headers : \A j \in 1..i : fine(j)}

ProcessNewBlockHeaders(n, prev, headers, full) ==
    LET accepted == Accepted(n, prev, headers)
        m == [n EXCEPT !.index = @ \cup {prev \o SubSeq(headers, 1, i) : i \in accepted}]
    IN  IF accepted = DOMAIN headers /\ full /\ n.sync = NoSync
        THEN MaybeSendGetHeaders(m, prev \o headers) ELSE m

\* Headers outside a sync, or that a sync let go: do they connect, and has
\* their chain shown its work?
ConnectHeaders(n, prev, headers, already_validated_work, full, offset) ==
    LET m == [n EXCEPT !.recent = FALSE]
        whole == prev \o headers
        known == whole \in n.index /\ IsPrefix(whole, BestHeader(n))
    IN  IF prev \notin n.index THEN HandleUnconnectingHeaders(n)
        ELSE IF already_validated_work \/ known \/ ChainWork(whole) >= MinimumChainWork
        THEN ProcessNewBlockHeaders(m, prev, headers, full)
        ELSE TryLowWorkHeadersSync(m, prev, headers, offset)

ConnectReleased(c, full, offset) ==
    IF c.headers = <<>> THEN c.node
    ELSE ConnectHeaders(c.node, c.prev, c.headers, c.success, full, offset)

ProcessHeadersMessage(n, prev, headers, offset) ==
    LET full == Len(headers) = max_headers_result
    IN  IF headers = <<>> THEN [n EXCEPT !.sync = NoSync, !.recent = FALSE]
        ELSE IF n.sync = NoSync THEN ConnectHeaders(n, prev, headers, FALSE, full, offset)
        ELSE ConnectReleased(IsContinuationOfLowWorkHeadersSync(n, prev, headers), full, offset)

-----------------------------------------------------------------------------
(* Steps *)

Become(n) ==
    /\ index' = n.index /\ m_headers_sync' = n.sync
    /\ asked' = n.asked /\ recent' = n.recent

Receive(n, prev, headers) ==
    /\ \E m \in {ProcessHeadersMessage(n, prev, headers, offset) :
                   offset \in 0..commitment_period - 1} : Become(m)
    /\ served' = prev \o headers
    /\ UNCHANGED <<chainVars, honest, timeouts>>

Answered == [Node EXCEPT !.asked = Tail(@)]

\* An honest peer answers the getheaders in order, from the chain it has by then.
Answer ==
    LET prev == Head(asked)
        last == Min({Len(chain), Len(prev) + max_headers_result})
    IN  /\ honest /\ asked # <<>>
        /\ Receive(Answered, prev, SubSeq(chain, Len(prev) + 1, last))
        /\ UNCHANGED answers

\* What another peer may send after a header: the chain's headers, or headers
\* of its own that the difficulty rules allow.
Following(p) ==
    {[nTime |-> t, nBits |-> GetNextWorkRequired(p, t)] :
        t \in {Tip(p).nTime + step : step \in ForeignSteps}}
      \cup (IF IsStrictPrefix(p, chain) THEN {chain[Len(p) + 1]} ELSE {})

Chains(p) ==
    LET upTo[k \in 0..max_headers_result] ==
          IF k = 0 THEN {p}
          ELSE upTo[k - 1] \cup
               UNION {{Append(q, h) : h \in Following(q)} :
                        q \in {r \in upTo[k - 1] : Height(r) < MaxHeight}}
    IN  upTo[max_headers_result]

AnswerAnything ==
    /\ ~honest /\ asked # <<>> /\ Height(chain) = MaxHeight
    /\ answers < MaxAnswers
    /\ answers' = answers + 1
    /\ \E c \in Chains(Head(asked)) :
         Receive(Answered, Head(asked), SubSeq(c, Len(Head(asked)) + 1, Len(c)))

\* The peer announces its tip and the node, which does not have it, asks for
\* what follows its best header.
AnnounceBlock ==
    /\ chain \notin index
    /\ Become(MaybeSendGetHeaders(Node, BestHeader(Node)))
    /\ UNCHANGED <<chainVars, honest, timeouts, answers, served>>

\* HEADERS_RESPONSE_TIME has passed since the last getheaders.
ResponseTimePasses ==
    /\ recent
    /\ recent' = FALSE
    /\ asked # <<>> => timeouts < MaxTimeouts
    /\ timeouts' = IF asked # <<>> THEN timeouts + 1 ELSE timeouts
    /\ UNCHANGED <<chainVars, honest, answers, index, m_headers_sync, asked, served>>

Next ==
    \/ ChainNext /\ UNCHANGED <<nodeVars, honest, timeouts, answers>>
    \/ Answer
    \/ AnswerAnything
    \/ AnnounceBlock
    \/ ResponseTimePasses

Spec == Init /\ [][Next]_vars

\* Honest peers answer, which is enabled exactly when something was asked, and
\* go on to find and announce blocks; time passes.
FairSpec ==
    /\ Spec
    /\ []<>~(honest /\ asked # <<>>) \/ []<><<Answer>>_vars
    /\ WF_vars(AnnounceBlock)
    /\ WF_vars(ResponseTimePasses)

-----------------------------------------------------------------------------
(* Properties *)

\* The anti-DoS promise of the download in two phases: whatever a peer sends,
\* a header is stored for good only if it is on a chain with the required work
\* that the peer served, in this message or in the first phase of the sync.
StoredHasWork ==
    [][\A b \in index' \ index :
         \E c \in {served'} \cup (IF m_headers_sync.m_download_state = "REDOWNLOAD"
                                  THEN {m_headers_sync.m_last_header_received} ELSE {}) :
            IsPrefix(b, c) /\ ChainWork(c) >= MinimumChainWork]_vars

\* The buffer of compressed headers, which have lost their hashPrevBlock,
\* still spells the chain that was received, and continues a header the node
\* has: with an honest peer no batch that leaves the buffer is left hanging.
BufferConnects ==
    m_headers_sync.m_download_state = "REDOWNLOAD" =>
        /\ m_headers_sync.m_redownload_buffer_last_hash =
             m_headers_sync.m_redownload_buffer_first_prev_hash
               \o m_headers_sync.m_redownloaded_headers
        /\ honest => m_headers_sync.m_redownload_buffer_first_prev_hash \in index

\* An honest peer with enough work is synchronised with, although its chain
\* grows meanwhile and although the getheaders that a block announcement
\* causes, and the answers to them, break into a sync that is under way.
HonestChainStored ==
    honest /\ Height(chain) = MaxHeight /\ ChainWork(chain) >= MinimumChainWork
      ~> chain \in index
=============================================================================
