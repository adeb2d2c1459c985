---------------------------- MODULE BlockMining ----------------------------
(***************************************************************************)
(* The node's own generate RPC, mining on the chain of HeaderChain while   *)
(* blocks of other miners arrive and the clock moves.                      *)
(*                                                                         *)
(* The RPC takes a template from CreateNewBlock, then reads the active tip *)
(* again under cs_main, so a block may arrive in between.  It tries nonces *)
(* without a lock; one round is TIMESTAMP_UPDATE_INTERVAL of them, at the  *)
(* end of which it may move the block's time.                              *)
(***************************************************************************)
EXTENDS HeaderChain

CONSTANTS
    WrapRound,   \* rounds in which a 32-bit nonce wraps
    ForceRound,  \* first round in which 50,000,000 nonces have been tried
    MaxRounds    \* bound on the rounds of one job

ASSUME RoundAssumption == WrapRound \in Nat \ {0} /\ {ForceRound, MaxRounds} \subseteq Nat

VARIABLES
    job     \* the block the generate RPC is mining, or NoJob

miningVars == <<chain, now, job>>

NoJob == [prev |-> <<>>]
NoTip == <<>>

MiningInit ==
    /\ ChainInit
    /\ job = NoJob

UpdateTime(time) == Max({time, GetMinimumTime(chain), now})

\* The header CreateNewBlock puts in a template: the clock's time, moved by UpdateTime.
Template ==
    LET t == UpdateTime(now) IN [nTime |-> t, nBits |-> GetNextWorkRequired(chain, t)]

\* TestBlockValidity makes the RPC throw on a template nobody would accept.
CreateNewBlock ==
    /\ job = NoJob
    /\ Height(chain) < MaxHeight
    /\ CheckHeader(chain, Template) = "accepted"
    /\ job' = [prev |-> chain, tip |-> NoTip, block |-> Template, round |-> 0]
    /\ UNCHANGED <<chain, now>>

\* GenerateBlock reads the active tip, which need no longer be the template's parent.
StartMining ==
    /\ job # NoJob
    /\ job.tip = NoTip
    /\ job' = [job EXCEPT !.tip = chain]
    /\ UNCHANGED <<chain, now>>

Mining == job # NoJob /\ job.tip # NoTip

\* Mutant: the first timestamp update already forces the clock's time.
TryNoncesForced ==
    /\ Mining
    /\ job.round + 1 <= MaxRounds
    /\ job' = [job EXCEPT !.round = @ + 1, !.block.nTime = now]
    /\ UNCHANGED <<chain, now>>

\* A round of nonces without a solution ends in the timestamp update.
TryNonces ==
    LET newTime == Max({GetMedianTimePast(job.tip) + 1, now})
        round == job.round + 1
        later == [job EXCEPT !.round = round, !.block.nTime = newTime]
        same == [job EXCEPT !.round = round]
        forced == [job EXCEPT !.round = round, !.block.nTime = now]
    IN  /\ Mining
        /\ round <= MaxRounds
        /\ job' = IF newTime > job.block.nTime THEN later
                  ELSE IF round % WrapRound = 0 THEN NoJob
                  ELSE IF round >= ForceRound THEN forced
                  ELSE same
        /\ UNCHANGED <<chain, now>>

\* max_tries is used up, the node shuts down, or the nonce is the last one.
GiveUp ==
    /\ Mining
    /\ job' = NoJob
    /\ UNCHANGED <<chain, now>>

\* A nonce meets the target and the block goes through ProcessNewBlock, which
\* makes its chain the active one when that has more work.
SolveBlock ==
    LET solved == Append(job.prev, job.block)
    IN  /\ Mining
        /\ chain' = IF CheckHeader(job.prev, job.block) = "accepted"
                       /\ ChainWork(solved) > ChainWork(chain)
                    THEN solved ELSE chain
        /\ job' = NoJob
        /\ UNCHANGED now

MiningNext ==
    \/ ChainNext /\ UNCHANGED job
    \/ CreateNewBlock
    \/ StartMining
    \/ TryNonces
    \/ GiveUp
    \/ SolveBlock

MiningSpec == MiningInit /\ [][MiningNext]_miningVars

-----------------------------------------------------------------------------
(* Properties *)

\* A template made by CreateNewBlock now would pass every header check except,
\* when the chain's own median time is already that far ahead, time-too-new.
TemplateAcceptable ==
    \/ ~TargetDerivable(Template.nBits)
    \/ CheckHeader(chain, Template) = "accepted"
    \/ TooNew(Template) /\ CheckHeader(chain, Template) = "time-too-new"

\* A block solved before the forced timestamp update is acceptable on the
\* parent its template was made for, whatever arrived since.
UnforcedJobAcceptable ==
    job # NoJob /\ job.round < ForceRound =>
        CheckHeader(job.prev, job.block) \in {"accepted", "time-too-new"}

\* Whatever arrives while the generate RPC works without a lock, and however the
\* clock moves: the block that it would take up, and the one it is mining, pass
\* the header checks, and a legacy period does not begin too far behind.
MinedAcceptable ==
    TemplateAcceptable /\ UnforcedJobAcceptable /\ MinimumTimeGuardsPeriodStart
=============================================================================
