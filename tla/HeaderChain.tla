---------------------------- MODULE HeaderChain ----------------------------
(***************************************************************************)
(* A node extending its active header chain under the rules of Difficulty. *)
(* Headers of any time arrive while the clock moves; the one work value    *)
(* that passes bad-diffbits is the one GetNextWorkRequired computes.       *)
(***************************************************************************)
EXTENDS Difficulty

CONSTANTS
    MAX_FUTURE_BLOCK_TIME,
    GenesisTime,
    TimeSteps,         \* how far the time of another miner's block is from its parent's
    ClockSteps,        \* how far the clock may jump
    MaxHeight, MaxNow  \* bounds on the chain and on the clock

ASSUME ChainAssumption ==
    /\ MAX_FUTURE_BLOCK_TIME \in Int /\ GenesisTime \in Int
    /\ TimeSteps \subseteq Int /\ ClockSteps \subseteq Int

VARIABLES
    chain,  \* the active chain
    now     \* NodeClock::now()

chainVars == <<chain, now>>

Genesis == [nTime |-> GenesisTime, nBits |-> GetCompact(powLimit)]

ChainInit ==
    /\ chain = <<Genesis>>
    /\ now = GenesisTime

-----------------------------------------------------------------------------
(* Acceptance of a header on top of a chain *)

TooNew(block) == block.nTime > now + MAX_FUTURE_BLOCK_TIME

Timewarps(prev, block) ==
    /\ enforce_BIP94
    /\ (Height(prev) + 1) % DifficultyAdjustmentInterval = 0
    /\ block.nTime < Tip(prev).nTime - MAX_TIMEWARP

\* CheckBlockHeader and ContextualCheckBlockHeader: why the header is refused.
CheckHeader(prev, block) ==
    IF ~TargetDerivable(block.nBits) THEN "high-hash"
    ELSE IF block.nBits # GetNextWorkRequired(prev, block.nTime) THEN "bad-diffbits"
    ELSE IF block.nTime <= GetMedianTimePast(prev) THEN "time-too-old"
    ELSE IF Timewarps(prev, block) THEN "time-timewarp-attack"
    ELSE IF TooNew(block) THEN "time-too-new"
    ELSE "accepted"

\* A header of another miner, with any time and the work that time requires,
\* extends the chain or is refused.
ReceiveBlock(step) ==
    LET t == Tip(chain).nTime + step
        block == [nTime |-> t, nBits |-> GetNextWorkRequired(chain, t)]
    IN  /\ chain' = IF CheckHeader(chain, block) = "accepted" /\ Height(chain) < MaxHeight
                    THEN Append(chain, block) ELSE chain
        /\ UNCHANGED now

AdvanceClock(step) ==
    /\ now + step <= MaxNow
    /\ now' = now + step
    /\ UNCHANGED chain

ChainNext ==
    \/ \E step \in TimeSteps : ReceiveBlock(step)
    \/ \E step \in ClockSteps : AdvanceClock(step)

-----------------------------------------------------------------------------
(* Properties *)

\* The headers presync judges nBits without the timestamps a retarget uses:
\* PermittedDifficultyTransition must not refuse any pair of consecutive
\* headers that GetNextWorkRequired produced, rounding and fork included.
PresyncPermitsChain ==
    \A h \in 1..Height(chain) :
        PermittedDifficultyTransition(h, BlockAt(chain, h - 1).nBits, BlockAt(chain, h).nBits)

\* GetMinimumTime accounts for the BIP94 timewarp rule on the first block of
\* a difficulty period: no miner that follows it moves a period's start behind
\* its parent by more than MAX_TIMEWARP.  This is about the legacy periods;
\* GetMinimumTime does not know the periods of the fork.
MinimumTimeGuardsPeriodStart ==
    /\ ~PastFork(Height(chain) + 1)
    /\ IsDifficultyAdjustmentBoundary(Height(chain) + 1)
    =>
        GetMinimumTime(chain) >= Tip(chain).nTime - MAX_TIMEWARP

\* A retarget of the next block scales by a ratio of timespans that belong
\* together: it measures from the block that opened the running period, over
\* as many blocks as the target timespan of that height stands for.  The fork
\* falls inside a legacy period and opens a period without a retarget; no
\* retarget may measure blocks of two regimes or of two periods.
RetargetMeasuresOwnPeriod ==
    LET height == Height(chain)
        first == HeightFirst(height)
        atFork(h) == nDifficultyForkHeight > 0 /\ h = nDifficultyForkHeight
    IN  IsDifficultyAdjustmentBoundary(height + 1) =>
          /\ height + 1 - first = DifficultyAdjustmentIntervalAtHeight(height + 1)
          /\ first = 0 \/ IsDifficultyAdjustmentBoundary(first) \/ atFork(first)
          /\ \A h \in first + 1..height : ~IsDifficultyAdjustmentBoundary(h) /\ ~atFork(h)
=============================================================================
