----------------------------- MODULE Difficulty -----------------------------
(***************************************************************************)
(* The proof-of-work rules of pow.cpp with DRIP's difficulty fork: the     *)
(* schedule of retargets, the retarget itself with the compact ("nBits")   *)
(* encoding it rounds through, the check the headers presync makes on a    *)
(* pair of consecutive nBits, and the places outside pow.cpp that ask      *)
(* which blocks start a difficulty period.                                 *)
(*                                                                         *)
(* A block is [nTime, nBits]; a chain is a non-empty sequence of blocks    *)
(* whose element h + 1 has height h.  A compact target is <<nSize, nWord>>.*)
(***************************************************************************)
EXTENDS Integers, Sequences, FiniteSets, FiniteSetsExt, SequencesExt

CONSTANTS
    nPowTargetTimespan,           \* legacy retarget timespan, in seconds
    nPowTargetSpacing,            \* target time between two blocks
    nDifficultyForkHeight,        \* 0 disables the difficulty fork
    nPowTargetTimespanV2,         \* timespan from the fork on
    powLimit,                     \* easiest target
    fPowAllowMinDifficultyBlocks, \* the testnet rule
    enforce_BIP94,                \* testnet4 and regtest: timewarp and block storm rules
    fPowNoRetargeting,
    MAX_TIMEWARP,
    nMedianTimeSpan,
    CompactBase,                  \* 256: one digit of the compact exponent
    CompactDigits,                \* 3: digits of the compact mantissa
    ArithDigits                   \* 32: digits of an arith_uint256

ASSUME DifficultyAssumption ==
    /\ nPowTargetSpacing \in Nat \ {0}
    /\ nPowTargetTimespan \in Nat /\ nPowTargetTimespan >= nPowTargetSpacing
    /\ nDifficultyForkHeight \in Nat
    /\ nPowTargetTimespanV2 \in Nat
    /\ nDifficultyForkHeight > 0 => nPowTargetTimespanV2 >= nPowTargetSpacing
    /\ powLimit \in Nat \ {0}
    /\ {fPowAllowMinDifficultyBlocks, enforce_BIP94, fPowNoRetargeting} \subseteq BOOLEAN
    /\ MAX_TIMEWARP \in Nat /\ nMedianTimeSpan \in Nat \ {0}
    /\ CompactBase \in Nat \ {0} /\ CompactBase % 2 = 0
    /\ CompactDigits \in Nat /\ CompactDigits >= 2
    /\ ArithDigits \in Nat /\ ArithDigits > CompactDigits

-----------------------------------------------------------------------------
(* Chains *)

Height(chain) == Len(chain) - 1
BlockAt(chain, h) == chain[h + 1]
Tip(chain) == chain[Len(chain)]

\* The median of the last nMedianTimeSpan block times (the upper one of two):
\* the one that sorting puts in the place n \div 2, counted from 0.
GetMedianTimePast(chain) ==
    LET n == IF Len(chain) < nMedianTimeSpan THEN Len(chain) ELSE nMedianTimeSpan
        last == Len(chain) - n + 1 .. Len(chain)
    IN  CHOOSE t \in {chain[i].nTime : i \in last} :
          /\ Cardinality({i \in last : chain[i].nTime < t}) <= n \div 2
          /\ Cardinality({i \in last : chain[i].nTime <= t}) > n \div 2

-----------------------------------------------------------------------------
(* arith_uint256 and its compact encoding *)

\* CompactBase ^ n.
Power[n \in 0..ArithDigits] == IF n = 0 THEN 1 ELSE CompactBase * Power[n - 1]

ArithModulus == Power[ArithDigits]
SignBit == Power[CompactDigits] \div 2

ASSUME LimitAssumption == powLimit < ArithModulus

NumDigits(v) ==
    CHOOSE n \in 0..ArithDigits : v < Power[n] /\ (n = 0 \/ v >= Power[n - 1])

GetCompact(v) ==
    LET n == NumDigits(v)
        word == IF n <= CompactDigits THEN v * Power[CompactDigits - n]
                                      ELSE v \div Power[n - CompactDigits]
    IN  IF word >= SignBit THEN <<n + 1, word \div CompactBase>> ELSE <<n, word>>

SetCompact(c) ==
    IF c[1] <= CompactDigits THEN c[2] \div Power[CompactDigits - c[1]]
    ELSE (c[2] * Power[c[1] - CompactDigits]) % ArithModulus

CompactOverflows(c) ==
    /\ c[2] # 0 /\ c[1] > CompactDigits
    /\ c[2] * Power[c[1] - CompactDigits] >= ArithModulus

\* Whether DeriveTarget yields a target at all; the sign bit never occurs,
\* because the only nBits a header can carry come from GetCompact.
TargetDerivable(c) ==
    /\ ~CompactOverflows(c)
    /\ SetCompact(c) # 0
    /\ SetCompact(c) <= powLimit

\* GetBlockProof, and nChainWork of the first n blocks of a chain.
GetBlockProof(c) ==
    LET target == SetCompact(c) IN (ArithModulus - 1 - target) \div (target + 1) + 1
ChainWork(chain) ==
    LET nChainWork[n \in 0..Len(chain)] ==
          IF n = 0 THEN 0 ELSE nChainWork[n - 1] + GetBlockProof(chain[n].nBits)
    IN  nChainWork[Len(chain)]

\* bn *= factor; bn /= divisor; capped by the easiest target.
ScaleTarget(c, factor, divisor) ==
    Min({((SetCompact(c) * factor) % ArithModulus) \div divisor, powLimit})

-----------------------------------------------------------------------------
(* The retarget schedule *)

DifficultyAdjustmentInterval == nPowTargetTimespan \div nPowTargetSpacing

PastFork(height) == nDifficultyForkHeight > 0 /\ height >= nDifficultyForkHeight

PowTargetTimespanAtHeight(height) ==
    IF PastFork(height) THEN nPowTargetTimespanV2 ELSE nPowTargetTimespan

DifficultyAdjustmentIntervalAtHeight(height) ==
    PowTargetTimespanAtHeight(height) \div nPowTargetSpacing

\* Mutant: the fork block itself adjusts, in the middle of a legacy period.
AdjustAtForkHeight(height) ==
    IF ~PastFork(height) THEN height % DifficultyAdjustmentInterval = 0
    ELSE (height - nDifficultyForkHeight) % DifficultyAdjustmentIntervalAtHeight(height) = 0

IsDifficultyAdjustmentBoundary(height) ==
    IF ~PastFork(height) THEN height % DifficultyAdjustmentInterval = 0
    ELSE /\ height # nDifficultyForkHeight
         /\ (height - nDifficultyForkHeight) % DifficultyAdjustmentIntervalAtHeight(height) = 0

GetDifficultyPeriodStart(height) ==
    LET interval == DifficultyAdjustmentIntervalAtHeight(height)
    IN  IF ~PastFork(height) THEN height - (height % interval)
        ELSE nDifficultyForkHeight
               + ((height - nDifficultyForkHeight) \div interval) * interval

\* Height of the block whose time opens the measured timespan.
HeightFirst(lastHeight) ==
    LET nextHeight == lastHeight + 1
        start == GetDifficultyPeriodStart(lastHeight)
        back == lastHeight - (DifficultyAdjustmentIntervalAtHeight(nextHeight) - 1)
        first == IF start # lastHeight THEN start
                 ELSE IF PastFork(nextHeight) /\ nextHeight > nDifficultyForkHeight
                           /\ back < nDifficultyForkHeight
                      THEN nDifficultyForkHeight - 1
                      ELSE back
    IN  Max({first, 0})

-----------------------------------------------------------------------------
(* The work the block after the chain's tip must claim *)

ClampTimespan(actual, timespan) ==
    Min({Max({actual, timespan \div 4}), timespan * 4})

CalculateNextWorkRequired(chain, nFirstBlockTime, nextHeight) ==
    LET timespan == PowTargetTimespanAtHeight(nextHeight)
        actual == ClampTimespan(Tip(chain).nTime - nFirstBlockTime, timespan)
        interval == DifficultyAdjustmentIntervalAtHeight(nextHeight)
        base == IF enforce_BIP94 THEN BlockAt(chain, Height(chain) - (interval - 1)).nBits
                ELSE Tip(chain).nBits
    IN  IF fPowNoRetargeting THEN Tip(chain).nBits
        ELSE GetCompact(ScaleTarget(base, actual, timespan))

\* Testnet: the nBits of the last block that is not a min-difficulty exception.
LastNonSpecialBits(chain) ==
    LET limit == GetCompact(powLimit)
        stops == {h \in 0..Height(chain) :
                    h = 0 \/ IsDifficultyAdjustmentBoundary(h) \/ BlockAt(chain, h).nBits # limit}
    IN  BlockAt(chain, Max(stops)).nBits

GetNextWorkRequired(chain, blockTime) ==
    LET nextHeight == Height(chain) + 1
    IN  IF IsDifficultyAdjustmentBoundary(nextHeight)
        THEN CalculateNextWorkRequired(
                chain, BlockAt(chain, HeightFirst(Height(chain))).nTime, nextHeight)
        ELSE IF ~fPowAllowMinDifficultyBlocks THEN Tip(chain).nBits
        ELSE IF blockTime > Tip(chain).nTime + nPowTargetSpacing * 2 THEN GetCompact(powLimit)
        ELSE LastNonSpecialBits(chain)

\* Mutant: the limits are compared before they are rounded to compact form.
PermittedUnrounded(height, old, new) ==
    LET timespan == PowTargetTimespanAtHeight(height)
    IN  \/ fPowAllowMinDifficultyBlocks
        \/ /\ IsDifficultyAdjustmentBoundary(height)
           /\ SetCompact(new) <= ScaleTarget(old, timespan * 4, timespan)
           /\ SetCompact(new) >= ScaleTarget(old, timespan \div 4, timespan)
        \/ ~IsDifficultyAdjustmentBoundary(height) /\ old = new

\* What the headers presync accepts from a pair of consecutive headers, which
\* it sees without the block times a retarget needs.
PermittedDifficultyTransition(height, old, new) ==
    LET timespan == PowTargetTimespanAtHeight(height)
        rounded(factor) == SetCompact(GetCompact(ScaleTarget(old, factor, timespan)))
    IN  \/ fPowAllowMinDifficultyBlocks
        \/ /\ IsDifficultyAdjustmentBoundary(height)
           /\ SetCompact(new) <= rounded(timespan * 4)
           /\ SetCompact(new) >= rounded(timespan \div 4)
        \/ ~IsDifficultyAdjustmentBoundary(height) /\ old = new

-----------------------------------------------------------------------------
(* Other code that asks where a difficulty period starts *)

\* Earliest time a block after the tip may carry, as the miner computes it.
GetMinimumTime(chain) ==
    LET mtp == GetMedianTimePast(chain) + 1
    IN  IF (Height(chain) + 1) % DifficultyAdjustmentInterval = 0
        THEN Max({mtp, Tip(chain).nTime - MAX_TIMEWARP})
        ELSE mtp
=============================================================================
