-------------------------- MODULE DifficultyProofs --------------------------
(***************************************************************************)
(* For every timespan, spacing, fork height, limit and compact form.       *)
(*                                                                         *)
(* 1. Wherever the fork falls in a legacy period, a retarget measures      *)
(* exactly the period it closes.  The heights of a period are those of one *)
(* quotient by the interval, counted from the genesis block before the     *)
(* fork and from the fork block after (RetargetCorrect).                   *)
(*                                                                         *)
(* 2. Whatever arrives, the header that the generate RPC is given or mines *)
(* passes the header checks.  They are about the parent the template was   *)
(* made for, which stays; the median of the last block times is defined by *)
(* its rank and shown to be one of them; and the time of the block only    *)
(* moves forward until it is forced (TemplateCorrect,                      *)
(* MinedAcceptableCorrect).                                                *)
(*                                                                         *)
(* 3. The presync refuses no nBits that the retarget asks for.  A retarget *)
(* scales by a clamped timespan, the presync by the two bounds of the      *)
(* clamp; scaling and rounding to compact form keep the order of targets,  *)
(* and rounding a rounded target changes nothing (PresyncPermitsCorrect).  *)
(*                                                                         *)
(* 4. The headers presync keeps its promise: a header is stored for good   *)
(* only on a chain with the required work (StoredHasWorkCorrect), and the  *)
(* compressed headers of the second phase spell what was received and,     *)
(* with an honest peer, continue the block index (BufferConnectsCorrect).  *)
(* While the work seen again is not enough, the chain of the second phase  *)
(* is that of the first up to the last commitment (Covered), and no header *)
(* leaves the buffer before a commitment above it was met.                 *)
(***************************************************************************)
EXTENDS BlockMining, HeadersSync, FiniteSetTheorems, WellFoundedInduction, TLAPS

LEMMA MaxOfTwo ==
  ASSUME NEW a \in Int, NEW b \in Int
  PROVE  Max({a, b}) = IF a >= b THEN a ELSE b
BY DEF Max

LEMMA DivMod ==
  ASSUME NEW n \in Nat, NEW k \in Nat \ {0}
  PROVE  /\ n \div k \in Nat /\ n % k \in 0..k-1
         /\ n = (k * (n \div k)) + (n % k)
OBVIOUS

LEMMA ModUnique ==
  ASSUME NEW k \in Nat \ {0}, NEW q \in Nat, NEW r \in 0..k-1
  PROVE  ((k * q) + r) % k = r /\ ((k * q) + r) \div k = q
OBVIOUS

(* The period of length k that ends with n, when the next begins at n + 1. *)
LEMMA Period ==
  ASSUME NEW n \in Nat, NEW k \in Nat \ {0}, (n + 1) % k = 0
  PROVE  /\ n + 1 - k \in Nat /\ (n + 1 - k) % k = 0
         /\ n % k = k - 1 /\ (n \div k) * k = n + 1 - k
         /\ \A m \in (n + 2 - k)..n : m % k # 0
<1>1. PICK q \in Nat : n + 1 = k * q
  <2>1. n + 1 \in Nat /\ n + 1 = (k * ((n + 1) \div k)) + ((n + 1) % k) /\ (n + 1) \div k \in Nat
    BY DivMod
  <2> QED BY <2>1
<1>2. q # 0
  BY <1>1
<1>3. PICK r \in Nat : q = r + 1
  BY <1>2
<1>4. k * q = (k * r) + k /\ k * r \in Nat
  BY <1>3
<1>5. n + 1 - k = k * r
  BY <1>1, <1>4
<1>6. n = (k * r) + (k - 1) /\ k - 1 \in 0..k-1
  BY <1>5, <1>4
<1>7. n % k = k - 1 /\ n \div k = r
  BY <1>6, ModUnique
<1>8. (n + 1 - k) % k = 0
  <2>1. ((k * r) + 0) % k = 0
    BY ModUnique
  <2> QED BY <1>4, <1>5, <2>1
<1>9. ASSUME NEW m \in (n + 2 - k)..n PROVE m % k # 0
  <2>1. PICK i \in 1..k-1 : m = (k * r) + i
    <3>1. m - (k * r) \in 1..k-1
      BY <1>4, <1>6
    <3>2. m = (k * r) + (m - (k * r))
      BY <1>4
    <3> QED BY <3>1, <3>2
  <2>2. m % k = i
    BY <2>1, ModUnique
  <2> QED BY <2>1, <2>2
<1>10. r * k = k * r
  OBVIOUS
<1> QED BY <1>4, <1>5, <1>7, <1>8, <1>9, <1>10

LEMMA IntervalsPositive ==
  /\ DifficultyAdjustmentInterval \in Nat \ {0}
  /\ nDifficultyForkHeight > 0 => nPowTargetTimespanV2 \div nPowTargetSpacing \in Nat \ {0}
<1>1. ASSUME NEW a \in Nat, NEW b \in Nat \ {0}, a >= b PROVE a \div b \in Nat \ {0}
  <2>1. a \div b \in Nat /\ a % b < b /\ a % b \in Nat /\ a = (b * (a \div b)) + (a % b)
    BY DivMod
  <2>2. CASE a \div b = 0
    BY <1>1, <2>1, <2>2
  <2> QED BY <2>1, <2>2
<1> QED BY <1>1, DifficultyAssumption DEF DifficultyAdjustmentInterval

-----------------------------------------------------------------------------
(* RetargetMeasuresOwnPeriod, of any height.                               *)
AtFork(h) == nDifficultyForkHeight > 0 /\ h = nDifficultyForkHeight

MeasuresOwnPeriod(height) ==
  IsDifficultyAdjustmentBoundary(height + 1) =>
    /\ height + 1 - HeightFirst(height) = DifficultyAdjustmentIntervalAtHeight(height + 1)
    /\ \/ HeightFirst(height) = 0
       \/ IsDifficultyAdjustmentBoundary(HeightFirst(height))
       \/ AtFork(HeightFirst(height))
    /\ \A h \in HeightFirst(height) + 1..height : ~IsDifficultyAdjustmentBoundary(h) /\ ~AtFork(h)

(* A retarget before the fork closes a legacy period.                      *)
LEMMA LegacyPeriod ==
  ASSUME NEW height \in Nat, ~PastFork(height + 1), IsDifficultyAdjustmentBoundary(height + 1)
  PROVE  MeasuresOwnPeriod(height) /\ HeightFirst(height) \in 0..height
<1> DEFINE k == DifficultyAdjustmentInterval
           first == height + 1 - k
<1>1. k \in Nat \ {0} /\ nDifficultyForkHeight \in Nat
  BY IntervalsPositive, DifficultyAssumption
<1>2. \A h \in 0..height + 1 : ~PastFork(h) /\ ~AtFork(h)
  BY <1>1 DEF PastFork, AtFork
<1>3. \A h \in 0..height + 1 : /\ DifficultyAdjustmentIntervalAtHeight(h) = k
                               /\ IsDifficultyAdjustmentBoundary(h) <=> h % k = 0
  BY <1>2 DEF DifficultyAdjustmentIntervalAtHeight, PowTargetTimespanAtHeight,
              IsDifficultyAdjustmentBoundary, DifficultyAdjustmentInterval
<1> HIDE DEF k
<1>4. /\ first \in Nat /\ first % k = 0 /\ height % k = k - 1
      /\ \A m \in (height + 2 - k)..height : m % k # 0
  <2>1. (height + 1) % k = 0
    BY <1>3
  <2> QED BY <1>1, <2>1, Period
<1>5. HeightFirst(height) = first
  <2>1. GetDifficultyPeriodStart(height) = first
    BY <1>1, <1>2, <1>3, <1>4 DEF GetDifficultyPeriodStart
  <2>2. height - (DifficultyAdjustmentIntervalAtHeight(height + 1) - 1) = first
    BY <1>1, <1>3
  <2>3. Max({first, 0}) = first
    BY <1>4, MaxOfTwo
  <2> QED BY <2>1, <2>2, <2>3 DEF HeightFirst
<1>6. \A h \in first + 1..height : ~IsDifficultyAdjustmentBoundary(h) /\ ~AtFork(h)
  BY <1>1, <1>2, <1>3, <1>4
<1>7. first \in 0..height + 1 /\ height + 1 - first = k /\ first \in 0..height
  BY <1>1, <1>4
<1> QED BY <1>3, <1>4, <1>5, <1>6, <1>7 DEF MeasuresOwnPeriod

(* A retarget after the fork closes a period counted from the fork block.  *)
LEMMA ForkPeriod ==
  ASSUME NEW height \in Nat, PastFork(height + 1), IsDifficultyAdjustmentBoundary(height + 1)
  PROVE  MeasuresOwnPeriod(height) /\ HeightFirst(height) \in 0..height
<1> DEFINE k == nPowTargetTimespanV2 \div nPowTargetSpacing
           fork == nDifficultyForkHeight
           n == height - fork
           first == fork + (n + 1 - k)
<1>1. /\ fork \in Nat \ {0} /\ k \in Nat \ {0} /\ height + 1 >= fork
  BY IntervalsPositive, DifficultyAssumption DEF PastFork
<1>2. \A h \in Nat : h >= fork =>
        /\ PastFork(h) /\ DifficultyAdjustmentIntervalAtHeight(h) = k
        /\ IsDifficultyAdjustmentBoundary(h) <=> h # fork /\ (h - fork) % k = 0
        /\ AtFork(h) <=> h = fork
  BY <1>1 DEF PastFork, DifficultyAdjustmentIntervalAtHeight, PowTargetTimespanAtHeight,
              IsDifficultyAdjustmentBoundary, AtFork
<1> HIDE DEF k
<1>3. height + 1 # fork /\ ((height + 1) - fork) % k = 0
  BY <1>1, <1>2
<1>4. n \in Nat /\ height >= fork /\ height + 1 >= fork /\ n + 1 = (height + 1) - fork
  BY <1>1, <1>3
<1>5. /\ n + 1 - k \in Nat /\ (n + 1 - k) % k = 0 /\ (n \div k) * k = n + 1 - k
      /\ \A m \in (n + 2 - k)..n : m % k # 0
  <2>1. (n + 1) % k = 0
    BY <1>3, <1>4
  <2> HIDE DEF n
  <2> QED BY <1>1, <1>4, <2>1, Period
<1>6. first \in Nat /\ first >= fork /\ first - fork = n + 1 - k /\ height + 1 - first = k
  BY <1>1, <1>4, <1>5
<1>7. HeightFirst(height) = first
  <2>1. GetDifficultyPeriodStart(height) = first
    BY <1>2, <1>4, <1>5 DEF GetDifficultyPeriodStart
  <2>2. height - (DifficultyAdjustmentIntervalAtHeight(height + 1) - 1) = first
    BY <1>1, <1>2, <1>4
  <2>3. Max({first, 0}) = first
    BY <1>6, MaxOfTwo
  <2>4. ~(first < fork)
    BY <1>1, <1>6
  <2> QED BY <2>1, <2>2, <2>3, <2>4 DEF HeightFirst
<1>8. ASSUME NEW h \in first + 1..height PROVE ~IsDifficultyAdjustmentBoundary(h) /\ ~AtFork(h)
  <2>1. h \in Nat /\ h > fork /\ h - fork \in (n + 2 - k)..n
    BY <1>1, <1>4, <1>6
  <2> QED BY <1>1, <1>2, <1>5, <2>1
<1>9. IsDifficultyAdjustmentBoundary(first) \/ AtFork(first)
  BY <1>2, <1>5, <1>6
<1>10. DifficultyAdjustmentIntervalAtHeight(height + 1) = k /\ first \in 0..height
  BY <1>1, <1>2, <1>4, <1>6
<1> QED BY <1>6, <1>7, <1>8, <1>9, <1>10 DEF MeasuresOwnPeriod

LEMMA ScheduleCorrect ==
  \A height \in Nat :
    /\ MeasuresOwnPeriod(height)
    /\ IsDifficultyAdjustmentBoundary(height + 1) => HeightFirst(height) \in 0..height
BY LegacyPeriod, ForkPeriod DEF MeasuresOwnPeriod

-----------------------------------------------------------------------------
(* The median of block times *)

LEMMA Least == ASSUME NEW S, S \subseteq Nat, S # {} PROVE \E x \in S : \A y \in S : x <= y
<1>1. PICK x \in S : \A y \in S : ~(<<y, x>> \in OpToRel(<, Nat))
  BY WFMin, NatLessThanWellFounded
<1>2. x \in Nat /\ \A y \in S : y \in Nat /\ ~(y < x)
  BY <1>1 DEF OpToRel
<1> QED BY <1>2

(* The largest value on a finite set, as the one that most are up to.      *)
LEMMA Largest ==
  ASSUME NEW J, IsFiniteSet(J), J # {}, NEW f, \A j \in J : f[j] \in Int
  PROVE  \E m \in J : \A j \in J : f[j] <= f[m]
<1> DEFINE Upto(m) == {j \in J : f[j] <= f[m]}
           Over(m) == Cardinality(J) - Cardinality(Upto(m))
           S == {Over(m) : m \in J}
<1>1. \A m \in J : /\ IsFiniteSet(Upto(m)) /\ Cardinality(Upto(m)) \in Nat
                   /\ Over(m) \in Nat
  <2> SUFFICES ASSUME NEW m \in J
               PROVE  IsFiniteSet(Upto(m)) /\ Cardinality(Upto(m)) \in Nat /\ Over(m) \in Nat
    OBVIOUS
  <2>1. Upto(m) \in SUBSET J
    OBVIOUS
  <2>2. IsFiniteSet(Upto(m)) /\ Cardinality(Upto(m)) <= Cardinality(J)
    BY <2>1, FS_Subset
  <2>3. Cardinality(Upto(m)) \in Nat /\ Cardinality(J) \in Nat
    BY <2>2, FS_CardinalityType
  <2> HIDE DEF Upto
  <2> QED BY <2>2, <2>3
<1>2. S \subseteq Nat /\ S # {}
  BY <1>1
<1>3. PICK x \in S : \A y \in S : x <= y
  BY <1>2, Least
<1>4. PICK m \in J : x = Over(m)
  OBVIOUS
<1>5. ASSUME NEW j \in J, ~(f[j] <= f[m]) PROVE FALSE
  <2>1. Upto(m) \in SUBSET Upto(j) /\ Upto(m) # Upto(j)
    BY <1>5
  <2>2. Cardinality(Upto(m)) <= Cardinality(Upto(j)) /\ Cardinality(Upto(m)) # Cardinality(Upto(j))
    BY <1>1, <2>1, FS_Subset
  <2>3. Over(m) <= Over(j)
    BY <1>3, <1>4
  <2>4. Cardinality(Upto(m)) \in Nat /\ Cardinality(Upto(j)) \in Nat /\ Cardinality(J) \in Nat
    BY <1>1, FS_CardinalityType
  <2> HIDE DEF Upto
  <2> QED BY <2>2, <2>3, <2>4
<1> QED BY <1>5

Below(I, f, x) == {j \in I : f[j] < x}
UpTo(I, f, x) == {j \in I : f[j] <= x}

(* Of k + 1 values or more there is one that sorting puts in the place k,  *)
(* counted from 0.                                                         *)
LEMMA Rank ==
  ASSUME NEW I, IsFiniteSet(I), NEW f, \A i \in I : f[i] \in Int,
         NEW k \in Nat, k < Cardinality(I)
  PROVE  \E i \in I : /\ Cardinality(Below(I, f, f[i])) <= k
                      /\ Cardinality(UpTo(I, f, f[i])) > k
<1> DEFINE Upto(i) == {j \in I : f[j] <= f[i]}
           Less(i) == {j \in I : f[j] < f[i]}
           S == {i \in I : Cardinality(Upto(i)) > k}
           T == {Cardinality(Upto(i)) : i \in S}
<1>1. \A J \in SUBSET I : IsFiniteSet(J) /\ Cardinality(J) \in Nat
  BY FS_Subset, FS_CardinalityType
<1>2. S # {}
  <2>1. I # {}
    BY FS_EmptySet
  <2>2. PICK m \in I : \A j \in I : f[j] <= f[m]
    BY <2>1, Largest
  <2>3. Upto(m) = I
    BY <2>2
  <2> QED BY <2>3
<1>3. T \subseteq Nat /\ T # {}
  <2>1. \A i \in S : Upto(i) \in SUBSET I
    OBVIOUS
  <2> QED BY <1>1, <1>2, <2>1
<1>4. PICK x \in T : \A y \in T : x <= y
  BY <1>3, Least
<1>5. PICK i \in S : x = Cardinality(Upto(i))
  OBVIOUS
<1>6. Cardinality(Less(i)) <= k
  <2>0. Less(i) \in SUBSET I
    OBVIOUS
  <2>1. CASE Less(i) = {}
    <3>1. Cardinality({}) = 0
      BY FS_EmptySet
    <3> QED BY <2>1, <3>1
  <2>2. CASE Less(i) # {}
    <3>1. PICK m \in Less(i) : \A j \in Less(i) : f[j] <= f[m]
      <4>1. \A j \in Less(i) : f[j] \in Int
        OBVIOUS
      <4> HIDE DEF Less
      <4> QED BY <1>1, <2>0, <2>2, <4>1, Largest
    <3>2. m \in I /\ Upto(m) = Less(i)
      <4>1. m \in I /\ f[m] < f[i] /\ f[i] \in Int /\ f[m] \in Int
        OBVIOUS
      <4>2. \A j \in I : f[j] \in Int /\ (f[j] <= f[m] => f[j] < f[i])
        BY <4>1
      <4> QED BY <3>1, <4>1, <4>2
    <3>3. Less(i) \in SUBSET Upto(i) /\ Less(i) # Upto(i)
      OBVIOUS
    <3>4. Cardinality(Less(i)) < Cardinality(Upto(i))
      <4>1. Upto(i) \in SUBSET I
        OBVIOUS
      <4>2. IsFiniteSet(Upto(i)) /\ Cardinality(Upto(i)) \in Nat /\ Cardinality(Less(i)) \in Nat
        BY <1>1, <2>0, <4>1
      <4> HIDE DEF Less, Upto
      <4>3. Cardinality(Less(i)) <= Cardinality(Upto(i)) /\ Cardinality(Less(i)) # Cardinality(Upto(i))
        BY <3>3, <4>2, FS_Subset
      <4> QED BY <4>2, <4>3
    <3>5. m \notin S
      <4>1. Cardinality(Less(i)) \in Nat /\ x \in Nat
        BY <1>1, <1>3, <2>0
      <4> HIDE DEF Less, Upto
      <4> QED BY <1>4, <1>5, <3>2, <3>4, <4>1
    <3>6. Cardinality(Less(i)) \in Nat
      BY <1>1, <2>0
    <3> HIDE DEF Less, Upto
    <3> QED BY <3>2, <3>5, <3>6
  <2> QED BY <2>1, <2>2
<1> QED BY <1>5, <1>6 DEF Below, UpTo

(* A chain as the node has it: never empty, its times are numbers.         *)
Chain(c) ==
  /\ c # <<>> /\ \E S : c \in Seq(S)
  /\ \A i \in DOMAIN c : c[i].nTime \in Int

LEMMA MedianType == ASSUME NEW c, Chain(c) PROVE GetMedianTimePast(c) \in Int
<1>1. Len(c) \in Nat \ {0} /\ DOMAIN c = 1..Len(c)
  BY DEF Chain
<1> DEFINE n == IF Len(c) < nMedianTimeSpan THEN Len(c) ELSE nMedianTimeSpan
           last == Len(c) - n + 1 .. Len(c)
           f == [i \in last |-> c[i].nTime]
           k == n \div 2
<1>2. n \in Nat \ {0} /\ n <= Len(c)
  BY <1>1, DifficultyAssumption
<1> HIDE DEF n
<1>3. last \subseteq DOMAIN c /\ IsFiniteSet(last) /\ Cardinality(last) = n
  <2>1. Len(c) - n + 1 \in Int /\ Len(c) \in Int /\ ~(Len(c) - n + 1 > Len(c))
        /\ Len(c) - (Len(c) - n + 1) + 1 = n
    BY <1>1, <1>2
  <2> QED BY <1>1, <1>2, <2>1, FS_Interval
<1>4. k \in Nat /\ k < n
  BY <1>2
<1> HIDE DEF last, k
<1>5. \A i \in last : f[i] = c[i].nTime /\ f[i] \in Int
  BY <1>3 DEF Chain
<1> HIDE DEF f
<1>6. PICK i \in last : /\ Cardinality(Below(last, f, f[i])) <= k
                        /\ Cardinality(UpTo(last, f, f[i])) > k
  <2>1. IsFiniteSet(last) /\ (\A i \in last : f[i] \in Int) /\ k \in Nat /\ k < Cardinality(last)
    BY <1>3, <1>4, <1>5
  <2> QED BY <2>1, Rank
<1> DEFINE t == c[i].nTime
<1>7. /\ Below(last, f, f[i]) = {j \in last : c[j].nTime < t}
      /\ UpTo(last, f, f[i]) = {j \in last : c[j].nTime <= t}
  BY <1>5 DEF Below, UpTo
<1>8. /\ t \in {c[j].nTime : j \in last}
      /\ Cardinality({j \in last : c[j].nTime < t}) <= k
      /\ Cardinality({j \in last : c[j].nTime <= t}) > k
  BY <1>6, <1>7
<1>9. GetMedianTimePast(c) \in {c[j].nTime : j \in last}
  BY <1>8 DEF GetMedianTimePast, last, n, k
<1>10. {c[j].nTime : j \in last} \subseteq Int
  BY <1>5
<1> QED BY <1>9, <1>10

LEMMA AppendChain ==
  ASSUME NEW c, Chain(c), NEW b, b.nTime \in Int PROVE Chain(Append(c, b))
<1>1. PICK S : c \in Seq(S)
  BY DEF Chain
<1> DEFINE T == S \cup {b}
<1>2. c \in Seq(T) /\ b \in T
  BY <1>1
<1> HIDE DEF T
<1>3. Append(c, b) \in Seq(T) /\ Len(Append(c, b)) = Len(c) + 1 /\ Len(c) \in Nat
  BY <1>2
<1>4. Append(c, b) # <<>>
  BY <1>3
<1>5. \A i \in DOMAIN Append(c, b) : Append(c, b)[i].nTime \in Int
  BY <1>2 DEF Chain
<1> QED BY <1>3, <1>4, <1>5 DEF Chain

LEMMA ChainHeight ==
  ASSUME NEW c, Chain(c) PROVE Height(c) \in Nat /\ Tip(c).nTime \in Int
<1>1. PICK S : c \in Seq(S)
  BY DEF Chain
<1>2. Len(c) \in Nat \ {0} /\ Len(c) \in DOMAIN c
  BY <1>1 DEF Chain
<1> QED BY <1>2 DEF Chain, Height, Tip

(* A job keeps the chain its template is for and the tip it read later.    *)
Job(prev, tip, time, bits, round) ==
  [prev |-> prev, tip |-> tip, block |-> [nTime |-> time, nBits |-> bits], round |-> round]

JobOf(prev, tip, time, bits, round) ==
  /\ job = Job(prev, tip, time, bits, round)
  /\ Chain(prev) /\ (tip = NoTip \/ Chain(tip))
  /\ time \in Int /\ round \in Nat

ChainsOK ==
  /\ now \in Int /\ Chain(chain)
  /\ job # NoJob => \E prev, tip, time, bits, round : JobOf(prev, tip, time, bits, round)

LEMMA MaxOfThree ==
  ASSUME NEW a \in Int, NEW b \in Int, NEW c \in Int
  PROVE  Max({a, b, c}) \in Int /\ Max({a, b, c}) >= a /\ Max({a, b, c}) >= b /\ Max({a, b, c}) >= c
<1>1. \E m \in {a, b, c} : \A y \in {a, b, c} : m >= y
  OBVIOUS
<1>2. Max({a, b, c}) \in {a, b, c} /\ \A y \in {a, b, c} : Max({a, b, c}) >= y
  BY <1>1 DEF Max
<1> QED BY <1>2

(* The earliest time the miner allows is past the median, and at the start *)
(* of a legacy period not too far behind the tip.                          *)
LEMMA MinimumTime ==
  ASSUME NEW c, Chain(c)
  PROVE  /\ GetMinimumTime(c) \in Int /\ GetMinimumTime(c) > GetMedianTimePast(c)
         /\ (Height(c) + 1) % DifficultyAdjustmentInterval = 0
              => GetMinimumTime(c) >= Tip(c).nTime - MAX_TIMEWARP
<1>1. GetMedianTimePast(c) \in Int /\ Tip(c).nTime \in Int /\ MAX_TIMEWARP \in Int
  BY MedianType, ChainHeight, DifficultyAssumption
<1> DEFINE mtp == GetMedianTimePast(c) + 1
           late == Tip(c).nTime - MAX_TIMEWARP
<1>2. mtp \in Int /\ late \in Int /\ mtp > GetMedianTimePast(c)
  BY <1>1
<1>3. Max({mtp, late}) = IF mtp >= late THEN mtp ELSE late
  BY <1>2, MaxOfTwo
<1>4. GetMinimumTime(c) = IF (Height(c) + 1) % DifficultyAdjustmentInterval = 0
                          THEN Max({mtp, late}) ELSE mtp
  BY DEF GetMinimumTime
<1> HIDE DEF mtp, late
<1>5. GetMinimumTime(c) \in Int /\ GetMinimumTime(c) > GetMedianTimePast(c)
      /\ ((Height(c) + 1) % DifficultyAdjustmentInterval = 0 => GetMinimumTime(c) >= late)
  BY <1>1, <1>2, <1>3, <1>4
<1> QED BY <1>5 DEF late

LEMMA TemplateTime ==
  ASSUME ChainsOK
  PROVE  /\ Template = [nTime |-> Template.nTime,
                        nBits |-> GetNextWorkRequired(chain, Template.nTime)]
         /\ Template.nTime \in Int /\ Template.nTime >= GetMinimumTime(chain)
<1>1. now \in Int /\ GetMinimumTime(chain) \in Int
  BY MinimumTime DEF ChainsOK
<1>2. UpdateTime(now) \in Int /\ UpdateTime(now) >= GetMinimumTime(chain)
  BY <1>1, MaxOfThree DEF UpdateTime
<1> QED BY <1>2 DEF Template

LEMMA ChainsInit == MiningInit => ChainsOK
<1> SUFFICES ASSUME MiningInit PROVE ChainsOK
  OBVIOUS
<1>1. <<Genesis>> \in Seq({Genesis}) /\ <<Genesis>> # <<>> /\ Genesis.nTime \in Int
  BY ChainAssumption DEF Genesis
<1>2. Chain(<<Genesis>>)
  <2>1. \A i \in DOMAIN <<Genesis>> : <<Genesis>>[i] = Genesis
    OBVIOUS
  <2>2. \A i \in DOMAIN <<Genesis>> : <<Genesis>>[i].nTime \in Int
    BY <1>1, <2>1
  <2> HIDE DEF Genesis
  <2> QED BY <1>1, <2>2 DEF Chain
<1> QED BY <1>2, ChainAssumption DEF MiningInit, ChainInit, ChainsOK

LEMMA ChainsStep == ChainsOK /\ [MiningNext]_miningVars => ChainsOK'
<1> SUFFICES ASSUME ChainsOK, [MiningNext]_miningVars PROVE ChainsOK'
  OBVIOUS
<1>0. now \in Int /\ Chain(chain)
  BY DEF ChainsOK
<1>1. CASE UNCHANGED miningVars
  BY <1>1 DEF miningVars, ChainsOK, JobOf
<1>2. CASE ChainNext /\ UNCHANGED job
  <2>1. CASE \E step \in TimeSteps : ReceiveBlock(step)
    <3>1. PICK step \in TimeSteps : ReceiveBlock(step)
      BY <2>1
    <3>2. Tip(chain).nTime + step \in Int
      BY <1>0, ChainHeight, ChainAssumption
    <3>3. Chain(chain') /\ now' = now
      BY <1>0, <3>1, <3>2, AppendChain DEF ReceiveBlock
    <3> QED BY <1>0, <1>2, <3>3 DEF ChainsOK, JobOf
  <2>2. CASE \E step \in ClockSteps : AdvanceClock(step)
    BY <1>0, <1>2, <2>2, ChainAssumption DEF AdvanceClock, ChainsOK, JobOf
  <2> QED BY <1>2, <2>1, <2>2 DEF ChainNext
<1>3. CASE CreateNewBlock
  <2>1. job' = Job(chain, NoTip, Template.nTime, Template.nBits, 0) /\ UNCHANGED <<chain, now>>
        /\ Template.nTime \in Int
    <3>1. Template = [nTime |-> Template.nTime, nBits |-> Template.nBits] /\ Template.nTime \in Int
      BY TemplateTime
    <3> HIDE DEF Template
    <3> QED BY <1>3, <3>1 DEF CreateNewBlock, Job
  <2>2. PICK c, t, b : /\ job' = Job(c, NoTip, t, b, 0)
                       /\ c = chain /\ t = Template.nTime /\ b = Template.nBits
    BY <2>1
  <2>3. Chain(c) /\ t \in Int /\ chain' = chain /\ now' = now
    BY <1>0, <2>1, <2>2
  <2>4. JobOf(c, NoTip, t, b, 0)'
    BY <2>2, <2>3 DEF JobOf
  <2> QED BY <1>0, <2>3, <2>4 DEF ChainsOK
<1>4. CASE GiveUp
  BY <1>0, <1>4 DEF GiveUp, ChainsOK
<1>5. CASE StartMining \/ TryNonces \/ SolveBlock
  <2>1. PICK prev, tip, time, bits, round : JobOf(prev, tip, time, bits, round)
    BY <1>5 DEF StartMining, TryNonces, SolveBlock, Mining, ChainsOK
  <2>2. CASE SolveBlock
    <3>1. Chain(Append(job.prev, job.block))
      BY <2>1, AppendChain DEF JobOf, Job
    <3> QED BY <1>0, <2>2, <3>1 DEF SolveBlock, ChainsOK
  <2>3. CASE StartMining
    <3>1. job' = Job(prev, chain, time, bits, round) /\ UNCHANGED <<chain, now>>
      BY <2>1, <2>3 DEF StartMining, JobOf, Job
    <3>2. JobOf(prev, chain, time, bits, round)'
      BY <1>0, <2>1, <3>1 DEF JobOf
    <3> QED BY <1>0, <3>1, <3>2 DEF ChainsOK
  <2>4. CASE TryNonces
    <3> DEFINE newTime == Max({GetMedianTimePast(tip) + 1, now})
    <3>1. /\ tip # NoTip /\ UNCHANGED <<chain, now>>
          /\ \/ job' = NoJob
             \/ job' = Job(prev, tip, newTime, bits, round + 1)
             \/ job' = Job(prev, tip, now, bits, round + 1)
             \/ job' = Job(prev, tip, time, bits, round + 1)
      BY <2>1, <2>4 DEF TryNonces, Mining, JobOf, Job
    <3>2. newTime \in Int
      <4>1. GetMedianTimePast(tip) + 1 \in Int
        BY <2>1, <3>1, MedianType DEF JobOf
      <4> QED BY <1>0, <4>1, MaxOfTwo
    <3>3. round + 1 \in Nat /\ Chain(prev) /\ Chain(tip)
      BY <2>1, <3>1 DEF JobOf
    <3> HIDE DEF newTime
    <3>4. job' = NoJob \/ \E t \in Int : job' = Job(prev, tip, t, bits, round + 1)
      BY <1>0, <2>1, <3>1, <3>2 DEF JobOf
    <3>5. CASE job' = NoJob
      BY <1>0, <3>1, <3>5 DEF ChainsOK
    <3>6. ASSUME NEW t \in Int, job' = Job(prev, tip, t, bits, round + 1) PROVE ChainsOK'
      <4>1. JobOf(prev, tip, t, bits, round + 1)'
        BY <3>3, <3>6 DEF JobOf
      <4> QED BY <1>0, <3>1, <4>1 DEF ChainsOK
    <3> QED BY <3>4, <3>5, <3>6
  <2> QED BY <1>5, <2>2, <2>3, <2>4
<1> QED BY <1>1, <1>2, <1>3, <1>4, <1>5 DEF MiningNext

(* GetNextWorkRequired retargets over the running period and nothing else, *)
(* whatever the timespans, wherever the fork is, on every chain the node   *)
(* can have.                                                               *)
THEOREM RetargetCorrect == MiningSpec => []RetargetMeasuresOwnPeriod
<1>1. ChainsOK => RetargetMeasuresOwnPeriod
  <2> SUFFICES ASSUME ChainsOK PROVE RetargetMeasuresOwnPeriod
    OBVIOUS
  <2>1. MeasuresOwnPeriod(Height(chain))
    BY ChainHeight, ScheduleCorrect DEF ChainsOK
  <2> QED BY <2>1 DEF MeasuresOwnPeriod, RetargetMeasuresOwnPeriod, AtFork
<1> QED BY <1>1, ChainsInit, ChainsStep, PTL DEF MiningSpec

-----------------------------------------------------------------------------
(* The blocks the node mines itself *)

(* What CheckHeader asks of a header, but for the clock.                   *)
Lasting(prev, block) ==
  /\ TargetDerivable(block.nBits)
  /\ block.nBits = GetNextWorkRequired(prev, block.nTime)
  /\ block.nTime > GetMedianTimePast(prev)
  /\ ~Timewarps(prev, block)

JobLasting == job # NoJob /\ job.round < ForceRound => Lasting(job.prev, job.block)

LEMMA LastingIs ==
  ASSUME NEW prev, Chain(prev), NEW block, block.nTime \in Int
  PROVE  /\ Lasting(prev, block) <=> CheckHeader(prev, block) \in {"accepted", "time-too-new"}
         /\ Lasting(prev, block) /\ ~TooNew(block) => CheckHeader(prev, block) = "accepted"
         /\ Lasting(prev, block) /\ TooNew(block) => CheckHeader(prev, block) = "time-too-new"
<1>1. block.nTime > GetMedianTimePast(prev) <=> ~(block.nTime <= GetMedianTimePast(prev))
  BY MedianType
<1> QED BY <1>1 DEF Lasting, CheckHeader

LEMMA TemplateLasting ==
  ASSUME ChainsOK, TargetDerivable(Template.nBits)
  PROVE  Lasting(chain, Template)
<1>1. /\ Template.nBits = GetNextWorkRequired(chain, Template.nTime)
      /\ Template.nTime \in Int /\ Template.nTime >= GetMinimumTime(chain)
  BY TemplateTime
<1>2. Chain(chain) /\ GetMedianTimePast(chain) \in Int /\ GetMinimumTime(chain) \in Int
      /\ Tip(chain).nTime \in Int /\ MAX_TIMEWARP \in Int
  BY MedianType, MinimumTime, ChainHeight, DifficultyAssumption DEF ChainsOK
<1>3. /\ GetMinimumTime(chain) > GetMedianTimePast(chain)
      /\ (Height(chain) + 1) % DifficultyAdjustmentInterval = 0
           => GetMinimumTime(chain) >= Tip(chain).nTime - MAX_TIMEWARP
  BY <1>2, MinimumTime
<1> DEFINE t == Template.nTime
<1> HIDE DEF t
<1>4. t > GetMedianTimePast(chain)
  BY <1>1, <1>2, <1>3 DEF t
<1>5. (Height(chain) + 1) % DifficultyAdjustmentInterval = 0
        => ~(t < Tip(chain).nTime - MAX_TIMEWARP)
  BY <1>1, <1>2, <1>3 DEF t
<1> QED BY <1>1, <1>4, <1>5 DEF Lasting, Timewarps, t

(* A time that moves forward keeps the header acceptable, where the work   *)
(* does not depend on it.                                                  *)
LEMMA LaterLasting ==
  ASSUME ~fPowAllowMinDifficultyBlocks, NEW prev, Chain(prev),
         NEW time \in Int, NEW later \in Int, later > time, NEW bits,
         Lasting(prev, [nTime |-> time, nBits |-> bits])
  PROVE  Lasting(prev, [nTime |-> later, nBits |-> bits])
<1>1. GetNextWorkRequired(prev, later) = GetNextWorkRequired(prev, time)
  BY DEF GetNextWorkRequired
<1>2. GetMedianTimePast(prev) \in Int /\ Tip(prev).nTime - MAX_TIMEWARP \in Int
  BY MedianType, ChainHeight, DifficultyAssumption
<1> QED BY <1>1, <1>2 DEF Lasting, Timewarps

LEMMA JobStep ==
  ASSUME ~fPowAllowMinDifficultyBlocks, ChainsOK, JobLasting, [MiningNext]_miningVars
  PROVE  JobLasting'
<1>1. CASE UNCHANGED job
  BY <1>1 DEF JobLasting
<1>2. CASE job' = NoJob
  BY <1>2 DEF JobLasting
<1>3. CASE CreateNewBlock
  <2>1. job'.prev = chain /\ job'.block = Template /\ CheckHeader(chain, Template) = "accepted"
    BY <1>3 DEF CreateNewBlock
  <2>2. Lasting(chain, Template)
    <3>1. Chain(chain) /\ Template.nTime \in Int
      BY TemplateTime DEF ChainsOK
    <3> QED BY <2>1, <3>1, LastingIs
  <2> QED BY <2>1, <2>2 DEF JobLasting
<1>4. CASE StartMining \/ TryNonces
  <2>1. PICK prev, tip, time, bits, round : JobOf(prev, tip, time, bits, round)
    BY <1>4 DEF StartMining, TryNonces, Mining, ChainsOK
  <2>2. /\ job # NoJob /\ job.prev = prev /\ job.round = round
        /\ job.block = [nTime |-> time, nBits |-> bits]
    BY <1>4, <2>1 DEF StartMining, TryNonces, Mining, JobOf, Job
  <2>3. round \in Nat /\ ForceRound \in Nat /\ time \in Int /\ Chain(prev)
        /\ (tip # NoTip => Chain(tip)) /\ now \in Int
    BY <2>1, RoundAssumption DEF JobOf, ChainsOK
  <2>4. CASE StartMining
    <3>1. job' = Job(prev, chain, time, bits, round)
      BY <2>1, <2>4 DEF StartMining, JobOf, Job
    <3> QED BY <2>2, <3>1 DEF JobLasting, Job
  <2>5. CASE TryNonces
    <3> DEFINE newTime == Max({GetMedianTimePast(tip) + 1, now})
    <3>1. /\ tip # NoTip
          /\ \/ job' = NoJob
             \/ newTime > time /\ job' = Job(prev, tip, newTime, bits, round + 1)
             \/ round + 1 >= ForceRound /\ job' = Job(prev, tip, now, bits, round + 1)
             \/ job' = Job(prev, tip, time, bits, round + 1)
      BY <2>1, <2>5 DEF TryNonces, Mining, JobOf, Job
    <3>2. newTime \in Int
      <4>1. GetMedianTimePast(tip) + 1 \in Int
        BY <2>3, <3>1, MedianType
      <4> QED BY <2>3, <4>1, MaxOfTwo
    <3> HIDE DEF newTime
    <3>3. round + 1 < ForceRound => Lasting(prev, [nTime |-> time, nBits |-> bits])
      BY <2>2, <2>3 DEF JobLasting
    <3>4. CASE newTime > time /\ job' = Job(prev, tip, newTime, bits, round + 1)
      <4>1. round + 1 < ForceRound => Lasting(prev, [nTime |-> newTime, nBits |-> bits])
        BY <2>3, <3>2, <3>3, <3>4, LaterLasting
      <4> QED BY <3>4, <4>1 DEF JobLasting, Job
    <3>5. CASE round + 1 >= ForceRound /\ job' = Job(prev, tip, now, bits, round + 1)
      <4>1. ~(round + 1 < ForceRound) /\ job'.round = round + 1
        BY <2>3, <3>5 DEF Job
      <4> QED BY <4>1 DEF JobLasting
    <3>6. CASE job' = Job(prev, tip, time, bits, round + 1)
      BY <3>3, <3>6 DEF JobLasting, Job
    <3> QED BY <1>2, <3>1, <3>4, <3>5, <3>6
  <2> QED BY <1>4, <2>4, <2>5
<1> QED BY <1>1, <1>2, <1>3, <1>4 DEF MiningNext, miningVars, GiveUp, SolveBlock

LEMMA TemplateImplies == ChainsOK => TemplateAcceptable /\ MinimumTimeGuardsPeriodStart
<1> SUFFICES ASSUME ChainsOK PROVE TemplateAcceptable /\ MinimumTimeGuardsPeriodStart
  OBVIOUS
<1>1. Chain(chain) /\ Template.nTime \in Int
  BY TemplateTime DEF ChainsOK
<1>2. TemplateAcceptable
  BY <1>1, TemplateLasting, LastingIs DEF TemplateAcceptable
<1>3. MinimumTimeGuardsPeriodStart
  BY <1>1, MinimumTime DEF MinimumTimeGuardsPeriodStart, IsDifficultyAdjustmentBoundary
<1> QED BY <1>2, <1>3

(* On every network: a template of CreateNewBlock passes all header checks *)
(* but the one of the clock, and GetMinimumTime obeys the timewarp rule.   *)
THEOREM TemplateCorrect == MiningSpec => [](TemplateAcceptable /\ MinimumTimeGuardsPeriodStart)
BY ChainsInit, ChainsStep, TemplateImplies, PTL DEF MiningSpec

(* Where the work does not depend on the time of a block (everywhere but   *)
(* on the test networks): whatever arrives while GenerateBlock tries its   *)
(* nonces, the block stays acceptable until the forced timestamp update.   *)
THEOREM MinedAcceptableCorrect ==
  ASSUME ~fPowAllowMinDifficultyBlocks
  PROVE  MiningSpec => []MinedAcceptable
<1>1. MiningInit => JobLasting
  BY DEF MiningInit, JobLasting
<1>2. ChainsOK /\ JobLasting /\ [MiningNext]_miningVars => JobLasting'
  BY JobStep
<1>3. ChainsOK /\ JobLasting => MinedAcceptable
  <2> SUFFICES ASSUME ChainsOK, JobLasting PROVE UnforcedJobAcceptable
    BY TemplateImplies DEF MinedAcceptable
  <2> SUFFICES ASSUME job # NoJob, job.round < ForceRound
               PROVE  CheckHeader(job.prev, job.block) \in {"accepted", "time-too-new"}
    BY DEF UnforcedJobAcceptable
  <2>1. Lasting(job.prev, job.block)
    BY DEF JobLasting
  <2>2. Chain(job.prev) /\ job.block.nTime \in Int
    BY DEF ChainsOK, JobOf, Job
  <2> QED BY <2>1, <2>2, LastingIs
<1> QED BY <1>1, <1>2, <1>3, ChainsInit, ChainsStep, PTL DEF MiningSpec

-----------------------------------------------------------------------------
(* Powers of the base *)

Powers(f, m) ==
  /\ f \in [0..m -> Nat] /\ f[0] = 1
  /\ \A i \in 1..m : f[i] = CompactBase * f[i - 1]

LEMMA PowersExist == \A m \in Nat : \E f : Powers(f, m)
<1> DEFINE S == {m \in Nat : ~\E f : Powers(f, m)}
<1> SUFFICES ASSUME S # {} PROVE FALSE
  OBVIOUS
<1>0. CompactBase \in Nat
  BY DifficultyAssumption
<1>1. PICK m \in S : \A y \in S : m <= y
  BY Least
<1>2. CASE m = 0
  <2>1. Powers([i \in 0..m |-> 1], m)
    BY <1>2 DEF Powers
  <2> QED BY <2>1
<1>3. CASE m # 0
  <2>1. m - 1 \in Nat /\ ~(m <= m - 1) /\ m \in Nat
    BY <1>3
  <2>2. PICK f : Powers(f, m - 1)
    BY <1>1, <2>1
  <2> DEFINE g == [i \in 0..m |-> IF i = m THEN CompactBase * f[m - 1] ELSE f[i]]
  <2>3. f \in [0..m - 1 -> Nat] /\ f[0] = 1 /\ \A i \in 1..m - 1 : f[i] = CompactBase * f[i - 1]
    BY <2>2 DEF Powers
  <2>4. \A i \in 0..m : i # m => i \in 0..m - 1
    BY <2>1
  <2>5. m - 1 \in 0..m - 1 /\ f[m - 1] \in Nat /\ CompactBase * f[m - 1] \in Nat
    BY <1>0, <2>1, <2>3
  <2>6. g \in [0..m -> Nat] /\ g[0] = 1
    BY <1>3, <2>1, <2>3, <2>4, <2>5
  <2>7. ASSUME NEW i \in 1..m PROVE g[i] = CompactBase * g[i - 1]
    <3>1. i \in 0..m /\ i - 1 \in 0..m /\ i - 1 # m
      BY <2>1
    <3>2. g[i - 1] = f[i - 1]
      BY <3>1
    <3>3. CASE i = m
      BY <3>1, <3>2, <3>3
    <3>4. CASE i # m
      <4>1. i \in 1..m - 1
        BY <2>1, <3>4
      <4> QED BY <2>3, <3>1, <3>2, <3>4, <4>1
    <3> QED BY <3>3, <3>4
  <2>8. Powers(g, m)
    BY <2>6, <2>7 DEF Powers
  <2> QED BY <2>8
<1> QED BY <1>2, <1>3

(* The recursive definition has a solution.                                *)
LEMMA PowerUnfolds ==
  Power = [n \in 0..ArithDigits |-> IF n = 0 THEN 1 ELSE CompactBase * Power[n - 1]]
<1>0. ArithDigits \in Nat
  BY DifficultyAssumption
<1>1. PICK f : Powers(f, ArithDigits)
  BY <1>0, PowersExist
<1>2. f = [n \in 0..ArithDigits |-> f[n]]
  BY <1>1 DEF Powers
<1>3. \A n \in 0..ArithDigits : f[n] = IF n = 0 THEN 1 ELSE CompactBase * f[n - 1]
  <2>1. \A n \in 0..ArithDigits : n # 0 => n \in 1..ArithDigits
    BY <1>0
  <2> QED BY <1>1, <2>1 DEF Powers
<1>4. f = [n \in 0..ArithDigits |-> IF n = 0 THEN 1 ELSE CompactBase * f[n - 1]]
  BY <1>2, <1>3
<1> QED BY <1>4 DEF Power

LEMMA PowerZero == Power[0] = 1
<1>1. 0 \in 0..ArithDigits
  BY DifficultyAssumption
<1> QED BY <1>1, PowerUnfolds

LEMMA PowerNext ==
  ASSUME NEW n \in 1..ArithDigits PROVE Power[n] = CompactBase * Power[n - 1] /\ n - 1 \in 0..ArithDigits
<1>1. n \in 0..ArithDigits /\ n # 0 /\ n - 1 \in 0..ArithDigits
  BY DifficultyAssumption
<1> QED BY <1>1, PowerUnfolds

LEMMA PowerType == \A n \in 0..ArithDigits : Power[n] \in Nat \ {0}
<1> DEFINE S == {n \in 0..ArithDigits : Power[n] \notin Nat \ {0}}
<1> SUFFICES ASSUME S # {} PROVE FALSE
  OBVIOUS
<1>0. ArithDigits \in Nat /\ CompactBase \in Nat \ {0}
  BY DifficultyAssumption
<1>1. S \subseteq Nat
  BY <1>0
<1>2. PICK n \in S : \A y \in S : n <= y
  BY <1>1, Least
<1>3. CASE n = 0
  BY <1>3, PowerZero
<1>4. CASE n # 0
  <2>1. n \in 1..ArithDigits /\ ~(n <= n - 1)
    BY <1>0, <1>4
  <2>2. Power[n] = CompactBase * Power[n - 1] /\ n - 1 \in 0..ArithDigits
    BY <2>1, PowerNext
  <2>3. Power[n - 1] \in Nat \ {0}
    BY <1>2, <2>1, <2>2
  <2>4. CompactBase * Power[n - 1] \in Nat \ {0}
    <3>1. \A a, b \in Nat \ {0} : a * b \in Nat \ {0}
      OBVIOUS
    <3> QED BY <1>0, <2>3, <3>1
  <2> QED BY <2>2, <2>4
<1> QED BY <1>3, <1>4

LEMMA PowerAdd ==
  \A j \in Nat : \A i \in Nat : i + j <= ArithDigits => Power[i + j] = Power[i] * Power[j]
<1> DEFINE Bad(j) == \E i \in Nat : i + j <= ArithDigits /\ Power[i + j] # Power[i] * Power[j]
           S == {j \in Nat : Bad(j)}
<1> SUFFICES ASSUME S # {} PROVE FALSE
  OBVIOUS
<1>0. ArithDigits \in Nat /\ CompactBase \in Nat \ {0}
  BY DifficultyAssumption
<1>1. PICK j \in S : \A y \in S : j <= y
  BY Least
<1>2. PICK i \in Nat : i + j <= ArithDigits /\ Power[i + j] # Power[i] * Power[j]
  OBVIOUS
<1>3. i \in 0..ArithDigits /\ j \in 0..ArithDigits /\ i + j \in 0..ArithDigits /\ Power[i] \in Nat
  <2>1. i \in 0..ArithDigits /\ j \in 0..ArithDigits /\ i + j \in 0..ArithDigits
    BY <1>0, <1>2
  <2> QED BY <2>1, PowerType
<1>4. CASE j = 0
  BY <1>2, <1>3, <1>4, PowerZero
<1>5. CASE j # 0
  <2>1. /\ i + j \in 1..ArithDigits /\ j \in 1..ArithDigits /\ j - 1 \in Nat /\ ~(j <= j - 1)
        /\ (i + j) - 1 = i + (j - 1) /\ i + (j - 1) <= ArithDigits /\ j - 1 \in 0..ArithDigits
    BY <1>0, <1>2, <1>3, <1>5
  <2>2. Power[i + j] = CompactBase * Power[i + (j - 1)] /\ Power[j] = CompactBase * Power[j - 1]
    BY <2>1, PowerNext
  <2>3. Power[i + (j - 1)] = Power[i] * Power[j - 1] /\ Power[j - 1] \in Nat
    BY <1>1, <2>1, PowerType
  <2>4. \A a, b, c \in Nat : a * (b * c) = b * (a * c)
    OBVIOUS
  <2> QED BY <1>0, <1>2, <1>3, <2>2, <2>3, <2>4
<1> QED BY <1>4, <1>5

LEMMA PowerGrows ==
  ASSUME NEW i \in 0..ArithDigits, NEW j \in 0..ArithDigits, i <= j
  PROVE  Power[i] <= Power[j]
<1>1. j - i \in Nat /\ i \in Nat /\ i + (j - i) = j /\ j - i \in 0..ArithDigits /\ j <= ArithDigits
  BY DifficultyAssumption
<1>2. Power[j] = Power[i] * Power[j - i]
  BY <1>1, PowerAdd
<1>3. Power[i] \in Nat \ {0} /\ Power[j - i] \in Nat \ {0}
  BY <1>1, PowerType
<1>4. \A a, b \in Nat \ {0} : a <= a * b
  OBVIOUS
<1> QED BY <1>2, <1>3, <1>4

-----------------------------------------------------------------------------
(* Division *)

LEMMA Quotient ==
  ASSUME NEW v \in Nat, NEW a \in Nat \ {0}
  PROVE  /\ v \div a \in Nat /\ (v \div a) * a \in Nat
         /\ (v \div a) * a <= v /\ v < ((v \div a) + 1) * a
<1>1. v \div a \in Nat /\ v % a \in 0..a - 1 /\ v = (a * (v \div a)) + (v % a)
  OBVIOUS
<1> DEFINE q == v \div a
<1> HIDE DEF q
<1>2. q \in Nat /\ v % a \in 0..a - 1 /\ v = (a * q) + (v % a)
  BY <1>1 DEF q
<1>3. q * a = a * q /\ (q + 1) * a = (a * q) + a /\ a * q \in Nat
  BY <1>2
<1> QED BY <1>2, <1>3 DEF q

LEMMA QuotientIs ==
  ASSUME NEW v \in Nat, NEW a \in Nat \ {0}, NEW q \in Nat, q * a <= v, v < (q + 1) * a
  PROVE  v \div a = q
<1>1. q * a = a * q /\ (q + 1) * a = (a * q) + a /\ a * q \in Nat
  OBVIOUS
<1>2. v - (a * q) \in 0..a - 1 /\ v = (a * q) + (v - (a * q))
  BY <1>1
<1>3. \A r \in 0..a - 1 : ((a * q) + r) \div a = q
  OBVIOUS
<1> QED BY <1>2, <1>3

LEMMA QuotientOfProduct ==
  ASSUME NEW v \in Nat, NEW a \in Nat \ {0} PROVE (v * a) \div a = v
<1>1. v * a \in Nat /\ (v + 1) * a = (v * a) + a
  OBVIOUS
<1> QED BY <1>1, QuotientIs

LEMMA QuotientBelow ==
  ASSUME NEW v \in Nat, NEW a \in Nat \ {0}, NEW h \in Nat
  PROVE  v \div a < h <=> v < h * a
<1> DEFINE q == v \div a
<1>1. q \in Nat /\ q * a <= v /\ v < (q + 1) * a
  BY Quotient
<1> HIDE DEF q
<1>2. \A x, y \in Nat : x <= y => x * a <= y * a
  OBVIOUS
<1>3. q * a \in Nat /\ (q + 1) * a \in Nat /\ h * a \in Nat
  BY <1>1
<1>4. CASE q < h
  BY <1>1, <1>2, <1>3, <1>4 DEF q
<1>5. CASE h <= q
  BY <1>1, <1>2, <1>3, <1>5 DEF q
<1> QED BY <1>1, <1>4, <1>5

LEMMA QuotientGrows ==
  ASSUME NEW v \in Nat, NEW w \in Nat, v <= w, NEW a \in Nat \ {0}
  PROVE  v \div a <= w \div a
<1>1. v \div a \in Nat /\ w \div a \in Nat
  BY Quotient
<1>2. ~(w \div a < v \div a)
  <2>1. (v \div a) * a <= v /\ (v \div a) * a \in Nat
    BY Quotient
  <2>2. ~(w < (v \div a) * a)
    BY <2>1
  <2> QED BY <1>1, <2>2, QuotientBelow
<1> QED BY <1>1, <1>2

LEMMA QuotientTwice ==
  ASSUME NEW v \in Nat, NEW a \in Nat \ {0}, NEW b \in Nat \ {0}
  PROVE  (v \div a) \div b = v \div (a * b)
<1> DEFINE q == v \div a
           r == q \div b
<1>1. q \in Nat /\ q * a <= v /\ v < (q + 1) * a
  BY Quotient
<1> HIDE DEF q
<1>2. r \in Nat /\ r * b <= q /\ q < (r + 1) * b
  BY <1>1, Quotient
<1> HIDE DEF r
<1>3. \A x, y \in Nat : x <= y => x * a <= y * a
  OBVIOUS
<1>4. r * b \in Nat /\ (r + 1) * b \in Nat /\ q + 1 \in Nat /\ q + 1 <= (r + 1) * b
  BY <1>1, <1>2
<1>5. (r * b) * a <= q * a /\ (q + 1) * a <= ((r + 1) * b) * a
  BY <1>1, <1>2, <1>3, <1>4
<1>6. (r * b) * a = r * (a * b) /\ ((r + 1) * b) * a = (r + 1) * (a * b)
  <2>1. \A x, y, z \in Nat : (x * y) * z = x * (z * y)
    OBVIOUS
  <2> QED BY <1>2, <2>1
<1>7. a * b \in Nat \ {0} /\ r * (a * b) \in Nat /\ (r + 1) * (a * b) \in Nat
      /\ q * a \in Nat /\ (q + 1) * a \in Nat
  <2>1. \A x, y \in Nat \ {0} : x * y \in Nat \ {0}
    OBVIOUS
  <2>2. a * b \in Nat \ {0}
    BY <2>1
  <2>3. \A x, y \in Nat : x * y \in Nat
    OBVIOUS
  <2> QED BY <1>1, <1>2, <2>2, <2>3
<1>8. r * (a * b) <= v /\ v < (r + 1) * (a * b)
  BY <1>1, <1>5, <1>6, <1>7
<1>9. v \div (a * b) = r
  BY <1>2, <1>7, <1>8, QuotientIs
<1> QED BY <1>9 DEF r, q

-----------------------------------------------------------------------------
(* The compact encoding keeps a number's leading digits: what it drops is  *)
(* below Power[e], for the least e that leaves less than the sign bit.     *)

Half == CompactBase \div 2

LEMMA Halves ==
  /\ Half \in Nat \ {0} /\ CompactBase = 2 * Half
  /\ SignBit = Half * Power[CompactDigits - 1] /\ SignBit \in Nat \ {0}
  /\ Power[CompactDigits] = 2 * SignBit
  /\ Power[CompactDigits - 1] = CompactBase * Power[CompactDigits - 2]
<1>0. CompactBase \in Nat \ {0} /\ CompactBase % 2 = 0
  BY DifficultyAssumption
<1>1. Half \in Nat \ {0} /\ CompactBase = 2 * Half
  BY <1>0 DEF Half
<1>2. CompactDigits \in 1..ArithDigits /\ CompactDigits - 1 \in 1..ArithDigits
      /\ (CompactDigits - 1) - 1 = CompactDigits - 2 /\ CompactDigits - 1 \in 0..ArithDigits
  BY DifficultyAssumption
<1>3. Power[CompactDigits] = CompactBase * Power[CompactDigits - 1]
      /\ Power[CompactDigits - 1] = CompactBase * Power[CompactDigits - 2]
      /\ Power[CompactDigits - 1] \in Nat \ {0}
  BY <1>2, PowerNext, PowerType
<1> DEFINE p == Power[CompactDigits - 1]
<1> HIDE DEF p, Half
<1>4. \A h, x \in Nat \ {0} : h * x \in Nat \ {0} /\ (2 * h) * x = 2 * (h * x)
  OBVIOUS
<1>5. Half * p \in Nat \ {0} /\ Power[CompactDigits] = 2 * (Half * p)
  BY <1>1, <1>3, <1>4 DEF p
<1>6. \A x \in Nat : (2 * x) \div 2 = x
  OBVIOUS
<1>7. SignBit = Half * p
  BY <1>5, <1>6 DEF SignBit
<1> QED BY <1>1, <1>3, <1>5, <1>7 DEF p

(* The number of digits dropped.                                           *)
Drops(v, e) ==
  /\ e \in 0..ArithDigits - 1
  /\ v < SignBit * Power[e]
  /\ e = 0 \/ v >= SignBit * Power[e - 1]

Rounded(v) == SetCompact(GetCompact(v))

LEMMA DigitsAre ==
  ASSUME NEW v \in 0..ArithModulus - 1
  PROVE  /\ NumDigits(v) \in 0..ArithDigits /\ v < Power[NumDigits(v)]
         /\ NumDigits(v) = 0 \/ v >= Power[NumDigits(v) - 1]
<1> DEFINE S == {n \in 0..ArithDigits : v < Power[n]}
<1>0. ArithDigits \in Nat /\ ArithModulus \in Nat /\ ArithModulus = Power[ArithDigits]
      /\ v \in Nat /\ ArithDigits \in 0..ArithDigits
  BY DifficultyAssumption, PowerType DEF ArithModulus
<1>1. S \subseteq Nat /\ S # {}
  BY <1>0
<1>2. PICK n \in S : \A y \in S : n <= y
  BY <1>1, Least
<1>3. n = 0 \/ v >= Power[n - 1]
  <2> SUFFICES ASSUME n # 0, ~(v >= Power[n - 1]) PROVE FALSE
    OBVIOUS
  <2>1. n - 1 \in 0..ArithDigits /\ ~(n <= n - 1)
    BY <1>0
  <2>2. Power[n - 1] \in Nat
    BY <2>1, PowerType
  <2>3. v < Power[n - 1]
    BY <1>0, <2>2
  <2> QED BY <1>2, <2>1, <2>3
<1> QED BY <1>2, <1>3 DEF NumDigits

LEMMA RoundedSmall ==
  ASSUME NEW v \in 0..ArithModulus - 1, NumDigits(v) < CompactDigits
  PROVE  Drops(v, 0) /\ Rounded(v) = v
<1> DEFINE n == NumDigits(v)
           d == CompactDigits - n
           word == v * Power[d]
<1>0. /\ CompactDigits \in Nat /\ CompactDigits <= ArithDigits - 1 /\ ArithDigits \in Nat
      /\ v \in Nat /\ n \in Nat /\ n \in 0..ArithDigits /\ v < Power[n] /\ n < CompactDigits
  BY DigitsAre, DifficultyAssumption, PowerType DEF ArithModulus
<1> HIDE DEF n
<1>1. /\ d \in 1..ArithDigits /\ d \in 0..ArithDigits /\ d - 1 \in 0..ArithDigits
      /\ n <= CompactDigits - 1 /\ CompactDigits - 1 \in 0..ArithDigits
      /\ d - 1 = CompactDigits - (n + 1) /\ n <= CompactDigits /\ n + 1 <= CompactDigits
      /\ 0 \in 0..ArithDigits - 1
  BY <1>0
<1>2. /\ Power[d] \in Nat \ {0} /\ Power[d - 1] \in Nat \ {0} /\ Power[d] = CompactBase * Power[d - 1]
      /\ CompactBase \in Nat \ {0} /\ Power[CompactDigits - 1] \in Nat /\ Power[n] \in Nat
  BY <1>0, <1>1, PowerType, PowerNext, DifficultyAssumption
<1>3. GetCompact(v) = IF word >= SignBit THEN <<n + 1, word \div CompactBase>> ELSE <<n, word>>
  BY <1>1 DEF GetCompact, n
<1> HIDE DEF d
<1>4. Drops(v, 0)
  <2>1. Power[n] <= Power[CompactDigits - 1]
    BY <1>0, <1>1, PowerGrows
  <2>2. SignBit = Half * Power[CompactDigits - 1] /\ Half \in Nat \ {0} /\ SignBit \in Nat
    BY Halves
  <2>3. \A h \in Nat \ {0}, x \in Nat : x <= h * x
    OBVIOUS
  <2>4. Power[CompactDigits - 1] <= SignBit
    BY <1>2, <2>2, <2>3
  <2>5. v < SignBit
    BY <1>0, <1>2, <2>1, <2>2, <2>4
  <2>6. SignBit * Power[0] = SignBit
    BY <2>2, PowerZero
  <2> QED BY <1>1, <2>5, <2>6 DEF Drops
<1>5. CASE ~(word >= SignBit)
  <2>1. GetCompact(v) = <<n, word>>
    BY <1>3, <1>5
  <2>2. Rounded(v) = word \div Power[CompactDigits - n]
    BY <1>1, <2>1 DEF Rounded, SetCompact
  <2>3. word \div Power[d] = v
    BY <1>0, <1>2, QuotientOfProduct
  <2> QED BY <1>4, <2>2, <2>3 DEF d
<1>6. CASE word >= SignBit
  <2>1. GetCompact(v) = <<n + 1, word \div CompactBase>>
    BY <1>3, <1>6
  <2>2. Rounded(v) = (word \div CompactBase) \div Power[CompactDigits - (n + 1)]
    BY <1>1, <2>1 DEF Rounded, SetCompact
  <2>3. word \in Nat
    BY <1>0, <1>2
  <2>4. (word \div CompactBase) \div Power[d - 1] = word \div (CompactBase * Power[d - 1])
    BY <1>2, <2>3, QuotientTwice
  <2>5. word \div Power[d] = v
    BY <1>0, <1>2, QuotientOfProduct
  <2> QED BY <1>1, <1>2, <1>4, <2>2, <2>4, <2>5
<1> QED BY <1>5, <1>6

LEMMA RoundedLarge ==
  ASSUME NEW v \in 0..ArithModulus - 1, NumDigits(v) >= CompactDigits
  PROVE  \E e : Drops(v, e) /\ Rounded(v) = (v \div Power[e]) * Power[e]
<1> DEFINE n == NumDigits(v)
           d == n - CompactDigits
           word == v \div Power[d]
<1>0. /\ CompactDigits \in Nat /\ CompactDigits <= ArithDigits - 1 /\ ArithDigits \in Nat
      /\ CompactDigits >= 2 /\ v \in Nat /\ n \in Nat /\ n <= ArithDigits /\ v < Power[n]
      /\ n >= CompactDigits /\ v >= Power[n - 1] /\ ArithModulus \in Nat /\ v < ArithModulus
  <2>1. CompactDigits \in Nat /\ CompactDigits <= ArithDigits - 1 /\ ArithDigits \in Nat
        /\ CompactDigits >= 2 /\ v \in Nat /\ ArithModulus \in Nat /\ v < ArithModulus
    BY DifficultyAssumption, PowerType DEF ArithModulus
  <2>2. n \in 0..ArithDigits /\ v < Power[n] /\ (n = 0 \/ v >= Power[n - 1])
    BY DigitsAre
  <2> QED BY <2>1, <2>2
<1>1. GetCompact(v) = IF word >= SignBit THEN <<n + 1, word \div CompactBase>> ELSE <<n, word>>
  <2>1. Power[0] = 1
    BY PowerZero
  <2>2. n = CompactDigits => v * Power[CompactDigits - n] = v /\ v \div Power[n - CompactDigits] = v
    <3>1. CompactDigits - CompactDigits = 0 /\ v * 1 = v /\ v \div 1 = v
      BY <1>0
    <3> QED BY <2>1, <3>1
  <2>3. n <= CompactDigits => n = CompactDigits
    BY <1>0
  <2> QED BY <2>2, <2>3 DEF GetCompact
<1> HIDE DEF n
<1>2. /\ d \in 0..ArithDigits - 1 /\ d + 1 \in 0..ArithDigits - 1 /\ d \in 0..ArithDigits
      /\ d + 1 \in 1..ArithDigits /\ (d + 1) - 1 = d /\ d \in Nat
      /\ CompactDigits + d = n /\ (n + 1) - CompactDigits = d + 1 /\ ~(n + 1 <= CompactDigits)
      /\ d # 0 => /\ d - 1 \in 0..ArithDigits /\ CompactDigits + (d - 1) = n - 1
                  /\ d - 1 \in Nat /\ n - 1 <= ArithDigits
      /\ d # 0 => ~(n <= CompactDigits)
      /\ d = 0 => n = CompactDigits
  BY <1>0
<1>3. /\ Power[d] \in Nat \ {0} /\ Power[d + 1] \in Nat \ {0}
      /\ Power[d + 1] = CompactBase * Power[d] /\ CompactBase \in Nat \ {0}
      /\ Power[n] = Power[CompactDigits] * Power[d]
  <2>1. Power[d] \in Nat \ {0} /\ Power[d + 1] \in Nat \ {0} /\ CompactBase \in Nat \ {0}
        /\ Power[d + 1] = CompactBase * Power[d]
    BY <1>2, PowerType, PowerNext, DifficultyAssumption
  <2>2. Power[CompactDigits + d] = Power[CompactDigits] * Power[d]
    BY <1>0, <1>2, PowerAdd
  <2> QED BY <1>2, <2>1, <2>2
<1>4. SignBit \in Nat \ {0} /\ Power[CompactDigits] = 2 * SignBit /\ Half \in Nat \ {0}
      /\ CompactBase = 2 * Half
  BY Halves
<1> HIDE DEF d
<1>5. \A q, a \in Nat : q * a <= v => (q * a) % ArithModulus = q * a
  <2>1. \A x \in Nat : x < ArithModulus => x % ArithModulus = x
    BY <1>0
  <2> QED BY <1>0, <2>1
<1>6. word \in Nat /\ (word >= SignBit <=> ~(v < SignBit * Power[d]))
  BY <1>0, <1>3, <1>4, Quotient, QuotientBelow
<1>7. CASE word >= SignBit
  <2>1. GetCompact(v) = <<n + 1, word \div CompactBase>>
    BY <1>1, <1>7
  <2>2. Rounded(v) = ((word \div CompactBase) * Power[d + 1]) % ArithModulus
    BY <1>2, <2>1 DEF Rounded, SetCompact
  <2>3. word \div CompactBase = v \div Power[d + 1]
    <3>1. word \div CompactBase = v \div (Power[d] * CompactBase)
      BY <1>0, <1>3, QuotientTwice
    <3>2. Power[d] * CompactBase = Power[d + 1]
      BY <1>3
    <3> QED BY <3>1, <3>2
  <2>4. Rounded(v) = (v \div Power[d + 1]) * Power[d + 1]
    <3>1. v \div Power[d + 1] \in Nat /\ (v \div Power[d + 1]) * Power[d + 1] <= v
      BY <1>0, <1>3, Quotient
    <3> QED BY <1>3, <1>5, <2>2, <2>3, <3>1
  <2>5. Drops(v, d + 1)
    <3>1. v >= SignBit * Power[d]
      <4>1. SignBit * Power[d] \in Nat
        BY <1>3, <1>4
      <4> QED BY <1>0, <1>6, <1>7, <4>1
    <3>2. v < SignBit * Power[d + 1]
      <4>1. \A s, h, p \in Nat \ {0} : (2 * s) * p <= s * ((2 * h) * p)
        OBVIOUS
      <4>2. Power[n] <= SignBit * Power[d + 1]
        BY <1>3, <1>4, <4>1
      <4>3. Power[n] \in Nat /\ SignBit * Power[d + 1] \in Nat
        BY <1>3, <1>4
      <4> QED BY <1>0, <4>2, <4>3
    <3> QED BY <1>2, <3>1, <3>2 DEF Drops
  <2> QED BY <2>4, <2>5
<1>8. CASE ~(word >= SignBit)
  <2>1. GetCompact(v) = <<n, word>>
    BY <1>1, <1>8
  <2>2. Rounded(v) = word * Power[d]
    <3>1. CASE d = 0
      <4>1. CompactDigits - n = 0 /\ n <= CompactDigits
        BY <1>0, <1>2, <3>1
      <4>2. Rounded(v) = word \div Power[CompactDigits - n]
        BY <2>1, <4>1 DEF Rounded, SetCompact
      <4>3. word \div 1 = word /\ word * 1 = word
        BY <1>6
      <4> QED BY <3>1, <4>1, <4>2, <4>3, PowerZero
    <3>2. CASE d # 0
      <4>1. Rounded(v) = (word * Power[n - CompactDigits]) % ArithModulus
        BY <1>2, <2>1, <3>2 DEF Rounded, SetCompact
      <4>2. word * Power[d] <= v
        BY <1>0, <1>3, Quotient
      <4> QED BY <1>3, <1>5, <1>6, <4>1, <4>2 DEF d
    <3> QED BY <3>1, <3>2
  <2>3. Drops(v, d)
    <3>1. v < SignBit * Power[d]
      BY <1>6, <1>8
    <3>2. d = 0 \/ v >= SignBit * Power[d - 1]
      <4> SUFFICES ASSUME d # 0 PROVE v >= SignBit * Power[d - 1]
        OBVIOUS
      <4>1. Power[n - 1] = Power[CompactDigits] * Power[d - 1] /\ Power[d - 1] \in Nat
        <5>1. CompactDigits + (d - 1) = n - 1 /\ d - 1 \in Nat /\ d - 1 \in 0..ArithDigits
              /\ CompactDigits + (d - 1) <= ArithDigits
          BY <1>2
        <5> QED BY <1>0, <5>1, PowerAdd, PowerType
      <4>2. \A s, p \in Nat : s * p <= (2 * s) * p /\ s * p \in Nat /\ (2 * s) * p \in Nat
        OBVIOUS
      <4>3. SignBit * Power[d - 1] <= Power[n - 1] /\ SignBit * Power[d - 1] \in Nat /\ Power[n - 1] \in Nat
        BY <1>4, <4>1, <4>2
      <4> QED BY <1>0, <4>3
    <3> QED BY <1>2, <3>1, <3>2 DEF Drops
  <2> QED BY <2>2, <2>3
<1> QED BY <1>7, <1>8

LEMMA RoundedIs ==
  ASSUME NEW v \in 0..ArithModulus - 1
  PROVE  \E e : Drops(v, e) /\ Rounded(v) = (v \div Power[e]) * Power[e]
<1>1. NumDigits(v) \in Nat /\ CompactDigits \in Nat /\ v \in Nat
  BY DigitsAre, DifficultyAssumption, PowerType DEF ArithModulus
<1>2. CASE NumDigits(v) < CompactDigits
  <2>1. Drops(v, 0) /\ Rounded(v) = v
    BY <1>2, RoundedSmall
  <2>2. (v \div Power[0]) * Power[0] = v
    <3>1. (v \div 1) * 1 = v
      BY <1>1
    <3> QED BY <3>1, PowerZero
  <2> QED BY <2>1, <2>2
<1>3. CASE NumDigits(v) >= CompactDigits
  BY <1>3, RoundedLarge
<1> QED BY <1>1, <1>2, <1>3

(* Where the digits dropped are more than e, the number is a multiple of   *)
(* the larger unit or more.                                                *)
LEMMA LargerUnit ==
  ASSUME NEW w \in Nat, NEW e, Drops(w, e), e # 0
  PROVE  (w \div Power[e]) * Power[e] >= SignBit * Power[e - 1]
<1>1. e \in 1..ArithDigits /\ e - 1 \in 0..ArithDigits /\ e \in 0..ArithDigits
      /\ CompactDigits - 1 \in 0..ArithDigits /\ CompactDigits - 2 \in 0..ArithDigits
  BY DifficultyAssumption DEF Drops
<1> DEFINE p == Power[e - 1]
           c == Power[CompactDigits - 2]
           g == Half * c
<1>2. p \in Nat \ {0} /\ c \in Nat \ {0} /\ Power[e] = CompactBase * p /\ Power[e] \in Nat \ {0}
  BY <1>1, PowerType, PowerNext
<1>3. SignBit = Half * (CompactBase * c) /\ Half \in Nat \ {0} /\ CompactBase \in Nat \ {0}
  BY Halves, DifficultyAssumption
<1> HIDE DEF p, c
<1>4. \A h, b, x, y \in Nat : (h * (b * x)) * y = (h * x) * (b * y)
  OBVIOUS
<1>5. SignBit * p = g * Power[e] /\ g \in Nat
  BY <1>2, <1>3, <1>4
<1> HIDE DEF g
<1>6. w >= g * Power[e]
  BY <1>5 DEF Drops, p
<1>7. g * Power[e] \in Nat
  BY <1>2, <1>5
<1>8. ~(w < g * Power[e])
  BY <1>6, <1>7
<1>9. ~(w \div Power[e] < g) /\ w \div Power[e] \in Nat
  BY <1>2, <1>5, <1>8, QuotientBelow, Quotient
<1>10. \A x, y, z \in Nat : ~(x < y) => x * z >= y * z
  OBVIOUS
<1>11. (w \div Power[e]) * Power[e] >= g * Power[e]
  BY <1>2, <1>5, <1>9, <1>10
<1> QED BY <1>5, <1>11 DEF p

(* Fewer digits are dropped only below the larger unit's first multiple.   *)
LEMMA FewerDrops ==
  ASSUME NEW v \in Nat, NEW a, NEW b, Drops(v, a), b \in 0..ArithDigits - 1, a < b
  PROVE  b # 0 /\ v < SignBit * Power[b - 1] /\ SignBit * Power[b - 1] \in Nat
<1>1. b # 0 /\ a \in 0..ArithDigits /\ b - 1 \in 0..ArithDigits /\ a <= b - 1
  BY DifficultyAssumption DEF Drops
<1>2. Power[a] <= Power[b - 1] /\ Power[a] \in Nat /\ Power[b - 1] \in Nat /\ SignBit \in Nat
  BY <1>1, PowerGrows, PowerType, Halves
<1>3. \A s, x, y \in Nat : x <= y => s * x <= s * y /\ s * x \in Nat /\ s * y \in Nat
  OBVIOUS
<1>4. SignBit * Power[a] <= SignBit * Power[b - 1] /\ SignBit * Power[a] \in Nat
      /\ SignBit * Power[b - 1] \in Nat
  BY <1>2, <1>3
<1>5. v < SignBit * Power[a]
  BY DEF Drops
<1> QED BY <1>1, <1>4, <1>5

LEMMA RoundedGrows ==
  ASSUME NEW v \in 0..ArithModulus - 1, NEW w \in 0..ArithModulus - 1, v <= w
  PROVE  Rounded(v) <= Rounded(w)
<1>0. v \in Nat /\ w \in Nat
  BY PowerType, DifficultyAssumption DEF ArithModulus
<1>1. PICK a : Drops(v, a) /\ Rounded(v) = (v \div Power[a]) * Power[a]
  BY RoundedIs
<1>2. PICK b : Drops(w, b) /\ Rounded(w) = (w \div Power[b]) * Power[b]
  BY RoundedIs
<1>3. /\ a \in 0..ArithDigits /\ b \in 0..ArithDigits /\ a \in Nat /\ b \in Nat
      /\ a \in 0..ArithDigits - 1 /\ b \in 0..ArithDigits - 1
  BY <1>1, <1>2, DifficultyAssumption DEF Drops
<1>4. Power[a] \in Nat \ {0} /\ Power[b] \in Nat \ {0}
  BY <1>3, PowerType
<1>5. Rounded(v) \in Nat /\ Rounded(v) <= v /\ Rounded(w) \in Nat
  BY <1>0, <1>1, <1>2, <1>4, Quotient
<1>6. CASE a = b
  <2>1. v \div Power[a] <= w \div Power[a] /\ v \div Power[a] \in Nat /\ w \div Power[a] \in Nat
    BY <1>0, <1>4, QuotientGrows, Quotient
  <2>2. \A x, y, z \in Nat : x <= y => x * z <= y * z
    OBVIOUS
  <2> QED BY <1>1, <1>2, <1>4, <1>6, <2>1, <2>2
<1>7. CASE a < b
  <2>1. b # 0 /\ v < SignBit * Power[b - 1] /\ SignBit * Power[b - 1] \in Nat
    BY <1>0, <1>1, <1>3, <1>7, FewerDrops
  <2>2. Rounded(w) >= SignBit * Power[b - 1]
    BY <1>0, <1>2, <2>1, LargerUnit
  <2> QED BY <1>0, <1>5, <2>1, <2>2
<1>8. CASE b < a
  <2>1. a # 0 /\ w < SignBit * Power[a - 1] /\ SignBit * Power[a - 1] \in Nat
    BY <1>0, <1>2, <1>3, <1>8, FewerDrops
  <2>2. v >= SignBit * Power[a - 1]
    BY <1>1, <2>1 DEF Drops
  <2> QED BY <1>0, <2>1, <2>2
<1> QED BY <1>3, <1>6, <1>7, <1>8

(* A rounded number is rounded to itself.                                  *)
LEMMA RoundedTwice ==
  ASSUME NEW v \in 0..ArithModulus - 1
  PROVE  Rounded(v) \in 0..v /\ Rounded(Rounded(v)) = Rounded(v)
<1>0. v \in Nat /\ ArithModulus \in Nat
  BY PowerType, DifficultyAssumption DEF ArithModulus
<1> DEFINE w == Rounded(v)
<1>1. PICK a : Drops(v, a) /\ w = (v \div Power[a]) * Power[a]
  BY RoundedIs
<1> HIDE DEF w
<1>2. a \in 0..ArithDigits /\ a \in Nat /\ a \in 0..ArithDigits - 1
  BY <1>1, DifficultyAssumption DEF Drops
<1>3. Power[a] \in Nat \ {0}
  BY <1>2, PowerType
<1>4. v \div Power[a] \in Nat /\ w \in Nat /\ w <= v /\ w \in 0..ArithModulus - 1
  <2>1. v \div Power[a] \in Nat /\ w \in Nat /\ w <= v
    BY <1>0, <1>1, <1>3, Quotient
  <2> QED BY <1>0, <2>1
<1>5. PICK b : Drops(w, b) /\ Rounded(w) = (w \div Power[b]) * Power[b]
  BY <1>4, RoundedIs
<1>6. b \in 0..ArithDigits - 1 /\ b \in Nat /\ b \in 0..ArithDigits
  BY <1>5, DifficultyAssumption DEF Drops
<1>7. CASE a = b
  <2>1. w \div Power[a] = v \div Power[a]
    BY <1>1, <1>3, <1>4, QuotientOfProduct
  <2> QED BY <1>1, <1>4, <1>5, <1>7, <2>1 DEF w
<1>8. CASE b < a
  <2>1. a # 0 /\ w < SignBit * Power[a - 1] /\ SignBit * Power[a - 1] \in Nat
    BY <1>2, <1>4, <1>5, <1>6, <1>8, FewerDrops
  <2>2. w >= SignBit * Power[a - 1]
    BY <1>0, <1>1, <2>1, LargerUnit
  <2> QED BY <1>4, <2>1, <2>2
<1>9. CASE a < b
  <2>1. b # 0 /\ v < SignBit * Power[b - 1] /\ SignBit * Power[b - 1] \in Nat
    BY <1>0, <1>1, <1>2, <1>6, <1>9, FewerDrops
  <2>2. w >= SignBit * Power[b - 1]
    BY <1>5, <2>1 DEF Drops
  <2> QED BY <1>0, <1>4, <2>1, <2>2
<1> QED BY <1>2, <1>6, <1>7, <1>8, <1>9

-----------------------------------------------------------------------------
(* A retarget is within the limits of the presync *)

(* The product of a target and a timespan fits an arith_uint256.           *)
Fits(timespan) == powLimit * (timespan * 4) < ArithModulus

LEMMA MinOfTwo ==
  ASSUME NEW a \in Int, NEW b \in Int
  PROVE  Min({a, b}) = IF a <= b THEN a ELSE b
BY DEF Min

LEMMA ScaleIs ==
  ASSUME NEW t \in Nat \ {0}, Fits(t), NEW c, SetCompact(c) \in 0..powLimit,
         NEW f \in 0..t * 4
  PROVE  /\ ScaleTarget(c, f, t) = Min({(SetCompact(c) * f) \div t, powLimit})
         /\ (SetCompact(c) * f) \div t \in Nat
         /\ ScaleTarget(c, f, t) \in 0..powLimit
         /\ powLimit < ArithModulus
<1> DEFINE x == SetCompact(c)
<1>0. powLimit \in Nat \ {0} /\ ArithModulus \in Nat \ {0}
  BY DifficultyAssumption, PowerType DEF ArithModulus
<1>1. x \in Nat /\ x <= powLimit /\ f \in Nat /\ f <= t * 4 /\ t * 4 \in Nat /\ t * 4 >= 1
  BY <1>0
<1> HIDE DEF x
<1>2. x * f <= powLimit * (t * 4) /\ x * f \in Nat /\ powLimit <= powLimit * (t * 4)
  <2>1. \A a, b, d, e \in Nat : a <= b /\ d <= e => a * d <= b * e
    OBVIOUS
  <2>2. \A a, b \in Nat : b >= 1 => a <= a * b
    OBVIOUS
  <2> QED BY <1>0, <1>1, <2>1, <2>2
<1>3. powLimit * (t * 4) < ArithModulus /\ powLimit * (t * 4) \in Nat
  BY <1>0, <1>1 DEF Fits
<1>4. x * f < ArithModulus /\ powLimit < ArithModulus
  BY <1>0, <1>2, <1>3
<1>5. (x * f) % ArithModulus = x * f
  <2>1. \A y, m \in Nat : y < m => y % m = y
    OBVIOUS
  <2> QED BY <1>0, <1>2, <1>4, <2>1
<1>6. (x * f) \div t \in Nat
  BY <1>2, Quotient
<1>7. ScaleTarget(c, f, t) = Min({(x * f) \div t, powLimit})
  BY <1>5 DEF ScaleTarget, x
<1> DEFINE q == (x * f) \div t
<1> HIDE DEF q
<1>8. Min({q, powLimit}) \in 0..powLimit
  <2>1. q \in Nat
    BY <1>6 DEF q
  <2>2. Min({q, powLimit}) = IF q <= powLimit THEN q ELSE powLimit
    BY <1>0, <2>1, MinOfTwo
  <2> QED BY <1>0, <2>1, <2>2
<1> QED BY <1>4, <1>6, <1>7, <1>8 DEF q, x

LEMMA ScaleGrows ==
  ASSUME NEW t \in Nat \ {0}, Fits(t), NEW c, SetCompact(c) \in 0..powLimit,
         NEW f \in 0..t * 4, NEW g \in 0..t * 4, f <= g
  PROVE  ScaleTarget(c, f, t) <= ScaleTarget(c, g, t)
<1> DEFINE x == SetCompact(c)
           a == (x * f) \div t
           b == (x * g) \div t
<1>0. powLimit \in Nat
  BY DifficultyAssumption
<1>1. x \in Nat /\ f \in Nat /\ g \in Nat
  BY <1>0
<1>2. ScaleTarget(c, f, t) = Min({a, powLimit}) /\ a \in Nat
  BY ScaleIs
<1>3. ScaleTarget(c, g, t) = Min({b, powLimit}) /\ b \in Nat
  BY ScaleIs
<1>4. a <= b
  <2> HIDE DEF x
  <2>1. \A u, v, w \in Nat : v <= w => u * v <= u * w /\ u * v \in Nat /\ u * w \in Nat
    OBVIOUS
  <2>2. x * f <= x * g /\ x * f \in Nat /\ x * g \in Nat
    BY <1>1, <2>1
  <2> QED BY <2>2, QuotientGrows
<1> HIDE DEF a, b
<1>5. Min({a, powLimit}) = (IF a <= powLimit THEN a ELSE powLimit)
      /\ Min({b, powLimit}) = (IF b <= powLimit THEN b ELSE powLimit)
  BY <1>0, <1>2, <1>3, MinOfTwo
<1> QED BY <1>0, <1>2, <1>3, <1>4, <1>5

LEMMA ClampIs ==
  ASSUME NEW a \in Int, NEW t \in Nat
  PROVE  ClampTimespan(a, t) \in t \div 4 .. t * 4
<1> DEFINE m == Max({a, t \div 4})
<1>1. t \div 4 \in Nat /\ t * 4 \in Nat /\ t \div 4 <= t * 4
  OBVIOUS
<1>2. m = (IF a >= t \div 4 THEN a ELSE t \div 4) /\ m \in Int
  BY <1>1, MaxOfTwo
<1> HIDE DEF m
<1>3. Min({m, t * 4}) = IF m <= t * 4 THEN m ELSE t * 4
  BY <1>1, <1>2, MinOfTwo
<1>4. ClampTimespan(a, t) = Min({m, t * 4})
  BY DEF ClampTimespan, m
<1> QED BY <1>1, <1>2, <1>3, <1>4

(* The networks that retarget by the last block's work, on which a product *)
(* of a target and a timespan fits: those without the testnet rule.        *)
Regular ==
  /\ ~enforce_BIP94
  /\ Fits(nPowTargetTimespan)
  /\ nDifficultyForkHeight > 0 => Fits(nPowTargetTimespanV2)

(* The nBits of a header that was accepted: a rounded target in the limit. *)
Bits(c) == SetCompact(c) \in 0..powLimit /\ Rounded(SetCompact(c)) = SetCompact(c)

LEMMA TimespanIs ==
  ASSUME Regular, NEW h \in Nat
  PROVE  PowTargetTimespanAtHeight(h) \in Nat \ {0} /\ Fits(PowTargetTimespanAtHeight(h))
<1>1. nPowTargetTimespan \in Nat \ {0} /\ (nDifficultyForkHeight > 0 => nPowTargetTimespanV2 \in Nat \ {0})
  BY DifficultyAssumption
<1> QED BY <1>1 DEF Regular, PowTargetTimespanAtHeight, PastFork

(* A target scaled by any timespan within the clamps.                      *)
LEMMA ScaledWithin ==
  ASSUME NEW t \in Nat \ {0}, Fits(t), NEW old, Bits(old), NEW f \in t \div 4 .. t * 4
  PROVE  /\ ScaleTarget(old, f, t) \in 0..ArithModulus - 1
         /\ ScaleTarget(old, f, t) \in 0..powLimit
         /\ Rounded(ScaleTarget(old, f, t)) <= Rounded(ScaleTarget(old, t * 4, t))
         /\ Rounded(ScaleTarget(old, f, t)) >= Rounded(ScaleTarget(old, t \div 4, t))
<1>0. powLimit \in Nat /\ ArithModulus \in Nat /\ SetCompact(old) \in 0..powLimit
  BY DifficultyAssumption, PowerType DEF ArithModulus, Bits
<1>1. /\ t \div 4 \in 0..t * 4 /\ t * 4 \in 0..t * 4 /\ f \in 0..t * 4
      /\ t \div 4 <= f /\ f <= t * 4
  OBVIOUS
<1> DEFINE low == ScaleTarget(old, t \div 4, t)
           mid == ScaleTarget(old, f, t)
           high == ScaleTarget(old, t * 4, t)
<1>2. low \in 0..powLimit /\ mid \in 0..powLimit /\ high \in 0..powLimit /\ powLimit < ArithModulus
  BY <1>0, <1>1, ScaleIs
<1>3. low <= mid /\ mid <= high
  BY <1>0, <1>1, ScaleGrows
<1> HIDE DEF low, mid, high
<1>4. low \in 0..ArithModulus - 1 /\ mid \in 0..ArithModulus - 1 /\ high \in 0..ArithModulus - 1
  BY <1>0, <1>2
<1>5. Rounded(low) <= Rounded(mid) /\ Rounded(mid) <= Rounded(high)
  BY <1>3, <1>4, RoundedGrows
<1>6. Rounded(low) \in 0..low /\ Rounded(mid) \in 0..mid
  BY <1>4, RoundedTwice
<1>7. Rounded(mid) >= Rounded(low)
  BY <1>2, <1>5, <1>6
<1> QED BY <1>2, <1>4, <1>5, <1>7 DEF low, mid, high

(* Scaling by the target timespan itself changes nothing.                  *)
LEMMA ScaledSame ==
  ASSUME NEW t \in Nat \ {0}, Fits(t), NEW old, Bits(old)
  PROVE  Rounded(ScaleTarget(old, t, t)) = SetCompact(old)
<1> DEFINE x == SetCompact(old)
<1>0. powLimit \in Nat /\ x \in 0..powLimit /\ Rounded(x) = x
  BY DifficultyAssumption DEF Bits
<1>1. t \in 0..t * 4
  OBVIOUS
<1>2. ScaleTarget(old, t, t) = Min({(x * t) \div t, powLimit})
  BY <1>0, <1>1, ScaleIs
<1> HIDE DEF x
<1>3. (x * t) \div t = x /\ x \in Int /\ x <= powLimit
  BY <1>0, QuotientOfProduct
<1>4. Min({x, powLimit}) = x
  BY <1>0, <1>3, MinOfTwo
<1> QED BY <1>0, <1>2, <1>3, <1>4 DEF x

LEMMA NextPermitted ==
  ASSUME ~fPowAllowMinDifficultyBlocks, Regular, NEW c, Chain(c), Bits(Tip(c).nBits), NEW time
  PROVE  /\ Bits(GetNextWorkRequired(c, time))
         /\ PermittedDifficultyTransition(Height(c) + 1, Tip(c).nBits, GetNextWorkRequired(c, time))
<1> DEFINE h == Height(c) + 1
           old == Tip(c).nBits
           new == GetNextWorkRequired(c, time)
           t == PowTargetTimespanAtHeight(h)
<1>0. Height(c) \in Nat /\ h \in Nat /\ Bits(old)
  BY ChainHeight
<1>1. CASE ~IsDifficultyAdjustmentBoundary(h)
  <2>1. new = old
    BY <1>1 DEF GetNextWorkRequired
  <2> HIDE DEF new, old, h
  <2> QED BY <1>0, <1>1, <2>1 DEF PermittedDifficultyTransition, new, old, h
<1>2. CASE IsDifficultyAdjustmentBoundary(h)
  <2>1. t \in Nat \ {0} /\ Fits(t)
    BY <1>0, TimespanIs
  <2>2. PICK f \in t \div 4 .. t * 4 :
          /\ SetCompact(new) = Rounded(ScaleTarget(old, f, t))
          /\ new = old \/ new = GetCompact(ScaleTarget(old, f, t))
    <3>1. CASE fPowNoRetargeting
      <4>1. new = old
        BY <1>2, <3>1 DEF GetNextWorkRequired, CalculateNextWorkRequired
      <4>2. t \in t \div 4 .. t * 4
        <5> HIDE DEF t
        <5> QED BY <2>1
      <4>3. Rounded(ScaleTarget(old, t, t)) = SetCompact(old)
        BY <1>0, <2>1, ScaledSame
      <4> HIDE DEF new, old, t
      <4> QED BY <4>1, <4>2, <4>3
    <3>2. CASE ~fPowNoRetargeting
      <4> DEFINE first == BlockAt(c, HeightFirst(Height(c))).nTime
                 f == ClampTimespan(Tip(c).nTime - first, t)
      <4>1. new = GetCompact(ScaleTarget(old, f, t))
        BY <1>2, <3>2 DEF GetNextWorkRequired, CalculateNextWorkRequired, Regular
      <4>2. first \in Int /\ Tip(c).nTime \in Int
        <5>1. HeightFirst(Height(c)) \in 0..Height(c)
          BY <1>0, <1>2, ScheduleCorrect
        <5>2. Height(c) = Len(c) - 1 /\ DOMAIN c = 1..Len(c) /\ Len(c) \in Nat
          BY DEF Height, Chain
        <5>3. HeightFirst(Height(c)) + 1 \in DOMAIN c
          BY <5>1, <5>2
        <5> QED BY <5>3, ChainHeight DEF BlockAt, Chain
      <4>3. f \in t \div 4 .. t * 4
        <5> HIDE DEF first, t
        <5>1. Tip(c).nTime - first \in Int
          BY <4>2
        <5> QED BY <2>1, <5>1, ClampIs
      <4> HIDE DEF new, f
      <4>4. SetCompact(new) = Rounded(ScaleTarget(old, f, t))
        BY <4>1 DEF Rounded
      <4> QED BY <4>1, <4>3, <4>4
    <3> QED BY <3>1, <3>2
  <2> HIDE DEF new, old, t
  <2>3. /\ ScaleTarget(old, f, t) \in 0..ArithModulus - 1
        /\ ScaleTarget(old, f, t) \in 0..powLimit
        /\ Rounded(ScaleTarget(old, f, t)) <= Rounded(ScaleTarget(old, t * 4, t))
        /\ Rounded(ScaleTarget(old, f, t)) >= Rounded(ScaleTarget(old, t \div 4, t))
    BY <1>0, <2>1, ScaledWithin
  <2>4. PermittedDifficultyTransition(h, old, new)
    BY <1>2, <2>2, <2>3 DEF PermittedDifficultyTransition, Rounded, t
  <2>5. Bits(new)
    <3> DEFINE y == ScaleTarget(old, f, t)
    <3>1. Rounded(y) \in 0..y /\ Rounded(Rounded(y)) = Rounded(y) /\ y \in 0..powLimit
      BY <2>3, RoundedTwice
    <3> HIDE DEF y
    <3>2. Rounded(y) \in 0..powLimit
      BY <3>1, DifficultyAssumption
    <3> QED BY <2>2, <3>1, <3>2 DEF Bits, y
  <2> QED BY <2>4, <2>5 DEF new, old
<1> QED BY <1>1, <1>2

(* The links of a chain, each as the presync judges it.                    *)
Links(c) ==
  /\ \A i \in DOMAIN c : Bits(c[i].nBits)
  /\ \A h \in 1..Height(c) :
       PermittedDifficultyTransition(h, BlockAt(c, h - 1).nBits, BlockAt(c, h).nBits)

LinksOK == Links(chain) /\ (job # NoJob => Links(job.prev))

LEMMA AppendLinks ==
  ASSUME ~fPowAllowMinDifficultyBlocks, Regular, NEW c, Chain(c), Links(c),
         NEW block, block.nBits = GetNextWorkRequired(c, block.nTime)
  PROVE  Links(Append(c, block))
<1> DEFINE d == Append(c, block)
<1>1. PICK S : c \in Seq(S) /\ c # <<>>
  BY DEF Chain
<1>2. /\ Len(c) \in Nat \ {0} /\ DOMAIN c = 1..Len(c) /\ Len(d) = Len(c) + 1
      /\ DOMAIN d = 1..Len(c) + 1
      /\ d[Len(c) + 1] = block /\ \A i \in 1..Len(c) : d[i] = c[i]
  BY <1>1
<1> HIDE DEF d
<1>3. Bits(Tip(c).nBits)
  BY <1>2 DEF Links, Tip
<1>4. Bits(block.nBits) /\ PermittedDifficultyTransition(Height(c) + 1, Tip(c).nBits, block.nBits)
  BY <1>3, NextPermitted
<1>5. \A i \in DOMAIN d : Bits(d[i].nBits)
  <2>1. \A i \in DOMAIN d : i = Len(c) + 1 \/ i \in 1..Len(c)
    BY <1>2
  <2> QED BY <1>2, <1>4, <2>1 DEF Links
<1>6. ASSUME NEW h \in 1..Height(d)
      PROVE  PermittedDifficultyTransition(h, BlockAt(d, h - 1).nBits, BlockAt(d, h).nBits)
  <2>1. Height(d) = Height(c) + 1 /\ Height(c) = Len(c) - 1
    BY <1>2 DEF Height
  <2>2. CASE h = Height(d)
    <3>1. h + 1 = Len(c) + 1 /\ (h - 1) + 1 = Len(c) /\ Len(c) \in 1..Len(c)
      BY <1>2, <2>1, <2>2
    <3>2. BlockAt(d, h) = block /\ BlockAt(d, h - 1) = Tip(c)
      BY <1>2, <3>1 DEF BlockAt, Tip
    <3> QED BY <1>4, <2>1, <2>2, <3>2
  <2>3. CASE h # Height(d)
    <3>1. h \in 1..Height(c) /\ h + 1 \in 1..Len(c) /\ (h - 1) + 1 \in 1..Len(c)
      <4>1. Height(d) = Len(c) /\ Len(c) \in Nat
        BY <1>2, <2>1
      <4>2. h \in 1..Len(c) /\ h # Len(c)
        BY <2>3, <4>1
      <4>3. h \in 1..Len(c) - 1 /\ h + 1 \in 1..Len(c) /\ (h - 1) + 1 \in 1..Len(c)
        BY <4>1, <4>2
      <4> QED BY <2>1, <4>3
    <3>2. BlockAt(d, h) = BlockAt(c, h) /\ BlockAt(d, h - 1) = BlockAt(c, h - 1)
      BY <1>2, <3>1 DEF BlockAt
    <3> QED BY <3>1, <3>2 DEF Links
  <2> QED BY <2>2, <2>3
<1> QED BY <1>5, <1>6 DEF Links, d

LEMMA LinksInit == ASSUME Regular PROVE MiningInit => LinksOK
<1> SUFFICES ASSUME MiningInit PROVE LinksOK
  OBVIOUS
<1>1. powLimit \in 0..ArithModulus - 1
  <2>1. powLimit \in Nat \ {0} /\ nPowTargetTimespan \in Nat \ {0} /\ ArithModulus \in Nat
    BY DifficultyAssumption, PowerType DEF ArithModulus
  <2>2. powLimit * (nPowTargetTimespan * 4) < ArithModulus
    BY DEF Regular, Fits
  <2>3. \A a, b \in Nat \ {0} : a <= a * (b * 4) /\ a * (b * 4) \in Nat
    OBVIOUS
  <2>4. powLimit <= powLimit * (nPowTargetTimespan * 4) /\ powLimit * (nPowTargetTimespan * 4) \in Nat
    BY <2>1, <2>3
  <2> QED BY <2>1, <2>2, <2>4
<1>2. Bits(GetCompact(powLimit))
  BY <1>1, RoundedTwice DEF Bits, Rounded
<1>3. chain = <<Genesis>> /\ job = NoJob
  BY DEF MiningInit, ChainInit
<1>4. \A i \in DOMAIN <<Genesis>> : <<Genesis>>[i] = Genesis
  OBVIOUS
<1>5. Genesis.nBits = GetCompact(powLimit)
  BY DEF Genesis
<1> HIDE DEF Genesis
<1>6. Height(<<Genesis>>) = 0
  BY DEF Height
<1> QED BY <1>2, <1>3, <1>4, <1>5, <1>6 DEF LinksOK, Links

LEMMA LinksStep ==
  ASSUME ~fPowAllowMinDifficultyBlocks, Regular, ChainsOK, LinksOK, [MiningNext]_miningVars
  PROVE  LinksOK'
<1>0. Chain(chain) /\ Links(chain)
  BY DEF ChainsOK, LinksOK
<1>1. CASE ChainNext /\ UNCHANGED job
  <2>1. Links(chain')
    <3>1. CASE chain' = chain
      BY <1>0, <3>1
    <3>2. ASSUME NEW step \in TimeSteps, ReceiveBlock(step) PROVE Links(chain')
      <4> DEFINE t == Tip(chain).nTime + step
                 block == [nTime |-> t, nBits |-> GetNextWorkRequired(chain, t)]
      <4>1. chain' = chain \/ chain' = Append(chain, block)
        BY <3>2 DEF ReceiveBlock
      <4>2. Links(Append(chain, block))
        BY <1>0, AppendLinks
      <4> QED BY <3>1, <4>1, <4>2
    <3> QED BY <1>1, <3>1, <3>2 DEF ChainNext, AdvanceClock
  <2> QED BY <1>1, <2>1 DEF LinksOK
<1>2. CASE CreateNewBlock
  <2>1. job'.prev = chain /\ chain' = chain
    BY <1>2 DEF CreateNewBlock
  <2> QED BY <1>0, <2>1 DEF LinksOK
<1>3. CASE StartMining \/ TryNonces
  <2>1. PICK prev, tip, time, bits, round : JobOf(prev, tip, time, bits, round)
    BY <1>3 DEF StartMining, TryNonces, Mining, ChainsOK
  <2>2. chain' = chain /\ job # NoJob /\ (job' = NoJob \/ job'.prev = job.prev)
    BY <1>3, <2>1 DEF StartMining, TryNonces, Mining, JobOf, Job
  <2> QED BY <1>0, <2>2 DEF LinksOK
<1>4. CASE GiveUp
  BY <1>0, <1>4 DEF GiveUp, LinksOK
<1>5. CASE SolveBlock
  <2>1. Chain(job.prev) /\ Links(job.prev)
    BY <1>5 DEF SolveBlock, Mining, ChainsOK, LinksOK, JobOf, Job
  <2>2. /\ job' = NoJob
        /\ \/ chain' = chain
           \/ /\ chain' = Append(job.prev, job.block)
              /\ CheckHeader(job.prev, job.block) = "accepted"
    BY <1>5 DEF SolveBlock
  <2>3. CheckHeader(job.prev, job.block) = "accepted"
          => job.block.nBits = GetNextWorkRequired(job.prev, job.block.nTime)
    BY DEF CheckHeader
  <2>4. Links(chain')
    BY <1>0, <2>1, <2>2, <2>3, AppendLinks
  <2> QED BY <2>2, <2>4 DEF LinksOK
<1>6. CASE UNCHANGED miningVars
  BY <1>6 DEF miningVars, LinksOK
<1> QED BY <1>1, <1>2, <1>3, <1>4, <1>5, <1>6 DEF MiningNext

(* The presync refuses no header that GetNextWorkRequired asks for, for    *)
(* every limit and timespan whose product fits, every base and mantissa of *)
(* the compact form, and wherever the fork is: rounding to compact form    *)
(* keeps the order of targets.                                             *)
THEOREM PresyncPermitsCorrect ==
  ASSUME fPowAllowMinDifficultyBlocks \/ Regular
  PROVE  MiningSpec => []PresyncPermitsChain
<1>1. CASE fPowAllowMinDifficultyBlocks
  <2>1. PresyncPermitsChain
    BY <1>1 DEF PresyncPermitsChain, PermittedDifficultyTransition
  <2> QED BY <2>1, PTL
<1>2. CASE ~fPowAllowMinDifficultyBlocks /\ Regular
  <2>1. MiningInit => ChainsOK /\ LinksOK
    BY <1>2, ChainsInit, LinksInit
  <2>2. ChainsOK /\ LinksOK /\ [MiningNext]_miningVars => ChainsOK' /\ LinksOK'
    BY <1>2, ChainsStep, LinksStep
  <2>3. LinksOK => PresyncPermitsChain
    BY DEF LinksOK, Links, PresyncPermitsChain
  <2> QED BY <2>1, <2>2, <2>3, PTL DEF MiningSpec
<1> QED BY <1>1, <1>2

-----------------------------------------------------------------------------
(* Recursion over the numbers up to n: F makes of the number k and the     *)
(* value for k - 1 the value for k.                                        *)
StepIn(F, n, S) == F \in [(1..n) \X S -> S]

Recurs(g, F, n, S, base) ==
  /\ g \in [0..n -> S] /\ g[0] = base
  /\ \A k \in 1..n : g[k] = F[<<k, g[k - 1]>>]

LEMMA Recursion ==
  ASSUME NEW S, NEW base, base \in S, NEW n \in Nat, NEW F, StepIn(F, n, S)
  PROVE  \E g : Recurs(g, F, n, S, base)
<1> DEFINE Good(m, g) == /\ g \in [0..m -> S] /\ g[0] = base
                         /\ \A k \in 1..m : g[k] = F[<<k, g[k - 1]>>]
           Bad == {m \in 0..n : ~\E g : Good(m, g)}
<1> USE DEF StepIn
<1> SUFFICES \E g : Good(n, g)
  BY DEF Recurs
<1> SUFFICES ASSUME Bad # {} PROVE FALSE
  <2>1. n \in 0..n
    OBVIOUS
  <2> QED BY <2>1
<1>1. PICK m \in Bad : \A y \in Bad : m <= y
  <2>1. Bad \subseteq Nat
    OBVIOUS
  <2> HIDE DEF Bad
  <2> QED BY <2>1, Least
<1>2. CASE m = 0
  <2>1. Good(m, [i \in 0..m |-> base])
    BY <1>2
  <2> QED BY <2>1
<1>3. CASE m # 0
  <2>1. m - 1 \in 0..n /\ ~(m <= m - 1) /\ m \in 1..n /\ m \in Nat
    BY <1>3
  <2>2. PICK f : Good(m - 1, f)
    BY <1>1, <2>1
  <2>3. m - 1 \in 0..m - 1 /\ f[m - 1] \in S
    BY <2>1, <2>2
  <2> DEFINE e == F[<<m, f[m - 1]>>]
             g == [i \in 0..m |-> IF i = m THEN e ELSE f[i]]
  <2>4. e \in S
    BY <2>1, <2>3
  <2>5. \A i \in 0..m : i # m => i \in 0..m - 1
    BY <2>1
  <2> HIDE DEF e
  <2>6. g \in [0..m -> S] /\ g[0] = base
    BY <1>3, <2>1, <2>2, <2>4, <2>5
  <2>7. ASSUME NEW i \in 1..m PROVE g[i] = F[<<i, g[i - 1]>>]
    <3>1. i \in 0..m /\ i - 1 \in 0..m /\ i - 1 # m
      BY <2>1
    <3>2. g[i - 1] = f[i - 1]
      BY <3>1
    <3>3. CASE i = m
      BY <3>1, <3>2, <3>3 DEF e
    <3>4. CASE i # m
      <4>1. i \in 1..m - 1
        BY <2>1, <3>4
      <4> QED BY <2>2, <3>1, <3>2, <3>4, <4>1
    <3> QED BY <3>3, <3>4
  <2>8. Good(m, g)
    BY <2>6, <2>7
  <2> QED BY <2>8
<1> QED BY <1>2, <1>3

(* The same over the subsets of 1..n, which a fold from the left takes     *)
(* apart from their largest member.                                        *)
FoldsUp(it, F, n, S, base) ==
  /\ it \in [SUBSET (1..n) -> S]
  /\ \A s \in SUBSET (1..n) :
       it[s] = IF s = {} THEN base ELSE F[<<Max(s), it[s \ {Max(s)}]>>]

LEMMA FoldExists ==
  ASSUME NEW S, NEW base, base \in S, NEW n \in Nat, NEW F, StepIn(F, n, S)
  PROVE  \E it : FoldsUp(it, F, n, S, base)
<1> DEFINE Good(m, g) == /\ g \in [SUBSET (1..m) -> S]
                         /\ \A s \in SUBSET (1..m) :
                              g[s] = IF s = {} THEN base ELSE F[<<Max(s), g[s \ {Max(s)}]>>]
           Bad == {m \in 0..n : ~\E g : Good(m, g)}
<1> USE DEF StepIn
<1> SUFFICES \E g : Good(n, g)
  BY DEF FoldsUp
<1> SUFFICES ASSUME Bad # {} PROVE FALSE
  <2>1. n \in 0..n
    OBVIOUS
  <2> QED BY <2>1
<1>1. PICK m \in Bad : \A y \in Bad : m <= y
  <2>1. Bad \subseteq Nat
    OBVIOUS
  <2> HIDE DEF Bad
  <2> QED BY <2>1, Least
<1>2. CASE m = 0
  <2>1. SUBSET (1..m) = {{}}
    BY <1>2
  <2> DEFINE g == [s \in SUBSET (1..m) |-> base]
  <2>2. g \in [SUBSET (1..m) -> S]
    OBVIOUS
  <2>3. \A s \in SUBSET (1..m) : s = {} /\ g[s] = base
    BY <2>1
  <2> HIDE DEF g
  <2>4. Good(m, g)
    BY <2>2, <2>3
  <2> QED BY <2>4
<1>3. CASE m # 0
  <2>1. m - 1 \in 0..n /\ ~(m <= m - 1) /\ m \in 1..n /\ m \in Nat
    BY <1>3
  <2>2. PICK f : Good(m - 1, f)
    BY <1>1, <2>1
  <2> DEFINE g == [s \in SUBSET (1..m) |-> IF m \in s THEN F[<<m, f[s \ {m}]>>] ELSE f[s]]
  <2>3. ASSUME NEW s \in SUBSET (1..m)
        PROVE  s \ {m} \in SUBSET (1..m - 1) /\ (m \notin s => s \in SUBSET (1..m - 1))
    BY <2>1
  <2>4. ASSUME NEW s \in SUBSET (1..m), m \in s PROVE Max(s) = m
    <3>1. \A y \in s : y \in Int /\ m >= y
      BY <2>1
    <3>2. \A x \in s : (\A y \in s : x >= y) <=> x = m
      BY <2>1, <2>4, <3>1
    <3> QED BY <2>4, <3>2 DEF Max
  <2>5. g \in [SUBSET (1..m) -> S]
    <3> SUFFICES ASSUME NEW s \in SUBSET (1..m)
                 PROVE  (IF m \in s THEN F[<<m, f[s \ {m}]>>] ELSE f[s]) \in S
      OBVIOUS
    <3>1. f[s \ {m}] \in S /\ (m \notin s => f[s] \in S)
      BY <2>2, <2>3
    <3>2. <<m, f[s \ {m}]>> \in (1..n) \X S
      BY <2>1, <3>1
    <3> QED BY <3>1, <3>2
  <2>6. ASSUME NEW s \in SUBSET (1..m)
        PROVE  g[s] = IF s = {} THEN base ELSE F[<<Max(s), g[s \ {Max(s)}]>>]
    <3>1. CASE m \in s
      <4>1. s # {} /\ g[s] = F[<<m, f[s \ {m}]>>]
        BY <3>1
      <4>2. g[s \ {m}] = f[s \ {m}]
        BY <2>3
      <4> QED BY <2>4, <3>1, <4>1, <4>2
    <3>2. CASE m \notin s
      <4>1. g[s] = f[s] /\ s \in SUBSET (1..m - 1)
        BY <2>3, <3>2
      <4>2. f[s] = IF s = {} THEN base ELSE F[<<Max(s), f[s \ {Max(s)}]>>]
        BY <2>2, <4>1
      <4>3. g[s \ {Max(s)}] = f[s \ {Max(s)}]
        BY <3>2
      <4> QED BY <4>1, <4>2, <4>3
    <3> QED BY <3>1, <3>2
  <2> HIDE DEF g
  <2>7. Good(m, g)
    BY <2>5, <2>6
  <2> QED BY <2>7
<1> QED BY <1>2, <1>3

LEMMA MaxUpTo ==
  ASSUME NEW n \in Nat
  PROVE  /\ \A t \in SUBSET (1..n) : t # {} => Max(t) \in t
         /\ \A k \in 1..n : Max(1..k) = k
<1>1. ASSUME NEW t \in SUBSET (1..n), t # {} PROVE Max(t) \in t
  <2>1. IsFiniteSet(t) /\ \A x \in t : x \in Int
    <3>1. IsFiniteSet(1..n)
      BY FS_Interval
    <3>2. IsFiniteSet(t)
      BY <3>1, FS_Subset
    <3>3. \A x \in t : x \in Int
      OBVIOUS
    <3> QED BY <3>2, <3>3
  <2> DEFINE f == [x \in t |-> x]
  <2>2. \A x \in t : f[x] \in Int /\ f[x] = x
    BY <2>1
  <2> HIDE DEF f
  <2>3. PICK m \in t : \A x \in t : f[x] <= f[m]
    BY <1>1, <2>1, <2>2, Largest
  <2>4. \A x \in t : m >= x
    BY <2>1, <2>2, <2>3
  <2> QED BY <2>4 DEF Max
<1>2. ASSUME NEW k \in 1..n PROVE Max(1..k) = k
  <2>1. \A x \in 1..k : (\A y \in 1..k : x >= y) <=> x = k
    OBVIOUS
  <2> QED BY <2>1 DEF Max
<1> QED BY <1>1, <1>2

-----------------------------------------------------------------------------
(* Compact numbers without overflow, headers, and their chains.            *)
Targets == {c \in Nat \X Nat : SetCompact(c) \in 0..ArithModulus - 1}
Headers == [nTime : Int, nBits : Targets]
HeaderChains == Seq(Headers) \ {<<>>}

LEMMA ModulusType == ArithModulus \in Nat \ {0}
BY PowerType, DifficultyAssumption DEF ArithModulus

LEMMA CompactType == ASSUME NEW v \in 0..ArithModulus - 1 PROVE GetCompact(v) \in Targets
<1>1. SetCompact(GetCompact(v)) \in 0..ArithModulus - 1
  BY RoundedTwice, ModulusType DEF Rounded
<1> DEFINE n == NumDigits(v)
           word == IF n <= CompactDigits THEN v * Power[CompactDigits - n]
                                         ELSE v \div Power[n - CompactDigits]
<1>2. n \in 0..ArithDigits /\ CompactDigits \in Nat /\ ArithDigits \in Nat
      /\ ArithDigits > CompactDigits /\ CompactBase \in Nat \ {0} /\ v \in Nat
  BY DigitsAre, DifficultyAssumption, ModulusType
<1> HIDE DEF n
<1>3. word \in Nat
  <2>1. CASE n <= CompactDigits
    <3>1. CompactDigits - n \in 0..ArithDigits
      BY <1>2, <2>1
    <3>2. Power[CompactDigits - n] \in Nat
      BY <3>1, PowerType
    <3>3. v * Power[CompactDigits - n] \in Nat
      BY <1>2, <3>2
    <3> QED BY <2>1, <3>3
  <2>2. CASE ~(n <= CompactDigits)
    <3>1. n - CompactDigits \in 0..ArithDigits
      BY <1>2, <2>2
    <3>2. Power[n - CompactDigits] \in Nat \ {0}
      BY <3>1, PowerType
    <3>3. v \div Power[n - CompactDigits] \in Nat
      BY <1>2, <3>2, Quotient
    <3> QED BY <2>2, <3>3
  <2> QED BY <2>1, <2>2
<1>4. GetCompact(v) = IF word >= SignBit THEN <<n + 1, word \div CompactBase>> ELSE <<n, word>>
  BY DEF GetCompact, n
<1> HIDE DEF word
<1>5. word \div CompactBase \in Nat
  BY <1>2, <1>3, Quotient
<1>6. GetCompact(v) \in Nat \X Nat
  BY <1>2, <1>3, <1>4, <1>5
<1> QED BY <1>1, <1>6 DEF Targets

LEMMA ScaleType ==
  ASSUME NEW c \in Targets, NEW f \in Nat, NEW t \in Nat \ {0}
  PROVE  ScaleTarget(c, f, t) \in 0..ArithModulus - 1
<1> DEFINE x == SetCompact(c) * f
           y == x % ArithModulus
           z == y \div t
<1>1. x \in Nat
  BY ModulusType DEF Targets
<1> HIDE DEF x
<1>2. y \in 0..ArithModulus - 1 /\ y \in Nat
  BY <1>1, ModulusType
<1> HIDE DEF y
<1>3. z \in Nat /\ z <= y
  <2>1. z \in Nat /\ z * t \in Nat /\ z * t <= y
    BY <1>2, Quotient
  <2> HIDE DEF z
  <2>2. z <= z * t
    BY <2>1
  <2> QED BY <1>2, <2>1, <2>2
<1> HIDE DEF z
<1>4. ScaleTarget(c, f, t) = IF z <= powLimit THEN z ELSE powLimit
  BY <1>3, MinOfTwo, DifficultyAssumption DEF ScaleTarget, x, y, z
<1> QED BY <1>2, <1>3, <1>4, ModulusType, DifficultyAssumption

LEMMA ChainIs ==
  ASSUME NEW c \in HeaderChains
  PROVE  /\ Chain(c) /\ Len(c) \in Nat \ {0} /\ Height(c) \in Nat
         /\ \A h \in 0..Height(c) : BlockAt(c, h) \in Headers
         /\ Tip(c) \in Headers
<1>1. c \in Seq(Headers) /\ c # <<>>
  BY DEF HeaderChains
<1>2. Len(c) \in Nat \ {0} /\ \A i \in 1..Len(c) : c[i] \in Headers
  BY <1>1
<1>3. \A h \in 0..Height(c) : h + 1 \in 1..Len(c)
  BY <1>2 DEF Height
<1>4. \A i \in DOMAIN c : c[i].nTime \in Int
  BY <1>1, <1>2 DEF Headers
<1>5. Len(c) \in 1..Len(c)
  BY <1>2
<1> QED BY <1>1, <1>2, <1>3, <1>4, <1>5 DEF Chain, Height, BlockAt, Tip

LEMMA TimespanPositive ==
  ASSUME NEW h \in Nat PROVE PowTargetTimespanAtHeight(h) \in Nat \ {0}
BY DifficultyAssumption DEF PowTargetTimespanAtHeight, PastFork

(* The work that is asked of the next block is a target.                   *)
LEMMA NextWorkType ==
  ASSUME NEW c \in HeaderChains, NEW time PROVE GetNextWorkRequired(c, time) \in Targets
<1>1. /\ Height(c) \in Nat /\ \A h \in 0..Height(c) : BlockAt(c, h) \in Headers
      /\ Tip(c) \in Headers
  BY ChainIs
<1> DEFINE next == Height(c) + 1
           first == HeightFirst(Height(c))
           span == PowTargetTimespanAtHeight(next)
           interval == DifficultyAdjustmentIntervalAtHeight(next)
           actual == ClampTimespan(Tip(c).nTime - BlockAt(c, first).nTime, span)
           base == IF enforce_BIP94 THEN BlockAt(c, Height(c) - (interval - 1)).nBits
                   ELSE Tip(c).nBits
<1>2. ASSUME IsDifficultyAdjustmentBoundary(next)
      PROVE  CalculateNextWorkRequired(c, BlockAt(c, first).nTime, next) \in Targets
  <2>1. first \in 0..Height(c) /\ next - first = interval
    BY <1>1, <1>2, ScheduleCorrect DEF MeasuresOwnPeriod
  <2>2. Height(c) - (interval - 1) = first
    BY <1>1, <2>1
  <2>3. BlockAt(c, first) \in Headers
    BY <1>1, <2>1
  <2>4. base \in Targets
    BY <1>1, <2>2, <2>3 DEF Headers
  <2>5. Tip(c).nTime \in Int /\ BlockAt(c, first).nTime \in Int
    BY <1>1, <2>3 DEF Headers
  <2>6. span \in Nat \ {0}
    BY <1>1, TimespanPositive
  <2>7. actual \in Nat
    <3>1. actual \in span \div 4 .. span * 4
      <4>1. Tip(c).nTime - BlockAt(c, first).nTime \in Int /\ span \in Nat
        BY <2>5, <2>6
      <4> HIDE DEF span
      <4> QED BY <4>1, ClampIs
    <3>2. span \div 4 \in Nat
      BY <2>6
    <3> QED BY <2>6, <3>1, <3>2
  <2> HIDE DEF base, actual, span
  <2>8. GetCompact(ScaleTarget(base, actual, span)) \in Targets
    BY <2>4, <2>6, <2>7, ScaleType, CompactType
  <2> QED BY <1>1, <2>8 DEF CalculateNextWorkRequired, base, actual, span, Headers
<1>3. GetCompact(powLimit) \in Targets
  BY CompactType, LimitAssumption, ModulusType, DifficultyAssumption
<1>4. LastNonSpecialBits(c) \in Targets
  <2> DEFINE limit == GetCompact(powLimit)
             stops == {h \in 0..Height(c) : \/ h = 0
                                            \/ IsDifficultyAdjustmentBoundary(h)
                                            \/ BlockAt(c, h).nBits # limit}
  <2>1. IsFiniteSet(stops)
    <3>1. IsFiniteSet(0..Height(c)) /\ stops \in SUBSET (0..Height(c))
      BY <1>1, FS_Interval
    <3> QED BY <3>1, FS_Subset
  <2>2. 0 \in stops
    BY <1>1
  <2>3. \A h \in stops : h \in 0..Height(c) /\ h \in Int
    BY <1>1
  <2> HIDE DEF stops
  <2>4. PICK m \in stops : \A h \in stops : h <= m
    <3> DEFINE f == [h \in stops |-> h]
    <3>1. \E m \in stops : \A h \in stops : f[h] <= f[m]
      <4>1. \A h \in stops : f[h] \in Int
        BY <2>3
      <4> HIDE DEF f
      <4> QED BY <2>1, <2>2, <4>1, Largest
    <3> QED BY <3>1
  <2>5. Max(stops) \in stops
    BY <2>3, <2>4 DEF Max
  <2>6. BlockAt(c, Max(stops)).nBits \in Targets
    BY <1>1, <2>3, <2>5 DEF Headers
  <2> QED BY <2>6 DEF LastNonSpecialBits, stops
<1>5. Tip(c).nBits \in Targets
  BY <1>1 DEF Headers
<1> QED BY <1>2, <1>3, <1>4, <1>5 DEF GetNextWorkRequired

LEMMA BlockProofType == ASSUME NEW c \in Targets PROVE GetBlockProof(c) \in Nat
<1> DEFINE t == SetCompact(c)
<1>1. t \in 0..ArithModulus - 1
  BY DEF Targets
<1> HIDE DEF t
<1>2. ArithModulus - 1 - t \in Nat /\ t + 1 \in Nat \ {0}
  BY <1>1, ModulusType
<1>3. (ArithModulus - 1 - t) \div (t + 1) \in Nat
  BY <1>2, Quotient
<1> QED BY <1>3 DEF GetBlockProof, t

-----------------------------------------------------------------------------
(* The work of a chain is that of its prefixes, one block at a time.       *)
Works(c, g) ==
  /\ g \in [0..Len(c) -> Nat] /\ g[0] = 0
  /\ \A k \in 1..Len(c) : g[k] = g[k - 1] + GetBlockProof(c[k].nBits)

LEMMA WorkIs ==
  ASSUME NEW c \in Seq(Headers) PROVE \E g : Works(c, g) /\ ChainWork(c) = g[Len(c)]
<1> DEFINE n == Len(c)
           F == [x \in (1..n) \X Nat |-> x[2] + GetBlockProof(c[x[1]].nBits)]
           G(g) == [k \in 0..n |-> IF k = 0 THEN 0 ELSE g[k - 1] + GetBlockProof(c[k].nBits)]
<1>1. n \in Nat /\ \A k \in 1..n : GetBlockProof(c[k].nBits) \in Nat
  <2>1. \A k \in 1..n : c[k] \in Headers
    OBVIOUS
  <2>2. \A k \in 1..n : c[k].nBits \in Targets
    BY <2>1 DEF Headers
  <2> QED BY <2>2, BlockProofType
<1>2. F \in [(1..n) \X Nat -> Nat]
  BY <1>1
<1>3. \A k \in 1..n, w \in Nat : F[<<k, w>>] = w + GetBlockProof(c[k].nBits)
  OBVIOUS
<1> HIDE DEF F
<1>4. PICK g : /\ g \in [0..n -> Nat] /\ g[0] = 0
               /\ \A k \in 1..n : g[k] = F[<<k, g[k - 1]>>]
  <2>1. \E g : Recurs(g, F, n, Nat, 0)
    BY <1>1, <1>2, Recursion DEF StepIn
  <2> QED BY <2>1 DEF Recurs
<1>5. \A k \in 1..n : k - 1 \in 0..n
  BY <1>1
<1>6. \A k \in 1..n : g[k] = g[k - 1] + GetBlockProof(c[k].nBits)
  BY <1>3, <1>4, <1>5
<1>7. g = G(g)
  <2>1. \A k \in 0..n : k # 0 => k \in 1..n
    BY <1>1
  <2> QED BY <1>4, <1>6, <2>1
<1> DEFINE f == CHOOSE f : f = G(f)
<1>8. f = G(f)
  BY <1>7
<1>9. ChainWork(c) = f[n]
  BY DEF ChainWork
<1> HIDE DEF f
<1>10. f[0] = 0 /\ \A k \in 1..n : f[k] = f[k - 1] + GetBlockProof(c[k].nBits)
  BY <1>1, <1>8
<1>11. \A k \in 0..n : f[k] = g[k]
  <2> DEFINE Bad == {k \in 0..n : f[k] # g[k]}
  <2> SUFFICES ASSUME Bad # {} PROVE FALSE
    OBVIOUS
  <2>1. PICK k \in Bad : \A y \in Bad : k <= y
    <3>1. Bad \subseteq Nat
      OBVIOUS
    <3> HIDE DEF Bad
    <3> QED BY <3>1, Least
  <2>2. k \in 1..n /\ k - 1 \in 0..n /\ ~(k <= k - 1)
    BY <1>1, <1>4, <1>10
  <2>3. f[k - 1] = g[k - 1]
    BY <2>1, <2>2
  <2> QED BY <1>6, <1>10, <2>2, <2>3
<1>12. Works(c, g) /\ n \in 0..n
  BY <1>1, <1>4, <1>6 DEF Works
<1> QED BY <1>9, <1>11, <1>12

LEMMA WorkType == ASSUME NEW c \in Seq(Headers) PROVE ChainWork(c) \in Nat
<1>1. PICK g : Works(c, g) /\ ChainWork(c) = g[Len(c)]
  BY WorkIs
<1>2. Len(c) \in 0..Len(c)
  OBVIOUS
<1> QED BY <1>1, <1>2 DEF Works

LEMMA WorkAppend ==
  ASSUME NEW c \in Seq(Headers), NEW h \in Headers
  PROVE  ChainWork(Append(c, h)) = ChainWork(c) + GetBlockProof(h.nBits)
<1> DEFINE d == Append(c, h)
           n == Len(c)
<1>0. n \in Nat /\ d \in Seq(Headers) /\ Len(d) = n + 1 /\ d[n + 1] = h
      /\ \A k \in 1..n : d[k] = c[k]
  OBVIOUS
<1> HIDE DEF d
<1>1. PICK f : Works(c, f) /\ ChainWork(c) = f[n]
  BY WorkIs
<1>2. PICK g : Works(d, g) /\ ChainWork(d) = g[n + 1]
  BY <1>0, WorkIs
<1> HIDE DEF n
<1>3. /\ f[0] = 0 /\ \A k \in 1..n : f[k] = f[k - 1] + GetBlockProof(c[k].nBits)
      /\ g[0] = 0 /\ \A k \in 1..n + 1 : g[k] = g[k - 1] + GetBlockProof(d[k].nBits)
  BY <1>0, <1>1, <1>2 DEF Works, n
<1>4. \A k \in 0..n : f[k] = g[k]
  <2> DEFINE Bad == {k \in 0..n : f[k] # g[k]}
  <2> SUFFICES ASSUME Bad # {} PROVE FALSE
    OBVIOUS
  <2>1. PICK k \in Bad : \A y \in Bad : k <= y
    <3>1. Bad \subseteq Nat
      OBVIOUS
    <3> HIDE DEF Bad
    <3> QED BY <3>1, Least
  <2>2. k \in 1..n /\ k \in 1..n + 1 /\ k - 1 \in 0..n /\ ~(k <= k - 1)
    BY <1>0, <1>3
  <2>3. f[k - 1] = g[k - 1] /\ d[k] = c[k]
    BY <1>0, <2>1, <2>2
  <2> QED BY <1>3, <2>2, <2>3
<1>5. n \in 0..n /\ n + 1 \in 1..n + 1 /\ (n + 1) - 1 = n
  BY <1>0
<1>6. g[n + 1] = g[n] + GetBlockProof(h.nBits)
  BY <1>0, <1>3, <1>5
<1> QED BY <1>1, <1>2, <1>4, <1>5, <1>6 DEF d

(* a is the beginning of b.                                                *)
Begins(a, b) == Len(a) <= Len(b) /\ \A i \in 1..Len(a) : a[i] = b[i]

LEMMA PrefixIs ==
  ASSUME NEW S, NEW a \in Seq(S), NEW b \in Seq(S) PROVE IsPrefix(a, b) <=> Begins(a, b)
<1>1. Len(a) \in Nat /\ Len(b) \in Nat /\ SubSeq(a, 1, Len(a)) = a
  OBVIOUS
<1>2. CASE Len(a) <= Len(b)
  <2>1. /\ SubSeq(b, 1, Len(a)) \in Seq(S) /\ Len(SubSeq(b, 1, Len(a))) = Len(a)
        /\ \A i \in 1..Len(a) : SubSeq(b, 1, Len(a))[i] = b[i]
    BY <1>1, <1>2
  <2> QED BY <1>1, <1>2, <2>1 DEF IsPrefix, Begins
<1> QED BY <1>1, <1>2 DEF IsPrefix, Begins

LEMMA BeginsAppend ==
  ASSUME NEW S, NEW a \in Seq(S), NEW b \in Seq(S), NEW h \in S, Begins(a, b)
  PROVE  Begins(a, Append(b, h))
BY DEF Begins

LEMMA BeginsSelf == ASSUME NEW S, NEW a \in Seq(S) PROVE Begins(a, a)
BY DEF Begins

LEMMA BeginsMore ==
  ASSUME NEW S, NEW a \in Seq(S), NEW b \in Seq(S), NEW c \in Seq(S), Begins(a, b), Begins(b, c)
  PROVE  Begins(a, c)
BY DEF Begins

LEMMA BeginsConcat ==
  ASSUME NEW S, NEW a \in Seq(S), NEW b \in Seq(S) PROVE Begins(a, a \o b)
BY DEF Begins

LEMMA ConcatNext ==
  ASSUME NEW S, NEW a \in Seq(S), NEW b \in Seq(S), NEW k \in 1..Len(b)
  PROVE  Append(a \o SubSeq(b, 1, k - 1), b[k]) = a \o SubSeq(b, 1, k)
<1>1. SubSeq(b, 1, k) = Append(SubSeq(b, 1, k - 1), b[k])
  OBVIOUS
<1>2. SubSeq(b, 1, k - 1) \in Seq(S) /\ b[k] \in S
  OBVIOUS
<1> QED BY <1>1, <1>2

-----------------------------------------------------------------------------
(* The first phase.                                                        *)

Syncs ==
  [m_download_state : {"PRESYNC", "REDOWNLOAD"}, ok : BOOLEAN,
   m_chain_start : HeaderChains, m_commit_offset : 0..commitment_period - 1,
   m_max_commitments : Int, m_header_commitments : Seq(HeaderChains),
   m_current_chain_work : Int, m_last_header_received : HeaderChains,
   m_redownloaded_headers : Seq(Headers), m_redownload_chain_work : Int,
   m_redownload_buffer_first_prev_hash : Seq(Headers),
   m_redownload_buffer_last_hash : Seq(Headers),
   m_process_all_remaining_headers : BOOLEAN]

(* The commitments are to headers of the chain that was received.          *)
Committed(s) ==
  \A i \in 1..Len(s.m_header_commitments) :
    Begins(s.m_header_commitments[i], s.m_last_header_received)

PresyncOK(s) ==
  s.ok => /\ s.m_current_chain_work = ChainWork(s.m_last_header_received)
          /\ Committed(s)
          /\ ~s.m_process_all_remaining_headers

(* What one header makes of the sync s.                                    *)
PresyncStep(s, hdr, r) ==
  /\ r \in Syncs /\ r.m_download_state = "PRESYNC" /\ PresyncOK(r)
  /\ r.m_chain_start = s.m_chain_start
  /\ r.ok => s.ok /\ r.m_last_header_received = Append(s.m_last_header_received, hdr)

LEMMA PresyncHeader ==
  ASSUME NEW s \in Syncs, s.m_download_state = "PRESYNC", PresyncOK(s), NEW hdr \in Headers
  PROVE  PresyncStep(s, hdr, ValidateAndProcessSingleHeader(s, hdr))
<1> DEFINE last == s.m_last_header_received
           current == Append(last, hdr)
           cs == s.m_header_commitments
           commitments == IF HasCommitment(s, Height(current)) THEN Append(cs, current) ELSE cs
           work == s.m_current_chain_work + GetBlockProof(hdr.nBits)
           good == [s EXCEPT !.m_header_commitments = commitments,
                             !.m_current_chain_work = work,
                             !.m_last_header_received = current]
           bad == [s EXCEPT !.ok = FALSE]
           r == ValidateAndProcessSingleHeader(s, hdr)
<1>1. last \in Seq(Headers) /\ last # <<>> /\ cs \in Seq(HeaderChains)
      /\ s.m_current_chain_work \in Int /\ GetBlockProof(hdr.nBits) \in Nat
  BY BlockProofType DEF Syncs, HeaderChains, Headers
<1>2. current \in Seq(Headers) /\ current \in HeaderChains
  BY <1>1 DEF HeaderChains
<1>3. commitments \in Seq(HeaderChains)
  BY <1>1, <1>2
<1>4. work \in Int
  BY <1>1
<1>5. r = bad \/ (s.ok /\ r = good)
  BY DEF ValidateAndProcessSingleHeader
<1> SUFFICES PresyncStep(s, hdr, r)
  OBVIOUS
<1> HIDE DEF r
<1>6. CASE r = bad
  <2>1. bad \in Syncs /\ bad.m_download_state = "PRESYNC" /\ ~bad.ok
        /\ bad.m_chain_start = s.m_chain_start
    BY DEF Syncs
  <2> HIDE DEF bad
  <2> QED BY <1>6, <2>1 DEF PresyncStep, PresyncOK
<1>7. CASE s.ok /\ r = good
  <2>1. s.m_current_chain_work = ChainWork(last) /\ Committed(s) /\ ~s.m_process_all_remaining_headers
    BY <1>7 DEF PresyncOK
  <2>2. work = ChainWork(current)
    BY <1>1, <2>1, WorkAppend
  <2>3. ASSUME NEW i \in 1..Len(commitments) PROVE Begins(commitments[i], current)
    <3>1. CASE i \in 1..Len(cs)
      <4>1. commitments[i] = cs[i] /\ cs[i] \in Seq(Headers)
        BY <1>1, <1>2, <3>1 DEF HeaderChains
      <4>2. Begins(cs[i], last)
        BY <2>1, <3>1 DEF Committed
      <4> QED BY <1>1, <4>1, <4>2, BeginsAppend
    <3>2. CASE i \notin 1..Len(cs)
      <4>1. commitments[i] = current
        <5>1. CASE HasCommitment(s, Height(current))
          <6>1. commitments = Append(cs, current) /\ Len(commitments) = Len(cs) + 1
            BY <1>1, <5>1
          <6>2. i = Len(cs) + 1
            BY <1>1, <2>3, <3>2, <6>1
          <6> QED BY <1>1, <6>1, <6>2
        <5>2. CASE ~HasCommitment(s, Height(current))
          BY <2>3, <3>2, <5>2
        <5> QED BY <5>1, <5>2
      <4> QED BY <1>2, <4>1, BeginsSelf
    <3> QED BY <3>1, <3>2
  <2> HIDE DEF commitments, work, current, last
  <2>4. /\ good \in Syncs /\ good.m_download_state = "PRESYNC"
        /\ good.m_chain_start = s.m_chain_start /\ good.m_last_header_received = current
        /\ good.m_header_commitments = commitments /\ good.m_current_chain_work = work
        /\ good.m_process_all_remaining_headers = s.m_process_all_remaining_headers
    BY <1>2, <1>3, <1>4 DEF Syncs
  <2> HIDE DEF good
  <2>5. PresyncOK(good)
    BY <2>1, <2>2, <2>3, <2>4 DEF PresyncOK, Committed
  <2> QED BY <1>7, <2>4, <2>5 DEF PresyncStep, current, last
<1> QED BY <1>5, <1>6, <1>7

(* All headers of a message, one after the other.                          *)
PresyncAll(s, headers) == FoldLeft(ValidateAndProcessSingleHeader, s, headers)

PresyncSteps(g, s, headers) ==
  /\ g[0] = s /\ g[Len(headers)] = PresyncAll(s, headers)
  /\ \A k \in 1..Len(headers) : g[k] = ValidateAndProcessSingleHeader(g[k - 1], headers[k])

LEMMA PresyncFold ==
  ASSUME NEW S, NEW s, s \in S, NEW headers \in Seq(Headers),
         \A x \in S, h \in Headers : ValidateAndProcessSingleHeader(x, h) \in S
  PROVE  \E g : PresyncSteps(g, s, headers)
<1> DEFINE n == Len(headers)
           F == [x \in (1..n) \X S |-> ValidateAndProcessSingleHeader(x[2], headers[x[1]])]
           G(it) == [t \in SUBSET (1..n) |->
                       IF t = {} THEN s
                       ELSE ValidateAndProcessSingleHeader(it[t \ {Max(t)}], headers[Max(t)])]
           f == CHOOSE it : it = G(it)
<1>1. n \in Nat /\ DOMAIN headers = 1..n /\ \A k \in 1..n : headers[k] \in Headers
  OBVIOUS
<1>2. PresyncAll(s, headers) = f[1..n]
  BY <1>1 DEF PresyncAll, FoldLeft, MapThenFoldSet
<1> HIDE DEF n
<1>3. F \in [(1..n) \X S -> S]
  BY <1>1
<1>4. \A k \in 1..n, x \in S : F[<<k, x>>] = ValidateAndProcessSingleHeader(x, headers[k])
  OBVIOUS
<1> HIDE DEF F
<1>5. PICK it : /\ it \in [SUBSET (1..n) -> S]
                /\ \A t \in SUBSET (1..n) :
                     it[t] = IF t = {} THEN s ELSE F[<<Max(t), it[t \ {Max(t)}]>>]
  <2>1. \E it : FoldsUp(it, F, n, S, s)
    BY <1>1, <1>3, FoldExists DEF StepIn
  <2> QED BY <2>1 DEF FoldsUp
<1>6. it = G(it)
  <2>1. ASSUME NEW t \in SUBSET (1..n), t # {}
        PROVE  it[t] = ValidateAndProcessSingleHeader(it[t \ {Max(t)}], headers[Max(t)])
    <3>1. Max(t) \in 1..n /\ it[t \ {Max(t)}] \in S
      BY <1>1, <1>5, <2>1, MaxUpTo
    <3> QED BY <1>4, <1>5, <2>1, <3>1
  <2> QED BY <1>5, <2>1
<1>7. f = G(f)
  BY <1>6
<1> HIDE DEF f
<1> DEFINE g == [k \in 0..n |-> f[1..k]]
<1>8. g[0] = s
  <2>1. 1..0 = {} /\ 0 \in 0..n /\ {} \in SUBSET (1..n)
    BY <1>1
  <2> QED BY <1>7, <2>1
<1>9. ASSUME NEW k \in 1..n PROVE g[k] = ValidateAndProcessSingleHeader(g[k - 1], headers[k])
  <2>1. 1..k \in SUBSET (1..n) /\ 1..k # {} /\ (1..k) \ {k} = 1..k - 1
    <3>1. k \in Nat /\ k \in 1..k /\ \A i \in 1..k : i \in 1..n
      BY <1>1
    <3>2. (1..k) \ {k} = 1..k - 1
      BY <3>1
    <3> QED BY <3>1, <3>2
  <2>3. Max(1..k) = k
    BY <1>1, MaxUpTo
  <2>2. k \in 0..n /\ k - 1 \in 0..n
    BY <1>1
  <2> QED BY <1>7, <2>1, <2>2, <2>3
<1>10. n \in 0..n
  BY <1>1
<1>11. g[n] = f[1..n]
  BY <1>10
<1> HIDE DEF g
<1> QED BY <1>2, <1>8, <1>9, <1>10, <1>11 DEF PresyncSteps, n

LEMMA PresyncHeaders ==
  ASSUME NEW s \in Syncs, s.m_download_state = "PRESYNC", PresyncOK(s),
         NEW headers \in Seq(Headers),
         NEW r, r = PresyncAll(s, headers)
  PROVE  /\ r \in Syncs /\ r.m_download_state = "PRESYNC" /\ PresyncOK(r)
         /\ r.m_chain_start = s.m_chain_start
         /\ r.ok => s.ok /\ r.m_last_header_received = s.m_last_header_received \o headers
<1> DEFINE S == {x \in Syncs : x.m_download_state = "PRESYNC" /\ PresyncOK(x)}
           n == Len(headers)
           last == s.m_last_header_received
<1>1. \A x \in S, h \in Headers : ValidateAndProcessSingleHeader(x, h) \in S
  BY PresyncHeader DEF PresyncStep
<1>2. PICK g : /\ g[0] = s
               /\ \A k \in 1..n : g[k] = ValidateAndProcessSingleHeader(g[k - 1], headers[k])
               /\ r = g[n]
  <2>1. s \in S
    OBVIOUS
  <2> HIDE DEF S
  <2>2. PICK g : PresyncSteps(g, s, headers)
    BY <1>1, <2>1, PresyncFold
  <2> QED BY <2>2 DEF PresyncSteps
<1>3. n \in Nat /\ last \in Seq(Headers)
  BY DEF Syncs, HeaderChains
<1> DEFINE Good(k) ==
             /\ g[k] \in S /\ g[k].m_chain_start = s.m_chain_start
             /\ g[k].ok => s.ok /\ g[k].m_last_header_received = last \o SubSeq(headers, 1, k)
           Bad == {k \in 0..n : ~Good(k)}
<1>4. Good(0)
  <2>1. last \o SubSeq(headers, 1, 0) = last
    BY <1>3
  <2> QED BY <1>2, <2>1
<1>5. ASSUME NEW k \in 1..n, Good(k - 1) PROVE Good(k)
  <2>1. headers[k] \in Headers /\ g[k] = ValidateAndProcessSingleHeader(g[k - 1], headers[k])
    BY <1>2
  <2>2. PresyncStep(g[k - 1], headers[k], g[k])
    BY <1>5, <2>1, PresyncHeader
  <2>3. Append(last \o SubSeq(headers, 1, k - 1), headers[k]) = last \o SubSeq(headers, 1, k)
    BY <1>3, ConcatNext
  <2> QED BY <1>5, <2>2, <2>3 DEF PresyncStep
<1> HIDE DEF Good
<1>6. Bad = {}
  <2> SUFFICES ASSUME Bad # {} PROVE FALSE
    OBVIOUS
  <2>1. PICK k \in Bad : \A y \in Bad : k <= y
    <3>1. Bad \subseteq Nat
      OBVIOUS
    <3> HIDE DEF Bad
    <3> QED BY <3>1, Least
  <2>2. k \in 1..n /\ k - 1 \in 0..n /\ ~(k <= k - 1)
    BY <1>3, <1>4
  <2> QED BY <1>5, <2>1, <2>2
<1>7. Good(n)
  BY <1>3, <1>6
<1>8. SubSeq(headers, 1, n) = headers
  OBVIOUS
<1> QED BY <1>2, <1>7, <1>8 DEF Good

-----------------------------------------------------------------------------
(* The second phase.                                                       *)

(* a and b agree up to their k-th header.                                  *)
SameUpTo(a, b, k) == k <= Len(b) /\ \A i \in 1..k : a[i] = b[i]

(* Where a commitment was due, the chain that is downloaded again is the   *)
(* one of the first phase.                                                 *)
Covered(s) ==
  \A k \in Len(s.m_chain_start) + 1 .. Len(s.m_redownload_buffer_last_hash) :
    HasCommitment(s, k - 1) =>
      SameUpTo(s.m_redownload_buffer_last_hash, s.m_last_header_received, k)

RedownloadOK(s) ==
  s.ok =>
    /\ ChainWork(s.m_last_header_received) >= MinimumChainWork
    /\ Committed(s)
    /\ s.m_redownload_buffer_last_hash =
         s.m_redownload_buffer_first_prev_hash \o s.m_redownloaded_headers
    /\ s.m_redownload_chain_work = ChainWork(s.m_redownload_buffer_last_hash)
    /\ Len(s.m_chain_start) <= Len(s.m_redownload_buffer_first_prev_hash)
    /\ (s.m_process_all_remaining_headers => s.m_redownload_chain_work >= MinimumChainWork)
    /\ (~s.m_process_all_remaining_headers => Covered(s))

RedownloadStep(s, hdr, r) ==
  /\ r \in Syncs /\ r.m_download_state = "REDOWNLOAD" /\ RedownloadOK(r)
  /\ r.m_chain_start = s.m_chain_start /\ r.m_last_header_received = s.m_last_header_received
  /\ r.m_redownload_buffer_first_prev_hash = s.m_redownload_buffer_first_prev_hash
  /\ r.ok => /\ s.ok
             /\ r.m_redownload_buffer_last_hash = Append(s.m_redownload_buffer_last_hash, hdr)

LEMMA RedownloadHeader ==
  ASSUME NEW s \in Syncs, s.m_download_state = "REDOWNLOAD", RedownloadOK(s), NEW hdr \in Headers
  PROVE  RedownloadStep(s, hdr, ValidateAndStoreRedownloadedHeader(s, hdr))
<1> DEFINE L == s.m_redownload_buffer_last_hash
           last == s.m_last_header_received
           start == s.m_chain_start
           current == Append(L, hdr)
           cs == s.m_header_commitments
           buffer == s.m_redownloaded_headers
           work == s.m_redownload_chain_work + GetBlockProof(hdr.nBits)
           all == s.m_process_all_remaining_headers \/ work >= MinimumChainWork
           checked == ~all /\ HasCommitment(s, Height(current))
           rest == IF checked THEN Tail(cs) ELSE cs
           more == Append(buffer, hdr)
           good == [s EXCEPT !.m_redownload_chain_work = work,
                             !.m_process_all_remaining_headers = all,
                             !.m_header_commitments = rest,
                             !.m_redownloaded_headers = more,
                             !.m_redownload_buffer_last_hash = current]
           bad == [s EXCEPT !.ok = FALSE]
           r == ValidateAndStoreRedownloadedHeader(s, hdr)
<1>1. /\ L \in Seq(Headers) /\ cs \in Seq(HeaderChains) /\ buffer \in Seq(Headers)
      /\ s.m_redownload_chain_work \in Int /\ GetBlockProof(hdr.nBits) \in Nat
      /\ s.m_redownload_buffer_first_prev_hash \in Seq(Headers)
      /\ start \in Seq(Headers) /\ last \in Seq(Headers)
      /\ s.m_process_all_remaining_headers \in BOOLEAN
  BY BlockProofType DEF Syncs, HeaderChains, Headers
<1>2. current \in Seq(Headers) /\ Len(current) = Len(L) + 1 /\ more \in Seq(Headers)
      /\ current[Len(L) + 1] = hdr /\ \A i \in 1..Len(L) : current[i] = L[i]
  BY <1>1
<1>3. work \in Int /\ all \in BOOLEAN
  BY <1>1, HeadersSyncAssumption
<1>4. r = bad \/ (r = good /\ s.ok /\ (checked => cs # <<>> /\ Head(cs) = current))
  BY DEF ValidateAndStoreRedownloadedHeader
<1> SUFFICES RedownloadStep(s, hdr, r)
  OBVIOUS
<1> HIDE DEF r
<1>5. CASE r = bad
  <2>1. bad \in Syncs /\ bad.m_download_state = "REDOWNLOAD" /\ ~bad.ok
        /\ bad.m_chain_start = s.m_chain_start
        /\ bad.m_last_header_received = s.m_last_header_received
        /\ bad.m_redownload_buffer_first_prev_hash = s.m_redownload_buffer_first_prev_hash
    BY DEF Syncs
  <2> HIDE DEF bad
  <2> QED BY <1>5, <2>1 DEF RedownloadStep, RedownloadOK
<1>6. CASE r = good /\ s.ok /\ (checked => cs # <<>> /\ Head(cs) = current)
  <2>1. /\ ChainWork(last) >= MinimumChainWork /\ Committed(s)
        /\ L = s.m_redownload_buffer_first_prev_hash \o buffer
        /\ s.m_redownload_chain_work = ChainWork(L)
        /\ Len(start) <= Len(s.m_redownload_buffer_first_prev_hash)
        /\ s.m_process_all_remaining_headers => s.m_redownload_chain_work >= MinimumChainWork
    BY <1>6 DEF RedownloadOK
  <2>2. ~s.m_process_all_remaining_headers => Covered(s)
    BY <1>6 DEF RedownloadOK
  <2>3. work = ChainWork(current)
    BY <1>1, <2>1, WorkAppend
  <2>4. current = s.m_redownload_buffer_first_prev_hash \o more
    <3>1. ASSUME NEW a \in Seq(Headers), NEW b \in Seq(Headers)
          PROVE  Append(a \o b, hdr) = a \o Append(b, hdr)
      OBVIOUS
    <3> QED BY <1>1, <2>1, <3>1, Zenon
  <2>5. all => work >= MinimumChainWork
    BY <1>1, <2>1, HeadersSyncAssumption
  <2>6. rest \in Seq(HeaderChains)
    BY <1>1, <1>6
  <2>7. ASSUME NEW i \in 1..Len(rest) PROVE Begins(rest[i], last)
    <3>1. CASE checked
      <4>1. i + 1 \in 1..Len(cs) /\ rest[i] = cs[i + 1]
        BY <1>1, <1>6, <2>7, <3>1
      <4> QED BY <2>1, <4>1 DEF Committed
    <3>2. CASE ~checked
      BY <2>1, <2>7, <3>2 DEF Committed
    <3> QED BY <3>1, <3>2
  <2>8. ASSUME NEW k \in Len(start) + 1 .. Len(current), HasCommitment(s, k - 1), ~all
        PROVE  SameUpTo(current, last, k)
    <3>1. CASE k = Len(L) + 1
      <4>1. Height(current) = k - 1
        BY <1>1, <1>2, <3>1 DEF Height
      <4>2. checked /\ Head(cs) = current /\ cs # <<>>
        BY <1>6, <2>8, <4>1
      <4>3. 1 \in 1..Len(cs) /\ cs[1] = current
        BY <1>1, <4>2
      <4>4. Begins(current, last)
        BY <2>1, <4>3 DEF Committed
      <4> QED BY <1>2, <3>1, <4>4 DEF Begins, SameUpTo
    <3>2. CASE k # Len(L) + 1
      <4>1. k \in Len(start) + 1 .. Len(L)
        BY <1>1, <1>2, <3>2
      <4>2. SameUpTo(L, last, k)
        BY <2>2, <2>8, <4>1 DEF Covered
      <4>3. \A i \in 1..k : i \in 1..Len(L)
        BY <1>1, <4>1
      <4> QED BY <1>2, <4>2, <4>3 DEF SameUpTo
    <3> QED BY <3>1, <3>2
  <2> HIDE DEF rest, all, work, current, more
  <2>9. /\ good \in Syncs /\ good.m_download_state = "REDOWNLOAD"
        /\ good.m_chain_start = start /\ good.m_last_header_received = last
        /\ good.m_redownload_buffer_first_prev_hash = s.m_redownload_buffer_first_prev_hash
        /\ good.m_redownload_buffer_last_hash = current /\ good.m_redownloaded_headers = more
        /\ good.m_redownload_chain_work = work /\ good.m_header_commitments = rest
        /\ good.m_process_all_remaining_headers = all
        /\ good.m_commit_offset = s.m_commit_offset
    BY <1>2, <1>3, <2>6 DEF Syncs
  <2> HIDE DEF good
  <2>10. ~all => Covered(good)
    BY <2>8, <2>9 DEF Covered, HasCommitment
  <2>11. Committed(good)
    BY <2>7, <2>9 DEF Committed
  <2>12. RedownloadOK(good)
    BY <2>1, <2>3, <2>4, <2>5, <2>9, <2>10, <2>11 DEF RedownloadOK
  <2> QED BY <1>6, <2>9, <2>12 DEF RedownloadStep, current
<1> QED BY <1>4, <1>5, <1>6

RedownloadAll(s, headers) == FoldLeft(ValidateAndStoreRedownloadedHeader, s, headers)

RedownloadSteps(g, s, headers) ==
  /\ g[0] = s /\ g[Len(headers)] = RedownloadAll(s, headers)
  /\ \A k \in 1..Len(headers) : g[k] = ValidateAndStoreRedownloadedHeader(g[k - 1], headers[k])

LEMMA RedownloadFold ==
  ASSUME NEW S, NEW s, s \in S, NEW headers \in Seq(Headers),
         \A x \in S, h \in Headers : ValidateAndStoreRedownloadedHeader(x, h) \in S
  PROVE  \E g : RedownloadSteps(g, s, headers)
<1> DEFINE n == Len(headers)
           F == [x \in (1..n) \X S |-> ValidateAndStoreRedownloadedHeader(x[2], headers[x[1]])]
           G(it) == [t \in SUBSET (1..n) |->
                       IF t = {} THEN s
                       ELSE ValidateAndStoreRedownloadedHeader(it[t \ {Max(t)}], headers[Max(t)])]
           f == CHOOSE it : it = G(it)
<1>1. n \in Nat /\ DOMAIN headers = 1..n /\ \A k \in 1..n : headers[k] \in Headers
  OBVIOUS
<1>2. RedownloadAll(s, headers) = f[1..n]
  BY <1>1 DEF RedownloadAll, FoldLeft, MapThenFoldSet
<1> HIDE DEF n
<1>3. F \in [(1..n) \X S -> S]
  BY <1>1
<1>4. \A k \in 1..n, x \in S : F[<<k, x>>] = ValidateAndStoreRedownloadedHeader(x, headers[k])
  OBVIOUS
<1> HIDE DEF F
<1>5. PICK it : /\ it \in [SUBSET (1..n) -> S]
                /\ \A t \in SUBSET (1..n) :
                     it[t] = IF t = {} THEN s ELSE F[<<Max(t), it[t \ {Max(t)}]>>]
  <2>1. \E it : FoldsUp(it, F, n, S, s)
    BY <1>1, <1>3, FoldExists DEF StepIn
  <2> QED BY <2>1 DEF FoldsUp
<1>6. it = G(it)
  <2>1. ASSUME NEW t \in SUBSET (1..n), t # {}
        PROVE  it[t] = ValidateAndStoreRedownloadedHeader(it[t \ {Max(t)}], headers[Max(t)])
    <3>1. Max(t) \in 1..n /\ it[t \ {Max(t)}] \in S
      BY <1>1, <1>5, <2>1, MaxUpTo
    <3> QED BY <1>4, <1>5, <2>1, <3>1
  <2> QED BY <1>5, <2>1
<1>7. f = G(f)
  BY <1>6
<1> HIDE DEF f
<1> DEFINE g == [k \in 0..n |-> f[1..k]]
<1>8. g[0] = s
  <2>1. 1..0 = {} /\ 0 \in 0..n /\ {} \in SUBSET (1..n)
    BY <1>1
  <2> QED BY <1>7, <2>1
<1>9. ASSUME NEW k \in 1..n PROVE g[k] = ValidateAndStoreRedownloadedHeader(g[k - 1], headers[k])
  <2>1. 1..k \in SUBSET (1..n) /\ 1..k # {} /\ (1..k) \ {k} = 1..k - 1
    <3>1. k \in Nat /\ k \in 1..k /\ \A i \in 1..k : i \in 1..n
      BY <1>1
    <3>2. (1..k) \ {k} = 1..k - 1
      BY <3>1
    <3> QED BY <3>1, <3>2
  <2>3. Max(1..k) = k
    BY <1>1, MaxUpTo
  <2>2. k \in 0..n /\ k - 1 \in 0..n
    BY <1>1
  <2> QED BY <1>7, <2>1, <2>2, <2>3
<1>10. n \in 0..n
  BY <1>1
<1>11. g[n] = f[1..n]
  BY <1>10
<1> HIDE DEF g
<1> QED BY <1>2, <1>8, <1>9, <1>10, <1>11 DEF RedownloadSteps, n


LEMMA RedownloadHeaders ==
  ASSUME NEW s \in Syncs, s.m_download_state = "REDOWNLOAD", RedownloadOK(s),
         NEW headers \in Seq(Headers),
         NEW r, r = RedownloadAll(s, headers)
  PROVE  /\ r \in Syncs /\ r.m_download_state = "REDOWNLOAD" /\ RedownloadOK(r)
         /\ r.m_chain_start = s.m_chain_start
         /\ r.m_last_header_received = s.m_last_header_received
         /\ r.m_redownload_buffer_first_prev_hash = s.m_redownload_buffer_first_prev_hash
         /\ r.ok => /\ s.ok
                    /\ r.m_redownload_buffer_last_hash =
                         s.m_redownload_buffer_last_hash \o headers
<1> DEFINE S == {x \in Syncs : x.m_download_state = "REDOWNLOAD" /\ RedownloadOK(x)}
           n == Len(headers)
           L == s.m_redownload_buffer_last_hash
<1>1. \A x \in S, h \in Headers : ValidateAndStoreRedownloadedHeader(x, h) \in S
  BY RedownloadHeader DEF RedownloadStep
<1>2. PICK g : /\ g[0] = s
               /\ \A k \in 1..n : g[k] = ValidateAndStoreRedownloadedHeader(g[k - 1], headers[k])
               /\ r = g[n]
  <2>1. s \in S
    OBVIOUS
  <2> HIDE DEF S
  <2>2. PICK g : RedownloadSteps(g, s, headers)
    BY <1>1, <2>1, RedownloadFold
  <2> QED BY <2>2 DEF RedownloadSteps
<1>3. n \in Nat /\ L \in Seq(Headers)
  BY DEF Syncs
<1> DEFINE Good(k) ==
             /\ g[k] \in S /\ g[k].m_chain_start = s.m_chain_start
             /\ g[k].m_last_header_received = s.m_last_header_received
             /\ g[k].m_redownload_buffer_first_prev_hash = s.m_redownload_buffer_first_prev_hash
             /\ g[k].ok => /\ s.ok
                           /\ g[k].m_redownload_buffer_last_hash = L \o SubSeq(headers, 1, k)
           Bad == {k \in 0..n : ~Good(k)}
<1>4. Good(0)
  <2>1. L \o SubSeq(headers, 1, 0) = L
    BY <1>3
  <2> QED BY <1>2, <2>1
<1>5. ASSUME NEW k \in 1..n, Good(k - 1) PROVE Good(k)
  <2>1. headers[k] \in Headers /\ g[k] = ValidateAndStoreRedownloadedHeader(g[k - 1], headers[k])
    BY <1>2
  <2>2. RedownloadStep(g[k - 1], headers[k], g[k])
    BY <1>5, <2>1, RedownloadHeader
  <2>3. Append(L \o SubSeq(headers, 1, k - 1), headers[k]) = L \o SubSeq(headers, 1, k)
    BY <1>3, ConcatNext
  <2> QED BY <1>5, <2>2, <2>3 DEF RedownloadStep
<1> HIDE DEF Good
<1>6. Bad = {}
  <2> SUFFICES ASSUME Bad # {} PROVE FALSE
    OBVIOUS
  <2>1. PICK k \in Bad : \A y \in Bad : k <= y
    <3>1. Bad \subseteq Nat
      OBVIOUS
    <3> HIDE DEF Bad
    <3> QED BY <3>1, Least
  <2>2. k \in 1..n /\ k - 1 \in 0..n /\ ~(k <= k - 1)
    BY <1>3, <1>4
  <2> QED BY <1>5, <2>1, <2>2
<1>7. Good(n)
  BY <1>3, <1>6
<1>8. SubSeq(headers, 1, n) = headers
  OBVIOUS
<1> QED BY <1>2, <1>7, <1>8 DEF Good

-----------------------------------------------------------------------------
(* A sequence b that is cut after m elements and begins with p.            *)
Cut(p, b, x, y, m, S) ==
  /\ x \in Seq(S) /\ y \in Seq(S) /\ p \o x \in Seq(S)
  /\ Len(x) = m /\ Len(p \o x) = Len(p) + m
  /\ (p \o x) \o y = p \o b
  /\ \A i \in 1..Len(p \o x) : (p \o x)[i] = (p \o b)[i]
  /\ m = Len(b) => y = <<>>

LEMMA CutIs ==
  ASSUME NEW S, NEW p \in Seq(S), NEW b \in Seq(S), NEW m \in 0..Len(b)
  PROVE  Cut(p, b, SubSeq(b, 1, m), SubSeq(b, m + 1, Len(b)), m, S)
<1> DEFINE x == SubSeq(b, 1, m)
           y == SubSeq(b, m + 1, Len(b))
<1>1. Len(b) \in Nat /\ Len(p) \in Nat /\ m \in Nat
  OBVIOUS
<1>2. x \in Seq(S) /\ Len(x) = m /\ \A i \in 1..m : x[i] = b[i]
  BY <1>1
<1>3. y \in Seq(S) /\ Len(y) = Len(b) - m /\ \A i \in 1..Len(b) - m : y[i] = b[m + i]
  BY <1>1
<1> HIDE DEF x, y
<1> DEFINE px == p \o x
           pb == p \o b
<1>4. px \in Seq(S) /\ Len(px) = Len(p) + m
      /\ (\A i \in 1..Len(p) : px[i] = p[i]) /\ \A i \in 1..m : px[Len(p) + i] = x[i]
  BY <1>1, <1>2
<1>5. pb \in Seq(S) /\ Len(pb) = Len(p) + Len(b)
      /\ (\A i \in 1..Len(p) : pb[i] = p[i]) /\ \A i \in 1..Len(b) : pb[Len(p) + i] = b[i]
  BY <1>1
<1> HIDE DEF px, pb
<1>6. ASSUME NEW i \in 1..Len(px) PROVE px[i] = pb[i]
  <2>1. CASE i \in 1..Len(p)
    BY <1>4, <1>5, <2>1
  <2>2. CASE i \notin 1..Len(p)
    <3>1. i - Len(p) \in 1..m /\ i - Len(p) \in 1..Len(b) /\ Len(p) + (i - Len(p)) = i
      BY <1>1, <1>4, <2>2
    <3> QED BY <1>2, <1>4, <1>5, <3>1
  <2> QED BY <2>1, <2>2
<1> DEFINE z == px \o y
<1>7. z \in Seq(S) /\ Len(z) = Len(pb)
      /\ (\A i \in 1..Len(px) : z[i] = px[i]) /\ \A i \in 1..Len(y) : z[Len(px) + i] = y[i]
  <2>1. z \in Seq(S) /\ Len(z) = Len(px) + Len(y)
        /\ (\A i \in 1..Len(px) : z[i] = px[i]) /\ \A i \in 1..Len(y) : z[Len(px) + i] = y[i]
    <3>1. px \in Seq(S) /\ y \in Seq(S)
      BY <1>3, <1>4
    <3> QED BY <3>1
  <2>2. Len(px) + Len(y) = Len(pb)
    BY <1>1, <1>3, <1>4, <1>5
  <2> QED BY <2>1, <2>2
<1> HIDE DEF z
<1>8. ASSUME NEW i \in 1..Len(pb) PROVE z[i] = pb[i]
  <2>1. CASE i \in 1..Len(px)
    BY <1>6, <1>7, <2>1
  <2>2. CASE i \notin 1..Len(px)
    <3> DEFINE j == i - Len(px)
    <3>1. j \in 1..Len(b) - m /\ m + j \in 1..Len(b) /\ Len(px) + j = i /\ Len(p) + (m + j) = i
      BY <1>1, <1>4, <1>5, <2>2
    <3>2. z[i] = y[j] /\ y[j] = b[m + j] /\ pb[i] = b[m + j]
      BY <1>3, <1>5, <1>7, <3>1
    <3> QED BY <3>2
  <2> QED BY <2>1, <2>2
<1>9. z = pb
  BY <1>5, <1>7, <1>8
<1>10. m = Len(b) => y = <<>>
  BY <1>1, <1>3
<1>11. Cut(p, b, x, y, m, S)
  BY <1>2, <1>3, <1>4, <1>6, <1>9, <1>10 DEF Cut, px, pb, z
<1> QED BY <1>11 DEF x, y

LEMMA ReadyIs ==
  ASSUME NEW s \in Syncs
  PROVE  /\ ReadyForAcceptance(s) \in 0..Len(s.m_redownloaded_headers)
         /\ s.m_process_all_remaining_headers =>
              ReadyForAcceptance(s) = Len(s.m_redownloaded_headers)
         /\ ~s.m_process_all_remaining_headers /\ ReadyForAcceptance(s) # 0 =>
              ReadyForAcceptance(s) = Len(s.m_redownloaded_headers) - redownload_buffer_size
<1> DEFINE n == Len(s.m_redownloaded_headers)
<1>1. n \in Nat /\ redownload_buffer_size \in Nat
  BY HeadersSyncAssumption DEF Syncs
<1> HIDE DEF n
<1>2. Max({0, n - redownload_buffer_size}) =
        IF 0 >= n - redownload_buffer_size THEN 0 ELSE n - redownload_buffer_size
  <2>1. 0 \in Int /\ n - redownload_buffer_size \in Int
    BY <1>1
  <2> QED BY <2>1, MaxOfTwo
<1>3. ReadyForAcceptance(s) = IF s.m_process_all_remaining_headers THEN n
                              ELSE Max({0, n - redownload_buffer_size})
  BY DEF ReadyForAcceptance, n
<1> QED BY <1>1, <1>2, <1>3 DEF n

(* The headers that leave the buffer move the start of what remains.       *)
LEMMA PopIs ==
  ASSUME NEW s \in Syncs, s.m_download_state = "REDOWNLOAD", s.ok, RedownloadOK(s),
         NEW r, r = PopHeadersReadyForAcceptance(s),
         NEW ready, ready = SubSeq(s.m_redownloaded_headers, 1, ReadyForAcceptance(s))
  PROVE  /\ r \in Syncs /\ r.m_download_state = "REDOWNLOAD" /\ r.ok /\ RedownloadOK(r)
         /\ r.m_chain_start = s.m_chain_start
         /\ r.m_redownload_buffer_last_hash = s.m_redownload_buffer_last_hash
         /\ r.m_redownload_buffer_first_prev_hash =
              s.m_redownload_buffer_first_prev_hash \o ready
         /\ ready \in Seq(Headers)
         /\ r.m_process_all_remaining_headers = s.m_process_all_remaining_headers
         /\ r.m_process_all_remaining_headers => r.m_redownloaded_headers = <<>>
<1> DEFINE B == s.m_redownloaded_headers
           P == s.m_redownload_buffer_first_prev_hash
           m == ReadyForAcceptance(s)
           rest == SubSeq(B, m + 1, Len(B))
           first == P \o ready
<1>1. B \in Seq(Headers) /\ P \in Seq(Headers) /\ m \in 0..Len(B)
      /\ (s.m_process_all_remaining_headers => m = Len(B))
  BY ReadyIs DEF Syncs
<1>2. /\ s.m_redownload_buffer_last_hash = P \o B
      /\ Len(s.m_chain_start) <= Len(P)
  BY DEF RedownloadOK
<1>3. r = [s EXCEPT !.m_redownloaded_headers = rest, !.m_redownload_buffer_first_prev_hash = first]
  BY DEF PopHeadersReadyForAcceptance
<1> HIDE DEF m
<1>4. ready = SubSeq(B, 1, m)
  BY DEF m
<1> HIDE DEF B, P
<1>5. /\ ready \in Seq(Headers) /\ rest \in Seq(Headers) /\ first \in Seq(Headers)
      /\ first \o rest = P \o B /\ Len(first) = Len(P) + m
      /\ m = Len(B) => rest = <<>>
  <2>1. Cut(P, B, SubSeq(B, 1, m), SubSeq(B, m + 1, Len(B)), m, Headers)
    BY <1>1, CutIs
  <2>2. Cut(P, B, ready, rest, m, Headers)
    BY <1>4, <2>1
  <2> HIDE DEF rest
  <2> QED BY <2>2 DEF Cut
<1>6. Len(P) \in Nat /\ m \in Nat
  BY <1>1
<1> HIDE DEF rest, first
<1>8. s.m_chain_start \in Seq(Headers) /\ Len(s.m_chain_start) \in Nat
  BY DEF Syncs, HeaderChains
<1>9. /\ r \in Syncs /\ r.m_download_state = "REDOWNLOAD" /\ r.ok
      /\ r.m_chain_start = s.m_chain_start
      /\ r.m_redownload_buffer_last_hash = s.m_redownload_buffer_last_hash
      /\ r.m_redownload_buffer_first_prev_hash = first
      /\ r.m_redownloaded_headers = rest
      /\ r.m_last_header_received = s.m_last_header_received
      /\ r.m_header_commitments = s.m_header_commitments
      /\ r.m_redownload_chain_work = s.m_redownload_chain_work
      /\ r.m_commit_offset = s.m_commit_offset
      /\ r.m_process_all_remaining_headers = s.m_process_all_remaining_headers
  BY <1>3, <1>5 DEF Syncs
<1>10. Committed(s) => Committed(r)
  BY <1>9 DEF Committed
<1>11. Covered(s) => Covered(r)
  BY <1>9 DEF Covered, HasCommitment
<1>12. Len(s.m_chain_start) <= Len(first)
  BY <1>2, <1>5, <1>6, <1>8
<1>13. RedownloadOK(r)
  BY <1>2, <1>5, <1>9, <1>10, <1>11, <1>12 DEF RedownloadOK
<1> QED BY <1>1, <1>5, <1>9, <1>13 DEF first, P

(* Of so many heights in a row, one has a commitment.                      *)
LEMMA CommitmentNear ==
  ASSUME NEW s \in Syncs, NEW n \in Nat
  PROVE  \E h \in n .. n + redownload_buffer_size : HasCommitment(s, h)
<1> DEFINE p == commitment_period
           o == s.m_commit_offset
           q == n \div p
           r == n % p
<1>1. p \in Nat \ {0} /\ o \in 0..p - 1 /\ redownload_buffer_size \in Nat
      /\ redownload_buffer_size + 1 >= p
  BY HeadersSyncAssumption DEF Syncs
<1>2. q \in Nat /\ r \in 0..p - 1 /\ n = (p * q) + r
  BY <1>1, DivMod
<1> HIDE DEF p, o, q, r
<1>3. p * q \in Nat
  BY <1>1, <1>2
<1>4. CASE o >= r
  <2> DEFINE h == (p * q) + o
  <2>1. h % p = o
    BY <1>1, <1>2, ModUnique
  <2>2. h \in n .. n + redownload_buffer_size
    BY <1>1, <1>2, <1>3, <1>4
  <2> HIDE DEF h
  <2> QED BY <2>1, <2>2 DEF HasCommitment, p, o
<1>5. CASE o < r
  <2> DEFINE h == (p * (q + 1)) + o
  <2>1. h % p = o
    BY <1>1, <1>2, ModUnique
  <2>2. p * (q + 1) = (p * q) + p
    BY <1>1, <1>2
  <2>3. h \in n .. n + redownload_buffer_size
    BY <1>1, <1>2, <1>3, <1>5, <2>2
  <2> HIDE DEF h
  <2> QED BY <2>1, <2>3 DEF HasCommitment, p, o
<1> QED BY <1>1, <1>2, <1>4, <1>5

(* What leaves the buffer is the beginning of a chain with enough work:    *)
(* that of the message, or that of the first phase, because a commitment   *)
(* was checked at its end or behind it.                                    *)
LEMMA ReleasedHasWork ==
  ASSUME NEW s \in Syncs, s.m_download_state = "REDOWNLOAD", s.ok, RedownloadOK(s),
         ReadyForAcceptance(s) # 0,
         NEW b, b = s.m_redownload_buffer_first_prev_hash
                      \o SubSeq(s.m_redownloaded_headers, 1, ReadyForAcceptance(s))
  PROVE  /\ Begins(b, s.m_redownload_buffer_last_hash)
         /\ \E c \in {s.m_redownload_buffer_last_hash, s.m_last_header_received} :
              Begins(b, c) /\ ChainWork(c) >= MinimumChainWork
<1> DEFINE B == s.m_redownloaded_headers
           P == s.m_redownload_buffer_first_prev_hash
           L == s.m_redownload_buffer_last_hash
           last == s.m_last_header_received
           start == s.m_chain_start
           m == ReadyForAcceptance(s)
<1>1. B \in Seq(Headers) /\ P \in Seq(Headers) /\ m \in 0..Len(B) /\ L \in Seq(Headers)
      /\ start \in Seq(Headers) /\ last \in Seq(Headers)
  BY ReadyIs DEF Syncs, HeaderChains
<1>2. /\ L = P \o B /\ Len(start) <= Len(P)
      /\ ChainWork(last) >= MinimumChainWork
      /\ s.m_redownload_chain_work = ChainWork(L)
      /\ s.m_process_all_remaining_headers => s.m_redownload_chain_work >= MinimumChainWork
      /\ ~s.m_process_all_remaining_headers => Covered(s)
  BY DEF RedownloadOK
<1>3. ~s.m_process_all_remaining_headers => m = Len(B) - redownload_buffer_size
  BY ReadyIs
<1>4. m # 0 /\ redownload_buffer_size \in Nat /\ b = P \o SubSeq(B, 1, m)
  BY HeadersSyncAssumption
<1> HIDE DEF B, P, L, last, start, m
<1>5. b \in Seq(Headers) /\ Len(b) = Len(P) + m /\ Len(L) = Len(P) + Len(B)
      /\ \A i \in 1..Len(b) : b[i] = L[i]
  <2>1. /\ P \o SubSeq(B, 1, m) \in Seq(Headers) /\ Len(P \o SubSeq(B, 1, m)) = Len(P) + m
        /\ \A i \in 1..Len(P \o SubSeq(B, 1, m)) : (P \o SubSeq(B, 1, m))[i] = (P \o B)[i]
    <3>1. Cut(P, B, SubSeq(B, 1, m), SubSeq(B, m + 1, Len(B)), m, Headers)
      BY <1>1, CutIs
    <3> QED BY <3>1 DEF Cut
  <2>2. Len(P \o B) = Len(P) + Len(B)
    BY <1>1
  <2> QED BY <1>2, <1>4, <2>1, <2>2
<1>6. Begins(b, L)
  BY <1>1, <1>5 DEF Begins
<1>7. CASE s.m_process_all_remaining_headers
  BY <1>2, <1>6, <1>7 DEF L
<1>8. CASE ~s.m_process_all_remaining_headers
  <2> DEFINE n == Len(b) - 1
  <2>1. Len(P) \in Nat /\ Len(B) \in Nat /\ Len(start) \in Nat /\ m \in Nat
    BY <1>1
  <2>6. m = Len(B) - redownload_buffer_size /\ Len(start) <= Len(P)
    BY <1>2, <1>3, <1>8
  <2>7. n = (Len(P) + m) - 1 /\ n \in Nat
    BY <1>4, <1>5, <2>1
  <2> HIDE DEF n
  <2>2. PICK h \in n .. n + redownload_buffer_size : HasCommitment(s, h)
    BY <2>7, CommitmentNear
  <2>8. h \in Nat /\ h >= n /\ h <= n + redownload_buffer_size
    BY <1>4, <2>2, <2>7
  <2>9. h + 1 <= Len(P) + Len(B) /\ Len(start) + 1 <= h + 1 /\ Len(P) + m <= h + 1
    BY <1>4, <2>1, <2>6, <2>7, <2>8
  <2>3. h + 1 \in Len(start) + 1 .. Len(L) /\ (h + 1) - 1 = h /\ Len(b) <= h + 1 /\ h + 1 \in Nat
    BY <1>5, <2>1, <2>8, <2>9
  <2>4. SameUpTo(L, last, h + 1)
    BY <1>2, <1>8, <2>2, <2>3 DEF Covered, L, last, start
  <2>5. Begins(b, last)
    <3> DEFINE k == Len(b)
    <3>0. k \in Nat /\ k <= h + 1 /\ h + 1 \in Nat
      BY <1>5, <2>1, <2>3
    <3> HIDE DEF k
    <3>1. Len(last) \in Nat /\ h + 1 <= Len(last)
      BY <1>1, <2>4 DEF SameUpTo
    <3>2. k <= Len(last) /\ \A i \in 1..k : i \in 1..h + 1
      BY <3>0, <3>1
    <3>3. \A i \in 1..k : b[i] = last[i]
      BY <1>5, <2>4, <3>2 DEF SameUpTo, k
    <3> QED BY <3>2, <3>3 DEF Begins, k
  <2> QED BY <1>2, <1>6, <2>5 DEF L, last
<1> QED BY <1>6, <1>7, <1>8 DEF L

-----------------------------------------------------------------------------
(* A sync between two messages.                                            *)
Live(s) ==
  /\ s \in Syncs /\ s.ok /\ ~s.m_process_all_remaining_headers
  /\ s.m_download_state = "PRESYNC" => PresyncOK(s)
  /\ s.m_download_state = "REDOWNLOAD" => RedownloadOK(s)

(* The sync r after a message that the sync s took in full.                *)
GoesOn(s, whole, ready, r) ==
  /\ Live(r) /\ r.m_chain_start = s.m_chain_start
  /\ r.m_download_state = "PRESYNC" => ready = <<>> /\ r.m_last_header_received = whole
  /\ r.m_download_state = "REDOWNLOAD" /\ s.m_download_state = "PRESYNC" =>
       /\ ready = <<>>
       /\ r.m_redownload_buffer_first_prev_hash = s.m_chain_start
       /\ r.m_redownload_buffer_last_hash = s.m_chain_start
  /\ r.m_download_state = "REDOWNLOAD" /\ s.m_download_state = "REDOWNLOAD" =>
       /\ r.m_redownload_buffer_first_prev_hash = s.m_redownload_buffer_first_prev_hash \o ready
       /\ r.m_redownload_buffer_last_hash = whole

(* What the sync s lets go with the message that made its chain whole.     *)
LetsGo(s, whole, prev, ready) ==
  /\ s.m_download_state = "REDOWNLOAD" /\ prev = s.m_redownload_buffer_first_prev_hash
  /\ Begins(prev \o ready, whole)
  /\ \E c \in {whole, s.m_last_header_received} :
       Begins(prev \o ready, c) /\ ChainWork(c) >= MinimumChainWork

Taken(s, whole, R) ==
  /\ R.success \in BOOLEAN /\ R.request_more \in BOOLEAN
  /\ (R.request_more => R.success /\ GoesOn(s, whole, R.ready, R.sync))
  /\ (~R.request_more => R.sync = NoSync)
  /\ (R.success => R.ready \in Seq(Headers))
  /\ (R.success /\ R.ready # <<>> => LetsGo(s, whole, R.prev, R.ready))

LEMMA Refused ==
  ASSUME NEW s, NEW whole, NEW r, r.ok = FALSE, NEW more \in BOOLEAN, NEW prev, NEW ready
  PROVE  Taken(s, whole, Result(r, more, prev, ready))
<1> DEFINE R == Result(r, more, prev, ready)
<1>1. R.success = FALSE /\ R.request_more = FALSE /\ R.sync = NoSync
  BY DEF Result
<1> SUFFICES Taken(s, whole, R)
  OBVIOUS
<1> HIDE DEF R
<1> QED BY <1>1 DEF Taken

LEMMA RedownloadBegins ==
  ASSUME NEW s \in Syncs, s.m_download_state = "PRESYNC", s.ok, PresyncOK(s),
         s.m_current_chain_work >= MinimumChainWork
  PROVE  /\ Live(ToRedownload(s)) /\ ToRedownload(s).m_download_state = "REDOWNLOAD"
         /\ ToRedownload(s).m_chain_start = s.m_chain_start
         /\ ToRedownload(s).m_redownload_buffer_first_prev_hash = s.m_chain_start
         /\ ToRedownload(s).m_redownload_buffer_last_hash = s.m_chain_start
<1> DEFINE r == ToRedownload(s)
           start == s.m_chain_start
<1>1. start \in Seq(Headers) /\ ChainWork(start) \in Int /\ <<>> \in Seq(Headers)
  BY WorkType DEF Syncs, HeaderChains
<1>2. /\ r \in Syncs /\ r.m_download_state = "REDOWNLOAD" /\ r.ok
      /\ r.m_chain_start = start
      /\ r.m_redownload_buffer_first_prev_hash = start
      /\ r.m_redownload_buffer_last_hash = start
      /\ r.m_redownloaded_headers = <<>>
      /\ r.m_redownload_chain_work = ChainWork(start)
      /\ r.m_last_header_received = s.m_last_header_received
      /\ r.m_header_commitments = s.m_header_commitments
      /\ r.m_process_all_remaining_headers = s.m_process_all_remaining_headers
  BY <1>1 DEF Syncs, ToRedownload
<1> HIDE DEF r
<1>3. /\ ~s.m_process_all_remaining_headers /\ Committed(s)
      /\ ChainWork(s.m_last_header_received) >= MinimumChainWork
  BY DEF PresyncOK
<1>4. start = start \o <<>> /\ Len(start) <= Len(start) /\ Len(start) \in Nat
  BY <1>1
<1>5. Committed(r)
  BY <1>2, <1>3 DEF Committed
<1>6. Covered(r)
  BY <1>2, <1>4 DEF Covered
<1>7. RedownloadOK(r)
  BY <1>2, <1>3, <1>4, <1>5, <1>6 DEF RedownloadOK
<1> QED BY <1>2, <1>3, <1>7 DEF Live, r

LEMMA TakenPresync ==
  ASSUME NEW s, Live(s), s.m_download_state = "PRESYNC",
         NEW prev \in HeaderChains, NEW headers \in Seq(Headers)
  PROVE  Taken(s, prev \o headers, ProcessNextHeaders(s, prev, headers))
<1> DEFINE full == Len(headers) = max_headers_result
           v == ValidateAndStoreHeadersCommitments(s, prev, headers)
           more == full \/ v.m_download_state = "REDOWNLOAD"
           whole == prev \o headers
<1>1. ProcessNextHeaders(s, prev, headers) = Result(v, more, <<>>, <<>>)
  BY DEF ProcessNextHeaders, Presynced
<1> SUFFICES Taken(s, whole, Result(v, more, <<>>, <<>>))
  BY <1>1
<1>2. s \in Syncs /\ PresyncOK(s) /\ s.ok
  BY DEF Live
<1>3. CASE prev # s.m_last_header_received
  <2>1. v = [s EXCEPT !.ok = FALSE]
    BY <1>3 DEF ValidateAndStoreHeadersCommitments
  <2>2. v.ok = FALSE
    BY <1>2, <2>1 DEF Syncs
  <2> HIDE DEF v
  <2> QED BY <2>2, Refused
<1>4. CASE prev = s.m_last_header_received
  <2> DEFINE f == PresyncAll(s, headers)
  <2>1. v = EnoughWorkSeen(f)
    BY <1>4 DEF ValidateAndStoreHeadersCommitments, PresyncAll
  <2>2. /\ f \in Syncs /\ f.m_download_state = "PRESYNC" /\ PresyncOK(f)
        /\ f.m_chain_start = s.m_chain_start
        /\ f.ok => f.m_last_header_received = whole
    BY <1>2, <1>4, PresyncHeaders
  <2> HIDE DEF f, whole
  <2>3. f.ok \in BOOLEAN
    BY <2>2 DEF Syncs
  <2>4. CASE ~f.ok
    <3>1. v = f /\ f.ok = FALSE
      BY <2>1, <2>3, <2>4 DEF EnoughWorkSeen
    <3> HIDE DEF v
    <3> QED BY <3>1, Refused
  <2>5. CASE f.ok /\ f.m_current_chain_work >= MinimumChainWork
    <3>1. v = ToRedownload(f)
      BY <2>1, <2>5 DEF EnoughWorkSeen
    <3>2. /\ Live(v) /\ v.m_download_state = "REDOWNLOAD" /\ v.m_chain_start = s.m_chain_start
          /\ v.m_redownload_buffer_first_prev_hash = s.m_chain_start
          /\ v.m_redownload_buffer_last_hash = s.m_chain_start
      BY <2>2, <2>5, <3>1, RedownloadBegins
    <3> HIDE DEF v
    <3>3. v.ok = TRUE /\ more = TRUE
      BY <3>2 DEF Live, Syncs
    <3> DEFINE R == Result(v, more, <<>>, <<>>)
    <3>4. R.success = TRUE /\ R.request_more = TRUE /\ R.sync = v /\ R.ready = <<>>
      BY <3>3 DEF Result
    <3>5. GoesOn(s, whole, <<>>, v)
      BY <3>2 DEF GoesOn
    <3>6. <<>> \in Seq(Headers)
      OBVIOUS
    <3> SUFFICES Taken(s, whole, R)
      OBVIOUS
    <3> HIDE DEF R
    <3> QED BY <3>4, <3>5, <3>6 DEF Taken
  <2>6. CASE f.ok /\ ~(f.m_current_chain_work >= MinimumChainWork)
    <3>1. v = f
      BY <2>1, <2>6 DEF EnoughWorkSeen
    <3> HIDE DEF v
    <3>2. Live(v) /\ v.ok = TRUE /\ more \in BOOLEAN
      BY <2>2, <2>3, <2>6, <3>1 DEF Live, PresyncOK
    <3> DEFINE R == Result(v, more, <<>>, <<>>)
    <3>4. /\ R.success = TRUE /\ R.request_more = more /\ R.ready = <<>>
          /\ R.sync = IF more THEN v ELSE NoSync
      BY <3>2 DEF Result
    <3>5. GoesOn(s, whole, <<>>, v)
      BY <2>2, <2>6, <3>1, <3>2 DEF GoesOn
    <3>6. <<>> \in Seq(Headers)
      OBVIOUS
    <3> SUFFICES Taken(s, whole, R)
      OBVIOUS
    <3> HIDE DEF R, more
    <3> QED BY <3>2, <3>4, <3>5, <3>6 DEF Taken
  <2> QED BY <2>4, <2>5, <2>6
<1> QED BY <1>3, <1>4

LEMMA TakenRedownload ==
  ASSUME NEW s, Live(s), s.m_download_state = "REDOWNLOAD",
         NEW prev \in HeaderChains, NEW headers \in Seq(Headers)
  PROVE  Taken(s, prev \o headers, ProcessNextHeaders(s, prev, headers))
<1> DEFINE full == Len(headers) = max_headers_result
           whole == prev \o headers
<1>0. s \in Syncs /\ RedownloadOK(s) /\ s.ok /\ full \in BOOLEAN
  BY DEF Live
<1>1. CASE prev # s.m_redownload_buffer_last_hash
  <2> DEFINE v == [s EXCEPT !.ok = FALSE]
  <2>1. v.ok = FALSE
    BY <1>0 DEF Syncs
  <2>2. ProcessNextHeaders(s, prev, headers) = Redownloaded(v, full)
    BY <1>1 DEF ProcessNextHeaders
  <2> HIDE DEF v
  <2>3. Redownloaded(v, full) = Result(v, FALSE, <<>>, <<>>)
    BY <2>1 DEF Redownloaded
  <2>4. Taken(s, whole, Result(v, FALSE, <<>>, <<>>))
    <3> HIDE DEF whole
    <3> QED BY <2>1, Refused
  <2> QED BY <2>2, <2>3, <2>4
<1>2. CASE prev = s.m_redownload_buffer_last_hash
  <2> DEFINE f == RedownloadAll(s, headers)
  <2>1. ProcessNextHeaders(s, prev, headers) = Redownloaded(f, full)
    BY <1>2 DEF ProcessNextHeaders, RedownloadAll
  <2>2. /\ f \in Syncs /\ f.m_download_state = "REDOWNLOAD" /\ RedownloadOK(f)
        /\ f.m_chain_start = s.m_chain_start
        /\ f.m_last_header_received = s.m_last_header_received
        /\ f.m_redownload_buffer_first_prev_hash = s.m_redownload_buffer_first_prev_hash
        /\ f.ok => f.m_redownload_buffer_last_hash = whole
    BY <1>0, <1>2, RedownloadHeaders
  <2> HIDE DEF f, whole, full
  <2>3. CASE ~f.ok
    <3>1. f.ok = FALSE
      BY <2>2, <2>3 DEF Syncs
    <3>2. Redownloaded(f, full) = Result(f, FALSE, <<>>, <<>>)
      BY <2>3 DEF Redownloaded
    <3> QED BY <2>1, <3>1, <3>2, Refused DEF whole
  <2>4. CASE f.ok
    <3> DEFINE v == PopHeadersReadyForAcceptance(f)
               prevs == f.m_redownload_buffer_first_prev_hash
               ready == SubSeq(f.m_redownloaded_headers, 1, ReadyForAcceptance(f))
               more == full /\ ~(v.m_redownloaded_headers = <<>> /\ v.m_process_all_remaining_headers)
               R == Result(v, more, prevs, ready)
    <3>1. ProcessNextHeaders(s, prev, headers) = R
      BY <2>1, <2>4 DEF Redownloaded, Released
    <3>2. /\ v \in Syncs /\ v.m_download_state = "REDOWNLOAD" /\ v.ok /\ RedownloadOK(v)
          /\ v.m_chain_start = f.m_chain_start
          /\ v.m_redownload_buffer_last_hash = f.m_redownload_buffer_last_hash
          /\ v.m_redownload_buffer_first_prev_hash = prevs \o ready
          /\ ready \in Seq(Headers)
          /\ v.m_process_all_remaining_headers => v.m_redownloaded_headers = <<>>
      BY <2>2, <2>4, PopIs
    <3>3. ready # <<>> => ReadyForAcceptance(f) # 0
      OBVIOUS
    <3>4. ready # <<>> => LetsGo(s, whole, prevs, ready)
      <4> SUFFICES ASSUME ready # <<>> PROVE LetsGo(s, whole, prevs, ready)
        OBVIOUS
      <4>1. /\ Begins(prevs \o ready, f.m_redownload_buffer_last_hash)
            /\ \E c \in {f.m_redownload_buffer_last_hash, f.m_last_header_received} :
                 Begins(prevs \o ready, c) /\ ChainWork(c) >= MinimumChainWork
        BY <2>2, <2>4, <3>3, ReleasedHasWork
      <4> HIDE DEF prevs, ready
      <4> QED BY <2>2, <2>4, <4>1 DEF LetsGo, prevs
    <3> HIDE DEF v, ready
    <3>5. v.ok = TRUE /\ more \in BOOLEAN
      BY <1>0, <3>2 DEF Syncs, full
    <3>6. /\ R.success = TRUE /\ R.request_more = more /\ R.prev = prevs /\ R.ready = ready
          /\ R.sync = IF more THEN v ELSE NoSync
      <4> HIDE DEF more, prevs
      <4> QED BY <3>5 DEF Result
    <3>7. ASSUME more PROVE GoesOn(s, whole, ready, v)
      <4>1. ~v.m_process_all_remaining_headers
        BY <3>2, <3>7
      <4>2. Live(v)
        BY <3>2, <4>1 DEF Live
      <4> QED BY <2>2, <2>4, <3>2, <4>2 DEF GoesOn
    <3> HIDE DEF R, more, prevs
    <3>8. Taken(s, whole, R)
      BY <3>2, <3>4, <3>5, <3>6, <3>7 DEF Taken
    <3> QED BY <3>1, <3>8 DEF whole
  <2> QED BY <2>3, <2>4
<1> QED BY <1>1, <1>2

LEMMA HeadersTaken ==
  ASSUME NEW s, Live(s), NEW prev \in HeaderChains, NEW headers \in Seq(Headers)
  PROVE  Taken(s, prev \o headers, ProcessNextHeaders(s, prev, headers))
<1>1. s.m_download_state \in {"PRESYNC", "REDOWNLOAD"}
  BY DEF Live, Syncs
<1> QED BY <1>1, TakenPresync, TakenRedownload

-----------------------------------------------------------------------------
(* The node.                                                               *)

Nodes == [index : SUBSET HeaderChains, sync : Syncs \cup {NoSync},
          asked : Seq(HeaderChains), recent : BOOLEAN]

(* The index holds the ancestors of its headers.                           *)
Closed(I) == \A c \in I : \A b \in HeaderChains : Begins(b, c) => b \in I

NodeOK(n) ==
  /\ n \in Nodes
  /\ IsFiniteSet(n.index) /\ n.index # {} /\ Closed(n.index)
  /\ n.sync # NoSync => Live(n.sync)

(* With an honest peer: everything is on its chain C.                      *)
HonestIndex(I, C) == \A b \in I : Begins(b, C)
HonestAsked(asks, C) == \A i \in 1..Len(asks) : Begins(asks[i], C)
HonestSync(s, I, C) ==
  s # NoSync =>
    /\ s.m_chain_start \in I
    /\ s.m_download_state = "PRESYNC" => Begins(s.m_last_header_received, C)
    /\ s.m_download_state = "REDOWNLOAD" =>
         /\ s.m_redownload_buffer_first_prev_hash \in I
         /\ Begins(s.m_redownload_buffer_last_hash, C)

HonestOK(n, C) == HonestIndex(n.index, C) /\ HonestAsked(n.asked, C) /\ HonestSync(n.sync, n.index, C)

(* Every header of the chain C passes the checks.                          *)
Passed(C) ==
  \A k \in 2..Len(C) : \A b \in HeaderChains :
    Begins(b, C) /\ Len(b) = k - 1 => CheckHeader(b, C[k]) = "accepted"

LEMMA LiveIs == ASSUME NEW s, Live(s) PROVE s \in Syncs /\ s # NoSync
<1>1. s \in Syncs /\ s.m_download_state # "FINAL"
  BY DEF Live, Syncs
<1>2. NoSync.m_download_state = "FINAL"
  BY DEF NoSync
<1> QED BY <1>1, <1>2

LEMMA AskMore ==
  ASSUME NEW n, NodeOK(n), NEW locator \in HeaderChains,
         NEW m, m = MaybeSendGetHeaders(n, locator)
  PROVE  /\ NodeOK(m) /\ m.index = n.index /\ m.sync = n.sync
         /\ \A C : HonestAsked(n.asked, C) /\ Begins(locator, C) => HonestAsked(m.asked, C)
<1>1. n \in Nodes
  BY DEF NodeOK
<1>2. CASE n.recent
  BY <1>2 DEF MaybeSendGetHeaders
<1>3. CASE ~n.recent
  <2> DEFINE a == Append(n.asked, locator)
  <2>1. m = [n EXCEPT !.asked = a, !.recent = TRUE]
    BY <1>3 DEF MaybeSendGetHeaders
  <2>2. n.asked \in Seq(HeaderChains) /\ a \in Seq(HeaderChains)
    BY <1>1 DEF Nodes
  <2>3. ASSUME NEW C, HonestAsked(n.asked, C), Begins(locator, C) PROVE HonestAsked(a, C)
    <3>1. \A i \in 1..Len(a) : a[i] = locator \/ (i \in 1..Len(n.asked) /\ a[i] = n.asked[i])
      BY <2>2
    <3> HIDE DEF a
    <3> QED BY <2>3, <3>1 DEF HonestAsked
  <2> HIDE DEF a
  <2>4. m \in Nodes /\ m.index = n.index /\ m.sync = n.sync /\ m.asked = a
    BY <1>1, <2>1, <2>2 DEF Nodes
  <2> QED BY <2>3, <2>4 DEF NodeOK
<1> QED BY <1>2, <1>3

LEMMA BestIs == ASSUME NEW n, NodeOK(n) PROVE BestHeader(n) \in n.index
<1> DEFINE I == n.index
           f == [c \in I |-> ChainWork(c)]
<1>1. IsFiniteSet(I) /\ I # {} /\ I \subseteq HeaderChains
  BY DEF NodeOK, Nodes
<1> HIDE DEF I
<1>2. \A c \in I : f[c] \in Int /\ f[c] = ChainWork(c)
  BY <1>1, WorkType DEF HeaderChains
<1> HIDE DEF f
<1>3. PICK m \in I : \A c \in I : f[c] <= f[m]
  BY <1>1, <1>2, Largest
<1>4. \A c \in I : ChainWork(c) <= ChainWork(m)
  BY <1>2, <1>3
<1> QED BY <1>4 DEF BestHeader, I

Part(p, h, i) == p \o SubSeq(h, 1, i)
Parts(p, h, A) == {p \o SubSeq(h, 1, i) : i \in A}

(* A beginning of p \o h is one of p, or p and some of h.                  *)
LEMMA BeginsSplit ==
  ASSUME NEW S, NEW p \in Seq(S), NEW h \in Seq(S), NEW i \in 0..Len(h), NEW b \in Seq(S),
         Begins(b, Part(p, h, i))
  PROVE  Begins(b, p) \/ b \in Parts(p, h, 1..i)
<1> DEFINE q == p \o SubSeq(h, 1, i)
<1>1. Len(b) \in Nat /\ Len(p) \in Nat /\ i \in Nat /\ Len(h) \in Nat /\ i <= Len(h)
  OBVIOUS
<1>2. q \in Seq(S) /\ Len(q) = Len(p) + i
      /\ (\A k \in 1..Len(p) : q[k] = p[k]) /\ \A k \in 1..i : q[Len(p) + k] = h[k]
  <2> DEFINE x == SubSeq(h, 1, i)
  <2>1. x \in Seq(S) /\ Len(x) = i /\ \A k \in 1..i : x[k] = h[k]
    BY <1>1
  <2> HIDE DEF x
  <2>2. p \in Seq(S) /\ x \in Seq(S)
    BY <2>1
  <2> DEFINE y == p \o x
  <2>3. y \in Seq(S) /\ Len(y) = Len(p) + Len(x)
        /\ (\A k \in 1..Len(p) : y[k] = p[k])
        /\ \A k \in 1..Len(x) : y[Len(p) + k] = x[k]
    BY <2>2
  <2> HIDE DEF y
  <2>4. q = y
    BY DEF x, y
  <2> HIDE DEF q
  <2> QED BY <2>1, <2>3, <2>4
<1>3. Len(b) <= Len(q) /\ \A k \in 1..Len(b) : b[k] = q[k]
  BY DEF Begins, Part
<1> HIDE DEF q
<1>4. CASE Len(b) <= Len(p)
  <2>1. \A k \in 1..Len(b) : k \in 1..Len(p)
    BY <1>1, <1>4
  <2> QED BY <1>2, <1>3, <1>4, <2>1 DEF Begins
<1>5. CASE ~(Len(b) <= Len(p))
  <2> DEFINE j == Len(b) - Len(p)
             x == SubSeq(h, 1, j)
             px == p \o x
  <2>1. j \in 1..i /\ Len(b) = Len(p) + j
    BY <1>1, <1>2, <1>3, <1>5
  <2> HIDE DEF j
  <2>2. x \in Seq(S) /\ Len(x) = j /\ \A k \in 1..j : x[k] = h[k]
    BY <1>1, <2>1
  <2> HIDE DEF x
  <2>6. p \in Seq(S) /\ x \in Seq(S)
    BY <2>2
  <2>7. px \in Seq(S) /\ Len(px) = Len(p) + Len(x)
        /\ (\A k \in 1..Len(p) : px[k] = p[k])
        /\ \A k \in 1..Len(x) : px[Len(p) + k] = x[k]
    BY <2>6
  <2> HIDE DEF px
  <2>3. px \in Seq(S) /\ Len(px) = Len(p) + j
        /\ (\A k \in 1..Len(p) : px[k] = p[k])
        /\ \A k \in 1..j : px[Len(p) + k] = x[k]
    BY <2>2, <2>7
  <2>4. ASSUME NEW k \in 1..Len(b) PROVE b[k] = px[k]
    <3>1. CASE k \in 1..Len(p)
      BY <1>2, <1>3, <2>3, <3>1
    <3>2. CASE k \notin 1..Len(p)
      <4> DEFINE e == k - Len(p)
      <4>1. e \in 1..j /\ e \in 1..i /\ Len(p) + e = k
        BY <1>1, <2>1, <3>2
      <4> HIDE DEF e
      <4>2. q[k] = h[e] /\ px[k] = x[e] /\ x[e] = h[e]
        BY <1>2, <2>2, <2>3, <4>1
      <4> QED BY <1>3, <4>2
    <3> QED BY <3>1, <3>2
  <2>5. b = px
    BY <2>1, <2>3, <2>4
  <2> QED BY <2>1, <2>5 DEF px, x, Parts
<1> QED BY <1>4, <1>5

-----------------------------------------------------------------------------
(* The headers of a message that are stored.                               *)

WithParts(n, p, h, A) == [n EXCEPT !.index = @ \cup Parts(p, h, A)]

LEMMA PartIs ==
  ASSUME NEW p \in HeaderChains, NEW h \in Seq(Headers), NEW i \in 0..Len(h)
  PROVE  /\ Part(p, h, i) \in HeaderChains /\ Len(Part(p, h, i)) = Len(p) + i
         /\ Begins(Part(p, h, i), p \o h)
<1>1. p \in Seq(Headers) /\ Len(p) \in Nat \ {0} /\ Len(h) \in Nat /\ i \in Nat /\ i <= Len(h)
  BY ChainIs DEF HeaderChains
<1> DEFINE w == p \o h
           x == Part(p, h, i)
<1>2. Len(w) = Len(p) + Len(h)
  BY <1>1
<1>3. Cut(p, h, SubSeq(h, 1, i), SubSeq(h, i + 1, Len(h)), i, Headers)
  BY <1>1, CutIs
<1>4. x \in Seq(Headers) /\ Len(x) = Len(p) + i /\ \A k \in 1..Len(x) : x[k] = w[k]
  BY <1>3 DEF Cut, Part
<1> HIDE DEF w, x
<1>5. Len(x) <= Len(w) /\ Len(x) # 0
  BY <1>1, <1>2, <1>4
<1>6. x # <<>>
  BY <1>5
<1>7. x \in HeaderChains /\ Begins(x, w)
  BY <1>4, <1>5, <1>6 DEF HeaderChains, Begins
<1> QED BY <1>4, <1>7 DEF w, x

LEMMA WholeIs ==
  ASSUME NEW p \in HeaderChains, NEW h \in Seq(Headers)
  PROVE  /\ Part(p, h, Len(h)) = p \o h /\ p \o h \in HeaderChains
         /\ p \o h \in Seq(Headers) /\ Len(p \o h) = Len(p) + Len(h)
         /\ \A j \in 1..Len(h) : (p \o h)[Len(p) + j] = h[j]
<1>1. SubSeq(h, 1, Len(h)) = h /\ Len(h) \in 0..Len(h)
  OBVIOUS
<1>2. Part(p, h, Len(h)) = p \o h
  BY <1>1 DEF Part
<1>3. p \o h \in HeaderChains
  BY <1>1, <1>2, PartIs
<1>4. p \in Seq(Headers) /\ h \in Seq(Headers)
  BY DEF HeaderChains
<1>5. p \o h \in Seq(Headers) /\ Len(p \o h) = Len(p) + Len(h)
      /\ \A j \in 1..Len(h) : (p \o h)[Len(p) + j] = h[j]
  BY <1>4
<1> QED BY <1>2, <1>3, <1>5

LEMMA PartsFinite ==
  ASSUME NEW p, NEW h \in Seq(Headers), NEW A, A \subseteq DOMAIN h
  PROVE  IsFiniteSet(Parts(p, h, A))
<1>1. IsFiniteSet(1..Len(h)) /\ A \in SUBSET (1..Len(h))
  BY FS_Interval
<1>2. IsFiniteSet(A)
  BY <1>1, FS_Subset
<1> DEFINE T == Parts(p, h, A)
           f == [i \in A |-> p \o SubSeq(h, 1, i)]
<1>3. f \in Surjection(A, T)
  BY DEF Surjection, Parts
<1> HIDE DEF f, T
<1>4. IsFiniteSet(T)
  BY <1>2, <1>3, FS_Surjection
<1> QED BY <1>4 DEF T

LEMMA AddParts ==
  ASSUME NEW n, NodeOK(n), NEW p \in n.index, NEW h \in Seq(Headers),
         NEW A, A \subseteq DOMAIN h, \A i \in A : \A j \in 1..i : j \in A
  PROVE  /\ NodeOK(WithParts(n, p, h, A))
         /\ WithParts(n, p, h, A).index = n.index \cup Parts(p, h, A)
         /\ WithParts(n, p, h, A).sync = n.sync
         /\ WithParts(n, p, h, A).asked = n.asked
         /\ \A b \in Parts(p, h, A) : b \in HeaderChains /\ Begins(b, p \o h)
<1> DEFINE X == Parts(p, h, A)
           I == n.index \cup X
           m == [n EXCEPT !.index = @ \cup X]
<1>1. n \in Nodes /\ IsFiniteSet(n.index) /\ n.index # {} /\ Closed(n.index)
      /\ (n.sync # NoSync => Live(n.sync))
  BY DEF NodeOK
<1>2. p \in HeaderChains
  BY <1>1 DEF Nodes
<1>3. \A i \in A : i \in 0..Len(h) /\ i \in Nat
  OBVIOUS
<1>4. \A b \in X : \E i \in A : b = Part(p, h, i)
  BY DEF Parts, Part
<1>5. \A b \in X : b \in HeaderChains /\ Begins(b, p \o h)
  BY <1>2, <1>3, <1>4, PartIs
<1>6. IsFiniteSet(X)
  BY PartsFinite
<1>7. IsFiniteSet(I)
  BY <1>1, <1>6, FS_Union
<1>8. Closed(I)
  <2> SUFFICES ASSUME NEW c \in I, NEW b \in HeaderChains, Begins(b, c) PROVE b \in I
    BY DEF Closed
  <2>1. CASE c \in n.index
    BY <1>1, <2>1 DEF Closed
  <2>2. CASE c \in X
    <3>1. PICK i \in A : c = Part(p, h, i)
      BY <2>2 DEF Parts, Part
    <3>2. p \in Seq(Headers) /\ b \in Seq(Headers) /\ i \in 0..Len(h)
      BY <1>2, <1>3 DEF HeaderChains
    <3>6. Begins(b, Part(p, h, i))
      BY <3>1
    <3>3. Begins(b, p) \/ b \in Parts(p, h, 1..i)
      BY <3>2, <3>6, BeginsSplit
    <3>4. CASE Begins(b, p)
      BY <1>1, <3>4 DEF Closed
    <3>5. CASE b \in Parts(p, h, 1..i)
      BY <3>5 DEF Parts
    <3> QED BY <3>3, <3>4, <3>5
  <2> QED BY <2>1, <2>2
<1> HIDE DEF X
<1>9. /\ m \in Nodes /\ m.index = I /\ m.sync = n.sync /\ m.asked = n.asked
  BY <1>1, <1>5 DEF Nodes
<1> HIDE DEF m
<1>10. NodeOK(m)
  BY <1>1, <1>7, <1>8, <1>9 DEF NodeOK
<1> QED BY <1>5, <1>9, <1>10 DEF m, X, WithParts

LEMMA AcceptedIs ==
  ASSUME NEW n, NEW p, NEW h \in Seq(Headers)
  PROVE  /\ Accepted(n, p, h) \subseteq DOMAIN h
         /\ \A i \in Accepted(n, p, h) : \A j \in 1..i : j \in Accepted(n, p, h)
         /\ (\A j \in DOMAIN h : CheckHeader(Part(p, h, j - 1), h[j]) = "accepted")
               => Accepted(n, p, h) = DOMAIN h
<1> DEFINE Fine(i) == Part(p, h, i) \in n.index \/ CheckHeader(Part(p, h, i - 1), h[i]) = "accepted"
<1>1. Accepted(n, p, h) = {i \in DOMAIN h : \A j \in 1..i : Fine(j)}
  BY DEF Accepted, Part
<1>2. \A i \in DOMAIN h : \A j \in 1..i : j \in DOMAIN h /\ \A k \in 1..j : k \in 1..i
  <2>1. DOMAIN h = 1..Len(h) /\ Len(h) \in Nat
    OBVIOUS
  <2> QED BY <2>1
<1>3. (\A j \in DOMAIN h : CheckHeader(Part(p, h, j - 1), h[j]) = "accepted")
         => \A j \in DOMAIN h : Fine(j)
  OBVIOUS
<1> HIDE DEF Fine
<1> QED BY <1>1, <1>2, <1>3

(* w is the chain of the headers that came.                                *)
Grows(n, m, w) ==
  /\ NodeOK(m) /\ n.index \subseteq m.index
  /\ \A b \in m.index \ n.index : Begins(b, w)

Honestly(n, C) == HonestIndex(n.index, C) /\ HonestAsked(n.asked, C)

Stores(n, m, w) ==
  \A C \in HeaderChains :
    Honestly(n, C) /\ Begins(w, C) /\ Passed(C) => Honestly(m, C) /\ w \in m.index

LEMMA NewHeaders ==
  ASSUME NEW n, NodeOK(n), NEW p \in n.index, NEW h \in Seq(Headers), h # <<>>,
         NEW full \in BOOLEAN
  PROVE  /\ Grows(n, ProcessNewBlockHeaders(n, p, h, full), p \o h)
         /\ ProcessNewBlockHeaders(n, p, h, full).sync = n.sync
         /\ Stores(n, ProcessNewBlockHeaders(n, p, h, full), p \o h)
<1> DEFINE A == Accepted(n, p, h)
           X == Parts(p, h, A)
           k == WithParts(n, p, h, A)
           w == p \o h
           asks == A = DOMAIN h /\ full /\ n.sync = NoSync
           m == IF asks THEN MaybeSendGetHeaders(k, w) ELSE k
<1>1. ProcessNewBlockHeaders(n, p, h, full) = m
  BY DEF ProcessNewBlockHeaders, Parts, WithParts
<1>2. A \subseteq DOMAIN h /\ \A i \in A : \A j \in 1..i : j \in A
  BY AcceptedIs
<1>3. (\A j \in DOMAIN h : CheckHeader(Part(p, h, j - 1), h[j]) = "accepted") => A = DOMAIN h
  BY AcceptedIs
<1> HIDE DEF A
<1>4. /\ NodeOK(k) /\ k.index = n.index \cup X /\ k.sync = n.sync /\ k.asked = n.asked
      /\ \A b \in X : b \in HeaderChains /\ Begins(b, w)
  BY <1>2, AddParts
<1> HIDE DEF k
<1>5. p \in HeaderChains
  BY DEF NodeOK, Nodes
<1>6. w \in HeaderChains /\ Len(w) = Len(p) + Len(h) /\ w \in Seq(Headers)
      /\ \A j \in 1..Len(h) : w[Len(p) + j] = h[j]
  BY <1>5, WholeIs
<1>7. DOMAIN h = 1..Len(h) /\ Len(h) \in Nat \ {0} /\ Len(p) \in Nat \ {0}
  BY <1>5, ChainIs
<1>8. A = DOMAIN h => w \in X
  <2>1. Part(p, h, Len(h)) = w
    BY <1>5, WholeIs
  <2>2. Len(h) \in DOMAIN h
    BY <1>7
  <2> HIDE DEF w
  <2> QED BY <2>1, <2>2 DEF Parts, Part
<1> HIDE DEF w, X
<1>9. /\ NodeOK(m) /\ m.index = k.index /\ m.sync = k.sync
      /\ \A C : HonestAsked(k.asked, C) /\ Begins(w, C) => HonestAsked(m.asked, C)
  <2>1. CASE asks
    BY <1>4, <1>6, <2>1, AskMore
  <2>2. CASE ~asks
    BY <1>4, <2>2
  <2> QED BY <2>1, <2>2
<1> HIDE DEF m
<1>10. Grows(n, m, w)
  BY <1>4, <1>9 DEF Grows
<1>11. ASSUME NEW C \in HeaderChains, Honestly(n, C), Begins(w, C), Passed(C)
       PROVE  Honestly(m, C) /\ w \in m.index
  <2>1. C \in Seq(Headers)
    BY DEF HeaderChains
  <2>2. \A b \in X : Begins(b, C)
    <3> SUFFICES ASSUME NEW b \in X PROVE Begins(b, C)
      OBVIOUS
    <3>1. b \in Seq(Headers) /\ Begins(b, w)
      BY <1>4 DEF HeaderChains
    <3> QED BY <1>6, <1>11, <2>1, <3>1, BeginsMore
  <2>3. HonestAsked(m.asked, C)
    BY <1>4, <1>9, <1>11 DEF Honestly
  <2>4. HonestIndex(m.index, C)
    BY <1>4, <1>9, <1>11, <2>2 DEF Honestly, HonestIndex
  <2>5. ASSUME NEW j \in DOMAIN h PROVE CheckHeader(Part(p, h, j - 1), h[j]) = "accepted"
    <3> DEFINE b == Part(p, h, j - 1)
               i == Len(p) + j
    <3>1. j - 1 \in 0..Len(h) /\ j \in 1..Len(h) /\ Len(p) + (j - 1) = i - 1 /\ i \in 2..Len(w)
      BY <1>6, <1>7
    <3>2. b \in HeaderChains /\ Len(b) = i - 1 /\ Begins(b, w)
      BY <1>5, <3>1, PartIs DEF w
    <3>3. Len(w) \in Nat /\ Len(C) \in Nat /\ Len(w) <= Len(C) /\ \A e \in 1..Len(w) : w[e] = C[e]
      BY <1>6, <1>11, <2>1 DEF Begins
    <3>4. i \in 2..Len(C) /\ C[i] = w[i]
      BY <3>1, <3>3
    <3>5. w[i] = h[j]
      BY <1>6, <3>1
    <3> HIDE DEF b, i
    <3>6. b \in Seq(Headers)
      BY <3>2 DEF HeaderChains
    <3>7. Begins(b, C)
      BY <1>6, <1>11, <2>1, <3>2, <3>6, BeginsMore
    <3>8. CheckHeader(b, C[i]) = "accepted"
      BY <1>11, <3>2, <3>4, <3>7 DEF Passed
    <3> QED BY <3>4, <3>5, <3>8 DEF b
  <2>6. w \in X
    BY <1>3, <1>8, <2>5
  <2> QED BY <1>4, <1>9, <2>3, <2>4, <2>6 DEF Honestly
<1>12. Stores(n, m, w)
  BY <1>11 DEF Stores
<1> QED BY <1>1, <1>4, <1>9, <1>10, <1>12 DEF w

(* A message taken by a sync.                                              *)

LEMMA LocatorType ==
  ASSUME NEW s, Live(s) PROVE NextHeadersRequestLocator(s) \in HeaderChains
<1>1. s \in Syncs /\ s.ok /\ s.m_download_state \in {"PRESYNC", "REDOWNLOAD"}
  BY DEF Live, Syncs
<1>2. CASE s.m_download_state = "PRESYNC"
  BY <1>1, <1>2 DEF NextHeadersRequestLocator, Syncs
<1>3. CASE s.m_download_state = "REDOWNLOAD"
  <2> DEFINE first == s.m_redownload_buffer_first_prev_hash
             buffer == s.m_redownloaded_headers
             start == s.m_chain_start
             last == s.m_redownload_buffer_last_hash
  <2>1. NextHeadersRequestLocator(s) = last
    BY <1>3 DEF NextHeadersRequestLocator
  <2>2. last = first \o buffer /\ Len(start) <= Len(first)
    BY <1>1, <1>3 DEF Live, RedownloadOK
  <2>3. last \in Seq(Headers) /\ first \in Seq(Headers) /\ buffer \in Seq(Headers)
        /\ start \in HeaderChains
    BY <1>1 DEF Syncs
  <2> HIDE DEF first, buffer, start, last
  <2>4. Len(start) \in Nat \ {0}
    BY <2>3, ChainIs
  <2>5. Len(last) = Len(first) + Len(buffer) /\ Len(first) \in Nat /\ Len(buffer) \in Nat
    BY <2>2, <2>3
  <2>6. Len(last) # 0
    BY <2>2, <2>4, <2>5
  <2>7. last # <<>>
    BY <2>6
  <2> QED BY <2>1, <2>3, <2>7 DEF HeaderChains
<1> QED BY <1>1, <1>2, <1>3

LEMMA MoreIndex ==
  ASSUME NEW s, NEW I, NEW J, I \subseteq J, NEW C, HonestSync(s, I, C)
  PROVE  HonestSync(s, J, C)
BY DEF HonestSync

(* The headers the node has once those that the sync let go are stored.    *)
Onward(I, R) == IF R.success /\ R.ready # <<>> THEN I \cup {R.prev \o R.ready} ELSE I

LEMMA HonestTaken ==
  ASSUME NEW I, I \subseteq HeaderChains, NEW s, Live(s), NEW whole \in HeaderChains,
         NEW R, Taken(s, whole, R), NEW C \in HeaderChains,
         HonestIndex(I, C), HonestSync(s, I, C), Begins(whole, C)
  PROVE  /\ HonestSync(R.sync, Onward(I, R), C)
         /\ (R.request_more => Begins(NextHeadersRequestLocator(R.sync), C))
         /\ (R.success /\ R.ready # <<>> => R.prev \in I /\ Begins(R.prev \o R.ready, C))
<1> DEFINE start == s.m_chain_start
           J == Onward(I, R)
           r == R.sync
<1>1. s \in Syncs /\ s # NoSync /\ s.m_download_state \in {"PRESYNC", "REDOWNLOAD"}
  BY LiveIs DEF Syncs
<1>2. start \in I /\ Begins(start, C)
  BY <1>1 DEF HonestSync, HonestIndex
<1>3. I \subseteq J
  BY DEF Onward
<1>4. whole \in Seq(Headers) /\ C \in Seq(Headers)
  BY DEF HeaderChains
<1>5. ASSUME R.success, R.ready # <<>> PROVE R.prev \in I /\ Begins(R.prev \o R.ready, C)
  <2>1. LetsGo(s, whole, R.prev, R.ready) /\ R.ready \in Seq(Headers)
    BY <1>5 DEF Taken
  <2>2. R.prev \in I
    BY <1>1, <2>1 DEF LetsGo, HonestSync
  <2>3. R.prev \in HeaderChains
    BY <2>2
  <2> DEFINE x == R.prev \o R.ready
  <2>4. x \in Seq(Headers)
    BY <2>1, <2>3, WholeIs
  <2>5. Begins(x, whole)
    BY <2>1 DEF LetsGo
  <2> HIDE DEF x
  <2>6. Begins(x, C)
    BY <1>4, <2>4, <2>5, BeginsMore
  <2> QED BY <2>2, <2>6 DEF x
<1>6. CASE ~R.request_more
  BY <1>5, <1>6 DEF Taken, HonestSync
<1>7. CASE R.request_more
  <2>1. R.success /\ GoesOn(s, whole, R.ready, r) /\ R.ready \in Seq(Headers)
    BY <1>7 DEF Taken
  <2>2. Live(r) /\ r.m_chain_start = start
    BY <2>1 DEF GoesOn
  <2>3. r.m_download_state \in {"PRESYNC", "REDOWNLOAD"} /\ r \in Syncs
    BY <2>2 DEF Live, Syncs
  <2> HIDE DEF r, J
  <2>4. CASE r.m_download_state = "PRESYNC"
    <3>1. r.m_last_header_received = whole
      BY <2>1, <2>4 DEF GoesOn
    <3>2. HonestSync(r, J, C)
      BY <1>2, <1>3, <2>2, <2>4, <3>1 DEF HonestSync
    <3>3. Begins(NextHeadersRequestLocator(r), C)
      BY <2>4, <3>1 DEF NextHeadersRequestLocator
    <3> QED BY <1>5, <3>2, <3>3 DEF r, J
  <2>5. CASE r.m_download_state = "REDOWNLOAD"
    <3>1. r.m_redownload_buffer_first_prev_hash \in J /\ Begins(r.m_redownload_buffer_last_hash, C)
      <4>1. CASE s.m_download_state = "PRESYNC"
        BY <1>2, <1>3, <2>1, <2>5, <4>1 DEF GoesOn
      <4>2. CASE s.m_download_state = "REDOWNLOAD"
        <5> DEFINE first == s.m_redownload_buffer_first_prev_hash
        <5>1. /\ r.m_redownload_buffer_first_prev_hash = first \o R.ready
              /\ r.m_redownload_buffer_last_hash = whole
          BY <2>1, <2>5, <4>2 DEF GoesOn
        <5>2. first \in I
          BY <1>1, <4>2 DEF HonestSync
        <5>3. CASE R.ready = <<>>
          <6>1. first \in Seq(Headers)
            BY <5>2 DEF HeaderChains
          <6> HIDE DEF first
          <6>2. first \o <<>> = first
            BY <6>1
          <6> QED BY <1>3, <5>1, <5>2, <5>3, <6>2
        <5>4. CASE R.ready # <<>>
          <6>1. R.prev = first
            BY <2>1, <5>4 DEF Taken, LetsGo
          <6>2. first \o R.ready \in J
            BY <2>1, <5>4, <6>1 DEF J, Onward
          <6> QED BY <5>1, <6>2
        <5> QED BY <5>3, <5>4
      <4> QED BY <1>1, <4>1, <4>2
    <3>2. HonestSync(r, J, C)
      BY <1>2, <1>3, <2>2, <2>5, <3>1 DEF HonestSync
    <3>3. Begins(NextHeadersRequestLocator(r), C)
      BY <2>5, <3>1 DEF NextHeadersRequestLocator
    <3> QED BY <1>5, <3>2, <3>3 DEF r, J
  <2> QED BY <2>3, <2>4, <2>5
<1> QED
  <2>1. R.request_more \in BOOLEAN
    BY DEF Taken
  <2> QED BY <1>6, <1>7, <2>1

(* What becomes of the node and the message in a sync with result R.       *)
Keeps(n, R, prev, headers, c) ==
  /\ NodeOK(c.node) /\ c.node.index = n.index /\ c.node.sync = R.sync /\ c.success = R.success
  /\ (R.success => c.prev = R.prev /\ c.headers = R.ready)
  /\ (~R.success => c.prev = prev /\ c.headers = headers)

KeepsAsking(n, s, whole, R, c) ==
  \A C \in HeaderChains :
    Honestly(n, C) /\ HonestSync(s, n.index, C) /\ Begins(whole, C) => HonestAsked(c.node.asked, C)

LEMMA ContinuedIs ==
  ASSUME NEW n, NodeOK(n), NEW s, Live(s), NEW whole \in HeaderChains,
         NEW R, Taken(s, whole, R), NEW prev, NEW headers
  PROVE  /\ Keeps(n, R, prev, headers, Continued(n, prev, headers, R))
         /\ KeepsAsking(n, s, whole, R, Continued(n, prev, headers, R))
<1> DEFINE k == [n EXCEPT !.sync = R.sync, !.recent = IF R.success THEN FALSE ELSE @]
           m == RequestMore(k, R.request_more)
           c == Continued(n, prev, headers, R)
<1>1. /\ c.node = m /\ c.success = R.success
      /\ c.prev = (IF R.success THEN R.prev ELSE prev)
      /\ c.headers = (IF R.success THEN R.ready ELSE headers)
  BY DEF Continued
<1>2. n \in Nodes /\ IsFiniteSet(n.index) /\ n.index # {} /\ Closed(n.index)
  BY DEF NodeOK
<1>3. R.success \in BOOLEAN /\ R.request_more \in BOOLEAN
      /\ (R.request_more => Live(R.sync)) /\ (~R.request_more => R.sync = NoSync)
  BY DEF Taken, GoesOn
<1>4. R.sync \in Syncs \cup {NoSync} /\ (R.sync # NoSync => Live(R.sync))
  BY <1>3, LiveIs
<1>5. k \in Nodes /\ k.index = n.index /\ k.sync = R.sync /\ k.asked = n.asked
  BY <1>2, <1>3, <1>4 DEF Nodes
<1> HIDE DEF k, c
<1>6. NodeOK(k)
  BY <1>2, <1>4, <1>5 DEF NodeOK
<1>7. /\ NodeOK(m) /\ m.index = n.index /\ m.sync = R.sync
      /\ \A C : /\ HonestAsked(n.asked, C)
                /\ (R.request_more => Begins(NextHeadersRequestLocator(R.sync), C))
                => HonestAsked(m.asked, C)
  <2>1. CASE R.request_more
    <3> DEFINE locator == NextHeadersRequestLocator(k.sync)
    <3>1. m = MaybeSendGetHeaders(k, locator)
      BY <2>1 DEF RequestMore
    <3>2. locator \in HeaderChains /\ locator = NextHeadersRequestLocator(R.sync)
      BY <1>3, <1>5, <2>1, LocatorType
    <3> HIDE DEF m, locator
    <3>3. NodeOK(m) /\ m.index = k.index /\ m.sync = k.sync
          /\ \A C : HonestAsked(k.asked, C) /\ Begins(locator, C) => HonestAsked(m.asked, C)
      BY <1>6, <3>1, <3>2, AskMore
    <3> QED BY <1>5, <2>1, <3>2, <3>3
  <2>2. CASE ~R.request_more
    <3>1. m = k
      BY <2>2 DEF RequestMore
    <3> HIDE DEF m
    <3> QED BY <1>5, <1>6, <3>1
  <2> QED BY <2>1, <2>2
<1> HIDE DEF m
<1>8. Keeps(n, R, prev, headers, c)
  BY <1>1, <1>3, <1>7 DEF Keeps
<1>9. KeepsAsking(n, s, whole, R, c)
  <2> SUFFICES ASSUME NEW C \in HeaderChains, Honestly(n, C), HonestSync(s, n.index, C), Begins(whole, C)
               PROVE  HonestAsked(m.asked, C)
    BY <1>1 DEF KeepsAsking
  <2>1. n.index \subseteq HeaderChains /\ HonestIndex(n.index, C) /\ HonestAsked(n.asked, C)
    BY <1>2 DEF Nodes, Honestly
  <2>2. R.request_more => Begins(NextHeadersRequestLocator(R.sync), C)
    BY <2>1, HonestTaken
  <2> QED BY <1>7, <2>1, <2>2
<1> QED BY <1>8, <1>9 DEF c

-----------------------------------------------------------------------------
(* A sync that starts.                                                     *)

LEMMA NewSyncLive ==
  ASSUME now \in Int, NEW start \in HeaderChains, NEW offset \in 0..commitment_period - 1
  PROVE  /\ Live(NewSync(start, offset)) /\ NewSync(start, offset).m_download_state = "PRESYNC"
         /\ NewSync(start, offset).m_chain_start = start
         /\ NewSync(start, offset).m_last_header_received = start
<1> DEFINE s == NewSync(start, offset)
           seconds == now - GetMedianTimePast(start) + MAX_FUTURE_BLOCK_TIME
           most == (MaxBlockRate * seconds) \div commitment_period
<1>1. GetMedianTimePast(start) \in Int
  BY ChainIs, MedianType
<1>2. seconds \in Int
  BY <1>1, ChainAssumption
<1> HIDE DEF seconds
<1>3. most \in Int
  <2>1. MaxBlockRate * seconds \in Int /\ commitment_period \in Nat \ {0}
    BY <1>2, HeadersSyncAssumption
  <2> QED BY <2>1
<1>4. ChainWork(start) \in Int /\ <<>> \in Seq(Headers) /\ <<>> \in Seq(HeaderChains)
  BY WorkType DEF HeaderChains
<1> HIDE DEF most
<1>5. /\ s \in Syncs /\ s.m_download_state = "PRESYNC" /\ s.ok
      /\ s.m_chain_start = start /\ s.m_last_header_received = start
      /\ s.m_header_commitments = <<>>
      /\ s.m_current_chain_work = ChainWork(start)
      /\ s.m_process_all_remaining_headers = FALSE
  BY <1>3, <1>4 DEF NewSync, Syncs, most, seconds
<1> HIDE DEF s
<1>6. Committed(s)
  BY <1>5 DEF Committed
<1>7. Live(s)
  BY <1>5, <1>6 DEF Live, PresyncOK
<1> QED BY <1>5, <1>7 DEF s

-----------------------------------------------------------------------------
(* Headers outside a sync, or that a sync let go.                          *)

(* An honest node stays one, whatever chain C its peer has.                *)
StaysHonest(n, m, w) ==
  \A C \in HeaderChains : HonestOK(n, C) /\ Begins(w, C) /\ Passed(C) => HonestOK(m, C)

LEMMA TryLowWork ==
  ASSUME now \in Int, NEW n, NodeOK(n), NEW p \in n.index, NEW h \in Seq(Headers),
         NEW offset \in 0..commitment_period - 1
  PROVE  /\ NodeOK(TryLowWorkHeadersSync(n, p, h, offset))
         /\ TryLowWorkHeadersSync(n, p, h, offset).index = n.index
         /\ StaysHonest(n, TryLowWorkHeadersSync(n, p, h, offset), p \o h)
<1> DEFINE m == TryLowWorkHeadersSync(n, p, h, offset)
           s == NewSync(p, offset)
           k == [n EXCEPT !.sync = s]
           w == p \o h
           R == ProcessNextHeaders(k.sync, p, h)
           c == Continued(k, p, h, R)
<1>1. n \in Nodes /\ IsFiniteSet(n.index) /\ n.index # {} /\ Closed(n.index)
      /\ n.index \subseteq HeaderChains
  BY DEF NodeOK, Nodes
<1>2. p \in HeaderChains
  BY <1>1
<1>3. w \in HeaderChains
  BY <1>2, WholeIs
<1>4. CASE Len(h) # max_headers_result
  <2>1. m = n
    BY <1>4 DEF TryLowWorkHeadersSync
  <2> HIDE DEF m
  <2>2. StaysHonest(n, m, w)
    BY <2>1 DEF StaysHonest
  <2> QED BY <2>1, <2>2 DEF m
<1>5. CASE Len(h) = max_headers_result
  <2>1. m = c.node
    BY <1>5 DEF TryLowWorkHeadersSync, IsContinuationOfLowWorkHeadersSync
  <2>2. Live(s) /\ s.m_download_state = "PRESYNC" /\ s.m_chain_start = p
        /\ s.m_last_header_received = p
    BY <1>2, NewSyncLive
  <2>3. s \in Syncs
    BY <2>2, LiveIs
  <2> HIDE DEF s
  <2>4. k \in Nodes /\ k.sync = s /\ k.index = n.index /\ k.asked = n.asked
    BY <1>1, <2>3 DEF Nodes
  <2> HIDE DEF k
  <2>5. NodeOK(k)
    BY <1>1, <2>2, <2>4 DEF NodeOK
  <2>6. Taken(s, w, R)
    BY <1>2, <2>2, <2>4, HeadersTaken
  <2> HIDE DEF R, w, m
  <2>7. Keeps(k, R, p, h, c) /\ KeepsAsking(k, s, w, R, c)
    BY <1>3, <2>2, <2>5, <2>6, ContinuedIs
  <2> HIDE DEF c
  <2>8. NodeOK(m) /\ m.index = n.index /\ m.sync = R.sync
    BY <2>1, <2>4, <2>7 DEF Keeps
  <2>9. ASSUME NEW C \in HeaderChains, HonestOK(n, C), Begins(w, C) PROVE HonestOK(m, C)
    <3>1. HonestIndex(n.index, C) /\ HonestAsked(n.asked, C)
      BY <2>9 DEF HonestOK
    <3>2. Honestly(k, C)
      BY <2>4, <3>1 DEF Honestly
    <3>3. HonestSync(s, n.index, C)
      BY <2>2, <3>1 DEF HonestSync, HonestIndex
    <3>4. HonestAsked(m.asked, C)
      BY <2>1, <2>4, <2>7, <2>9, <3>2, <3>3 DEF KeepsAsking
    <3>5. HonestSync(R.sync, Onward(n.index, R), C)
      BY <1>1, <1>3, <2>2, <2>6, <2>9, <3>1, <3>3, HonestTaken
    <3>6. Onward(n.index, R) = n.index
      BY <2>2, <2>6 DEF Taken, LetsGo, Onward
    <3> QED BY <2>8, <3>1, <3>4, <3>5, <3>6 DEF HonestOK
  <2>10. StaysHonest(n, m, w)
    BY <2>9 DEF StaysHonest
  <2> QED BY <2>8, <2>10 DEF m, w
<1> QED BY <1>4, <1>5

(* What is stored of the chain w is on it, and w has its work unless it    *)
(* was shown before.                                                       *)
Connects(n, m, w, validated) ==
  /\ Grows(n, m, w)
  /\ m.index # n.index => validated \/ ChainWork(w) >= MinimumChainWork

LEMMA Unconnecting ==
  ASSUME NEW n, NodeOK(n)
  PROVE  /\ NodeOK(HandleUnconnectingHeaders(n))
         /\ HandleUnconnectingHeaders(n).index = n.index
         /\ HandleUnconnectingHeaders(n).sync = n.sync
         /\ \A C : Honestly(n, C) => Honestly(HandleUnconnectingHeaders(n), C)
<1> DEFINE best == BestHeader(n)
           m == MaybeSendGetHeaders(n, best)
<1>1. best \in n.index
  BY BestIs
<1>2. best \in HeaderChains
  BY <1>1 DEF NodeOK, Nodes
<1> HIDE DEF best
<1>3. NodeOK(m) /\ m.index = n.index /\ m.sync = n.sync
      /\ \A C : HonestAsked(n.asked, C) /\ Begins(best, C) => HonestAsked(m.asked, C)
  BY <1>2, AskMore
<1>4. HandleUnconnectingHeaders(n) = m
  BY DEF HandleUnconnectingHeaders, best
<1> HIDE DEF m
<1> QED BY <1>1, <1>3, <1>4 DEF Honestly, HonestIndex

LEMMA FreshIs ==
  ASSUME NEW n, NodeOK(n)
  PROVE  /\ NodeOK([n EXCEPT !.recent = FALSE]) /\ [n EXCEPT !.recent = FALSE].index = n.index
         /\ [n EXCEPT !.recent = FALSE].sync = n.sync /\ [n EXCEPT !.recent = FALSE].asked = n.asked
<1> DEFINE m == [n EXCEPT !.recent = FALSE]
<1>1. n \in Nodes
  BY DEF NodeOK
<1>2. m \in Nodes /\ m.index = n.index /\ m.sync = n.sync /\ m.asked = n.asked
  BY <1>1 DEF Nodes
<1> HIDE DEF m
<1>3. NodeOK(m)
  BY <1>2 DEF NodeOK
<1> QED BY <1>2, <1>3 DEF m

(* What headers that connect to p make of the node.                        *)
Connected(n, m, p, w, validated) ==
  /\ Connects(n, m, w, validated)
  /\ (~validated => StaysHonest(n, m, w))
  /\ (validated /\ p \in n.index => Stores(n, m, w) /\ m.sync = n.sync)

LEMMA ConnectIs ==
  ASSUME now \in Int, NEW n, NodeOK(n), NEW p, NEW h \in Seq(Headers), h # <<>>,
         NEW validated \in BOOLEAN, NEW full \in BOOLEAN, NEW offset \in 0..commitment_period - 1
  PROVE  Connected(n, ConnectHeaders(n, p, h, validated, full, offset), p, p \o h, validated)
<1> DEFINE m == ConnectHeaders(n, p, h, validated, full, offset)
           k == [n EXCEPT !.recent = FALSE]
           w == p \o h
           known == w \in n.index /\ IsPrefix(w, BestHeader(n))
           worked == validated \/ known \/ ChainWork(w) >= MinimumChainWork
<1>1. m = IF p \notin n.index THEN HandleUnconnectingHeaders(n)
          ELSE IF worked THEN ProcessNewBlockHeaders(k, p, h, full)
          ELSE TryLowWorkHeadersSync(k, p, h, offset)
  BY DEF ConnectHeaders
<1>2. NodeOK(k) /\ k.index = n.index /\ k.sync = n.sync /\ k.asked = n.asked
  BY FreshIs
<1> HIDE DEF m, k
<1>3. CASE p \notin n.index
  <2>1. /\ NodeOK(m) /\ m.index = n.index /\ m.sync = n.sync
        /\ \A C : Honestly(n, C) => Honestly(m, C)
    BY <1>1, <1>3, Unconnecting
  <2>2. Connects(n, m, w, validated)
    BY <2>1 DEF Connects, Grows
  <2>3. StaysHonest(n, m, w)
    BY <2>1 DEF StaysHonest, HonestOK, Honestly
  <2> QED BY <1>3, <2>2, <2>3 DEF Connected, m
<1>4. CASE p \in n.index /\ ~worked
  <2>1. m = TryLowWorkHeadersSync(k, p, h, offset)
    BY <1>1, <1>4
  <2>2. NodeOK(m) /\ m.index = k.index /\ StaysHonest(k, m, w)
    BY <1>2, <1>4, <2>1, TryLowWork
  <2> HIDE DEF w
  <2>3. Connects(n, m, w, validated)
    BY <1>2, <2>2 DEF Connects, Grows
  <2>4. StaysHonest(n, m, w)
    BY <1>2, <2>2 DEF StaysHonest, HonestOK
  <2> QED BY <1>4, <2>3, <2>4 DEF Connected, m, w
<1>5. CASE p \in n.index /\ worked
  <2>1. m = ProcessNewBlockHeaders(k, p, h, full)
    BY <1>1, <1>5
  <2>2. Grows(k, m, w) /\ m.sync = k.sync /\ Stores(k, m, w)
    BY <1>2, <1>5, <2>1, NewHeaders
  <2>3. Grows(n, m, w) /\ Stores(n, m, w) /\ m.sync = n.sync
    BY <1>2, <2>2 DEF Grows, Stores, Honestly
  <2>4. m.index # n.index => validated \/ ChainWork(w) >= MinimumChainWork
    <3> SUFFICES ASSUME w \in n.index PROVE m.index = n.index
      BY <1>5
    <3>1. Closed(n.index)
      BY DEF NodeOK
    <3>2. m.index \subseteq HeaderChains
      BY <2>3 DEF Grows, NodeOK, Nodes
    <3> QED BY <2>3, <3>1, <3>2 DEF Grows, Closed
  <2>5. StaysHonest(n, m, w)
    <3> SUFFICES ASSUME NEW C \in HeaderChains, HonestOK(n, C), Begins(w, C), Passed(C)
                 PROVE  HonestOK(m, C)
      BY DEF StaysHonest
    <3>1. Honestly(n, C) /\ HonestSync(n.sync, n.index, C)
      BY DEF HonestOK, Honestly
    <3>2. Honestly(m, C)
      BY <2>3, <3>1 DEF Stores
    <3>3. HonestSync(m.sync, m.index, C)
      BY <2>3, <3>1, MoreIndex DEF Grows
    <3> QED BY <3>2, <3>3 DEF HonestOK, Honestly
  <2> HIDE DEF w
  <2> QED BY <2>3, <2>4, <2>5 DEF Connected, Connects, m, w
<1> QED BY <1>3, <1>4, <1>5

-----------------------------------------------------------------------------
(* A headers message.                                                      *)

(* The chains whose work counts for the chain w that came: itself, and the *)
(* one that the sync s downloads for the second time.                      *)
Sources(s, w) ==
  {w} \cup (IF s.m_download_state = "REDOWNLOAD" THEN {s.m_last_header_received} ELSE {})

HasWork(n, m, w) ==
  \A b \in m.index \ n.index :
    \E c \in Sources(n.sync, w) :
      c \in HeaderChains /\ Begins(b, c) /\ ChainWork(c) >= MinimumChainWork

MessageTaken(n, m, w) ==
  NodeOK(m) /\ n.index \subseteq m.index /\ HasWork(n, m, w) /\ StaysHonest(n, m, w)

LEMMA OutsideSync ==
  ASSUME NEW n, NEW m, NEW p, NEW w \in HeaderChains, Connected(n, m, p, w, FALSE)
  PROVE  MessageTaken(n, m, w)
<1>1. /\ Grows(n, m, w) /\ StaysHonest(n, m, w)
      /\ m.index # n.index => ChainWork(w) >= MinimumChainWork
  BY DEF Connected, Connects
<1>2. w \in Sources(n.sync, w)
  BY DEF Sources
<1> QED BY <1>1, <1>2 DEF MessageTaken, HasWork, Grows

LEMMA ReleasedStored ==
  ASSUME now \in Int, NEW n, NodeOK(n), NEW s, s = n.sync, s # NoSync,
         NEW w \in HeaderChains, NEW R, Taken(s, w, R), R.success, R.ready # <<>>,
         NEW k, NodeOK(k), k.index = n.index, k.sync = R.sync, KeepsAsking(n, s, w, R, [node |-> k]),
         NEW full \in BOOLEAN, NEW offset \in 0..commitment_period - 1
  PROVE  MessageTaken(n, ConnectHeaders(k, R.prev, R.ready, TRUE, full, offset), w)
<1> DEFINE m == ConnectHeaders(k, R.prev, R.ready, TRUE, full, offset)
           x == R.prev \o R.ready
<1>1. LetsGo(s, w, R.prev, R.ready) /\ R.ready \in Seq(Headers)
  BY DEF Taken
<1>2. Connected(k, m, R.prev, x, TRUE)
  BY <1>1, ConnectIs
<1>3. Live(s) /\ s \in Syncs
  BY LiveIs DEF NodeOK
<1>4. s.m_download_state = "REDOWNLOAD" /\ s.m_last_header_received \in HeaderChains
  BY <1>1, <1>3 DEF LetsGo, Syncs
<1>5. PICK c \in {w, s.m_last_header_received} :
        Begins(x, c) /\ ChainWork(c) >= MinimumChainWork
  BY <1>1 DEF LetsGo
<1>6. c \in HeaderChains /\ c \in Sources(s, w)
  BY <1>4 DEF Sources
<1>7. n.index \subseteq HeaderChains /\ R.prev \in Seq(Headers)
  BY <1>1, <1>3 DEF NodeOK, Nodes, LetsGo, Syncs
<1>8. x \in Seq(Headers)
  BY <1>1, <1>7
<1> HIDE DEF m, x
<1>9. Grows(k, m, x)
  BY <1>2 DEF Connected, Connects
<1>10. ASSUME NEW b \in m.index \ n.index PROVE Begins(b, c)
  <2>1. Begins(b, x) /\ b \in HeaderChains
    BY <1>9 DEF Grows, NodeOK, Nodes
  <2>2. b \in Seq(Headers) /\ c \in Seq(Headers)
    BY <1>6, <2>1 DEF HeaderChains
  <2> QED BY <1>5, <1>8, <2>1, <2>2, BeginsMore
<1>11. HasWork(n, m, w)
  BY <1>5, <1>6, <1>10 DEF HasWork
<1>12. ASSUME NEW C \in HeaderChains, HonestOK(n, C), Begins(w, C), Passed(C)
       PROVE  HonestOK(m, C)
  <2>1. Honestly(n, C) /\ HonestIndex(n.index, C) /\ HonestSync(s, n.index, C)
    BY <1>12 DEF HonestOK, Honestly
  <2>2. Honestly(k, C)
    <3>1. HonestAsked([node |-> k].node.asked, C)
      BY <1>12, <2>1 DEF KeepsAsking
    <3> QED BY <2>1, <3>1 DEF Honestly
  <2>3. /\ HonestSync(R.sync, Onward(n.index, R), C)
        /\ R.prev \in n.index /\ Begins(R.prev \o R.ready, C)
    BY <1>3, <1>7, <1>12, <2>1, HonestTaken
  <2>4. Stores(k, m, x) /\ m.sync = k.sync
    BY <1>2, <2>3 DEF Connected
  <2>5. Honestly(m, C) /\ x \in m.index
    BY <1>12, <2>2, <2>3, <2>4 DEF Stores, x
  <2>6. Onward(n.index, R) \subseteq m.index
    BY <1>9, <2>5 DEF Onward, Grows, x
  <2>7. HonestSync(m.sync, m.index, C)
    BY <2>3, <2>4, <2>6, MoreIndex
  <2> QED BY <2>5, <2>7 DEF HonestOK, Honestly
<1>13. StaysHonest(n, m, w)
  BY <1>12 DEF StaysHonest
<1> QED BY <1>9, <1>11, <1>13 DEF MessageTaken, Grows, m

LEMMA WithoutHeaders ==
  ASSUME NEW n, NodeOK(n), NEW w
  PROVE  MessageTaken(n, [n EXCEPT !.sync = NoSync, !.recent = FALSE], w)
<1> DEFINE m == [n EXCEPT !.sync = NoSync, !.recent = FALSE]
<1>1. n \in Nodes
  BY DEF NodeOK
<1>2. m \in Nodes /\ m.index = n.index /\ m.sync = NoSync /\ m.asked = n.asked
  BY <1>1 DEF Nodes
<1> HIDE DEF m
<1>3. NodeOK(m)
  BY <1>2 DEF NodeOK
<1>4. MessageTaken(n, m, w)
  BY <1>2, <1>3 DEF MessageTaken, HasWork, StaysHonest, HonestOK, HonestSync
<1> QED BY <1>4 DEF m

LEMMA MessageIs ==
  ASSUME now \in Int, NEW n, NodeOK(n), NEW p \in HeaderChains, NEW h \in Seq(Headers),
         NEW offset \in 0..commitment_period - 1
  PROVE  MessageTaken(n, ProcessHeadersMessage(n, p, h, offset), p \o h)
<1> DEFINE full == Len(h) = max_headers_result
           w == p \o h
           s == n.sync
           R == ProcessNextHeaders(s, p, h)
           c == Continued(n, p, h, R)
           k == c.node
           m == ProcessHeadersMessage(n, p, h, offset)
<1>1. m = IF h = <<>> THEN [n EXCEPT !.sync = NoSync, !.recent = FALSE]
          ELSE IF n.sync = NoSync THEN ConnectHeaders(n, p, h, FALSE, full, offset)
          ELSE ConnectReleased(c, full, offset)
  BY DEF ProcessHeadersMessage, IsContinuationOfLowWorkHeadersSync
<1>2. w \in HeaderChains
  BY WholeIs
<1>3. full \in BOOLEAN
  OBVIOUS
<1> HIDE DEF full, m
<1>4. CASE h = <<>>
  BY <1>1, <1>4, WithoutHeaders DEF m
<1>5. CASE h # <<>> /\ n.sync = NoSync
  <2>1. m = ConnectHeaders(n, p, h, FALSE, full, offset)
    BY <1>1, <1>5
  <2>2. Connected(n, m, p, w, FALSE)
    BY <1>3, <1>5, <2>1, ConnectIs
  <2> HIDE DEF w
  <2>3. MessageTaken(n, m, w)
    BY <1>2, <2>2, OutsideSync
  <2> QED BY <2>3 DEF m, w
<1>6. CASE h # <<>> /\ n.sync # NoSync
  <2>1. m = ConnectReleased(c, full, offset)
    BY <1>1, <1>6
  <2>2. Live(s)
    BY <1>6 DEF NodeOK
  <2>3. Taken(s, w, R)
    BY <2>2, HeadersTaken
  <2> HIDE DEF R
  <2>4. Keeps(n, R, p, h, c) /\ KeepsAsking(n, s, w, R, c)
    BY <1>2, <2>2, <2>3, ContinuedIs
  <2> HIDE DEF c, w
  <2>5. NodeOK(k) /\ k.index = n.index /\ k.sync = R.sync /\ c.success = R.success
        /\ (R.success => c.prev = R.prev /\ c.headers = R.ready)
        /\ (~R.success => c.prev = p /\ c.headers = h)
    BY <2>4 DEF Keeps
  <2>6. R.success \in BOOLEAN
    BY <2>3 DEF Taken
  <2>7. CASE ~R.success
    <3>1. m = ConnectHeaders(k, p, h, FALSE, full, offset)
      BY <1>6, <2>1, <2>5, <2>6, <2>7 DEF ConnectReleased
    <3>2. R.sync = NoSync
      BY <2>3, <2>7 DEF Taken
    <3>3. Connected(k, m, p, w, FALSE)
      BY <1>3, <1>6, <2>5, <3>1, ConnectIs DEF w
    <3>4. /\ Grows(k, m, w) /\ StaysHonest(k, m, w)
          /\ m.index # k.index => ChainWork(w) >= MinimumChainWork
      BY <3>3 DEF Connected, Connects
    <3>5. w \in Sources(s, w)
      BY DEF Sources
    <3>6. HasWork(n, m, w)
      BY <1>2, <2>5, <3>4, <3>5 DEF HasWork, Grows
    <3>7. ASSUME NEW C \in HeaderChains, HonestOK(n, C), Begins(w, C), Passed(C)
          PROVE  HonestOK(m, C)
      <4>1. Honestly(n, C) /\ HonestSync(s, n.index, C) /\ HonestIndex(n.index, C)
        BY <3>7 DEF HonestOK, Honestly
      <4>2. HonestAsked(k.asked, C)
        BY <2>4, <3>7, <4>1 DEF KeepsAsking
      <4>3. HonestOK(k, C)
        BY <2>5, <3>2, <4>1, <4>2 DEF HonestOK, HonestSync
      <4> QED BY <3>4, <3>7, <4>3 DEF StaysHonest
    <3>8. MessageTaken(n, m, w)
      BY <2>5, <3>4, <3>6, <3>7 DEF MessageTaken, StaysHonest, Grows
    <3> QED BY <3>8 DEF m, w
  <2>8. CASE R.success /\ R.ready = <<>>
    <3>1. m = k
      BY <2>1, <2>5, <2>8 DEF ConnectReleased
    <3>2. ASSUME NEW C \in HeaderChains, HonestOK(n, C), Begins(w, C), Passed(C)
          PROVE  HonestOK(m, C)
      <4>1. Honestly(n, C) /\ HonestSync(s, n.index, C) /\ HonestIndex(n.index, C)
        BY <3>2 DEF HonestOK, Honestly
      <4>2. HonestAsked(k.asked, C)
        BY <2>4, <3>2, <4>1 DEF KeepsAsking
      <4>3. n.index \subseteq HeaderChains
        BY DEF NodeOK, Nodes
      <4>4. HonestSync(R.sync, Onward(n.index, R), C)
        BY <1>2, <2>2, <2>3, <3>2, <4>1, <4>3, HonestTaken
      <4>5. Onward(n.index, R) = n.index
        BY <2>8 DEF Onward
      <4> QED BY <2>5, <3>1, <4>1, <4>2, <4>4, <4>5 DEF HonestOK
    <3>3. MessageTaken(n, m, w)
      BY <2>5, <3>1, <3>2 DEF MessageTaken, StaysHonest, HasWork
    <3> QED BY <3>3 DEF m, w
  <2>9. CASE R.success /\ R.ready # <<>>
    <3>1. m = ConnectHeaders(k, R.prev, R.ready, TRUE, full, offset)
      BY <2>1, <2>5, <2>6, <2>9 DEF ConnectReleased
    <3>2. KeepsAsking(n, s, w, R, [node |-> k])
      BY <2>4 DEF KeepsAsking
    <3>3. MessageTaken(n, m, w)
      BY <1>2, <1>3, <1>6, <2>3, <2>5, <2>9, <3>1, <3>2, ReleasedStored
    <3> QED BY <3>3 DEF m, w
  <2> QED BY <2>6, <2>7, <2>8, <2>9
<1> QED BY <1>4, <1>5, <1>6

-----------------------------------------------------------------------------
(* What another peer may send.                                             *)

(* Chains of X with one header more.                                       *)
Longer(X) ==
  X \cup UNION {{Append(q, h) : h \in Following(q)} : q \in {r \in X : Height(r) < MaxHeight}}

LEMMA FollowingType ==
  ASSUME chain \in HeaderChains, NEW q \in HeaderChains PROVE Following(q) \subseteq Headers
<1>1. Tip(q) \in Headers /\ Len(q) \in Nat \ {0}
  BY ChainIs
<1>2. Tip(q).nTime \in Int
  BY <1>1 DEF Headers
<1>3. \A t : GetNextWorkRequired(q, t) \in Targets
  BY NextWorkType
<1>4. \A step \in ForeignSteps : Tip(q).nTime + step \in Int
  BY <1>2, HeadersSyncAssumption
<1>5. {[nTime |-> t, nBits |-> GetNextWorkRequired(q, t)] :
         t \in {Tip(q).nTime + step : step \in ForeignSteps}} \subseteq Headers
  BY <1>3, <1>4 DEF Headers
<1>6. ASSUME IsStrictPrefix(q, chain) PROVE chain[Len(q) + 1] \in Headers
  <2>1. q \in Seq(Headers) /\ chain \in Seq(Headers)
    BY DEF HeaderChains
  <2>2. Begins(q, chain) /\ q # chain
    BY <1>6, <2>1, PrefixIs DEF IsStrictPrefix
  <2>3. Len(q) # Len(chain)
    BY <2>1, <2>2 DEF Begins
  <2>4. Len(q) + 1 \in 1..Len(chain)
    BY <2>1, <2>2, <2>3 DEF Begins
  <2> QED BY <2>1, <2>4
<1> QED BY <1>5, <1>6 DEF Following

LEMMA LongerType ==
  ASSUME chain \in HeaderChains, NEW X \in SUBSET HeaderChains
  PROVE  Longer(X) \in SUBSET HeaderChains
<1> SUFFICES ASSUME NEW q \in X, NEW h \in Following(q) PROVE Append(q, h) \in HeaderChains
  <2>1. ASSUME NEW c \in Longer(X), c \notin X
        PROVE  \E q \in X : \E h \in Following(q) : c = Append(q, h)
    BY <2>1 DEF Longer
  <2> QED BY <2>1
<1>1. q \in Seq(Headers) /\ h \in Headers
  BY FollowingType DEF HeaderChains
<1>2. Append(q, h) \in Seq(Headers) /\ Len(Append(q, h)) = Len(q) + 1 /\ Len(q) \in Nat
  BY <1>1
<1>3. Append(q, h) # <<>>
  BY <1>2
<1> QED BY <1>2, <1>3 DEF HeaderChains

LEMMA ChainsType ==
  ASSUME chain \in HeaderChains, NEW p \in HeaderChains
  PROVE  Chains(p) \subseteq HeaderChains
<1> DEFINE n == max_headers_result
           S == SUBSET HeaderChains
           F == [x \in (1..n) \X S |-> Longer(x[2])]
           G(g) == [k \in 0..n |-> IF k = 0 THEN {p} ELSE Longer(g[k - 1])]
<1>1. n \in Nat /\ {p} \in S
  BY HeadersSyncAssumption
<1>2. F \in [(1..n) \X S -> S]
  BY LongerType
<1>3. \A k \in 1..n, X \in S : F[<<k, X>>] = Longer(X)
  OBVIOUS
<1> DEFINE f == CHOOSE f : f = G(f)
<1>9. Chains(p) = f[n]
  BY DEF Chains, Longer
<1> HIDE DEF F, n, S
<1>4. PICK g : /\ g \in [0..n -> S] /\ g[0] = {p}
               /\ \A k \in 1..n : g[k] = F[<<k, g[k - 1]>>]
  <2>1. \E g : Recurs(g, F, n, S, {p})
    BY <1>1, <1>2, Recursion DEF StepIn
  <2> QED BY <2>1 DEF Recurs
<1>5. \A k \in 1..n : k - 1 \in 0..n
  BY <1>1
<1>6. \A k \in 1..n : g[k] = Longer(g[k - 1])
  BY <1>3, <1>4, <1>5
<1>7. g = G(g)
  <2>1. \A k \in 0..n : k # 0 => k \in 1..n
    BY <1>1
  <2> QED BY <1>4, <1>6, <2>1
<1>8. f = G(f)
  BY <1>7
<1> HIDE DEF f
<1>10. f[0] = {p} /\ \A k \in 1..n : f[k] = Longer(f[k - 1])
  <2>1. 0 \in 0..n /\ \A k \in 1..n : k \in 0..n /\ k # 0
    BY <1>1
  <2>2. \A k \in 0..n : f[k] = IF k = 0 THEN {p} ELSE Longer(f[k - 1])
    BY <1>8
  <2> QED BY <2>1, <2>2
<1>11. \A k \in 0..n : f[k] = g[k]
  <2> DEFINE Bad == {k \in 0..n : f[k] # g[k]}
  <2> SUFFICES ASSUME Bad # {} PROVE FALSE
    OBVIOUS
  <2>1. PICK k \in Bad : \A y \in Bad : k <= y
    <3>1. Bad \subseteq Nat
      OBVIOUS
    <3> HIDE DEF Bad
    <3> QED BY <3>1, Least
  <2>4. k # 0
    BY <1>4, <1>10
  <2>2. k \in 1..n /\ k - 1 \in 0..n /\ ~(k <= k - 1)
    BY <1>1, <2>4
  <2>3. f[k - 1] = g[k - 1]
    BY <2>1, <2>2
  <2> QED BY <1>6, <1>10, <2>2, <2>3
<1>12. n \in 0..n
  BY <1>1
<1>13. f[n] \in S
  BY <1>4, <1>11, <1>12
<1> QED BY <1>9, <1>13 DEF S

LEMMA PieceType ==
  ASSUME NEW c \in HeaderChains, NEW i \in Nat \ {0}, NEW j, j \in Int, j <= Len(c)
  PROVE  SubSeq(c, i, j) \in Seq(Headers)
<1>1. c \in Seq(Headers)
  BY DEF HeaderChains
<1> QED BY <1>1

(* The answer of an honest peer continues what was asked for.              *)
LEMMA AnswerBegins ==
  ASSUME NEW C \in HeaderChains, NEW p \in HeaderChains, Begins(p, C),
         NEW l, l \in Len(p)..Len(C)
  PROVE  Begins(p \o SubSeq(C, Len(p) + 1, l), C)
<1> DEFINE h == SubSeq(C, Len(p) + 1, l)
           w == p \o h
<1>1. p \in Seq(Headers) /\ C \in Seq(Headers) /\ Len(p) \in Nat /\ Len(C) \in Nat
      /\ l \in Nat /\ Len(p) <= l /\ l <= Len(C)
  BY DEF HeaderChains
<1>2. h \in Seq(Headers) /\ Len(h) = l - Len(p) /\ \A i \in 1..Len(h) : h[i] = C[Len(p) + i]
  BY <1>1
<1> HIDE DEF h
<1>3. p \in Seq(Headers) /\ h \in Seq(Headers)
  BY <1>1, <1>2
<1>4. w \in Seq(Headers) /\ Len(w) = Len(p) + Len(h)
      /\ (\A i \in 1..Len(p) : w[i] = p[i]) /\ \A i \in 1..Len(h) : w[Len(p) + i] = h[i]
  BY <1>3
<1> HIDE DEF w
<1>5. Len(w) <= Len(C)
  BY <1>1, <1>2, <1>4
<1>6. ASSUME NEW k \in 1..Len(w) PROVE w[k] = C[k]
  <2>1. CASE k \in 1..Len(p)
    BY <1>4, <2>1 DEF Begins
  <2>2. CASE k \notin 1..Len(p)
    <3> DEFINE i == k - Len(p)
    <3>1. i \in 1..Len(h) /\ Len(p) + i = k
      BY <1>1, <1>2, <1>4, <2>2
    <3> HIDE DEF i
    <3> QED BY <1>2, <1>4, <3>1
  <2> QED BY <2>1, <2>2
<1> QED BY <1>5, <1>6 DEF Begins, h, w

(* What CheckHeader asks at the time t.                                    *)
GoodAt(b, x, t) ==
  /\ TargetDerivable(x.nBits)
  /\ x.nBits = GetNextWorkRequired(b, x.nTime)
  /\ ~(x.nTime <= GetMedianTimePast(b))
  /\ ~Timewarps(b, x)
  /\ ~(x.nTime > t + MAX_FUTURE_BLOCK_TIME)

PassedAt(C, t) ==
  \A k \in 2..Len(C) : \A b \in HeaderChains :
    Begins(b, C) /\ Len(b) = k - 1 => GoodAt(b, C[k], t)

LEMMA AcceptedAt ==
  ASSUME NEW b, NEW x PROVE CheckHeader(b, x) = "accepted" <=> GoodAt(b, x, now)
BY DEF CheckHeader, TooNew, GoodAt

LEMMA PassedNow == ASSUME NEW C PROVE Passed(C) <=> PassedAt(C, now)
BY AcceptedAt DEF Passed, PassedAt

LEMMA PassedNext ==
  ASSUME NEW C \in HeaderChains, NEW t \in Int, NEW block \in Headers,
         PassedAt(C, t), GoodAt(C, block, t)
  PROVE  PassedAt(Append(C, block), t)
<1> DEFINE D == Append(C, block)
<1>1. C \in Seq(Headers) /\ D \in Seq(Headers) /\ Len(C) \in Nat /\ Len(D) = Len(C) + 1
      /\ D[Len(C) + 1] = block /\ \A i \in 1..Len(C) : D[i] = C[i]
  BY DEF HeaderChains
<1> HIDE DEF D
<1> SUFFICES ASSUME NEW k \in 2..Len(D), NEW b \in HeaderChains, Begins(b, D), Len(b) = k - 1
             PROVE  GoodAt(b, D[k], t)
  BY DEF PassedAt, D
<1>2. b \in Seq(Headers) /\ Len(b) \in Nat /\ Len(b) <= Len(C) /\ k \in Nat
  BY <1>1 DEF HeaderChains
<1>3. \A i \in 1..Len(b) : i \in 1..Len(C)
  BY <1>1, <1>2
<1>4. Begins(b, C)
  BY <1>1, <1>2, <1>3 DEF Begins
<1>5. CASE k <= Len(C)
  <2>1. k \in 2..Len(C) /\ k \in 1..Len(C)
    BY <1>1, <1>2, <1>5
  <2> QED BY <1>1, <1>4, <2>1 DEF PassedAt
<1>6. CASE ~(k <= Len(C))
  <2>1. k = Len(C) + 1 /\ Len(b) = Len(C)
    BY <1>1, <1>2, <1>6
  <2>2. b = C
    BY <1>1, <1>2, <1>4, <2>1 DEF Begins
  <2> QED BY <1>1, <2>1, <2>2
<1> QED BY <1>5, <1>6

LEMMA PassedLater ==
  ASSUME NEW C \in HeaderChains, NEW t \in Int, NEW u \in Int, t <= u, PassedAt(C, t)
  PROVE  PassedAt(C, u)
<1> SUFFICES ASSUME NEW k \in 2..Len(C), NEW b \in HeaderChains, Begins(b, C), Len(b) = k - 1
             PROVE  GoodAt(b, C[k], u)
  BY DEF PassedAt
<1>1. GoodAt(b, C[k], t)
  BY DEF PassedAt
<1>2. C \in Seq(Headers) /\ k \in 1..Len(C)
  BY DEF HeaderChains
<1>3. C[k] \in Headers
  BY <1>2
<1>4. C[k].nTime \in Int /\ MAX_FUTURE_BLOCK_TIME \in Int
  BY <1>3, ChainAssumption DEF Headers
<1>5. ~(C[k].nTime > u + MAX_FUTURE_BLOCK_TIME)
  BY <1>1, <1>4 DEF GoodAt
<1> QED BY <1>1, <1>5 DEF GoodAt

-----------------------------------------------------------------------------
(* Steps.                                                                  *)

SyncOK == chain \in HeaderChains /\ now \in Int /\ NodeOK(Node)

(* With an honest peer, and a clock that does not go back: everything the  *)
(* node has is on the peer's chain, whose headers stay acceptable.         *)
HonestPeer == PassedAt(chain, now) /\ (honest => HonestOK(Node, chain))

(* Headers that were added are on a chain with enough work.                *)
AddsWork(I, J, s, w) ==
  \A b \in J \ I : \E c \in Sources(s, w) :
    b \in HeaderChains /\ c \in HeaderChains /\ Begins(b, c) /\ ChainWork(c) >= MinimumChainWork

LEMMA GenesisType == Genesis \in Headers
<1>1. powLimit \in 0..ArithModulus - 1
  BY LimitAssumption, DifficultyAssumption, ModulusType
<1>2. GetCompact(powLimit) \in Targets
  BY <1>1, CompactType
<1> QED BY <1>2, ChainAssumption DEF Genesis, Headers

LEMMA OnlyOne == ASSUME NEW k \in Nat \ {0}, k <= 1 PROVE k = 1
OBVIOUS

LEMMA NoneAfter == ASSUME NEW C, Len(C) = 1 PROVE PassedAt(C, now)
<1>1. \A k \in 2..1 : FALSE
  OBVIOUS
<1> QED BY <1>1 DEF PassedAt

LEMMA SyncInit == Init => SyncOK /\ HonestPeer
<1> SUFFICES ASSUME Init PROVE SyncOK /\ HonestPeer
  OBVIOUS
<1> DEFINE g == <<Genesis>>
<1>1. g \in Seq(Headers) /\ Len(g) = 1 /\ g[1] = Genesis /\ g # <<>>
  BY GenesisType
<1>2. g \in HeaderChains
  BY <1>1 DEF HeaderChains
<1>3. chain = g /\ now = GenesisTime /\ Node = [index |-> {g}, sync |-> NoSync, asked |-> <<g>>, recent |-> TRUE]
  BY DEF Init, ChainInit, Node
<1>4. /\ Node \in Nodes /\ Node.index = {g} /\ Node.sync = NoSync /\ Node.asked = <<g>>
  BY <1>2, <1>3 DEF Nodes
<1> HIDE DEF g
<1>5. ASSUME NEW b \in HeaderChains, Begins(b, g) PROVE b = g
  <2>1. b \in Seq(Headers) /\ \A i \in 1..Len(b) : b[i] = g[i]
    BY <1>5 DEF Begins, HeaderChains
  <2>3. Len(b) \in Nat \ {0}
    BY ChainIs
  <2>4. Len(b) <= 1
    BY <1>1, <1>5 DEF Begins
  <2>2. Len(b) = 1
    BY <2>3, <2>4, OnlyOne
  <2> QED BY <1>1, <2>1, <2>2
<1>6. Closed({g})
  BY <1>5 DEF Closed
<1>7. IsFiniteSet({g})
  BY FS_Singleton
<1>8. SyncOK
  BY <1>2, <1>3, <1>4, <1>6, <1>7, ChainAssumption DEF SyncOK, NodeOK
<1>9. Begins(g, g)
  BY <1>1, BeginsSelf
<1>10. HonestOK(Node, chain)
  BY <1>3, <1>4, <1>9 DEF HonestOK, HonestIndex, HonestAsked, HonestSync
<1>11. PassedAt(chain, now)
  BY <1>1, <1>3, NoneAfter
<1> QED BY <1>8, <1>10, <1>11 DEF HonestPeer

LEMMA BecomeIs == ASSUME NEW m \in Nodes, Become(m) PROVE Node' = m
BY DEF Nodes, Node, Become

LEMMA ReceiveStep ==
  ASSUME SyncOK, NEW n, NodeOK(n), n.index = index, n.sync = m_headers_sync,
         NEW p \in HeaderChains, NEW h \in Seq(Headers), Receive(n, p, h)
  PROVE  /\ SyncOK' /\ AddsWork(index, index', m_headers_sync, served')
         /\ (HonestPeer /\ HonestOK(n, chain) /\ Begins(p \o h, chain)
               => HonestOK(Node', chain))
<1> DEFINE w == p \o h
<1>1. PICK offset \in 0..commitment_period - 1 : Become(ProcessHeadersMessage(n, p, h, offset))
  BY DEF Receive
<1>2. served' = w /\ chain' = chain /\ now' = now
  BY DEF Receive, chainVars
<1>3. chain \in HeaderChains /\ now \in Int
  BY DEF SyncOK
<1>4. PICK m : m = ProcessHeadersMessage(n, p, h, offset)
  OBVIOUS
<1>5. MessageTaken(n, m, w)
  BY <1>3, <1>4, MessageIs
<1>6. NodeOK(m) /\ HasWork(n, m, w) /\ StaysHonest(n, m, w)
  BY <1>5 DEF MessageTaken
<1>7. m \in Nodes
  BY <1>6 DEF NodeOK
<1>8. Node' = m
  BY <1>1, <1>4, <1>7, BecomeIs
<1>9. m.index = index'
  BY <1>1, <1>4 DEF Become
<1> HIDE DEF w
<1>10. SyncOK'
  BY <1>2, <1>3, <1>6, <1>8 DEF SyncOK
<1>11. AddsWork(index, index', m_headers_sync, w)
  <2>1. m.index \subseteq HeaderChains
    BY <1>7 DEF Nodes
  <2> QED BY <1>6, <1>9, <2>1 DEF AddsWork, HasWork
<1>12. ASSUME HonestPeer, HonestOK(n, chain), Begins(w, chain) PROVE HonestOK(m, chain)
  <2>1. Passed(chain)
    BY <1>12, PassedNow DEF HonestPeer
  <2> QED BY <1>3, <1>6, <1>12, <2>1 DEF StaysHonest
<1> QED BY <1>2, <1>8, <1>10, <1>11, <1>12 DEF w

LEMMA AskedIs ==
  ASSUME SyncOK, asked # <<>>
  PROVE  /\ NodeOK(Answered) /\ Answered.index = index /\ Answered.sync = m_headers_sync
         /\ Head(asked) \in HeaderChains
         /\ (HonestOK(Node, chain) => HonestOK(Answered, chain) /\ Begins(Head(asked), chain))
<1> DEFINE m == Answered
<1>1. NodeOK(Node) /\ Node \in Nodes
  BY DEF SyncOK, NodeOK
<1>2. Node.index = index /\ Node.sync = m_headers_sync /\ Node.asked = asked
  BY DEF Node
<1>3. asked \in Seq(HeaderChains)
  BY <1>1, <1>2 DEF Nodes
<1>4. Tail(asked) \in Seq(HeaderChains) /\ Head(asked) = asked[1] /\ Len(asked) \in Nat \ {0}
      /\ Len(Tail(asked)) = Len(asked) - 1
      /\ \A i \in 1..Len(asked) - 1 : Tail(asked)[i] = asked[i + 1]
  BY <1>3
<1>5. m \in Nodes /\ m.index = index /\ m.sync = m_headers_sync /\ m.asked = Tail(asked)
  BY <1>1, <1>2, <1>4 DEF Answered, Nodes
<1> HIDE DEF m
<1>6. NodeOK(m)
  BY <1>1, <1>2, <1>5 DEF NodeOK
<1>7. 1 \in 1..Len(asked) /\ \A i \in 1..Len(asked) - 1 : i + 1 \in 1..Len(asked)
  BY <1>4
<1>8. Head(asked) \in HeaderChains
  BY <1>3, <1>4, <1>7
<1>9. ASSUME HonestOK(Node, chain) PROVE HonestOK(m, chain) /\ Begins(Head(asked), chain)
  <2>1. \A i \in 1..Len(asked) : Begins(asked[i], chain)
    BY <1>2, <1>9 DEF HonestOK, HonestAsked
  <2>2. HonestAsked(m.asked, chain)
    BY <1>4, <1>5, <1>7, <2>1 DEF HonestAsked
  <2>3. HonestOK(m, chain)
    BY <1>2, <1>5, <1>9, <2>2 DEF HonestOK
  <2> QED BY <1>4, <1>7, <2>1, <2>3
<1> QED BY <1>5, <1>6, <1>8, <1>9 DEF m

LEMMA AnswerStep ==
  ASSUME SyncOK, Answer
  PROVE  /\ SyncOK' /\ AddsWork(index, index', m_headers_sync, served')
         /\ (HonestPeer => HonestPeer')
<1> DEFINE p == Head(asked)
           last == Min({Len(chain), Len(p) + max_headers_result})
           h == SubSeq(chain, Len(p) + 1, last)
<1>1. honest /\ asked # <<>> /\ Receive(Answered, p, h)
  BY DEF Answer
<1>2. /\ NodeOK(Answered) /\ Answered.index = index /\ Answered.sync = m_headers_sync
      /\ p \in HeaderChains
      /\ (HonestOK(Node, chain) => HonestOK(Answered, chain) /\ Begins(p, chain))
  BY <1>1, AskedIs
<1> HIDE DEF p
<1>3. chain \in HeaderChains
  BY DEF SyncOK
<1>4. Len(p) \in Nat \ {0} /\ Len(chain) \in Nat \ {0} /\ max_headers_result \in Nat
  BY <1>2, <1>3, ChainIs, HeadersSyncAssumption
<1>5. last \in Int /\ last <= Len(chain) /\ last \in {Len(chain), Len(p) + max_headers_result}
  <2>1. Len(chain) \in Int /\ Len(p) + max_headers_result \in Int
    BY <1>4
  <2>2. last = IF Len(chain) <= Len(p) + max_headers_result THEN Len(chain)
               ELSE Len(p) + max_headers_result
    BY <2>1, MinOfTwo
  <2> HIDE DEF last
  <2> QED BY <1>4, <2>1, <2>2
<1> HIDE DEF last
<1>6. Len(p) + 1 \in Nat \ {0}
  BY <1>4
<1>7. h \in Seq(Headers)
  BY <1>3, <1>5, <1>6, PieceType
<1>8. /\ SyncOK' /\ AddsWork(index, index', m_headers_sync, served')
      /\ (HonestPeer /\ HonestOK(Answered, chain) /\ Begins(p \o h, chain)
            => HonestOK(Node', chain))
  BY <1>1, <1>2, <1>7, ReceiveStep
<1>9. ASSUME HonestPeer PROVE HonestPeer'
  <2>1. HonestOK(Answered, chain) /\ Begins(p, chain)
    BY <1>1, <1>2, <1>9 DEF HonestPeer
  <2>2. last \in Len(p)..Len(chain)
    BY <1>4, <1>5, <2>1 DEF Begins
  <2>3. Begins(p \o h, chain)
    BY <1>2, <1>3, <2>1, <2>2, AnswerBegins
  <2>4. HonestOK(Node', chain)
    BY <1>8, <1>9, <2>1, <2>3
  <2>5. chain' = chain /\ now' = now /\ honest' = honest
    BY <1>1 DEF Receive, chainVars
  <2> QED BY <1>9, <2>4, <2>5 DEF HonestPeer
<1> QED BY <1>8, <1>9

LEMMA AnythingStep ==
  ASSUME SyncOK, AnswerAnything
  PROVE  /\ SyncOK' /\ AddsWork(index, index', m_headers_sync, served')
         /\ (HonestPeer => HonestPeer')
<1> DEFINE p == Head(asked)
<1>1. PICK c \in Chains(p) : Receive(Answered, p, SubSeq(c, Len(p) + 1, Len(c)))
  BY DEF AnswerAnything
<1>2. ~honest /\ asked # <<>>
  BY DEF AnswerAnything
<1>3. NodeOK(Answered) /\ Answered.index = index /\ Answered.sync = m_headers_sync
      /\ p \in HeaderChains
  BY <1>2, AskedIs
<1> HIDE DEF p
<1>4. chain \in HeaderChains
  BY DEF SyncOK
<1>5. c \in HeaderChains
  BY <1>1, <1>3, <1>4, ChainsType
<1> DEFINE h == SubSeq(c, Len(p) + 1, Len(c))
<1>6. Len(p) + 1 \in Nat \ {0} /\ Len(c) \in Int /\ Len(c) <= Len(c)
  BY <1>3, <1>5, ChainIs
<1>7. h \in Seq(Headers)
  BY <1>5, <1>6, PieceType
<1>8. Receive(Answered, p, h)
  BY <1>1
<1> HIDE DEF h
<1>9. SyncOK' /\ AddsWork(index, index', m_headers_sync, served')
  BY <1>3, <1>7, <1>8, ReceiveStep
<1>10. chain' = chain /\ now' = now /\ honest' = honest
  BY <1>8 DEF Receive, chainVars
<1>11. HonestPeer => HonestPeer'
  BY <1>2, <1>10 DEF HonestPeer
<1> QED BY <1>9, <1>11

LEMMA AnnounceStep ==
  ASSUME SyncOK, AnnounceBlock
  PROVE  SyncOK' /\ index' = index /\ (HonestPeer => HonestPeer')
<1> DEFINE best == BestHeader(Node)
<1>1. NodeOK(Node) /\ Node \in Nodes
  BY DEF SyncOK, NodeOK
<1>2. best \in Node.index
  BY <1>1, BestIs
<1>3. best \in HeaderChains
  BY <1>1, <1>2 DEF Nodes
<1> HIDE DEF best
<1>4. PICK n : n = Node
  OBVIOUS
<1>5. PICK m : m = MaybeSendGetHeaders(n, best)
  OBVIOUS
<1>6. NodeOK(m) /\ m.index = n.index /\ m.sync = n.sync
      /\ \A C : HonestAsked(n.asked, C) /\ Begins(best, C) => HonestAsked(m.asked, C)
  BY <1>1, <1>3, <1>4, <1>5, AskMore
<1>7. Become(m) /\ chain' = chain /\ now' = now /\ honest' = honest
  BY <1>4, <1>5 DEF AnnounceBlock, best, chainVars
<1>8. Node' = m
  BY <1>6, <1>7, BecomeIs DEF NodeOK
<1>9. index' = index
  BY <1>4, <1>6, <1>7 DEF Become, Node
<1>10. SyncOK'
  BY <1>6, <1>7, <1>8 DEF SyncOK
<1>11. ASSUME HonestOK(n, chain) PROVE HonestOK(m, chain)
  BY <1>2, <1>4, <1>6, <1>11 DEF HonestOK, HonestIndex
<1>12. ASSUME HonestPeer PROVE HonestPeer'
  BY <1>4, <1>7, <1>8, <1>11, <1>12 DEF HonestPeer
<1> QED BY <1>9, <1>10, <1>12

LEMMA TimeoutStep ==
  ASSUME SyncOK, ResponseTimePasses
  PROVE  SyncOK' /\ index' = index /\ (HonestPeer => HonestPeer')
<1>1. NodeOK(Node) /\ Node \in Nodes
  BY DEF SyncOK, NodeOK
<1>2. PICK n : n = Node
  OBVIOUS
<1>3. /\ chain' = chain /\ now' = now /\ honest' = honest /\ index' = index
      /\ m_headers_sync' = m_headers_sync /\ asked' = asked /\ recent' = FALSE
  BY DEF ResponseTimePasses, chainVars
<1>4. PICK m : m = [n EXCEPT !.recent = FALSE]
  OBVIOUS
<1>5. NodeOK(m) /\ m.index = n.index /\ m.sync = n.sync /\ m.asked = n.asked
  BY <1>1, <1>2, <1>4, FreshIs
<1>6. Node' = m
  BY <1>2, <1>3, <1>4 DEF Node
<1>7. SyncOK'
  BY <1>3, <1>5, <1>6 DEF SyncOK
<1>8. HonestOK(n, chain) => HonestOK(m, chain)
  BY <1>5 DEF HonestOK
<1>9. ASSUME HonestPeer PROVE HonestPeer'
  BY <1>2, <1>3, <1>6, <1>8, <1>9 DEF HonestPeer
<1> QED BY <1>3, <1>7, <1>9

(* The peer's chain grows: what began it begins it still.                  *)
LEMMA HonestGrows ==
  ASSUME NEW n, NodeOK(n), NEW C \in HeaderChains, NEW D \in HeaderChains, Begins(C, D),
         HonestOK(n, C)
  PROVE  HonestOK(n, D)
<1>1. \A b \in Seq(Headers) : Begins(b, C) => Begins(b, D)
  BY BeginsMore DEF HeaderChains
<1>2. n \in Nodes /\ (n.sync # NoSync => n.sync \in Syncs)
  BY LiveIs DEF NodeOK
<1>3. HonestIndex(n.index, D)
  BY <1>1, <1>2 DEF HonestOK, HonestIndex, Nodes, HeaderChains
<1>4. HonestAsked(n.asked, D)
  <2>1. \A i \in 1..Len(n.asked) : n.asked[i] \in Seq(Headers)
    <3>1. n.asked \in Seq(HeaderChains)
      BY <1>2 DEF Nodes
    <3>2. \A i \in 1..Len(n.asked) : n.asked[i] \in HeaderChains
      BY <3>1
    <3> QED BY <3>2 DEF HeaderChains
  <2> QED BY <1>1, <2>1 DEF HonestOK, HonestAsked
<1>5. HonestSync(n.sync, n.index, D)
  <2> SUFFICES ASSUME n.sync # NoSync PROVE HonestSync(n.sync, n.index, D)
    BY DEF HonestSync
  <2> DEFINE s == n.sync
  <2>1. s.m_last_header_received \in Seq(Headers) /\ s.m_redownload_buffer_last_hash \in Seq(Headers)
    BY <1>2 DEF Syncs, HeaderChains
  <2> QED BY <1>1, <2>1 DEF HonestOK, HonestSync
<1> QED BY <1>3, <1>4, <1>5 DEF HonestOK

LEMMA ChainStep ==
  ASSUME SyncOK, ChainNext, UNCHANGED <<nodeVars, honest, timeouts, answers>>
  PROVE  SyncOK' /\ index' = index /\ (ClockSteps \subseteq Nat /\ HonestPeer => HonestPeer')
<1>1. NodeOK(Node) /\ chain \in HeaderChains /\ now \in Int
  BY DEF SyncOK
<1>2. Node' = Node /\ index' = index /\ honest' = honest
  BY DEF nodeVars, Node
<1>3. PICK n : n = Node
  OBVIOUS
<1>4. PICK C : C = chain
  OBVIOUS
<1>5. ASSUME NEW step \in TimeSteps, ReceiveBlock(step) PROVE SyncOK' /\ (HonestPeer => HonestPeer')
  <2> DEFINE t == Tip(C).nTime + step
             block == [nTime |-> t, nBits |-> GetNextWorkRequired(C, t)]
             D == Append(C, block)
  <2>1. CASE chain' = chain /\ now' = now
    BY <1>1, <1>2, <2>1 DEF SyncOK, HonestPeer
  <2>2. CASE chain' # chain
    <3>1. chain' = D /\ now' = now /\ CheckHeader(C, block) = "accepted"
      BY <1>4, <1>5, <2>2 DEF ReceiveBlock
    <3>2. Tip(C) \in Headers
      BY <1>1, <1>4, ChainIs
    <3>3. t \in Int
      BY <3>2, ChainAssumption DEF Headers
    <3>4. GetNextWorkRequired(C, t) \in Targets
      BY <1>1, <1>4, NextWorkType
    <3> HIDE DEF t
    <3>5. block \in Headers
      BY <3>3, <3>4 DEF Headers
    <3>6. GoodAt(C, block, now)
      BY <3>1, AcceptedAt
    <3> HIDE DEF block
    <3>7. C \in Seq(Headers) /\ block \in Headers
      BY <1>1, <1>4, <3>5 DEF HeaderChains
    <3>8. D \in Seq(Headers) /\ D # <<>>
      <4>1. D \in Seq(Headers) /\ Len(D) = Len(C) + 1 /\ Len(C) \in Nat
        BY <3>7
      <4> QED BY <4>1
    <3>9. Begins(C, D)
      <4>1. Begins(C, C)
        BY <3>7, BeginsSelf
      <4> QED BY <3>7, <4>1, BeginsAppend
    <3> HIDE DEF D
    <3>10. D \in HeaderChains
      BY <3>8 DEF HeaderChains
    <3>11. SyncOK'
      BY <1>1, <1>2, <3>1, <3>10 DEF SyncOK
    <3>12. ASSUME HonestPeer PROVE HonestPeer'
      <4>1. PassedAt(D, now)
        BY <1>1, <1>4, <3>5, <3>6, <3>12, PassedNext DEF HonestPeer, D
      <4>2. HonestOK(n, C) => HonestOK(n, D)
        BY <1>1, <1>3, <1>4, <3>9, <3>10, HonestGrows
      <4> QED BY <1>2, <1>3, <1>4, <3>1, <3>12, <4>1, <4>2 DEF HonestPeer
    <3> QED BY <3>11, <3>12
  <2>3. now' = now
    BY <1>5 DEF ReceiveBlock
  <2> QED BY <2>1, <2>2, <2>3
<1>6. ASSUME NEW step \in ClockSteps, AdvanceClock(step)
      PROVE  SyncOK' /\ (ClockSteps \subseteq Nat /\ HonestPeer => HonestPeer')
  <2>1. chain' = chain /\ now' = now + step /\ now' \in Int
    BY <1>1, <1>6, ChainAssumption DEF AdvanceClock
  <2>2. SyncOK'
    BY <1>1, <1>2, <2>1 DEF SyncOK
  <2>3. ASSUME ClockSteps \subseteq Nat, HonestPeer PROVE HonestPeer'
    <3>1. now <= now'
      BY <1>1, <2>1, <2>3
    <3>2. PICK u : u = now'
      OBVIOUS
    <3>3. PassedAt(C, u)
      BY <1>1, <1>4, <2>1, <2>3, <3>1, <3>2, PassedLater DEF HonestPeer
    <3> QED BY <1>2, <1>4, <2>1, <2>3, <3>2, <3>3 DEF HonestPeer
  <2> QED BY <2>2, <2>3
<1> QED BY <1>2, <1>5, <1>6 DEF ChainNext

LEMMA SyncStep ==
  ASSUME SyncOK, [Next]_vars
  PROVE  /\ SyncOK' /\ AddsWork(index, index', m_headers_sync, served')
         /\ (ClockSteps \subseteq Nat /\ HonestPeer => HonestPeer')
<1>0. index' = index => AddsWork(index, index', m_headers_sync, served')
  BY DEF AddsWork
<1>1. CASE ChainNext /\ UNCHANGED <<nodeVars, honest, timeouts, answers>>
  BY <1>0, <1>1, ChainStep
<1>2. CASE Answer
  BY <1>2, AnswerStep
<1>3. CASE AnswerAnything
  BY <1>3, AnythingStep
<1>4. CASE AnnounceBlock
  BY <1>0, <1>4, AnnounceStep
<1>5. CASE ResponseTimePasses
  BY <1>0, <1>5, TimeoutStep
<1>6. CASE UNCHANGED vars
  <2>1. Node' = Node /\ chain' = chain /\ now' = now /\ honest' = honest /\ index' = index
    BY <1>6 DEF vars, nodeVars, chainVars, Node
  <2> QED BY <1>0, <2>1 DEF SyncOK, HonestPeer
<1> QED BY <1>1, <1>2, <1>3, <1>4, <1>5, <1>6 DEF Next

(* A header is stored for good only on a chain with the required work,     *)
(* whatever the peer sends and whatever chain it redownloads: see          *)
(* StoredHasWork.                                                          *)
THEOREM StoredHasWorkCorrect == Spec => StoredHasWork
<1> DEFINE A == \A b \in index' \ index :
                  \E c \in {served'} \cup (IF m_headers_sync.m_download_state = "REDOWNLOAD"
                                           THEN {m_headers_sync.m_last_header_received} ELSE {}) :
                    IsPrefix(b, c) /\ ChainWork(c) >= MinimumChainWork
<1>1. Init => SyncOK
  BY SyncInit
<1>2. SyncOK /\ [Next]_vars => SyncOK'
  BY SyncStep
<1>3. SyncOK /\ [Next]_vars => [A]_vars
  <2> SUFFICES ASSUME SyncOK, [Next]_vars, NEW b \in index' \ index
               PROVE  \E c \in Sources(m_headers_sync, served') :
                        IsPrefix(b, c) /\ ChainWork(c) >= MinimumChainWork
    BY DEF Sources
  <2>1. AddsWork(index, index', m_headers_sync, served')
    BY SyncStep
  <2>2. PICK c \in Sources(m_headers_sync, served') :
          b \in HeaderChains /\ c \in HeaderChains /\ Begins(b, c) /\ ChainWork(c) >= MinimumChainWork
    BY <2>1 DEF AddsWork
  <2>3. b \in Seq(Headers) /\ c \in Seq(Headers)
    BY <2>2 DEF HeaderChains
  <2>4. IsPrefix(b, c)
    BY <2>2, <2>3, PrefixIs
  <2> QED BY <2>2, <2>4
<1> QED BY <1>1, <1>2, <1>3, PTL DEF Spec, StoredHasWork

(* The buffer of compressed headers spells what was received, and with an  *)
(* honest peer continues a header the node has, if no clock goes back: see *)
(* BufferConnects.                                                         *)
THEOREM BufferConnectsCorrect ==
  ASSUME ClockSteps \subseteq Nat PROVE Spec => []BufferConnects
<1>1. Init => SyncOK /\ HonestPeer
  BY SyncInit
<1>2. SyncOK /\ HonestPeer /\ [Next]_vars => (SyncOK /\ HonestPeer)'
  BY SyncStep
<1>3. SyncOK /\ HonestPeer => BufferConnects
  <2> SUFFICES ASSUME SyncOK, HonestPeer, m_headers_sync.m_download_state = "REDOWNLOAD"
               PROVE  BufferConnects
    BY DEF BufferConnects
  <2>1. NodeOK(Node) /\ Node.sync = m_headers_sync /\ Node.index = index
    BY DEF SyncOK, Node
  <2>2. m_headers_sync # NoSync
    BY DEF NoSync
  <2>3. RedownloadOK(m_headers_sync) /\ m_headers_sync.ok
    BY <2>1, <2>2 DEF NodeOK, Live
  <2>4. honest => HonestSync(m_headers_sync, index, chain)
    BY <2>1 DEF HonestPeer, HonestOK
  <2> QED BY <2>2, <2>3, <2>4 DEF RedownloadOK, HonestSync, BufferConnects
<1> QED BY <1>1, <1>2, <1>3, PTL DEF Spec
=============================================================================
