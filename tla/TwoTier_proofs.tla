--------------------------- MODULE TwoTier_proofs ---------------------------
(***************************************************************************)
(* Theorems about the two-tier bracket, for every set of entries and keys, *)
(* every layout of the first tier, every number of winners and semifinals  *)
(* and any length of podium.                                               *)
(*                                                                         *)
(* Tier1IsPartition and PodiumSurvivesTier1State: as for the shards of one *)
(* tier (Bracket_proofs, whose lemmas on runs and ranks these use).        *)
(* SemifinalsArePartition: promote_tier1 splits the winners into           *)
(* semifinals that fit.  TwoTierKeepsPromise: the winners written are the  *)
(* podium.                                                                 *)
(*                                                                         *)
(* Those are of TierSpec, under which nothing is in flight at a re-pin.    *)
(* TwoTierJobRepinsQuietly and TwoTierJobKeepsPromise: a round that the    *)
(* daily job reveals, taken over from another operator or not, is such a   *)
(* one, and keeps the promise.                                             *)
(*                                                                         *)
(* The inductive invariant TierInv goes up the tiers.  Tier1Gathered: the  *)
(* winners come from runs that pass the shards' checks, and a shard that   *)
(* was revealed over one run and collected with another keeps both until   *)
(* the partition makes them one (Tier1HasWinners).  SemifinalsGathered: a  *)
(* semifinal is a stretch of the ascending winners, the same one when it   *)
(* is queued and when it is collected.  FinalGathered: once all are        *)
(* collected the finalists have the podium; it does not mention the        *)
(* Tier1State and so survives its closing.  Tier1Answers, BracketAnswers:  *)
(* whatever can be used was asked for; a tier-1 stamp is above every       *)
(* bracket generation, so neither tier can take the other's answer.        *)
(***************************************************************************)
EXTENDS TwoTierDriver, Bracket_proofs

-----------------------------------------------------------------------------
(***************************************************************************)
(* Sizes add up.                                                           *)
(***************************************************************************)
LEMMA TotalIsSum ==
  ASSUME NEW sizes \in Seq(Nat)
  PROVE  /\ Total(sizes) = Sum(sizes, Len(sizes))
         /\ \A k \in 1..(Len(sizes) + 1) : Start(sizes, k) = Sum(sizes, k - 1)
BY TotalSums DEF Start

\* The shards' places, one after the other, are the positions 1..Total.
LEMMA StartStep ==
  ASSUME NEW sizes \in Seq(Nat), NEW k \in 1..Len(sizes)
  PROVE  /\ Start(sizes, k) \in Nat
         /\ Start(sizes, k) + sizes[k] = Sum(sizes, k)
         /\ Sum(sizes, k) <= Total(sizes)
<1>1. /\ k \in 1..(Len(sizes) + 1) /\ k - 1 \in 0..Len(sizes)
      /\ k \in 0..Len(sizes) /\ Len(sizes) \in 0..Len(sizes)
  OBVIOUS
<1>2. Start(sizes, k) = Sum(sizes, k - 1) /\ Total(sizes) = Sum(sizes, Len(sizes))
  BY <1>1, TotalIsSum
<1>3. Sum(sizes, k) <= Sum(sizes, Len(sizes))
  BY <1>1, SumGrows
<1>. QED BY <1>1, <1>2, <1>3, SumType, SumNext

LEMMA EveryPosition ==
  ASSUME NEW sizes \in Seq(Nat), NEW p \in Nat \ {0}, p <= Total(sizes)
  PROVE  \E k \in 1..Len(sizes) : p - Start(sizes, k) \in 1..sizes[k]
<1>. DEFINE n == Len(sizes)
            T == {k \in 0..n : p <= Sum(sizes, k)}
<1>1. n \in T
  BY TotalIsSum
<1>2. PICK k \in T : \A l \in T : k <= l
  <2>1. T \in SUBSET Nat /\ T # {}
    BY <1>1
  <2>. HIDE DEF T
  <2>. QED BY <2>1, LeastElement
<1>3. k # 0
  BY SumZero
<1>4. k \in 1..n /\ k - 1 \in 0..n /\ ~ (k <= k - 1)
  BY <1>3
<1>5. Sum(sizes, k - 1) \in Nat /\ ~ (p <= Sum(sizes, k - 1))
  BY <1>2, <1>4, SumType
<1>6. Start(sizes, k) = Sum(sizes, k - 1)
  <2>1. k \in 1..(Len(sizes) + 1)
    BY <1>4
  <2>. QED BY <2>1, TotalIsSum
<1>7. Sum(sizes, k) = Sum(sizes, k - 1) + sizes[k]
  BY <1>4, SumNext
<1>8. p <= Sum(sizes, k)
  OBVIOUS
<1>. HIDE DEF T
<1>9. sizes[k] \in Nat
  BY <1>4
<1>10. p - Start(sizes, k) \in 1..sizes[k]
  <2>. DEFINE a == Sum(sizes, k - 1)
              u == sizes[k]
  <2>1. a \in Nat /\ u \in Nat /\ ~ (p <= a) /\ p <= a + u
    BY <1>5, <1>7, <1>8, <1>9
  <2>2. Start(sizes, k) = a
    BY <1>6
  <2>. HIDE DEF a, u
  <2>3. p - a \in 1..u
    BY <2>1
  <2>. QED BY <2>2, <2>3 DEF u
<1>. QED BY <1>4, <1>10

LEMMA Apart ==
  ASSUME NEW a \in Nat, NEW b \in Nat, NEW u \in Nat, NEW i \in 1..u, NEW m \in Nat \ {0},
         a + u <= b
  PROVE  a + i # b + m
OBVIOUS

LEMMA Within ==
  ASSUME NEW a \in Nat, NEW n \in Nat, NEW l \in Nat, a + n <= l, NEW i \in 1..n
  PROVE  a + i \in 1..l
OBVIOUS

LEMMA OnePosition ==
  ASSUME NEW sizes \in Seq(Nat), NEW j \in 1..Len(sizes), NEW k \in 1..Len(sizes),
         NEW i \in 1..sizes[j], NEW m \in 1..sizes[k],
         Start(sizes, j) + i = Start(sizes, k) + m
  PROVE  j = k /\ i = m
<1>0. sizes[j] \in Nat /\ sizes[k] \in Nat /\ i \in Nat \ {0} /\ m \in Nat \ {0}
  OBVIOUS
<1>1. /\ Start(sizes, j) \in Nat /\ Start(sizes, k) \in Nat
      /\ Start(sizes, j) + sizes[j] = Sum(sizes, j)
      /\ Start(sizes, k) + sizes[k] = Sum(sizes, k)
  BY StartStep
<1>2. Start(sizes, j) = Sum(sizes, j - 1) /\ Start(sizes, k) = Sum(sizes, k - 1)
  <2>1. j \in 1..(Len(sizes) + 1) /\ k \in 1..(Len(sizes) + 1)
    OBVIOUS
  <2>. QED BY <2>1, TotalIsSum
<1>3. CASE j < k
  <2>1. j \in 0..Len(sizes) /\ k - 1 \in 0..Len(sizes) /\ j <= k - 1
    BY <1>3
  <2>2. Sum(sizes, j) <= Sum(sizes, k - 1)
    BY <2>1, SumGrows
  <2>3. Start(sizes, j) + sizes[j] <= Start(sizes, k)
    BY <1>1, <1>2, <2>2
  <2>. QED BY <1>0, <1>1, <2>3, Apart
<1>4. CASE k < j
  <2>1. k \in 0..Len(sizes) /\ j - 1 \in 0..Len(sizes) /\ k <= j - 1
    BY <1>4
  <2>2. Sum(sizes, k) <= Sum(sizes, j - 1)
    BY <2>1, SumGrows
  <2>3. Start(sizes, k) + sizes[k] <= Start(sizes, j)
    BY <1>1, <1>2, <2>2
  <2>. QED BY <1>0, <1>1, <2>3, Apart
<1>5. CASE j = k
  BY <1>0, <1>1, <1>5
<1>6. j \in Nat /\ k \in Nat
  OBVIOUS
<1>. QED BY <1>3, <1>4, <1>5, <1>6

-----------------------------------------------------------------------------
(***************************************************************************)
(* promote_tier1's layout.                                                 *)
(***************************************************************************)
LEMMA SemifinalsBalanced ==
  ASSUME NEW n \in Nat \ {0}, MAX_SHARD_SIZE # 0
  PROVE  /\ semifinal_sizes(n) \in Seq(Nat)
         /\ Len(semifinal_sizes(n)) \in 1..n
         /\ n <= SINGLE_TIER_CAPACITY => Len(semifinal_sizes(n)) <= MAX_SHARDS
         /\ \A k \in 1..Len(semifinal_sizes(n)) : semifinal_sizes(n)[k] \in 1..MAX_SHARD_SIZE
         /\ Total(semifinal_sizes(n)) = n
<1>1. BalancedSizes(n, semifinal_sizes(n))
  BY DEF BalancedSizes, semifinal_sizes
<1>. QED BY <1>1, Balanced DEF SINGLE_TIER_CAPACITY

-----------------------------------------------------------------------------
(***************************************************************************)
(* An ascending sequence of entries, and a stretch of it.                  *)
(***************************************************************************)
LEMMA AscendingOrder ==
  ASSUME NEW S \in SUBSET Entries, NEW i \in 1..Cardinality(S), NEW j \in 1..Cardinality(S), i < j
  PROVE  Ascending(S)[i] < Ascending(S)[j]
<1>. DEFINE e == AtSlot(S, i)
            f == AtSlot(S, j)
<1>1. e \in S /\ f \in S /\ Slot(S, e) = i /\ Slot(S, f) = j
  BY AtSlotType
<1>2. e \in Nat /\ f \in Nat /\ Cardinality(S) \in Nat
  BY <1>1, RunFinite
<1>3. e = Ascending(S)[i] /\ f = Ascending(S)[j]
  BY DEF Ascending
<1>. HIDE DEF e, f
<1>4. CASE f < e
  BY <1>1, <1>2, <1>4, SlotAscends
<1>5. CASE f = e
  BY <1>1, <1>2, <1>5
<1>. QED BY <1>2, <1>3, <1>4, <1>5

IsAscending(w) == w \in Seq(Entries) /\ w = Ascending(Range(w))

LEMMA AscendingSeq ==
  ASSUME NEW w, IsAscending(w)
  PROVE  /\ Range(w) \in SUBSET Entries /\ Len(w) \in Nat
         /\ Cardinality(Range(w)) = Len(w)
         /\ \A i \in 1..Len(w) : w[i] \in Entries
         /\ \A i, j \in 1..Len(w) : i < j => w[i] < w[j]
         /\ \A i, j \in 1..Len(w) : w[i] = w[j] => i = j
<1>. DEFINE R == Range(w)
<1>1. R \in SUBSET Entries /\ w = Ascending(R) /\ w \in Seq(Entries)
  BY DEF IsAscending, Range
<1>. HIDE DEF R
<1>2. Len(w) = Cardinality(R) /\ Len(w) \in Nat
  BY <1>1, AscendingType, RunFinite
<1>3. \A i, j \in 1..Len(w) : i < j => w[i] < w[j]
  BY <1>1, <1>2, AscendingOrder
<1>4. \A i \in 1..Len(w) : w[i] \in Entries
  BY <1>1
<1>5. \A i \in 1..Len(w) : w[i] \in Nat
  BY <1>4, EntriesAssumption
<1>6. ASSUME NEW i \in 1..Len(w), NEW j \in 1..Len(w), w[i] = w[j] PROVE i = j
  BY <1>2, <1>3, <1>5, <1>6
<1>. QED BY <1>1, <1>2, <1>3, <1>4, <1>6 DEF R

Stretch(w, a, n) == {w[a + i] : i \in 1..n}

LEMMA StretchCounted ==
  ASSUME NEW w, IsAscending(w), NEW a \in Nat, NEW n \in Nat, a + n <= Len(w)
  PROVE  /\ Stretch(w, a, n) \in SUBSET Range(w)
         /\ Cardinality(Stretch(w, a, n)) = n
<1>. DEFINE t == [i \in 1..n |-> w[a + i]]
<1>1. \A i \in 1..n : a + i \in 1..Len(w)
  BY AscendingSeq
<1>2. t \in [1..n -> Entries] /\ \A i, j \in 1..n : t[i] = t[j] => i = j
  <2>1. ASSUME NEW i \in 1..n, NEW j \in 1..n, t[i] = t[j] PROVE i = j
    <3>1. a + i = a + j
      BY <1>1, <2>1, AscendingSeq
    <3>. QED BY <3>1
  <2>. QED BY <1>1, <2>1, AscendingSeq
<1>3. Range(t) = Stretch(w, a, n)
  BY DEF Range, Stretch
<1>. HIDE DEF t
<1>4. t \in Seq(Entries) /\ Len(t) = n
  BY <1>2
<1>5. Cardinality(Range(t)) = n
  BY <1>2, <1>4, RangeCounted
<1>6. Stretch(w, a, n) \in SUBSET Range(w)
  <2>1. w \in Seq(Entries)
    BY DEF IsAscending
  <2>. QED BY <1>1, <2>1 DEF Stretch, Range
<1>. QED BY <1>3, <1>5, <1>6

LEMMA StretchSlot ==
  ASSUME NEW w, IsAscending(w), NEW a \in Nat, NEW n \in Nat, a + n <= Len(w), NEW i \in 1..n
  PROVE  AtSlot(Stretch(w, a, n), i) = w[a + i]
<1>. DEFINE R == Stretch(w, a, n)
            e == w[a + i]
<1>1. R \in SUBSET Entries /\ e \in R
  BY StretchCounted, AscendingSeq DEF Stretch
<1>2. {f \in R : f <= e} = Stretch(w, a, i)
  <2>0. \A j \in 1..n : a + j \in 1..Len(w) /\ w[a + j] \in Nat
    <3>1. \A j \in 1..n : a + j \in 1..Len(w)
      BY AscendingSeq
    <3>. QED BY <3>1, AscendingSeq, EntriesAssumption
  <2>1. ASSUME NEW j \in 1..n PROVE w[a + j] <= e <=> j <= i
    <3>1. a + j \in 1..Len(w) /\ a + i \in 1..Len(w) /\ w[a + j] \in Nat /\ w[a + i] \in Nat
      BY <2>0
    <3>2. j > i => w[a + i] < w[a + j]
      <4>1. j > i => a + i < a + j
        OBVIOUS
      <4>. QED BY <3>1, <4>1, AscendingSeq
    <3>3. j < i => w[a + j] < w[a + i]
      <4>1. j < i => a + j < a + i
        OBVIOUS
      <4>. QED BY <3>1, <4>1, AscendingSeq
    <3>4. j = i \/ j < i \/ j > i
      OBVIOUS
    <3>. QED BY <3>1, <3>2, <3>3, <3>4
  <2>2. 1..i \subseteq 1..n /\ \A j \in 1..n : j <= i => j \in 1..i
    OBVIOUS
  <2>. HIDE DEF e
  <2>3. \A f \in R : f <= e => f \in Stretch(w, a, i)
    <3>1. ASSUME NEW j \in 1..n, w[a + j] <= e PROVE w[a + j] \in Stretch(w, a, i)
      BY <2>1, <2>2, <3>1 DEF Stretch
    <3>. QED BY <3>1 DEF Stretch
  <2>4. \A f \in Stretch(w, a, i) : f \in R /\ f <= e
    <3>1. ASSUME NEW j \in 1..i PROVE w[a + j] \in R /\ w[a + j] <= e
      <4>1. j \in 1..n /\ j <= i
        BY <2>2
      <4>. QED BY <2>1, <4>1 DEF Stretch
    <3>. QED BY <3>1 DEF Stretch
  <2>. HIDE DEF R
  <2>. QED BY <2>3, <2>4
<1>3. Cardinality(Stretch(w, a, i)) = i
  <2>1. a + i <= Len(w) /\ i \in Nat
    BY AscendingSeq
  <2>. QED BY <2>1, StretchCounted
<1>4. Slot(R, e) = i
  BY <1>2, <1>3 DEF Slot
<1>5. AtSlot(R, Slot(R, e)) = e
  BY <1>1, AtSlotOf
<1>. QED BY <1>4, <1>5

-----------------------------------------------------------------------------
(***************************************************************************)
(* The inductive invariant.                                                *)
(***************************************************************************)
Tier1Type ==
  /\ tier1 \in [exists : BOOLEAN, shard_sizes : Seq(Nat), shard_bounds : Seq(Nat),
                shard_done : SUBSET Nat, winners : Seq(Entries), promoted : BOOLEAN,
                generation : Nat]
  /\ pins \in Nat

\* The layout init_tier1_bracket let through, pinned under a generation of its
\* own.
Tier1Layout ==
  /\ ~tier1.exists => tier1 = NoTier1
  /\ tier1.exists =>
       /\ Len(tier1.shard_sizes) \in 1..MAX_TIER1_SHARDS
       /\ \A k \in Tier1Shards : tier1.shard_sizes[k] \in 1..MAX_SHARD_SIZE
       /\ Divides(tier1.shard_sizes, tier1.shard_bounds)
       /\ tier1.generation = Slot_at(pins) /\ pins > 0

\* S is the run tier-1 shard k was collected with, T the one it was revealed
\* with.
Tier1HasWinners(k) ==
  \E S, T \in SUBSET Entries :
    /\ in_tier1_shard(S, k) /\ in_tier1_shard(T, k)
    /\ \A i \in 1..taken(tier1.shard_sizes[k]) : Winner(S, T, i) \in Range(tier1.winners)

Tier1Gathered ==
  /\ IsAscending(tier1.winners)
  /\ Len(tier1.winners) <= MAX_TIER1_WINNERS
  /\ \A k \in tier1.shard_done : k \in Tier1Shards /\ Tier1HasWinners(k)
  /\ tier1.promoted => tier1.exists /\ tier1_shards_collected

\* A tier-1 shard's answer is to this Tier1State's question, if there is one, and
\* never carries a generation brackets use.
Tier1Asked(i, S) == tier1.exists => i \in Tier1Shards /\ in_tier1_shard(S, i)

Tier1Answers ==
  /\ \A c \in computations : c.index < SEMI =>
       result[c.index].generation > MaxGenerations /\ Tier1Asked(c.index, c.entries)
  /\ \A i \in Indices : i < SEMI =>
       /\ result[i].generation <= Slot_at(pins)
       /\ result[i].ready => result[i].generation > MaxGenerations
       /\ tier1.exists /\ usable_in_tier1(i) =>
            \E S \in SUBSET Entries : Tier1Asked(i, S) /\ result[i].slots = reveal_top3(S)

\* A promoted bracket partitions the winners, and its finalists are the best of
\* each semifinal collected.
SemifinalsGathered ==
  tier1.promoted =>
    /\ bracket.shard_sizes = semifinal_sizes(Len(tier1.winners))
    /\ \A k \in Shards : bracket.shard_bounds[k] = SemifinalPlace(k, 1)
    /\ bracket.shards_collected \subseteq Shards
    /\ \A i \in 1..Len(finalists) :
         \E k \in bracket.shards_collected : finalists[i] \in Semifinal(k)
    /\ \A k \in bracket.shards_collected : \A i \in 1..taken(bracket.shard_sizes[k]) :
         Best(key, Semifinal(k), i) \in Range(finalists)

\* What stays true of the bracket when the Tier1State is closed.
FinalGathered ==
  /\ \A i, j \in 1..Len(finalists) : finalists[i] = finalists[j] => i = j
  /\ shard_count > 0 /\ all_shards_collected =>
       \A i \in 1..PodiumSize : Best(key, Entries, i) \in Range(finalists)
  /\ FinalInOrder
  /\ bracket.generation <= MaxGenerations

BracketAsked(i, S) ==
  \/ i = SEMI /\ bracket.final_queued /\ S = Range(finalists)
  \/ i > SEMI /\ (tier1.promoted => i - SEMI \in Shards /\ S = Semifinal(i - SEMI))

BracketAnswers ==
  /\ \A c \in computations : c.index >= SEMI => BracketAsked(c.index, c.entries)
  /\ \A i \in Indices : i >= SEMI =>
       /\ result[i].generation <= bracket.generation
       /\ usable(i) =>
            \E S \in SUBSET Entries : BracketAsked(i, S) /\ result[i].slots = reveal_top3(S)

TierInv ==
  /\ TypeOK /\ Tier1Type
  /\ Tier1Layout /\ Tier1Gathered /\ Tier1Answers
  /\ SemifinalsGathered /\ FinalGathered /\ BracketAnswers

-----------------------------------------------------------------------------
(***************************************************************************)
(* What it gives.                                                          *)
(***************************************************************************)
LEMMA FitsTier1Shard ==
  /\ \A S, k : in_tier1_shard(S, k) <=> Fits(tier1.shard_sizes, tier1.shard_bounds, S, k)
  /\ \A k : Tier1Interval(k) = Between(tier1.shard_sizes, tier1.shard_bounds, k)
BY DEF in_tier1_shard, Fits, Tier1Interval, Between

LEMMA Tier1Indices ==
  /\ \A k \in 1..MAX_TIER1_SHARDS : k \in Indices /\ k < SEMI
  /\ \A k \in 1..MAX_SHARDS : SEMI + k \in Indices /\ SEMI + k > SEMI
  /\ SEMI \in Indices /\ FINAL_SHARD_INDEX = SEMI
  /\ \A i \in Indices : i \in Nat
BY SizesAssumption, Tier1Assumption DEF Indices, SEMI, FINAL_SHARD_INDEX

LEMMA Tier1Parts ==
  ASSUME Tier1Type, Tier1Layout, tier1.exists
  PROVE  /\ Divides(tier1.shard_sizes, tier1.shard_bounds)
         /\ Tier1Shards \subseteq 1..MAX_TIER1_SHARDS
         /\ 1 \in Tier1Shards
         /\ \A k \in Tier1Shards : tier1.shard_sizes[k] \in Nat /\ tier1.shard_sizes[k] > 0
         /\ MAX_SHARD_SIZE # 0
<1>1. /\ Len(tier1.shard_sizes) \in 1..MAX_TIER1_SHARDS
      /\ \A k \in 1..Len(tier1.shard_sizes) : tier1.shard_sizes[k] \in 1..MAX_SHARD_SIZE
  BY DEF Tier1Layout, Tier1Shards
<1>2. MAX_TIER1_SHARDS \in Nat /\ MAX_SHARD_SIZE \in Nat
  BY Tier1Assumption, SizesAssumption
<1>. QED BY <1>1, <1>2 DEF Tier1Layout, Tier1Shards

LEMMA Tier1Divided ==
  ASSUME Tier1Type, Tier1Layout, Tier1Gathered, tier1.exists, tier1_shards_collected
  PROVE  /\ \A e \in Entries : \E k \in Tier1Shards : e \in Tier1Interval(k)
         /\ \A k \in Tier1Shards : \A S \in SUBSET Entries :
              in_tier1_shard(S, k) => S = Tier1Interval(k)
         /\ \A k \in Tier1Shards : in_tier1_shard(Tier1Interval(k), k)
<1>1. \A k \in Tier1Shards : \E S \in SUBSET Entries : in_tier1_shard(S, k)
  BY DEF Tier1Gathered, Tier1HasWinners, tier1_shards_collected
<1>2. Divides(tier1.shard_sizes, tier1.shard_bounds)
  BY Tier1Parts
<1>. QED BY <1>1, <1>2, FitsTier1Shard, Partitioned DEF Tier1Shards

LEMMA PodiumSurvivesTier1 ==
  ASSUME KeyOK, Tier1Type, Tier1Layout, Tier1Gathered, tier1.exists, tier1_shards_collected,
         NEW i \in 1..PodiumSize
  PROVE  Best(key, Entries, i) \in Range(tier1.winners)
<1>. DEFINE e == Best(key, Entries, i)
<1>0. key \in [Entries -> Nat]
  BY DEF KeyOK
<1>1. e \in Entries
  BY <1>0, PodiumSizeType, BestType, SizesAssumption
<1>2. PICK k \in Tier1Shards : e \in Tier1Interval(k)
  BY <1>1, Tier1Divided
<1>. DEFINE I == Tier1Interval(k)
            n == tier1.shard_sizes[k]
<1>3. I \in SUBSET Entries /\ n = Cardinality(I)
  BY Tier1Divided DEF Tier1Interval, in_tier1_shard
<1>4. PICK S \in SUBSET Entries, T \in SUBSET Entries :
        /\ in_tier1_shard(S, k) /\ in_tier1_shard(T, k)
        /\ \A j \in 1..taken(n) : Winner(S, T, j) \in Range(tier1.winners)
  BY DEF Tier1Gathered, Tier1HasWinners, tier1_shards_collected
<1>5. S = I /\ T = I
  BY <1>4, Tier1Divided
<1>6. e \in I
  BY <1>2
<1>. HIDE DEF I, n
<1>7. PICK j \in 1..taken(n) : Best(key, I, j) = e
  BY <1>3, <1>6, PodiumWinsRun
<1>8. Winner(I, I, j) = e
  BY <1>3, <1>7, WinnerOfOwnRun
<1>. QED BY <1>4, <1>5, <1>8

\* With every tier-1 shard collected there is a winner, and a promotion to make.
LEMMA SomeTier1Winner ==
  ASSUME KeyOK, Tier1Type, Tier1Layout, Tier1Gathered, tier1.exists, tier1_shards_collected
  PROVE  /\ Len(tier1.winners) \in Nat \ {0}
         /\ Len(tier1.winners) <= SINGLE_TIER_CAPACITY
<1>1. PICK S \in SUBSET Entries, T \in SUBSET Entries :
        \A i \in 1..taken(tier1.shard_sizes[1]) : Winner(S, T, i) \in Range(tier1.winners)
  BY Tier1Parts DEF Tier1Gathered, Tier1HasWinners, tier1_shards_collected
<1>2. 1 \in 1..taken(tier1.shard_sizes[1])
  <2>1. tier1.shard_sizes[1] \in Nat /\ tier1.shard_sizes[1] > 0
    BY Tier1Parts
  <2>. QED BY <2>1, SizesAssumption DEF taken, Smaller
<1>3. Range(tier1.winners) # {}
  BY <1>1, <1>2
<1>4. Len(tier1.winners) \in Nat /\ tier1.winners \in Seq(Entries)
  BY DEF Tier1Type
<1>5. Len(tier1.winners) # 0
  BY <1>3, <1>4 DEF Range
<1>6. SINGLE_TIER_CAPACITY \in Nat /\ MAX_TIER1_WINNERS \in Nat
  BY SizesAssumption, Tier1Assumption DEF SINGLE_TIER_CAPACITY, MAX_TIER1_WINNERS
<1>. QED BY <1>4, <1>5, <1>6, Tier1Assumption DEF Tier1Gathered

LEMMA PromotedLayout ==
  ASSUME KeyOK, Tier1Type, Tier1Layout, Tier1Gathered, tier1.exists, tier1_shards_collected,
         NEW sizes, sizes = semifinal_sizes(Len(tier1.winners))
  PROVE  /\ sizes \in Seq(Nat) /\ Len(sizes) \in 1..MAX_SHARDS
         /\ \A k \in 1..Len(sizes) : sizes[k] \in 1..MAX_SHARD_SIZE
         /\ Total(sizes) = Len(tier1.winners)
<1>1. MAX_SHARD_SIZE # 0
  BY Tier1Parts
<1>2. /\ sizes \in Seq(Nat) /\ Len(sizes) \in 1..Len(tier1.winners) /\ Len(sizes) <= MAX_SHARDS
      /\ \A k \in 1..Len(sizes) : sizes[k] \in 1..MAX_SHARD_SIZE
      /\ Total(sizes) = Len(tier1.winners)
  BY <1>1, SomeTier1Winner, SemifinalsBalanced
<1>. QED BY <1>2, SizesAssumption

\* The semifinals are the stretches of the winners their sizes cut off.
LEMMA SemifinalStretch ==
  /\ \A k : Semifinal(k) =
             Stretch(tier1.winners, Start(bracket.shard_sizes, k), bracket.shard_sizes[k])
  /\ Shards = 1..Len(bracket.shard_sizes) /\ shard_count = Len(bracket.shard_sizes)
BY DEF Semifinal, SemifinalPlace, Stretch, Shards, shard_count

LEMMA Semifinals ==
  ASSUME TierInv, tier1.promoted
  PROVE  /\ shard_count \in 1..MAX_SHARDS
         /\ \A k \in Shards : /\ bracket.shard_sizes[k] \in 1..MAX_SHARD_SIZE
                              /\ Semifinal(k) \in SUBSET Range(tier1.winners)
                              /\ Semifinal(k) \in SUBSET Entries
                              /\ Cardinality(Semifinal(k)) = bracket.shard_sizes[k]
                              /\ \A i \in 1..bracket.shard_sizes[k] :
                                   AtSlot(Semifinal(k), i) = SemifinalPlace(k, i)
         /\ \A e \in Range(tier1.winners) : \E k \in Shards : e \in Semifinal(k)
         /\ \A j, k \in Shards : \A e \in Entries :
              e \in Semifinal(j) /\ e \in Semifinal(k) => j = k
<1>. DEFINE w == tier1.winners
            sizes == bracket.shard_sizes
<1>1. /\ sizes \in Seq(Nat) /\ Len(sizes) \in 1..MAX_SHARDS
      /\ \A k \in 1..Len(sizes) : sizes[k] \in 1..MAX_SHARD_SIZE
      /\ Total(sizes) = Len(w)
  BY PromotedLayout DEF TierInv, TypeOK, Tier1Gathered, SemifinalsGathered
<1>2. IsAscending(w)
  BY DEF TierInv, Tier1Gathered
<1>3. ASSUME NEW k \in 1..Len(sizes)
      PROVE  /\ Start(sizes, k) \in Nat /\ sizes[k] \in Nat
             /\ Start(sizes, k) + sizes[k] <= Len(w)
  <2>1. sizes[k] \in Nat /\ Len(w) \in Nat
    BY <1>1, <1>2, AscendingSeq
  <2>2. /\ Start(sizes, k) \in Nat /\ Start(sizes, k) + sizes[k] = Sum(sizes, k)
        /\ Sum(sizes, k) <= Len(w)
    BY <1>1, StartStep
  <2>. QED BY <2>1, <2>2
<1>4. /\ Shards = 1..Len(sizes) /\ shard_count = Len(sizes)
      /\ \A k : Semifinal(k) = Stretch(w, Start(sizes, k), sizes[k])
      /\ \A k, i : SemifinalPlace(k, i) = w[Start(sizes, k) + i]
  BY SemifinalStretch DEF SemifinalPlace
<1>. HIDE DEF w, sizes
<1>5. ASSUME NEW k \in 1..Len(sizes)
      PROVE  /\ Semifinal(k) \in SUBSET Range(w)
             /\ Semifinal(k) \in SUBSET Entries
             /\ Cardinality(Semifinal(k)) = sizes[k]
             /\ \A i \in 1..sizes[k] : AtSlot(Semifinal(k), i) = SemifinalPlace(k, i)
  <2>. DEFINE a == Start(sizes, k)
              n == sizes[k]
  <2>1. a \in Nat /\ n \in Nat /\ a + n <= Len(w)
    BY <1>3
  <2>2. Semifinal(k) = Stretch(w, a, n) /\ \A i : SemifinalPlace(k, i) = w[a + i]
    BY <1>4
  <2>. HIDE DEF a, n
  <2>3. Semifinal(k) \in SUBSET Range(w) /\ Cardinality(Semifinal(k)) = n
    BY <1>2, <2>1, <2>2, StretchCounted
  <2>4. Range(w) \in SUBSET Entries
    BY <1>2, AscendingSeq
  <2>5. \A i \in 1..n : AtSlot(Semifinal(k), i) = SemifinalPlace(k, i)
    BY <1>2, <2>1, <2>2, StretchSlot
  <2>. QED BY <2>3, <2>4, <2>5 DEF n
<1>6. ASSUME NEW e \in Range(w) PROVE \E k \in 1..Len(sizes) : e \in Semifinal(k)
  <2>1. PICK p \in 1..Len(w) : e = w[p]
    BY <1>2 DEF IsAscending, Range
  <2>2. p \in Nat \ {0} /\ p <= Len(w)
    BY <1>2, <2>1, AscendingSeq
  <2>3. PICK k \in 1..Len(sizes) : p - Start(sizes, k) \in 1..sizes[k]
    BY <1>1, <2>2, EveryPosition
  <2>4. p = Start(sizes, k) + (p - Start(sizes, k))
    BY <1>3, <2>2
  <2>. QED BY <1>4, <2>1, <2>3, <2>4 DEF Stretch
<1>7. ASSUME NEW j \in 1..Len(sizes), NEW k \in 1..Len(sizes), NEW e,
             e \in Semifinal(j), e \in Semifinal(k)
      PROVE  j = k
  <2>1. PICK i \in 1..sizes[j] : e = w[Start(sizes, j) + i]
    BY <1>4, <1>7 DEF Stretch
  <2>2. PICK m \in 1..sizes[k] : e = w[Start(sizes, k) + m]
    BY <1>4, <1>7 DEF Stretch
  <2>3. Start(sizes, j) + i \in 1..Len(w) /\ Start(sizes, k) + m \in 1..Len(w)
    <3>1. Len(w) \in Nat
      BY <1>2, AscendingSeq
    <3>. QED BY <1>3, <3>1, Within
  <2>4. Start(sizes, j) + i = Start(sizes, k) + m
    <3>. DEFINE p == Start(sizes, j) + i
                q == Start(sizes, k) + m
    <3>1. p \in 1..Len(w) /\ q \in 1..Len(w) /\ w[p] = w[q]
      BY <2>1, <2>2, <2>3
    <3>. HIDE DEF p, q
    <3>2. p = q
      BY <1>2, <3>1, AscendingSeq
    <3>. QED BY <3>2 DEF p, q
  <2>. QED BY <1>1, <2>4, OnePosition
<1>. QED BY <1>1, <1>4, <1>5, <1>6, <1>7 DEF w, sizes

\* Whoever belongs on the podium is among the best of a semifinal.
LEMMA PodiumInSemifinals ==
  ASSUME TierInv, tier1.promoted, NEW i \in 1..PodiumSize
  PROVE  \E k \in Shards : \E j \in 1..taken(bracket.shard_sizes[k]) :
           Best(key, Semifinal(k), j) = Best(key, Entries, i)
<1>. DEFINE e == Best(key, Entries, i)
<1>1. e \in Range(tier1.winners) /\ KeyOK
  BY PodiumSurvivesTier1 DEF TierInv, TypeOK, Tier1Gathered
<1>2. PICK k \in Shards : e \in Semifinal(k)
  BY <1>1, Semifinals
<1>3. Semifinal(k) \in SUBSET Entries /\ Cardinality(Semifinal(k)) = bracket.shard_sizes[k]
  BY Semifinals
<1>4. PICK j \in 1..taken(bracket.shard_sizes[k]) : Best(key, Semifinal(k), j) = e
  BY <1>1, <1>2, <1>3, PodiumWinsRun
<1>. QED BY <1>4

LEMMA TierPartition == TierInv => Tier1Partition
BY Tier1Divided DEF TierInv, Tier1Partition, in_tier1_shard

LEMMA TierPodium == TierInv => PodiumAmongTier1Winners
<1>. SUFFICES ASSUME TierInv PROVE PodiumAmongTier1Winners
  OBVIOUS
<1>1. \A i \in 2..Len(tier1.winners) : tier1.winners[i - 1] < tier1.winners[i]
  <2>. SUFFICES ASSUME NEW i \in 2..Len(tier1.winners)
                PROVE  tier1.winners[i - 1] < tier1.winners[i]
    OBVIOUS
  <2>1. IsAscending(tier1.winners)
    BY DEF TierInv, Tier1Gathered
  <2>2. i - 1 \in 1..Len(tier1.winners) /\ i \in 1..Len(tier1.winners) /\ i - 1 < i
    OBVIOUS
  <2>. QED BY <2>1, <2>2, AscendingSeq
<1>2. ASSUME tier1.exists, tier1_shards_collected
      PROVE  Range(Podium(key)) \subseteq Range(tier1.winners)
  <2>1. \A i \in 1..PodiumSize : Best(key, Entries, i) \in Range(tier1.winners)
    BY <1>2, PodiumSurvivesTier1 DEF TierInv, TypeOK
  <2>2. Podium(key) = [i \in 1..PodiumSize |-> Best(key, Entries, i)]
    BY DEF Podium, PodiumSize, taken
  <2>. QED BY <2>1, <2>2 DEF Range
<1>. QED BY <1>1, <1>2 DEF PodiumAmongTier1Winners

LEMMA TierSemifinals == TierInv => SemifinalsPartitionWinners
<1>. SUFFICES ASSUME TierInv PROVE SemifinalsPartitionWinners
  OBVIOUS
<1>1. ASSUME tier1.exists, tier1_shards_collected
      PROVE  /\ Len(semifinal_sizes(Len(tier1.winners))) \in 1..MAX_SHARDS
             /\ Total(semifinal_sizes(Len(tier1.winners))) = Len(tier1.winners)
  BY <1>1, PromotedLayout DEF TierInv, TypeOK
<1>2. ASSUME tier1.promoted
      PROVE  \A k \in Shards : /\ bracket.shard_sizes[k] \in 1..MAX_SHARD_SIZE
                               /\ bracket.shard_bounds[k] = SemifinalPlace(k, 1)
  BY <1>2, Semifinals DEF TierInv, SemifinalsGathered
<1>3. tier1.promoted => /\ tier1.exists /\ tier1_shards_collected
                        /\ bracket.shard_sizes = semifinal_sizes(Len(tier1.winners))
  BY DEF TierInv, SemifinalsGathered, Tier1Gathered
<1>. QED BY <1>1, <1>2, <1>3 DEF SemifinalsPartitionWinners

-----------------------------------------------------------------------------
(***************************************************************************)
(* Every step keeps it.                                                    *)
(***************************************************************************)
LEMMA NoTier1Parts ==
  /\ ~NoTier1.exists /\ ~NoTier1.promoted /\ NoTier1.shard_sizes = <<>>
  /\ NoTier1.shard_bounds = <<>> /\ NoTier1.shard_done = {} /\ NoTier1.winners = <<>>
  /\ NoTier1.generation = 0
BY DEF NoTier1

LEMMA NoWinners ==
  /\ IsAscending(<<>>) /\ Len(<<>>) = 0 /\ MAX_TIER1_WINNERS \in Nat
<1>1. Range(<<>>) = {} /\ Cardinality({}) = 0
  BY FS_EmptySet DEF Range
<1>2. Ascending({}) = <<>>
  BY <1>1 DEF Ascending
<1>3. MAX_TIER1_WINNERS \in Nat
  BY SizesAssumption, Tier1Assumption DEF MAX_TIER1_WINNERS
<1>. QED BY <1>1, <1>2, <1>3 DEF IsAscending

LEMMA InitTier == TierInit => TierInv
<1>. SUFFICES ASSUME TierInit PROVE TierInv
  OBVIOUS
<1>1. TypeOK
  BY InitType DEF TierInit
<1>2. /\ bracket.finalists = <<>> /\ bracket.shards_collected = {} /\ ~bracket.final_queued
      /\ bracket.generation = 0 /\ bracket.shard_sizes = <<>> /\ computations = {}
      /\ tier1 = NoTier1 /\ pins = 0
      /\ \A i \in Indices : ~result[i].ready /\ result[i].generation = 0
  BY DEF TierInit, Init, NoBracket, NoResult
<1>3. Tier1Type
  BY <1>2 DEF NoTier1, Tier1Type
<1>4. Tier1Layout /\ Tier1Gathered /\ SemifinalsGathered
  BY <1>2, NoTier1Parts, NoWinners DEF Tier1Layout, Tier1Gathered, SemifinalsGathered
<1>5. Tier1Answers /\ BracketAnswers
  BY <1>2, SizesAssumption DEF Tier1Answers, BracketAnswers, Slot_at, usable, usable_in_tier1
<1>6. FinalGathered
  BY <1>2, SizesAssumption DEF FinalGathered, FinalInOrder, finalists, shard_count
<1>. QED BY <1>1, <1>3, <1>4, <1>5, <1>6 DEF TierInv

\* What depends on the Tier1State alone, and on the bracket and it.
LEMMA Tier1Kept ==
  ASSUME UNCHANGED <<key, tier1, pins>>
  PROVE  /\ Tier1Type => Tier1Type'
         /\ Tier1Layout => Tier1Layout'
         /\ Tier1Gathered => Tier1Gathered'
         /\ \A i, S : Tier1Asked(i, S)' <=> Tier1Asked(i, S)
         /\ \A S : reveal_top3(S)' = reveal_top3(S)
         /\ Slot_at(pins)' = Slot_at(pins)
<1>1. \A S : reveal_top3(S)' = reveal_top3(S)
  BY DEF reveal_top3
<1>2. \A S, T, i : Winner(S, T, i)' = Winner(S, T, i)
  BY <1>1 DEF Winner
<1>3. \A S, k : in_tier1_shard(S, k)' <=> in_tier1_shard(S, k)
  BY DEF in_tier1_shard
<1>4. Tier1Shards' = Tier1Shards /\ tier1_shards_collected' = tier1_shards_collected
  BY DEF Tier1Shards, tier1_shards_collected
<1>5. \A k : Tier1HasWinners(k)' <=> Tier1HasWinners(k)
  BY <1>2, <1>3 DEF Tier1HasWinners
<1>6. Tier1Type => Tier1Type'
  BY DEF Tier1Type
<1>7. Tier1Layout => Tier1Layout'
  BY <1>4 DEF Tier1Layout, Slot_at
<1>8. Tier1Gathered => Tier1Gathered'
  BY <1>4, <1>5 DEF Tier1Gathered
<1>9. \A i, S : Tier1Asked(i, S)' <=> Tier1Asked(i, S)
  BY <1>3, <1>4 DEF Tier1Asked
<1>. QED BY <1>1, <1>6, <1>7, <1>8, <1>9 DEF Slot_at

LEMMA BracketKept ==
  ASSUME UNCHANGED <<key, tier1, bracket.shard_sizes, bracket.shard_bounds,
                     bracket.shards_collected, bracket.finalists, bracket.final_queued,
                     bracket.generation>>
  PROVE  /\ SemifinalsGathered => SemifinalsGathered'
         /\ FinalGathered => FinalGathered'
         /\ \A i, S : BracketAsked(i, S)' <=> BracketAsked(i, S)
<1>1. /\ Shards' = Shards /\ shard_count' = shard_count
      /\ all_shards_collected' = all_shards_collected
      /\ needs_final_reveal' = needs_final_reveal /\ finalists' = finalists
  BY DEF Shards, shard_count, all_shards_collected, needs_final_reveal, finalists
<1>2. /\ \A k, i : SemifinalPlace(k, i)' = SemifinalPlace(k, i)
      /\ \A k : Semifinal(k)' = Semifinal(k)
  BY DEF SemifinalPlace, Semifinal
<1>3. SemifinalsGathered => SemifinalsGathered'
  BY <1>1, <1>2 DEF SemifinalsGathered
<1>4. FinalGathered => FinalGathered'
  BY <1>1 DEF FinalGathered, FinalInOrder
<1>5. \A i, S : BracketAsked(i, S)' <=> BracketAsked(i, S)
  BY <1>1, <1>2 DEF BracketAsked
<1>. QED BY <1>3, <1>4, <1>5

\* A step of a Tier1State that is not promoted leaves the bracket's part alone.
LEMMA UnpromotedKept ==
  ASSUME TierInv, UNCHANGED vars, ~tier1'.promoted
  PROVE  TypeOK' /\ SemifinalsGathered' /\ FinalGathered' /\ BracketAnswers'
<1>1. UNCHANGED <<key, bracket, result, computations>>
  BY DEF vars
<1>2. TypeOK' /\ SemifinalsGathered'
  BY <1>1 DEF TierInv, TypeOK, KeyOK, SemifinalsGathered
<1>3. FinalGathered'
  <2>1. /\ shard_count' = shard_count /\ all_shards_collected' = all_shards_collected
        /\ needs_final_reveal' = needs_final_reveal /\ finalists' = finalists
    BY <1>1 DEF Shards, shard_count, all_shards_collected, needs_final_reveal, finalists
  <2>. QED BY <1>1, <2>1 DEF TierInv, FinalGathered, FinalInOrder
<1>4. BracketAnswers'
  <2>1. \A i, S : BracketAsked(i, S) => BracketAsked(i, S)'
    BY <1>1 DEF BracketAsked, finalists
  <2>2. \A S : reveal_top3(S)' = reveal_top3(S)
    BY <1>1 DEF reveal_top3
  <2>3. \A i : usable(i)' <=> usable(i)
    BY <1>1 DEF usable
  <2>. QED BY <1>1, <2>1, <2>2, <2>3 DEF TierInv, BracketAnswers
<1>. QED BY <1>2, <1>3, <1>4

LEMMA SuppliedLayout ==
  ASSUME pins \in Nat, pins < Len(Tier1Layouts), NEW l \in Tier1Layouts[pins + 1]
  PROVE  l[1] \in Seq(Nat) /\ l[2] \in Seq(Nat)
<1>1. pins + 1 \in 1..Len(Tier1Layouts)
  BY Tier1Assumption
<1>2. l \in Seq(Nat) \X Seq(Nat)
  BY <1>1, Tier1Assumption
<1>. QED BY <1>2

LEMMA TierByInit ==
  ASSUME TierInv, computations = {}, NEW sizes \in Seq(Nat), NEW bounds \in Seq(Nat),
         init_tier1_bracket(sizes, bounds)
  PROVE  TierInv'
<1>. DEFINE g == Slot_at(pins + 1)
<1>1. /\ UNCHANGED vars /\ pins' = pins + 1 /\ valid_tier1_layout(sizes, bounds)
      /\ tier1' = [NoTier1 EXCEPT !.exists = TRUE, !.shard_sizes = sizes,
                                  !.shard_bounds = bounds, !.generation = g]
  BY DEF init_tier1_bracket
<1>2. pins \in Nat /\ g \in Nat /\ g = MaxGenerations + (pins + 1)
  BY SizesAssumption DEF TierInv, Tier1Type, Slot_at
<1>. HIDE DEF g
<1>3. tier1' = [exists |-> TRUE, shard_sizes |-> sizes, shard_bounds |-> bounds,
                shard_done |-> {}, winners |-> <<>>, promoted |-> FALSE, generation |-> g]
  BY <1>1 DEF NoTier1
<1>4. Tier1Type'
  <2>1. pins' \in Nat
    BY <1>1, <1>2
  <2>. QED BY <1>2, <1>3, <2>1 DEF Tier1Type
<1>5. Tier1Layout'
  <2>1. /\ Len(sizes) \in 1..MAX_TIER1_SHARDS
        /\ \A k \in 1..Len(sizes) : sizes[k] \in 1..MAX_SHARD_SIZE
        /\ Divides(sizes, bounds)
    BY <1>1 DEF valid_tier1_layout, Divides
  <2>2. Slot_at(pins') = g /\ pins' > 0
    BY <1>1, <1>2 DEF Slot_at
  <2>. QED BY <1>3, <2>1, <2>2 DEF Tier1Layout, Tier1Shards
<1>6. Tier1Gathered'
  BY <1>3, NoWinners DEF Tier1Gathered
<1>7. Tier1Answers'
  <2>1. UNCHANGED <<result, computations>> /\ computations' = {}
    BY <1>1 DEF vars
  <2>2. ASSUME NEW i \in Indices, i < SEMI
        PROVE  /\ result[i].generation <= Slot_at(pins')
               /\ result[i].ready => result[i].generation > MaxGenerations
               /\ result[i].generation # g
    <3>1. /\ result[i].generation <= Slot_at(pins)
          /\ result[i].ready => result[i].generation > MaxGenerations
      BY <2>2 DEF TierInv, Tier1Answers
    <3>2. result[i].generation \in Nat
      BY DEF TierInv, TypeOK, ResultType
    <3>. QED BY <1>1, <1>2, <3>1, <3>2, SizesAssumption DEF Slot_at
  <2>3. \A i : usable_in_tier1(i)' => result[i].generation = g
    BY <1>3, <2>1 DEF usable_in_tier1
  <2>4. Slot_at(pins)' = Slot_at(pins')
    BY DEF Slot_at
  <2>5. ASSUME NEW i \in Indices, i < SEMI
        PROVE  /\ result'[i].generation <= Slot_at(pins)'
               /\ result'[i].ready => result'[i].generation > MaxGenerations
               /\ ~usable_in_tier1(i)'
    BY <2>1, <2>2, <2>3, <2>4, <2>5
  <2>. QED BY <2>1, <2>5 DEF Tier1Answers
<1>8. ~tier1'.promoted
  BY <1>3
<1>9. UNCHANGED vars
  BY <1>1
<1>. QED BY <1>4, <1>5, <1>6, <1>7, <1>8, <1>9, UnpromotedKept DEF TierInv

LEMMA TierByClose ==
  ASSUME TierInv, close_tier1_bracket
  PROVE  TierInv'
<1>1. UNCHANGED vars /\ pins' = pins /\ tier1' = NoTier1
  BY DEF close_tier1_bracket
<1>2. Tier1Type'
  BY <1>1 DEF TierInv, Tier1Type, NoTier1
<1>3. Tier1Layout' /\ Tier1Gathered'
  BY <1>1, NoTier1Parts, NoWinners DEF Tier1Layout, Tier1Gathered
<1>4. Tier1Answers'
  <2>1. UNCHANGED <<result, computations>> /\ Slot_at(pins)' = Slot_at(pins) /\ ~tier1'.exists
    BY <1>1, NoTier1Parts DEF vars, Slot_at
  <2>. QED BY <2>1 DEF TierInv, Tier1Answers, Tier1Asked
<1>. QED BY <1>1, <1>2, <1>3, <1>4, NoTier1Parts, UnpromotedKept DEF TierInv

\* Result account i is stamped with g and asked for S.
LEMMA AnswersByStamp ==
  ASSUME TierInv, NEW i \in Indices, NEW S \in SUBSET Entries, NEW g \in Nat,
         result' = [result EXCEPT ![i].ready = FALSE, ![i].generation = g],
         computations' = computations \cup {[index |-> i, entries |-> S]},
         UNCHANGED <<key, tier1, pins, bracket.generation>>,
         \A j, T : BracketAsked(j, T) => BracketAsked(j, T)',
         i < SEMI => g > MaxGenerations /\ g <= Slot_at(pins) /\ Tier1Asked(i, S),
         i >= SEMI => g <= bracket.generation /\ BracketAsked(i, S)'
  PROVE  Tier1Answers' /\ BracketAnswers'
<1>1. /\ ~result'[i].ready /\ result'[i].generation = g
      /\ \A j \in Indices : j # i => result'[j] = result[j]
  BY DEF TierInv, TypeOK, ResultType
<1>2. ASSUME NEW c \in computations'
      PROVE  c \in computations \/ (c.index = i /\ c.entries = S)
  BY <1>2
<1>3. /\ \A j, T : Tier1Asked(j, T)' <=> Tier1Asked(j, T)
      /\ \A T : reveal_top3(T)' = reveal_top3(T)
      /\ Slot_at(pins)' = Slot_at(pins)
  BY Tier1Kept
<1>4. \A c \in computations : c.index \in Indices
  BY DEF TierInv, TypeOK
<1>5. \A j \in Indices : j # i =>
        (usable_in_tier1(j)' <=> usable_in_tier1(j)) /\ (usable(j)' <=> usable(j))
  BY <1>1 DEF usable, usable_in_tier1
<1>6. ~usable_in_tier1(i)' /\ ~usable(i)'
  BY <1>1 DEF usable, usable_in_tier1
<1>7. Tier1Answers'
  <2>1. ASSUME NEW c \in computations', c.index < SEMI
        PROVE  result'[c.index].generation > MaxGenerations /\ Tier1Asked(c.index, c.entries)'
    <3>1. CASE c.index = i /\ c.entries = S
      BY <1>1, <1>3, <2>1, <3>1
    <3>2. CASE c \in computations
      <4>1. result[c.index].generation > MaxGenerations /\ Tier1Asked(c.index, c.entries)
        BY <2>1, <3>2 DEF TierInv, Tier1Answers
      <4>2. CASE c.index = i
        BY <1>1, <1>3, <2>1, <4>1, <4>2
      <4>3. CASE c.index # i
        BY <1>1, <1>3, <1>4, <3>2, <4>1, <4>3
      <4>. QED BY <4>2, <4>3
    <3>. QED BY <1>2, <3>1, <3>2
  <2>2. ASSUME NEW j \in Indices, j < SEMI
        PROVE  /\ result'[j].generation <= Slot_at(pins)'
               /\ result'[j].ready => result'[j].generation > MaxGenerations
               /\ tier1'.exists /\ usable_in_tier1(j)' =>
                    \E T \in SUBSET Entries :
                      Tier1Asked(j, T)' /\ result'[j].slots = reveal_top3(T)'
    <3>1. CASE j = i
      BY <1>1, <1>3, <1>6, <2>2, <3>1
    <3>2. CASE j # i
      <4>1. /\ result[j].generation <= Slot_at(pins)
            /\ result[j].ready => result[j].generation > MaxGenerations
            /\ tier1.exists /\ usable_in_tier1(j) =>
                 \E T \in SUBSET Entries : Tier1Asked(j, T) /\ result[j].slots = reveal_top3(T)
        BY <2>2 DEF TierInv, Tier1Answers
      <4>. QED BY <1>1, <1>3, <1>5, <3>2, <4>1
    <3>. QED BY <3>1, <3>2
  <2>. QED BY <2>1, <2>2 DEF Tier1Answers
<1>8. BracketAnswers'
  <2>1. ASSUME NEW c \in computations', c.index >= SEMI
        PROVE  BracketAsked(c.index, c.entries)'
    BY <1>2, <2>1 DEF TierInv, BracketAnswers
  <2>2. ASSUME NEW j \in Indices, j >= SEMI
        PROVE  /\ result'[j].generation <= bracket'.generation
               /\ usable(j)' => \E T \in SUBSET Entries :
                    BracketAsked(j, T)' /\ result'[j].slots = reveal_top3(T)'
    <3>1. CASE j = i
      BY <1>1, <1>6, <2>2, <3>1
    <3>2. CASE j # i
      <4>1. /\ result[j].generation <= bracket.generation
            /\ usable(j) => \E T \in SUBSET Entries :
                 BracketAsked(j, T) /\ result[j].slots = reveal_top3(T)
        BY <2>2 DEF TierInv, BracketAnswers
      <4>. QED BY <1>1, <1>3, <1>5, <3>2, <4>1
    <3>. QED BY <3>1, <3>2
  <2>. QED BY <2>1, <2>2 DEF BracketAnswers
<1>. QED BY <1>7, <1>8

LEMMA TierByQueueFor ==
  ASSUME TierInv, NEW i \in Indices, NEW S \in SUBSET Entries, NEW g \in Nat, QueueFor(i, S, g),
         i < SEMI => g > MaxGenerations /\ g <= Slot_at(pins) /\ Tier1Asked(i, S),
         i >= SEMI => g <= bracket.generation /\ BracketAsked(i, S)
  PROVE  TierInv'
<1>1. /\ result' = [result EXCEPT ![i].ready = FALSE, ![i].generation = g]
      /\ computations' = computations \cup {[index |-> i, entries |-> S]}
  BY DEF QueueFor
<1>2. UNCHANGED <<key, tier1, pins, bracket>>
  BY DEF QueueFor
<1>3. TypeOK'
  <2>1. bracket' \in BracketType
    BY <1>2 DEF TierInv, TypeOK
  <2>. QED BY <1>1, <1>2, <2>1, TypeByStamp DEF TierInv
<1>4. Tier1Type' /\ Tier1Layout' /\ Tier1Gathered'
  BY <1>2, Tier1Kept DEF TierInv
<1>5. /\ SemifinalsGathered' /\ FinalGathered'
      /\ \A j, T : BracketAsked(j, T)' <=> BracketAsked(j, T)
  BY <1>2, BracketKept DEF TierInv
<1>6. Tier1Answers' /\ BracketAnswers'
  BY <1>1, <1>2, <1>5, AnswersByStamp
<1>. QED BY <1>3, <1>4, <1>5, <1>6 DEF TierInv

LEMMA TierByQueueTier1 ==
  ASSUME TierInv, NEW k \in Tier1Shards, NEW S \in SUBSET Entries, queue_tier1_shard_reveal(k, S)
  PROVE  TierInv'
<1>1. tier1.exists
  BY NoTier1Parts DEF TierInv, Tier1Layout, Tier1Shards
<1>2. k \in Indices /\ k < SEMI
  BY <1>1, Tier1Parts, Tier1Indices DEF TierInv
<1>3. tier1.generation = MaxGenerations + pins /\ tier1.generation \in Nat
  BY <1>1 DEF TierInv, Tier1Layout, Tier1Type, Slot_at
<1>4. pins > 0
  BY <1>1 DEF TierInv, Tier1Layout
<1>5. tier1.generation > MaxGenerations /\ tier1.generation <= Slot_at(pins)
  BY <1>3, <1>4, SizesAssumption DEF Slot_at, TierInv, Tier1Type
<1>6. QueueFor(k, S, tier1.generation) /\ Tier1Asked(k, S)
  BY DEF queue_tier1_shard_reveal, Tier1Asked
<1>7. ~(k >= SEMI)
  BY <1>2, Tier1Indices DEF SEMI
<1>. QED BY <1>2, <1>3, <1>5, <1>6, <1>7, TierByQueueFor

LEMMA TierByQueueSemifinal ==
  ASSUME TierInv, NEW k \in Shards, queue_semifinal_reveal(k)
  PROVE  TierInv'
<1>1. tier1.promoted /\ QueueFor(SEMI + k, Semifinal(k), bracket.generation)
  BY DEF queue_semifinal_reveal
<1>2. k \in 1..MAX_SHARDS
  BY <1>1, Semifinals, SizesAssumption DEF Shards
<1>3. SEMI + k \in Indices /\ SEMI + k > SEMI /\ ~(SEMI + k < SEMI) /\ (SEMI + k) - SEMI = k
  BY <1>2, Tier1Indices, SizesAssumption DEF SEMI
<1>4. Semifinal(k) \in SUBSET Entries /\ bracket.generation \in Nat
  BY <1>1, Semifinals DEF TierInv, TypeOK, BracketType
<1>5. BracketAsked(SEMI + k, Semifinal(k))
  BY <1>3 DEF BracketAsked
<1>6. bracket.generation <= bracket.generation
  BY <1>4
<1>. QED BY <1>1, <1>3, <1>4, <1>5, <1>6, TierByQueueFor

LEMMA TierByAnswer ==
  ASSUME TierInv, NEW c \in computations, reveal_top3_v5_callback(c) \/ Abort(c),
         UNCHANGED <<tier1, pins>>
  PROVE  TierInv'
<1>1. UNCHANGED <<bracket, key, tier1, pins>> /\ computations' \subseteq computations
  BY DEF reveal_top3_v5_callback, Abort
<1>2. TypeOK'
  BY TypeByAnswer DEF TierInv
<1>3. /\ Tier1Type' /\ Tier1Layout' /\ Tier1Gathered'
      /\ \A j, T : Tier1Asked(j, T)' <=> Tier1Asked(j, T)
      /\ \A T : reveal_top3(T)' = reveal_top3(T)
      /\ Slot_at(pins)' = Slot_at(pins)
  BY <1>1, Tier1Kept DEF TierInv
<1>4. /\ SemifinalsGathered' /\ FinalGathered'
      /\ \A j, T : BracketAsked(j, T)' <=> BracketAsked(j, T)
  BY <1>1, BracketKept DEF TierInv
<1>5. c.index \in Indices /\ c.entries \in SUBSET Entries
  BY DEF TierInv, TypeOK
<1>6. ASSUME NEW j \in Indices
      PROVE  /\ result'[j].generation = result[j].generation
             /\ \/ result'[j] = result[j]
                \/ j = c.index /\ result'[j].slots = reveal_top3(c.entries)
  <2>1. CASE reveal_top3_v5_callback(c)
    <3>. DEFINE slots == reveal_top3(c.entries)
    <3>1. result' = [result EXCEPT ![c.index].ready = TRUE, ![c.index].slots = slots]
      BY <2>1 DEF reveal_top3_v5_callback
    <3>. HIDE DEF slots
    <3>2. result \in [Indices -> ResultType]
      BY DEF TierInv, TypeOK
    <3>3. /\ result'[j].generation = result[j].generation
          /\ result'[j] = result[j] \/ (j = c.index /\ result'[j].slots = slots)
      BY <1>5, <3>1, <3>2 DEF ResultType
    <3>. QED BY <3>3 DEF slots
  <2>2. CASE Abort(c)
    BY <2>2 DEF Abort
  <2>. QED BY <2>1, <2>2
<1>7. \A j \in Indices : result'[j] = result[j] =>
        (usable_in_tier1(j)' <=> usable_in_tier1(j)) /\ (usable(j)' <=> usable(j))
  BY <1>1 DEF usable, usable_in_tier1
<1>8. Tier1Answers'
  <2>1. ASSUME NEW d \in computations', d.index < SEMI
        PROVE  result'[d.index].generation > MaxGenerations /\ Tier1Asked(d.index, d.entries)'
    <3>1. d \in computations /\ d.index \in Indices
      BY <1>1 DEF TierInv, TypeOK
    <3>2. result[d.index].generation > MaxGenerations /\ Tier1Asked(d.index, d.entries)
      BY <2>1, <3>1 DEF TierInv, Tier1Answers
    <3>. QED BY <1>3, <1>6, <3>1, <3>2
  <2>2. ASSUME NEW j \in Indices, j < SEMI
        PROVE  /\ result'[j].generation <= Slot_at(pins)'
               /\ result'[j].ready => result'[j].generation > MaxGenerations
               /\ tier1'.exists /\ usable_in_tier1(j)' =>
                    \E T \in SUBSET Entries :
                      Tier1Asked(j, T)' /\ result'[j].slots = reveal_top3(T)'
    <3>1. /\ result[j].generation <= Slot_at(pins)
          /\ result[j].ready => result[j].generation > MaxGenerations
          /\ tier1.exists /\ usable_in_tier1(j) =>
               \E T \in SUBSET Entries : Tier1Asked(j, T) /\ result[j].slots = reveal_top3(T)
      BY <2>2 DEF TierInv, Tier1Answers
    <3>2. CASE result'[j] = result[j]
      BY <1>1, <1>3, <1>7, <3>1, <3>2
    <3>3. CASE j = c.index /\ result'[j].slots = reveal_top3(c.entries)
      <4>1. result[j].generation > MaxGenerations /\ Tier1Asked(j, c.entries)
        BY <2>2, <3>3 DEF TierInv, Tier1Answers
      <4>. QED BY <1>3, <1>5, <1>6, <3>1, <3>3, <4>1
    <3>. QED BY <1>6, <3>2, <3>3
  <2>. QED BY <2>1, <2>2 DEF Tier1Answers
<1>9. BracketAnswers'
  <2>1. \A d \in computations' : d.index >= SEMI => BracketAsked(d.index, d.entries)'
    BY <1>1, <1>4 DEF TierInv, BracketAnswers
  <2>2. ASSUME NEW j \in Indices, j >= SEMI
        PROVE  /\ result'[j].generation <= bracket'.generation
               /\ usable(j)' => \E T \in SUBSET Entries :
                    BracketAsked(j, T)' /\ result'[j].slots = reveal_top3(T)'
    <3>1. /\ result[j].generation <= bracket.generation
          /\ usable(j) => \E T \in SUBSET Entries :
               BracketAsked(j, T) /\ result[j].slots = reveal_top3(T)
      BY <2>2 DEF TierInv, BracketAnswers
    <3>2. CASE result'[j] = result[j]
      BY <1>1, <1>3, <1>4, <1>7, <3>1, <3>2
    <3>3. CASE j = c.index /\ result'[j].slots = reveal_top3(c.entries)
      <4>1. BracketAsked(j, c.entries)
        BY <2>2, <3>3 DEF TierInv, BracketAnswers
      <4>. QED BY <1>1, <1>3, <1>4, <1>5, <1>6, <3>1, <3>3, <4>1
    <3>. QED BY <1>6, <3>2, <3>3
  <2>. QED BY <2>1, <2>2 DEF BracketAnswers
<1>. QED BY <1>2, <1>3, <1>4, <1>8, <1>9 DEF TierInv

\* A step that leaves what is collected, asked and answered alone.
LEMMA TierByOther ==
  ASSUME TierInv, TypeOK',
         UNCHANGED <<key, result, computations, tier1, pins, bracket.generation,
                     bracket.shard_sizes, bracket.shard_bounds, bracket.shards_collected,
                     bracket.finalists, bracket.final_queued>>
  PROVE  TierInv'
<1>1. /\ Tier1Type' /\ Tier1Layout' /\ Tier1Gathered'
      /\ \A j, T : Tier1Asked(j, T)' <=> Tier1Asked(j, T)
      /\ \A T : reveal_top3(T)' = reveal_top3(T)
      /\ Slot_at(pins)' = Slot_at(pins)
  BY Tier1Kept DEF TierInv
<1>2. /\ SemifinalsGathered' /\ FinalGathered'
      /\ \A j, T : BracketAsked(j, T)' <=> BracketAsked(j, T)
  BY BracketKept DEF TierInv
<1>3. \A j : (usable_in_tier1(j)' <=> usable_in_tier1(j)) /\ (usable(j)' <=> usable(j))
  BY DEF usable, usable_in_tier1
<1>4. Tier1Answers'
  BY <1>1, <1>3 DEF TierInv, Tier1Answers
<1>5. BracketAnswers'
  BY <1>1, <1>2, <1>3 DEF TierInv, BracketAnswers
<1>. QED BY <1>1, <1>2, <1>4, <1>5 DEF TierInv

LEMMA TierByPause ==
  ASSUME TierInv, UNCHANGED <<key, bracket, result, computations, tier1, pins>>
  PROVE  TierInv'
<1>1. TypeOK'
  BY DEF TierInv, TypeOK, KeyOK
<1>. QED BY <1>1, TierByOther

LEMMA TierByApply ==
  ASSUME TierInv, NEW i \in Indices, apply_bracket_result(i), UNCHANGED <<tier1, pins>>
  PROVE  TierInv'
<1>1. bracket' = [bracket EXCEPT !.applied = TRUE] /\ UNCHANGED <<key, result, computations>>
  BY DEF apply_bracket_result
<1>2. UNCHANGED <<bracket.generation, bracket.shard_sizes, bracket.shard_bounds,
                  bracket.shards_collected, bracket.finalists, bracket.final_queued>>
  BY <1>1 DEF TierInv, TypeOK, BracketType
<1>3. TypeOK'
  BY <1>1 DEF TierInv, TypeOK, KeyOK, BracketType
<1>. QED BY <1>1, <1>2, <1>3, TierByOther

LEMMA TierByCollectTier1 ==
  ASSUME TierInv, NEW k \in Tier1Shards, NEW S \in SUBSET Entries, collect_tier1_winners(k, S)
  PROVE  TierInv'
<1>. DEFINE n == tier1.shard_sizes[k]
            new == [i \in 1..taken(n) |-> AtSlot(S, result[k].slots[i])]
            w == Ascending(Range(tier1.winners) \cup Range(new))
<1>0. tier1.exists
  BY NoTier1Parts DEF TierInv, Tier1Layout, Tier1Shards
<1>1. /\ usable_in_tier1(k) /\ ~tier1.promoted /\ in_tier1_shard(S, k)
      /\ insertable(new) /\ tier1' = [tier1 EXCEPT !.winners = w, !.shard_done = @ \cup {k}]
  BY DEF collect_tier1_winners, inserted
<1>2. UNCHANGED vars /\ pins' = pins
  BY DEF collect_tier1_winners
<1>3. k \in Indices /\ k < SEMI /\ k \in Nat /\ n \in Nat
  BY <1>0, Tier1Parts, Tier1Indices DEF TierInv
<1>4. PICK T \in SUBSET Entries : in_tier1_shard(T, k) /\ result[k].slots = reveal_top3(T)
  BY <1>0, <1>1, <1>3 DEF TierInv, Tier1Answers, Tier1Asked
<1>5. Cardinality(S) = n /\ Cardinality(T) = n /\ KeyOK /\ taken(n) \in Nat
  BY <1>1, <1>3, <1>4, TakenType DEF in_tier1_shard, TierInv, TypeOK
<1>6. \A i \in 1..taken(n) : new[i] = Winner(S, T, i) /\ new[i] \in Entries
  <2>1. \A i \in 1..taken(n) : new[i] = Winner(S, T, i)
    BY <1>4 DEF Winner
  <2>2. \A i \in 1..taken(n) : Winner(S, T, i) \in Entries
    BY <1>5, WinnerType
  <2>. QED BY <2>1, <2>2
<1>7. new \in [1..taken(n) -> Entries]
  BY <1>6
<1>. HIDE DEF new, n
<1>8. /\ Range(tier1.winners) \in SUBSET Entries
      /\ Range(new) = {new[i] : i \in 1..taken(n)}
      /\ Range(new) \in SUBSET Entries
  <2>1. Range(tier1.winners) \in SUBSET Entries
    BY AscendingSeq DEF TierInv, Tier1Gathered
  <2>. QED BY <1>7, <2>1 DEF Range
<1>9. /\ w \in Seq(Entries) /\ Range(w) = Range(tier1.winners) \cup Range(new)
      /\ Len(w) = Cardinality(Range(tier1.winners) \cup Range(new))
  BY <1>8, AscendingType
<1>10. IsAscending(w) /\ Len(w) <= MAX_TIER1_WINNERS
  BY <1>1, <1>9 DEF IsAscending, insertable
<1>. HIDE DEF w
<1>11. /\ tier1'.winners = w /\ tier1'.shard_done = tier1.shard_done \cup {k}
       /\ UNCHANGED <<tier1.exists, tier1.shard_sizes, tier1.shard_bounds, tier1.promoted,
                      tier1.generation>>
       /\ Tier1Type'
  <2>1. /\ tier1'.winners = w /\ tier1'.shard_done = tier1.shard_done \cup {k}
        /\ UNCHANGED <<tier1.exists, tier1.shard_sizes, tier1.shard_bounds, tier1.promoted,
                       tier1.generation>>
    BY <1>1 DEF TierInv, Tier1Type
  <2>2. Tier1Type'
    BY <1>1, <1>2, <1>3, <1>9 DEF TierInv, Tier1Type
  <2>. QED BY <2>1, <2>2
<1>12. Tier1Shards' = Tier1Shards /\ \A U, j : in_tier1_shard(U, j)' <=> in_tier1_shard(U, j)
  BY <1>11 DEF Tier1Shards, in_tier1_shard
<1>13. /\ \A U : reveal_top3(U)' = reveal_top3(U)
       /\ \A U, V, i : Winner(U, V, i)' = Winner(U, V, i)
  BY <1>2 DEF vars, Winner, reveal_top3
<1>14. Tier1Layout'
  BY <1>0, <1>2, <1>11, <1>12 DEF TierInv, Tier1Layout, Slot_at
<1>15. Tier1Gathered'
  <2>1. ASSUME NEW m \in tier1'.shard_done PROVE m \in Tier1Shards /\ Tier1HasWinners(m)'
    <3>1. CASE m \in tier1.shard_done
      <4>1. m \in Tier1Shards /\ Tier1HasWinners(m)
        BY <3>1 DEF TierInv, Tier1Gathered
      <4>. QED BY <1>9, <1>11, <1>12, <1>13, <4>1 DEF Tier1HasWinners
    <3>2. CASE m = k
      <4>1. \A i \in 1..taken(n) : Winner(S, T, i) \in Range(w)
        BY <1>6, <1>8, <1>9
      <4>2. tier1'.shard_sizes[m] = n
        BY <1>11, <3>2 DEF n
      <4>. QED BY <1>1, <1>4, <1>11, <1>12, <1>13, <3>2, <4>1, <4>2 DEF Tier1HasWinners
    <3>. QED BY <1>11, <3>1, <3>2
  <2>2. ~tier1'.promoted
    BY <1>1, <1>11
  <2>. QED BY <1>10, <1>11, <1>12, <2>1, <2>2 DEF Tier1Gathered
<1>16. Tier1Answers'
  <2>1. UNCHANGED <<result, computations>> /\ Slot_at(pins)' = Slot_at(pins)
    BY <1>2 DEF vars, Slot_at
  <2>2. \A j, U : Tier1Asked(j, U)' <=> Tier1Asked(j, U)
    BY <1>11, <1>12 DEF Tier1Asked
  <2>3. \A j : usable_in_tier1(j)' <=> usable_in_tier1(j)
    BY <1>11, <2>1 DEF usable_in_tier1
  <2>. QED BY <1>11, <1>13, <2>1, <2>2, <2>3 DEF TierInv, Tier1Answers
<1>17. ~tier1'.promoted
  BY <1>1, <1>11
<1>. QED BY <1>2, <1>11, <1>14, <1>15, <1>16, <1>17, UnpromotedKept DEF TierInv

LEMMA TierByPromote ==
  ASSUME TierInv, bracket.generation < MaxGenerations, promote_tier1,
         bracket'.generation # bracket.generation => \A c \in computations : c.index < SEMI
  PROVE  TierInv'
<1>. DEFINE w == tier1.winners
            sizes == semifinal_sizes(Len(w))
            bounds == [k \in 1..Len(sizes) |-> w[Start(sizes, k) + 1]]
<1>1. /\ bracket' = pinned_bracket(sizes, bounds) /\ tier1' = [tier1 EXCEPT !.promoted = TRUE]
      /\ UNCHANGED <<key, result, computations, pins>>
      /\ tier1.exists /\ tier1_shards_collected
  BY DEF promote_tier1
<1>2. /\ sizes \in Seq(Nat) /\ Len(sizes) \in 1..MAX_SHARDS
      /\ \A k \in 1..Len(sizes) : sizes[k] \in 1..MAX_SHARD_SIZE
      /\ Total(sizes) = Len(w)
  BY <1>1, PromotedLayout DEF TierInv, TypeOK
<1>3. w \in Seq(Entries) /\ IsAscending(w) /\ bracket \in BracketType
  BY DEF TierInv, Tier1Gathered, IsAscending, TypeOK
<1>. HIDE DEF sizes, w
<1>4. bounds \in Seq(Entries)
  <2>1. ASSUME NEW k \in 1..Len(sizes) PROVE w[Start(sizes, k) + 1] \in Entries
    <3>1. /\ Start(sizes, k) \in Nat /\ Start(sizes, k) + sizes[k] <= Len(w)
          /\ sizes[k] \in 1..MAX_SHARD_SIZE /\ Len(w) \in Nat /\ MAX_SHARD_SIZE \in Nat
      <4>1. /\ Start(sizes, k) \in Nat /\ Start(sizes, k) + sizes[k] = Sum(sizes, k)
            /\ Sum(sizes, k) <= Len(w)
        BY <1>2, StartStep
      <4>2. sizes[k] \in 1..MAX_SHARD_SIZE /\ Len(w) \in Nat /\ MAX_SHARD_SIZE \in Nat
        BY <1>2, <1>3, SizesAssumption
      <4>. QED BY <4>1, <4>2
    <3>2. Start(sizes, k) + 1 \in 1..Len(w)
      BY <3>1
    <3>. QED BY <1>3, <3>2
  <2>. QED BY <1>2, <2>1
<1>5. \A k \in 1..Len(sizes) : bounds[k] = w[Start(sizes, k) + 1]
  OBVIOUS
<1>. HIDE DEF bounds
<1>6. /\ bracket' \in BracketType
      /\ bracket'.shard_sizes = sizes /\ bracket'.shard_bounds = bounds
      /\ bracket'.shards_collected = {} /\ bracket'.finalists = <<>>
      /\ ~bracket'.final_queued /\ bracket'.generation = bracket.generation + 1
  BY <1>1, <1>2, <1>3, <1>4, PinnedBracketType
<1>7. /\ tier1'.promoted
      /\ UNCHANGED <<tier1.exists, tier1.shard_sizes, tier1.shard_bounds, tier1.shard_done,
                     tier1.winners, tier1.generation>>
      /\ Tier1Type'
  <2>1. tier1'.promoted /\ UNCHANGED <<tier1.exists, tier1.shard_sizes, tier1.shard_bounds,
                                       tier1.shard_done, tier1.winners, tier1.generation>>
    BY <1>1 DEF TierInv, Tier1Type
  <2>2. Tier1Type'
    BY <1>1 DEF TierInv, Tier1Type
  <2>. QED BY <2>1, <2>2
<1>8. TypeOK'
  BY <1>1, <1>6 DEF TierInv, TypeOK, KeyOK
<1>9. /\ Tier1Shards' = Tier1Shards /\ tier1_shards_collected' = tier1_shards_collected
      /\ \A U, j : in_tier1_shard(U, j)' <=> in_tier1_shard(U, j)
  BY <1>7 DEF Tier1Shards, in_tier1_shard, tier1_shards_collected
<1>10. /\ \A U : reveal_top3(U)' = reveal_top3(U)
       /\ \A U, V, i : Winner(U, V, i)' = Winner(U, V, i)
  BY <1>1 DEF Winner, reveal_top3
<1>11. Tier1Layout'
  BY <1>1, <1>7, <1>9 DEF TierInv, Tier1Layout, Slot_at
<1>12. Tier1Gathered'
  <2>1. \A k : Tier1HasWinners(k) => Tier1HasWinners(k)'
    BY <1>7, <1>9, <1>10 DEF Tier1HasWinners
  <2>. QED BY <1>1, <1>7, <1>9, <2>1 DEF TierInv, Tier1Gathered
<1>13. Tier1Answers'
  <2>1. UNCHANGED <<result, computations>> /\ Slot_at(pins)' = Slot_at(pins)
    BY <1>1 DEF Slot_at
  <2>2. \A j, U : Tier1Asked(j, U)' <=> Tier1Asked(j, U)
    BY <1>7, <1>9 DEF Tier1Asked
  <2>3. \A j : usable_in_tier1(j)' <=> usable_in_tier1(j)
    BY <1>7, <2>1 DEF usable_in_tier1
  <2>. QED BY <1>7, <1>10, <2>1, <2>2, <2>3 DEF TierInv, Tier1Answers
<1>14. Shards' = 1..Len(sizes) /\ shard_count' = Len(sizes) /\ finalists' = <<>>
  BY <1>6 DEF Shards, shard_count, finalists
<1>15. SemifinalsGathered'
  <2>1. bracket'.shard_sizes = semifinal_sizes(Len(tier1'.winners))
    BY <1>6, <1>7 DEF sizes, w
  <2>2. \A k, i : SemifinalPlace(k, i)' = w[Start(sizes, k) + i]
    BY <1>6, <1>7 DEF SemifinalPlace, w
  <2>3. \A k \in 1..Len(sizes) : bracket'.shard_bounds[k] = SemifinalPlace(k, 1)'
    BY <1>5, <1>6, <2>2
  <2>4. Len(finalists') = 0
    BY <1>14
  <2>5. semifinal_sizes(Len(tier1.winners))' = semifinal_sizes(Len(tier1'.winners))
    BY DEF semifinal_sizes
  <2>. QED BY <1>6, <1>14, <2>1, <2>3, <2>4, <2>5 DEF SemifinalsGathered
<1>16. bracket.generation \in Nat /\ bracket'.generation <= MaxGenerations
       /\ bracket'.generation > bracket.generation
  BY <1>3, <1>6, SizesAssumption DEF BracketType
<1>17. FinalGathered'
  <2>1. ~all_shards_collected' /\ Len(finalists') = 0
    BY <1>2, <1>6, <1>14, SizesAssumption DEF all_shards_collected
  <2>. QED BY <1>6, <1>16, <2>1 DEF FinalGathered, FinalInOrder
<1>18. BracketAnswers'
  <2>1. \A c \in computations' : c.index < SEMI /\ ~(c.index >= SEMI)
    <3>1. \A c \in computations : c.index < SEMI /\ c.index \in Nat
      BY <1>16, Tier1Indices DEF TierInv, TypeOK
    <3>. QED BY <1>1, <3>1 DEF SEMI
  <2>2. ASSUME NEW i \in Indices, i >= SEMI
        PROVE  result'[i].generation <= bracket'.generation /\ ~usable(i)'
    <3>1. result[i].generation <= bracket.generation /\ result[i].generation \in Nat
      BY <2>2 DEF TierInv, BracketAnswers, TypeOK, ResultType
    <3>2. bracket'.generation \in Nat
      BY <1>6 DEF BracketType
    <3>. QED BY <1>1, <1>16, <3>1, <3>2 DEF usable
  <2>. QED BY <2>1, <2>2 DEF BracketAnswers
<1>. QED BY <1>7, <1>8, <1>11, <1>12, <1>13, <1>15, <1>17, <1>18 DEF TierInv

LEMMA TierFinalists ==
  ASSUME TierInv
  PROVE  /\ finalists \in Seq(Entries) /\ Len(finalists) \in Nat
         /\ Range(finalists) \in SUBSET Entries /\ IsFiniteSet(Range(finalists))
         /\ Cardinality(Range(finalists)) = Len(finalists)
<1>1. finalists \in Seq(Entries)
  BY DEF TierInv, TypeOK, BracketType, finalists
<1>. QED BY <1>1, RangeCounted DEF TierInv, FinalGathered

LEMMA TierByCollectSemifinal ==
  ASSUME TierInv, NEW k \in Shards, collect_semifinal_winners(k)
  PROVE  TierInv'
<1>. DEFINE n == bracket.shard_sizes[k]
            R == Semifinal(k)
            new == [i \in 1..taken(n) |-> SemifinalPlace(k, result[SEMI + k].slots[i])]
<1>1. /\ tier1.promoted /\ usable(SEMI + k) /\ k \notin bracket.shards_collected
      /\ bracket' = [bracket EXCEPT !.finalists = @ \o new, !.shards_collected = @ \cup {k}]
      /\ UNCHANGED <<key, result, computations, tier1, pins>>
  BY DEF collect_semifinal_winners, uncollected
<1>2. k \in 1..MAX_SHARDS /\ k \in Nat /\ SEMI + k \in Indices /\ SEMI + k > SEMI
  <2>1. k \in 1..MAX_SHARDS
    BY <1>1, Semifinals, SizesAssumption DEF Shards
  <2>. QED BY <2>1, Tier1Indices, SizesAssumption
<1>3. result[SEMI + k].slots = reveal_top3(R)
  <2>1. PICK T \in SUBSET Entries :
          BracketAsked(SEMI + k, T) /\ result[SEMI + k].slots = reveal_top3(T)
    BY <1>1, <1>2 DEF TierInv, BracketAnswers, SEMI
  <2>2. (SEMI + k) - SEMI = k /\ SEMI + k # SEMI
    BY <1>2 DEF SEMI
  <2>. QED BY <1>1, <2>1, <2>2 DEF BracketAsked
<1>4. /\ R \in SUBSET Entries /\ Cardinality(R) = n /\ n \in Nat
      /\ \A i \in 1..n : AtSlot(R, i) = SemifinalPlace(k, i)
      /\ KeyOK /\ key \in [Entries -> Nat] /\ taken(n) \in Nat
  <2>1. n \in Nat
    BY <1>1, Semifinals, SizesAssumption
  <2>2. R \in SUBSET Entries /\ Cardinality(R) = n
        /\ \A i \in 1..n : AtSlot(R, i) = SemifinalPlace(k, i)
    BY <1>1, Semifinals
  <2>. QED BY <2>1, <2>2, TakenType DEF TierInv, TypeOK, KeyOK
<1>5. ASSUME NEW i \in 1..taken(n)
      PROVE  new[i] = Best(key, R, i) /\ new[i] \in R
             /\ Cardinality(Beaters(key, R, new[i])) = i - 1
  <2>. HIDE DEF R, n
  <2>1. /\ i \in 1..Cardinality(R)
        /\ reveal_top3(R)[i] = Slot(R, Best(key, R, i))
        /\ reveal_top3(R)[i] \in 1..n
    BY <1>4, SlotOfRank
  <2>2. Best(key, R, i) \in R /\ Cardinality(Beaters(key, R, Best(key, R, i))) = i - 1
    BY <1>4, <2>1, BestType
  <2>3. SemifinalPlace(k, reveal_top3(R)[i]) = AtSlot(R, reveal_top3(R)[i])
    BY <1>4, <2>1
  <2>4. AtSlot(R, reveal_top3(R)[i]) = Best(key, R, i)
    BY <1>4, <2>1, <2>2, AtSlotOf
  <2>. QED BY <1>3, <2>2, <2>3, <2>4
<1>. HIDE DEF new, n, R
<1>6. new \in [1..taken(n) -> Entries]
  <2>1. new = [i \in 1..taken(n) |-> SemifinalPlace(k, result[SEMI + k].slots[i])]
    BY DEF new
  <2>2. \A i \in 1..taken(n) : new[i] \in Entries
    BY <1>4, <1>5
  <2>. QED BY <2>1, <2>2
<1>7. \A i, j \in 1..taken(n) : new[i] = new[j] => i = j
  <2>. SUFFICES ASSUME NEW i \in 1..taken(n), NEW j \in 1..taken(n), new[i] = new[j]
                PROVE  i = j
    OBVIOUS
  <2>1. i - 1 = j - 1
    BY <1>5
  <2>. QED BY <2>1
<1>8. bracket.finalists \o new \in Seq(Entries)
  BY <1>4, <1>6, TierFinalists, Joined DEF finalists
<1>9. /\ finalists' = finalists \o new
      /\ bracket'.shards_collected = bracket.shards_collected \cup {k}
      /\ UNCHANGED <<bracket.shard_sizes, bracket.shard_bounds, bracket.generation,
                     bracket.final_queued>>
      /\ bracket' \in BracketType
  BY <1>1, <1>2, <1>8 DEF TierInv, TypeOK, BracketType, finalists
<1>10. TypeOK'
  BY <1>1, <1>9 DEF TierInv, TypeOK, KeyOK
<1>11. /\ Len(finalists') = Len(finalists) + taken(n)
       /\ \A i \in 1..Len(finalists) : finalists'[i] = finalists[i]
       /\ \A i \in 1..taken(n) : finalists'[Len(finalists) + i] = new[i]
       /\ Range(finalists') = Range(finalists) \cup Range(new)
  <2>. DEFINE m == taken(n)
  <2>1. m \in Nat /\ new \in [1..m -> Entries] /\ finalists \in Seq(Entries)
    BY <1>4, <1>6, TierFinalists
  <2>. HIDE DEF m
  <2>2. /\ Len(finalists \o new) = Len(finalists) + m
        /\ \A i \in 1..Len(finalists) : (finalists \o new)[i] = finalists[i]
        /\ \A i \in 1..m : (finalists \o new)[Len(finalists) + i] = new[i]
        /\ Range(finalists \o new) = Range(finalists) \cup Range(new)
    BY <2>1, Joined
  <2>. QED BY <1>9, <2>2 DEF m
<1>12. \A i \in 1..Len(finalists') :
         \/ i \in 1..Len(finalists)
         \/ \E j \in 1..taken(n) : i = Len(finalists) + j
  <2>. SUFFICES ASSUME NEW i \in 1..Len(finalists'), i \notin 1..Len(finalists)
                PROVE  \E j \in 1..taken(n) : i = Len(finalists) + j
    OBVIOUS
  <2>1. i - Len(finalists) \in 1..taken(n) /\ i = Len(finalists) + (i - Len(finalists))
    BY <1>4, <1>11, TierFinalists
  <2>. QED BY <2>1
<1>13. /\ Shards' = Shards /\ shard_count' = shard_count
       /\ \A j, i : SemifinalPlace(j, i)' = SemifinalPlace(j, i)
       /\ \A j : Semifinal(j)' = Semifinal(j)
  BY <1>1, <1>9 DEF Shards, shard_count, SemifinalPlace, Semifinal
<1>14. ~bracket.final_queued /\ bracket.shards_collected \subseteq Shards
  BY <1>1 DEF TierInv, FinalGathered, FinalInOrder, all_shards_collected, SemifinalsGathered
<1>15. ASSUME NEW m \in bracket'.shards_collected, NEW i \in 1..taken(bracket.shard_sizes[m])
       PROVE  Best(key, Semifinal(m), i) \in Range(finalists')
  <2>1. CASE m = k
    <3>1. new[i] = Best(key, Semifinal(m), i) /\ i \in 1..taken(n)
      BY <1>5, <2>1 DEF n, R
    <3>. QED BY <1>6, <1>11, <3>1 DEF Range
  <2>2. CASE m \in bracket.shards_collected
    <3>1. Best(key, Semifinal(m), i) \in Range(finalists)
      BY <1>1, <2>2 DEF TierInv, SemifinalsGathered
    <3>. QED BY <1>11, <3>1
  <2>. QED BY <1>9, <2>1, <2>2
<1>16. ASSUME NEW i \in 1..Len(finalists')
       PROVE  \E m \in bracket'.shards_collected : finalists'[i] \in Semifinal(m)
  <2>1. CASE i \in 1..Len(finalists)
    <3>1. PICK m \in bracket.shards_collected : finalists[i] \in Semifinal(m)
      BY <1>1, <2>1 DEF TierInv, SemifinalsGathered
    <3>. QED BY <1>9, <1>11, <2>1, <3>1
  <2>2. CASE i \notin 1..Len(finalists)
    <3>1. finalists'[i] \in Semifinal(k)
      BY <1>5, <1>11, <1>12, <2>2 DEF R
    <3>. QED BY <1>9, <3>1
  <2>. QED BY <2>1, <2>2
<1>17. SemifinalsGathered'
  <2>1. /\ bracket.shard_sizes = semifinal_sizes(Len(tier1.winners))
        /\ \A m \in Shards : bracket.shard_bounds[m] = SemifinalPlace(m, 1)
    BY <1>1 DEF TierInv, SemifinalsGathered
  <2>2. bracket'.shards_collected \subseteq Shards
    BY <1>9, <1>14
  <2>. QED BY <1>1, <1>9, <1>13, <1>15, <1>16, <2>1, <2>2 DEF SemifinalsGathered
<1>18. ASSUME NEW i \in 1..Len(finalists'), NEW j \in 1..Len(finalists'),
              finalists'[i] = finalists'[j]
       PROVE  i = j
  <2>1. ASSUME NEW a \in 1..Len(finalists), NEW b \in 1..taken(n)
        PROVE  finalists[a] # new[b]
    <3>1. PICK m \in bracket.shards_collected : finalists[a] \in Semifinal(m)
      BY <1>1 DEF TierInv, SemifinalsGathered
    <3>2. m \in Shards /\ m # k
      BY <1>1, <1>14
    <3>3. new[b] \in Semifinal(k) /\ new[b] \in Entries
      BY <1>4, <1>5 DEF R
    <3>. QED BY <1>1, <3>1, <3>2, <3>3, Semifinals
  <2>2. CASE i \in 1..Len(finalists) /\ j \in 1..Len(finalists)
    BY <1>11, <1>18, <2>2 DEF TierInv, FinalGathered
  <2>3. CASE i \in 1..Len(finalists) /\ j \notin 1..Len(finalists)
    BY <1>11, <1>12, <1>18, <2>1, <2>3
  <2>4. CASE i \notin 1..Len(finalists) /\ j \in 1..Len(finalists)
    BY <1>11, <1>12, <1>18, <2>1, <2>4
  <2>5. CASE i \notin 1..Len(finalists) /\ j \notin 1..Len(finalists)
    <3>1. PICK a \in 1..taken(n) : i = Len(finalists) + a
      BY <1>12, <2>5
    <3>2. PICK b \in 1..taken(n) : j = Len(finalists) + b
      BY <1>12, <2>5
    <3>3. new[a] = new[b]
      BY <1>11, <1>18, <3>1, <3>2
    <3>. QED BY <1>7, <3>1, <3>2, <3>3
  <2>. QED BY <2>2, <2>3, <2>4, <2>5
<1>19. FinalGathered'
  <2>1. ASSUME all_shards_collected', NEW i \in 1..PodiumSize
        PROVE  Best(key, Entries, i) \in Range(finalists')
    <3>1. PICK m \in Shards : \E j \in 1..taken(bracket.shard_sizes[m]) :
            Best(key, Semifinal(m), j) = Best(key, Entries, i)
      BY <1>1, PodiumInSemifinals
    <3>2. m \in bracket'.shards_collected
      BY <1>13, <2>1 DEF all_shards_collected
    <3>. QED BY <1>15, <3>1, <3>2
  <2>2. ~bracket'.final_queued /\ bracket'.generation <= MaxGenerations
    BY <1>9, <1>14 DEF TierInv, FinalGathered
  <2>3. PodiumSize' = PodiumSize
    BY DEF PodiumSize, taken, Smaller
  <2>. QED BY <1>1, <1>18, <2>1, <2>2, <2>3 DEF FinalGathered, FinalInOrder
<1>20. /\ Tier1Type' /\ Tier1Layout' /\ Tier1Gathered'
       /\ \A j, T : Tier1Asked(j, T)' <=> Tier1Asked(j, T)
       /\ \A T : reveal_top3(T)' = reveal_top3(T)
       /\ Slot_at(pins)' = Slot_at(pins)
  BY <1>1, Tier1Kept DEF TierInv
<1>21. \A j : (usable_in_tier1(j)' <=> usable_in_tier1(j)) /\ (usable(j)' <=> usable(j))
  BY <1>1, <1>9 DEF usable, usable_in_tier1
<1>22. Tier1Answers'
  BY <1>1, <1>20, <1>21 DEF TierInv, Tier1Answers
<1>23. \A j, T : BracketAsked(j, T) => BracketAsked(j, T)'
  BY <1>1, <1>13, <1>14 DEF BracketAsked
<1>24. BracketAnswers'
  BY <1>1, <1>9, <1>20, <1>21, <1>23 DEF TierInv, BracketAnswers
<1>. QED BY <1>10, <1>17, <1>19, <1>20, <1>22, <1>24 DEF TierInv

LEMMA TierByQueueFinal ==
  ASSUME TierInv, NEW S \in SUBSET Entries, queue_final(S), UNCHANGED <<tier1, pins>>
  PROVE  TierInv'
<1>1. /\ UNCHANGED <<key, tier1, pins>>
      /\ result' = [result EXCEPT ![SEMI].ready = FALSE, ![SEMI].generation = bracket.generation]
      /\ computations' = computations \cup {[index |-> SEMI, entries |-> S]}
      /\ shard_count > 0 /\ needs_final_reveal /\ all_shards_collected
      /\ bracket' = [bracket EXCEPT !.finalists = Ascending(S), !.final_queued = TRUE]
  BY Tier1Indices DEF queue_final, Queue
<1>2. S = Range(finalists)
  <2>1. S \subseteq Range(finalists) /\ Cardinality(S) = Len(finalists)
    BY DEF queue_final, finalists
  <2>. QED BY <2>1, TierFinalists, FS_Subset
<1>3. Ascending(S) \in Seq(Entries) /\ Range(Ascending(S)) = S
  BY AscendingType
<1>4. /\ finalists' = Ascending(S) /\ bracket'.final_queued
      /\ UNCHANGED <<bracket.shard_sizes, bracket.shard_bounds, bracket.shards_collected,
                     bracket.generation>>
      /\ bracket' \in BracketType
  BY <1>1, <1>3 DEF TierInv, TypeOK, BracketType, finalists
<1>5. Range(finalists') = Range(finalists)
  BY <1>2, <1>3, <1>4
<1>6. bracket.generation \in Nat /\ SEMI \in Indices /\ ~(SEMI < SEMI)
  BY Tier1Indices DEF TierInv, TypeOK, BracketType, SEMI
<1>7. TypeOK'
  BY <1>1, <1>4, <1>6, TypeByStamp DEF TierInv
<1>8. /\ Shards' = Shards /\ shard_count' = shard_count
      /\ needs_final_reveal' = needs_final_reveal
      /\ all_shards_collected' = all_shards_collected
      /\ \A j, i : SemifinalPlace(j, i)' = SemifinalPlace(j, i)
      /\ \A j : Semifinal(j)' = Semifinal(j)
  BY <1>1, <1>4 DEF Shards, shard_count, needs_final_reveal, all_shards_collected,
                    SemifinalPlace, Semifinal
<1>9. \A i \in 1..Len(finalists') :
        /\ i \in 1..Cardinality(S)
        /\ finalists'[i] \in S /\ Slot(S, finalists'[i]) = i
  BY <1>4, AscendingType, AtSlotType
<1>10. SemifinalsGathered'
  <2>. SUFFICES ASSUME tier1.promoted PROVE SemifinalsGathered'
    BY <1>1 DEF SemifinalsGathered
  <2>1. /\ bracket.shard_sizes = semifinal_sizes(Len(tier1.winners))
        /\ \A m \in Shards : bracket.shard_bounds[m] = SemifinalPlace(m, 1)
        /\ bracket.shards_collected \subseteq Shards
        /\ \A i \in 1..Len(finalists) :
             \E m \in bracket.shards_collected : finalists[i] \in Semifinal(m)
        /\ \A m \in bracket.shards_collected : \A i \in 1..taken(bracket.shard_sizes[m]) :
             Best(key, Semifinal(m), i) \in Range(finalists)
    BY DEF TierInv, SemifinalsGathered
  <2>2. ASSUME NEW i \in 1..Len(finalists')
        PROVE  \E m \in bracket.shards_collected : finalists'[i] \in Semifinal(m)
    <3>1. PICK j \in DOMAIN finalists : finalists'[i] = finalists[j]
      BY <1>2, <1>9 DEF Range
    <3>2. j \in 1..Len(finalists)
      BY <3>1, TierFinalists
    <3>. QED BY <2>1, <3>1, <3>2
  <2>. QED BY <1>1, <1>4, <1>5, <1>8, <2>1, <2>2 DEF SemifinalsGathered
<1>11. FinalGathered'
  <2>1. \A i, j \in 1..Len(finalists') : finalists'[i] = finalists'[j] => i = j
    BY <1>9
  <2>2. \A i \in 1..PodiumSize : Best(key, Entries, i) \in Range(finalists')
    BY <1>1, <1>5 DEF TierInv, FinalGathered
  <2>3. FinalInOrder'
    BY <1>1, <1>2, <1>4, <1>5, <1>8 DEF FinalInOrder
  <2>4. bracket'.generation <= MaxGenerations
    BY <1>4 DEF TierInv, FinalGathered
  <2>5. PodiumSize' = PodiumSize
    BY DEF PodiumSize, taken, Smaller
  <2>. QED BY <1>1, <2>1, <2>2, <2>3, <2>4, <2>5 DEF FinalGathered
<1>12. Tier1Type' /\ Tier1Layout' /\ Tier1Gathered'
  BY <1>1, Tier1Kept DEF TierInv
<1>13. \A j, T : BracketAsked(j, T) => BracketAsked(j, T)'
  BY <1>1, <1>4, <1>5, <1>8 DEF BracketAsked
<1>14. BracketAsked(SEMI, S)'
  BY <1>2, <1>4, <1>5 DEF BracketAsked
<1>15. Tier1Answers' /\ BracketAnswers'
  <2>. DEFINE g == bracket.generation
  <2>1. g <= g /\ g \in Nat
    BY <1>6
  <2>. QED BY <1>1, <1>4, <1>6, <1>13, <1>14, <2>1, AnswersByStamp
<1>. QED BY <1>7, <1>10, <1>11, <1>12, <1>15 DEF TierInv

LEMMA TierStep == TierInv /\ [TierNext]_allvars => TierInv'
<1>. SUFFICES ASSUME TierInv, [TierNext]_allvars PROVE TierInv'
  OBVIOUS
<1>1. CASE UNCHANGED allvars
  BY <1>1, TierByPause DEF allvars, vars
<1>2. CASE TierNext /\ pins < Len(Tier1Layouts) /\
           \E l \in Tier1Layouts[pins + 1] : init_tier1_bracket(l[1], l[2])
  <2>1. PICK l \in Tier1Layouts[pins + 1] : init_tier1_bracket(l[1], l[2])
    BY <1>2
  <2>2. pins' # pins
    BY <2>1 DEF init_tier1_bracket, TierInv, Tier1Type
  <2>3. computations = {}
    BY <1>2, <2>2 DEF TierNext
  <2>4. l[1] \in Seq(Nat) /\ l[2] \in Seq(Nat)
    BY <1>2, SuppliedLayout DEF TierInv, Tier1Type
  <2>. QED BY <2>1, <2>3, <2>4, TierByInit
<1>3. CASE close_tier1_bracket
  BY <1>3, TierByClose
<1>4. CASE \E k \in Tier1Shards : \E S \in Sets!kSubset(tier1.shard_sizes[k], Entries) :
             queue_tier1_shard_reveal(k, S) \/ collect_tier1_winners(k, S)
  BY <1>4, TierByQueueTier1, TierByCollectTier1 DEF Sets!kSubset
<1>5. CASE TierNext /\ bracket.generation < MaxGenerations /\ promote_tier1
  BY <1>5, TierByPromote DEF TierNext
<1>6. CASE SemifinalStep
  BY <1>6, TierByQueueSemifinal, TierByCollectSemifinal DEF SemifinalStep
<1>7. CASE EndgameStep
  <2>0. UNCHANGED <<tier1, pins>>
    BY <1>7 DEF EndgameStep
  <2>1. CASE \E b \in BOOLEAN : SetPaused(b)
    BY <2>0, <2>1, TierByPause DEF SetPaused
  <2>2. CASE \E S \in Sets!kSubset(Len(bracket.finalists), Entries) : queue_final(S)
    BY <2>0, <2>2, TierByQueueFinal DEF Sets!kSubset
  <2>3. CASE \E c \in computations : reveal_top3_v5_callback(c) \/ Abort(c)
    BY <2>0, <2>3, TierByAnswer
  <2>4. CASE \E i \in Indices : apply_bracket_result(i)
    BY <2>0, <2>4, TierByApply
  <2>. QED BY <1>7, <2>1, <2>2, <2>3, <2>4 DEF EndgameStep
<1>. QED BY <1>1, <1>2, <1>3, <1>4, <1>5, <1>6, <1>7 DEF TierNext, Tier1Step

LEMMA TierAlways == TierSpec => []TierInv
BY InitTier, TierStep, PTL DEF TierSpec

\* With every tier-1 shard collected the first tier was a partition of the
\* round's entries, for every set of entries and layout init_tier1_bracket lets
\* through, whatever accounts each call supplied.
THEOREM Tier1IsPartition == TierSpec => []Tier1Partition
BY TierAlways, TierPartition, PTL

\* Nobody on the podium is lost in the first tier, and its winners stay strictly
\* ascending, whatever order the shards are collected in, however often the
\* Tier1State is closed and a partition pinned again.
THEOREM PodiumSurvivesTier1State == TierSpec => []PodiumAmongTier1Winners
BY TierAlways, TierPodium, PTL

\* Every promotion is one promote_tier1 can make, and its bracket partitions the
\* winners into semifinals of at most MAX_SHARD_SIZE, for every number of winners
\* and every size.
THEOREM SemifinalsArePartition == TierSpec => []SemifinalsPartitionWinners
BY TierAlways, TierSemifinals, PTL

\* apply_bracket_result writes the podium: the answer it uses is the final
\* reveal's, a tier-1 answer never being of a bracket's generation.
LEMMA TierAppliedIsPodium ==
  ASSUME TierInv, NEW i \in Indices, apply_bracket_result(i)
  PROVE  top' = Podium(key)
<1>1. shard_count > 0 /\ all_shards_collected /\ usable(i)
  BY DEF apply_bracket_result
<1>2. i # 1
  <2>. SUFFICES ASSUME i = 1 PROVE FALSE
    OBVIOUS
  <2>1. 1 < SEMI
    BY DEF SEMI
  <2>2. result[i].generation > MaxGenerations
    BY <1>1, <2>1 DEF usable, TierInv, Tier1Answers
  <2>3. result[i].generation <= MaxGenerations /\ result[i].generation \in Nat
    BY <1>1 DEF usable, TierInv, FinalGathered, TypeOK, ResultType
  <2>. QED BY <2>2, <2>3, SizesAssumption
<1>3. i = SEMI /\ bracket.final_queued /\ top' = winners_of_final(result[i].slots)
  BY <1>2, Tier1Indices DEF apply_bracket_result
<1>4. result[i].slots = reveal_top3(Range(finalists))
  <2>1. PICK T \in SUBSET Entries : BracketAsked(i, T) /\ result[i].slots = reveal_top3(T)
    BY <1>1, <1>3 DEF TierInv, BracketAnswers, SEMI
  <2>2. ~(i > SEMI)
    BY <1>3 DEF SEMI
  <2>. QED BY <2>1, <2>2 DEF BracketAsked
<1>5. /\ \A j \in 1..PodiumSize : Best(key, Entries, j) \in Range(finalists)
      /\ finalists = Ascending(Range(finalists)) /\ KeyOK
  BY <1>1, <1>3 DEF TierInv, FinalGathered, FinalInOrder, TypeOK
<1>. QED BY <1>3, <1>4, <1>5, TierFinalists, FinalNamesPodium

\* The two-tier reveal implements the same RevealPromise as the single-tier one:
\* the winners are the podium of everybody who entered, named in one step, and
\* never change, for every round too large for one tier and every order of pins,
\* answers, closings and promotions TierSpec allows.
THEOREM TwoTierKeepsPromise == TierSpec => RevealKept
<1>1. TierInit => Promise!Init
  BY DEF TierInit, Init, Promise!Init
<1>2. TierInv /\ [TierNext]_allvars => [Promise!Reveal]_(Promise!vars)
  <2>. SUFFICES ASSUME TierInv, [TierNext]_allvars
                PROVE  [Promise!Reveal]_(Promise!vars)
    OBVIOUS
  <2>1. CASE UNCHANGED <<key, scoring_revealed, top>>
    BY <2>1 DEF Promise!vars
  <2>2. CASE \E i \in Indices : apply_bracket_result(i)
    <3>1. top' = Podium(key) /\ ~scoring_revealed /\ scoring_revealed' /\ UNCHANGED key
      BY <2>2, TierAppliedIsPodium DEF apply_bracket_result
    <3>. QED BY <3>1 DEF Promise!Reveal
  <2>3. TierNext /\ ~(\E i \in Indices : apply_bracket_result(i)) =>
          UNCHANGED <<key, scoring_revealed, top>>
    <3>1. Tier1Step => UNCHANGED <<key, scoring_revealed, top>>
      BY DEF Tier1Step, init_tier1_bracket, close_tier1_bracket, queue_tier1_shard_reveal,
             collect_tier1_winners, promote_tier1, QueueFor, vars
    <3>2. SemifinalStep => UNCHANGED <<key, scoring_revealed, top>>
      BY DEF SemifinalStep, queue_semifinal_reveal, collect_semifinal_winners, QueueFor
    <3>3. EndgameStep /\ ~(\E i \in Indices : apply_bracket_result(i)) =>
            UNCHANGED <<key, scoring_revealed, top>>
      BY DEF EndgameStep, SetPaused, queue_final, reveal_top3_v5_callback, Abort
    <3>. QED BY <3>1, <3>2, <3>3 DEF TierNext
  <2>. QED BY <2>1, <2>2, <2>3 DEF allvars, vars
<1>. QED BY <1>1, <1>2, TierAlways, PTL DEF TierSpec, RevealKept, Promise!Spec

-----------------------------------------------------------------------------
(***************************************************************************)
(* The daily job (module TwoTierDriver).  What a step of it, or of the     *)
(* other operator, sends is a step the lemmas above are about.             *)
(***************************************************************************)
RoundUntouched == UNCHANGED <<tier1, pins>>

TierMove ==
  \/ UNCHANGED allvars
  \/ /\ computations = {}
     /\ \E sizes, bounds \in Seq(Nat) : init_tier1_bracket(sizes, bounds)
  \/ close_tier1_bracket
  \/ \E k \in Tier1Shards : \E S \in SUBSET Entries :
       queue_tier1_shard_reveal(k, S) \/ collect_tier1_winners(k, S)
  \/ /\ bracket.generation < MaxGenerations
     /\ \A c \in computations : c.index < SEMI
     /\ promote_tier1
  \/ SemifinalStep
  \/ RoundUntouched /\ \E S \in SUBSET Entries : queue_final(S)
  \/ RoundUntouched /\ \E c \in computations : reveal_top3_v5_callback(c) \/ Abort(c)
  \/ RoundUntouched /\ \E i \in Indices : apply_bracket_result(i)

LEMMA MoveKeeps == TierInv /\ TierMove => TierInv'
<1>. SUFFICES ASSUME TierInv, TierMove PROVE TierInv'
  OBVIOUS
<1>1. CASE UNCHANGED allvars
  BY <1>1, TierByPause DEF allvars, vars
<1>2. CASE computations = {} /\ \E sizes, bounds \in Seq(Nat) : init_tier1_bracket(sizes, bounds)
  BY <1>2, TierByInit
<1>3. CASE close_tier1_bracket
  BY <1>3, TierByClose
<1>4. CASE \E k \in Tier1Shards : \E S \in SUBSET Entries :
             queue_tier1_shard_reveal(k, S) \/ collect_tier1_winners(k, S)
  BY <1>4, TierByQueueTier1, TierByCollectTier1
<1>5. CASE /\ bracket.generation < MaxGenerations
           /\ \A c \in computations : c.index < SEMI
           /\ promote_tier1
  BY <1>5, TierByPromote
<1>6. CASE SemifinalStep
  BY <1>6, TierByQueueSemifinal, TierByCollectSemifinal DEF SemifinalStep
<1>7. CASE RoundUntouched /\ \E S \in SUBSET Entries : queue_final(S)
  BY <1>7, TierByQueueFinal DEF RoundUntouched
<1>8. CASE RoundUntouched /\ \E c \in computations : reveal_top3_v5_callback(c) \/ Abort(c)
  BY <1>8, TierByAnswer DEF RoundUntouched
<1>9. CASE RoundUntouched /\ \E i \in Indices : apply_bracket_result(i)
  BY <1>9, TierByApply DEF RoundUntouched
<1>. QED BY <1>1, <1>2, <1>3, <1>4, <1>5, <1>6, <1>7, <1>8, <1>9 DEF TierMove

LEMMA MoveReveals == TierInv /\ TierMove => [Promise!Reveal]_(Promise!vars)
<1>. SUFFICES ASSUME TierInv, TierMove PROVE [Promise!Reveal]_(Promise!vars)
  OBVIOUS
<1>1. CASE UNCHANGED <<key, scoring_revealed, top>>
  BY <1>1 DEF Promise!vars
<1>2. CASE \E i \in Indices : apply_bracket_result(i)
  <2>1. top' = Podium(key) /\ ~scoring_revealed /\ scoring_revealed' /\ UNCHANGED key
    BY <1>2, TierAppliedIsPodium DEF apply_bracket_result
  <2>. QED BY <2>1 DEF Promise!Reveal
<1>3. ~(\E i \in Indices : apply_bracket_result(i)) => UNCHANGED <<key, scoring_revealed, top>>
  BY DEF TierMove, SemifinalStep, allvars, vars, init_tier1_bracket, close_tier1_bracket,
         queue_tier1_shard_reveal, collect_tier1_winners, promote_tier1, QueueFor,
         queue_semifinal_reveal, collect_semifinal_winners, queue_final,
         reveal_top3_v5_callback, Abort
<1>. QED BY <1>1, <1>2, <1>3

-----------------------------------------------------------------------------
(***************************************************************************)
(* Where a run stands tells what is pinned, and what is in flight once the *)
(* other operator has handed over is of a Tier1State the job keeps.        *)
(***************************************************************************)
Stations ==
  {"hand", "idle", "close", "pin", "survey", "grace", "queue", "await", "collect",
   "promote", "queueFinal", "awaitFinal", "apply"}

matches == partitionMatches(tier1)

Kept == tier1.exists /\ (tier1.promoted \/ matches)

InFlight ==
  /\ computations # {} => Kept
  /\ ~tier1.promoted => \A c \in computations : c.index < SEMI

JobInv ==
  /\ pc \in Stations /\ tier \in {"one", "semi"}
  /\ tier = "one" => needQueue \in SUBSET PlanShards
  /\ pc = "hand" \/ ~tier1.promoted => bracket.generation < MaxGenerations
  /\ pc # "hand" => InFlight
  /\ pc \notin {"hand", "idle"} => (tier1.promoted <=> tier = "semi")
  /\ pc \in {"close", "pin", "promote"} => tier = "one"
  /\ pc = "close" => ~matches
  /\ pc = "pin" => ~tier1.exists
  /\ pc \notin {"hand", "idle", "close", "pin"} /\ tier = "one" => matches
  /\ pc \in {"queueFinal", "awaitFinal", "apply"} => tier = "semi"

\* What the job supplies for a shard is a set of the round's entries.
LEMMA Supplied ==
  ASSUME NEW S \in SUBSET PlanShards, S # {}
  PROVE  Least(S) \in S /\ Chunk[Least(S)] \in SUBSET Entries
<1>1. S \in SUBSET Nat
  BY PlanSizes
<1>2. Least(S) \in S
  BY <1>1, LeastOf
<1>. QED BY <1>2, ChunkCounted

\* The result the round is ended with is one of its accounts.
LEMMA FinalIndexType == FinalIndex \in Indices
<1>1. 1 \in 1..MAX_TIER1_SHARDS
  BY PlanSizes, TwoTierDriverAssumption, Tier1Assumption
<1>. QED BY <1>1, Tier1Indices DEF FinalIndex

LEMMA HandMoves ==
  ASSUME TierInv, JobInv, ByHand
  PROVE  TierMove
<1>0. /\ \A k : HandRun(k) \in SUBSET Entries
      /\ Range(bracket.finalists) \in SUBSET Entries
      /\ bracket.generation \in Nat
  <2>1. bracket.finalists \in Seq(Entries) /\ bracket.generation \in Nat
    BY DEF TierInv, TypeOK, BracketType
  <2>. QED BY <2>1 DEF HandRun, Tier1Interval, Range
<1>1. CASE pins < Len(Tier1Layouts) /\ computations = {} /\
             \E l \in Tier1Layouts[pins + 1] : init_tier1_bracket(l[1], l[2])
  BY <1>1, SuppliedLayout DEF TierInv, Tier1Type, TierMove
<1>2. ASSUME NEW k, queue_tier1_shard_reveal(k, HandRun(k)) \/ collect_tier1_winners(k, HandRun(k))
      PROVE  TierMove
  <2>1. k \in Tier1Shards
    BY <1>2 DEF queue_tier1_shard_reveal, collect_tier1_winners
  <2>. QED BY <1>0, <1>2, <2>1 DEF TierMove
<1>3. CASE bracket.generation + 1 < MaxGenerations /\ (\A c \in computations : c.index < SEMI)
             /\ promote_tier1
  BY <1>0, <1>3, SizesAssumption DEF TierMove
<1>4. ASSUME NEW k, queue_semifinal_reveal(k) \/ collect_semifinal_winners(k)
      PROVE  TierMove
  <2>1. k \in Shards
    BY <1>4 DEF queue_semifinal_reveal, collect_semifinal_winners
  <2>. QED BY <1>4, <2>1 DEF TierMove, SemifinalStep
<1>5. CASE RoundUntouched /\ (queue_final(Range(bracket.finalists)) \/ apply_bracket_result(FinalIndex))
  BY <1>0, <1>5, FinalIndexType DEF TierMove
<1>6. CASE HandTier1
  BY <1>1, <1>2, <1>3, <1>6 DEF HandTier1, TierMove
<1>7. CASE HandSemifinals
  BY <1>4, <1>5, <1>7 DEF HandSemifinals, RoundUntouched
<1>. QED BY <1>6, <1>7 DEF ByHand

\* A sequence of entries is a sequence of numbers.
LEMMA NumberedEntries ==
  ASSUME NEW s \in Seq(Entries), Entries \subseteq Nat
  PROVE  s \in Seq(Nat)
<1>1. Len(s) \in Nat /\ s \in [1..Len(s) -> Entries]
  OBVIOUS
<1>2. s \in [1..Len(s) -> Nat]
  BY <1>1
<1>. QED BY <1>1, <1>2

LEMMA DriverMoves ==
  ASSUME TierInv, JobInv, [DriverNext]_drivervars
  PROVE  TierMove
<1>0. Range(bracket.finalists) \in SUBSET Entries
  <2>1. bracket.finalists \in Seq(Entries)
    BY DEF TierInv, TypeOK, BracketType
  <2>. QED BY <2>1 DEF Range
<1>1. CASE UNCHANGED allvars
  BY <1>1 DEF TierMove
<1>2. CASE ByHand
  BY <1>2, HandMoves
<1>3. CASE Close
  BY <1>3 DEF Close, TierMove
<1>4. CASE Pin
  <2>1. init_tier1_bracket(planShardSizes, Bound) /\ computations = {}
    BY <1>4 DEF Pin, Plan, JobInv, InFlight, Kept
  <2>2. planShardSizes \in Seq(Nat) /\ Bound \in Seq(Nat)
    <3>1. Bound \in Seq(Entries) /\ Entries \subseteq Nat
      BY PlanBounds, EntriesAssumption
    <3>. QED BY <3>1, NumberedEntries, PlanSizes
  <2>. QED BY <2>1, <2>2 DEF TierMove
<1>5. CASE QueueShard \/ CollectShard
  <2>1. CASE tier = "one"
    <3>1. PICK k : \/ queue_tier1_shard_reveal(k, Chunk[k]) /\ k = Least(needQueue) /\ needQueue # {}
                   \/ /\ collect_tier1_winners(k, Chunk[k])
                      /\ k = Least(PlanShards \ tier1.shard_done)
                      /\ PlanShards \ tier1.shard_done # {}
      BY <1>5, <2>1 DEF QueueShard, CollectShard, queueOne, collectOne, count, done
    <3>2. Chunk[k] \in SUBSET Entries
      BY <2>1, <3>1, Supplied DEF JobInv
    <3>3. k \in Tier1Shards
      BY <3>1 DEF queue_tier1_shard_reveal, collect_tier1_winners
    <3>. QED BY <3>1, <3>2, <3>3 DEF TierMove
  <2>2. CASE tier # "one"
    <3>1. PICK k : queue_semifinal_reveal(k) \/ collect_semifinal_winners(k)
      BY <1>5, <2>2 DEF QueueShard, CollectShard, queueOne, collectOne
    <3>2. k \in Shards
      BY <3>1 DEF queue_semifinal_reveal, collect_semifinal_winners
    <3>. QED BY <3>1, <3>2 DEF TierMove, SemifinalStep
  <2>. QED BY <2>1, <2>2
<1>6. CASE Promote
  <2>1. ~tier1.promoted
    BY <1>6 DEF Promote, promote_tier1
  <2>. QED BY <1>6, <2>1 DEF Promote, JobInv, InFlight, TierMove
<1>7. CASE QueueFinal \/ Apply
  BY <1>0, <1>7, FinalIndexType DEF QueueFinal, Apply, RoundUntouched, TierMove
<1>8. CASE Answer \/ Lose
  BY <1>8 DEF Answer, Lose, RoundUntouched, TierMove
<1>9. CASE \/ HandOver \/ StartRun \/ Survey \/ GraceOver \/ QueuedAll \/ Landed
           \/ CollectedAll \/ FinalLanded \/ Throw \/ Crash
  BY <1>1, <1>9 DEF HandOver, StartRun, Survey, GraceOver, QueuedAll, Landed, CollectedAll, FinalLanded,
         Throw, Crash, Aside
<1>. QED BY <1>1, <1>2, <1>3, <1>4, <1>5, <1>6, <1>7, <1>8, <1>9
         DEF DriverNext, JobStep, drivervars

-----------------------------------------------------------------------------
LEMMA InitJob == DriverInit => TierInv /\ JobInv
<1>. SUFFICES ASSUME DriverInit PROVE JobInv
  BY InitTier DEF DriverInit
<1>1. bracket.generation < MaxGenerations
  BY TwoTierDriverAssumption DEF DriverInit, TierInit, Init, NoBracket
<1>. QED BY <1>1 DEF DriverInit, JobInv, Stations

\* The chain as JobInv sees it.
LEMMA ChainKept ==
  ASSUME UNCHANGED <<tier1, bracket, computations>>
  PROVE  /\ matches' = matches /\ Kept' = Kept /\ InFlight' = InFlight
BY DEF matches, Kept, InFlight, partitionMatches

\* The planned partition pinned means that there is a Tier1State.
LEMMA MatchesExists ==
  ASSUME TierInv, matches
  PROVE  tier1.exists
<1>1. tier1.shard_sizes = planShardSizes /\ Len(planShardSizes) > 0
  BY PlanSizes DEF matches, partitionMatches, Plan
<1>. QED BY <1>1, NoTier1Parts DEF TierInv, Tier1Layout, Tier1Shards

LEMMA JobAsides ==
  ASSUME TierInv, JobInv,
         \/ HandOver \/ StartRun \/ Survey \/ GraceOver \/ QueuedAll \/ Landed
         \/ CollectedAll \/ FinalLanded \/ Throw \/ Crash
  PROVE  JobInv'
<1>1. UNCHANGED <<tier1, bracket, computations>>
  BY DEF HandOver, StartRun, Survey, GraceOver, QueuedAll, Landed, CollectedAll, FinalLanded,
         Throw, Crash, Aside, allvars, vars
<1>2. matches' = matches /\ Kept' = Kept /\ InFlight' = InFlight
  BY <1>1, ChainKept
<1>3. CASE HandOver
  <2>1. InFlight
    BY <1>3 DEF HandOver, InFlight
  <2>. QED BY <1>1, <1>2, <1>3, <2>1 DEF HandOver, JobInv, Stations
<1>4. CASE StartRun
  <2>1. tier1.promoted => tier1.exists
    BY NoTier1Parts DEF TierInv, Tier1Layout
  <2>2. needQueue' = {} /\ pc = "idle"
    BY <1>4 DEF StartRun
  <2>3. CASE must_replace
    <3>1. pc' = "close" /\ tier' = "one" /\ ~tier1.promoted /\ ~matches
      BY <1>4, <2>3 DEF StartRun, must_replace, matches
    <3>. QED BY <1>1, <1>2, <2>2, <3>1 DEF JobInv, Stations
  <2>4. CASE ~must_replace /\ ~tier1.exists
    <3>1. pc' = "pin" /\ tier' = "one" /\ ~tier1.promoted
      BY <1>4, <2>1, <2>4 DEF StartRun
    <3>. QED BY <1>1, <1>2, <2>2, <2>4, <3>1 DEF JobInv, Stations
  <2>5. CASE ~must_replace /\ tier1.exists
    <3>1. pc' = "survey" /\ tier' = (IF tier1.promoted THEN "semi" ELSE "one")
      BY <1>4, <2>5 DEF StartRun
    <3>2. tier1.promoted \/ matches
      BY <2>5 DEF must_replace, matches
    <3>. QED BY <1>1, <1>2, <2>2, <3>1, <3>2 DEF JobInv, Stations
  <2>. QED BY <2>3, <2>4, <2>5
<1>5. CASE Survey
  <2>1. tier' = tier /\ pc = "survey" /\ pc' \in {"grace", "queue"}
    BY <1>5 DEF Survey, Aside
  <2>2. tier = "one" => needQueue' \in SUBSET PlanShards
    BY <1>5 DEF Survey, count
  <2>. QED BY <1>1, <1>2, <2>1, <2>2 DEF JobInv, Stations
<1>6. CASE GraceOver
  <2>1. tier' = tier /\ pc = "grace" /\ pc' = "queue"
    BY <1>6 DEF GraceOver, Aside
  <2>2. tier = "one" => needQueue' \in SUBSET PlanShards
    BY <1>6 DEF GraceOver, count
  <2>. QED BY <1>1, <1>2, <2>1, <2>2 DEF JobInv, Stations
<1>7. CASE QueuedAll \/ Landed \/ CollectedAll \/ FinalLanded
  BY <1>1, <1>2, <1>7
     DEF QueuedAll, Landed, CollectedAll, FinalLanded, Aside, JobInv, Stations
<1>8. CASE Throw \/ Crash
  <2>1. pc' = "idle" /\ UNCHANGED <<tier, needQueue>> /\ pc # "hand"
    BY <1>8 DEF Throw, Crash, Aside, TimedOut, Rejected
  <2>. QED BY <1>1, <1>2, <2>1 DEF JobInv, Stations
<1>. QED BY <1>3, <1>4, <1>5, <1>6, <1>7, <1>8

\* Only a promotion raises the bracket's generation.
LEMMA GenerationKept ==
  ASSUME TierInv,
         \/ UNCHANGED bracket
         \/ \E k : collect_semifinal_winners(k)
         \/ \E S : queue_final(S)
         \/ \E i : apply_bracket_result(i)
  PROVE  bracket'.generation = bracket.generation
<1>0. bracket \in BracketType
  BY DEF TierInv, TypeOK
<1>1. CASE \E k : collect_semifinal_winners(k)
  <2>1. PICK f, c : bracket' = [bracket EXCEPT !.finalists = f, !.shards_collected = c]
    BY <1>1 DEF collect_semifinal_winners
  <2>. QED BY <1>0, <2>1 DEF BracketType
<1>2. CASE \E S : queue_final(S)
  <2>1. PICK f : bracket' = [bracket EXCEPT !.finalists = f, !.final_queued = TRUE]
    BY <1>2 DEF queue_final
  <2>. QED BY <1>0, <2>1 DEF BracketType
<1>3. CASE \E i : apply_bracket_result(i)
  <2>1. bracket' = [bracket EXCEPT !.applied = TRUE]
    BY <1>3 DEF apply_bracket_result
  <2>. QED BY <1>0, <2>1 DEF BracketType
<1>. QED BY <1>1, <1>2, <1>3

LEMMA JobByHand ==
  ASSUME TierInv, JobInv, ByHand
  PROVE  JobInv'
<1>1. /\ pc = "hand" /\ UNCHANGED <<pc, tier, needQueue>>
      /\ bracket.generation \in Nat /\ bracket.generation < MaxGenerations
  BY DEF ByHand, drvars, progress, TierInv, TypeOK, BracketType, JobInv
<1>2. SUFFICES bracket'.generation < MaxGenerations
  BY <1>1 DEF JobInv, Stations
<1>3. CASE bracket.generation + 1 < MaxGenerations /\ promote_tier1
  <2>1. bracket'.generation = bracket.generation + 1
    BY <1>3 DEF promote_tier1, pinned_bracket, NoBracket
  <2>. QED BY <1>3, <2>1
<1>4. CASE HandTier1 /\ ~(bracket.generation + 1 < MaxGenerations /\ promote_tier1)
  <2>1. UNCHANGED bracket
    BY <1>4 DEF HandTier1, init_tier1_bracket, close_tier1_bracket, queue_tier1_shard_reveal,
                collect_tier1_winners, QueueFor, vars
  <2>. QED BY <1>1, <2>1
<1>5. CASE HandSemifinals
  <2>1. bracket'.generation = bracket.generation
    BY <1>5, GenerationKept DEF HandSemifinals, queue_semifinal_reveal, QueueFor
  <2>. QED BY <1>1, <2>1
<1>. QED BY <1>3, <1>4, <1>5 DEF ByHand

LEMMA JobReplaces ==
  ASSUME TierInv, JobInv, Close \/ Pin
  PROVE  JobInv'
<1>1. tier = "one" /\ tier' = tier /\ needQueue' = needQueue /\ ~tier1.promoted
  BY DEF Close, Pin, Sending, JobInv
<1>2. UNCHANGED <<bracket, computations>>
  BY DEF Close, Pin, close_tier1_bracket, init_tier1_bracket, vars
<1>3. computations = {} /\ bracket.generation < MaxGenerations
  BY <1>1 DEF Close, Pin, JobInv, InFlight, Kept
<1>4. CASE Close
  <2>1. pc' = "pin" /\ ~tier1'.exists /\ ~tier1'.promoted
    BY <1>4 DEF Close, close_tier1_bracket, NoTier1
  <2>. QED BY <1>1, <1>2, <1>3, <2>1 DEF JobInv, InFlight, Stations
<1>5. CASE Pin
  <2>. DEFINE g == Slot_at(pins + 1)
  <2>1. tier1' = [NoTier1 EXCEPT !.exists = TRUE, !.shard_sizes = planShardSizes,
                                 !.shard_bounds = Bound, !.generation = g]
    BY <1>5 DEF Pin, init_tier1_bracket, Plan
  <2>. HIDE DEF g
  <2>2. tier1'.shard_sizes = planShardSizes /\ tier1'.shard_bounds = Bound /\ ~tier1'.promoted
    BY <2>1 DEF NoTier1
  <2>3. matches'
    BY <2>2 DEF matches, partitionMatches, Plan
  <2>4. pc' = "survey"
    BY <1>5 DEF Pin
  <2>. QED BY <1>1, <1>2, <1>3, <2>2, <2>3, <2>4 DEF JobInv, InFlight, Stations
<1>. QED BY <1>4, <1>5

LEMMA JobQueues ==
  ASSUME TierInv, JobInv, QueueShard
  PROVE  JobInv'
<1>1. /\ pc = "queue" /\ UNCHANGED <<pc, tier>> /\ needQueue' \subseteq needQueue
  BY DEF QueueShard, Sending
<1>2. PICK i, S, g : QueueFor(i, S, g) /\ Kept /\ (~tier1.promoted => i < SEMI)
  <2>1. CASE tier = "one"
    <3>1. PICK k : queue_tier1_shard_reveal(k, Chunk[k])
      BY <2>1 DEF QueueShard, queueOne
    <3>2. matches /\ tier1.exists
      BY <1>1, <2>1, MatchesExists DEF JobInv
    <3>3. k \in Tier1Shards
      BY <3>1 DEF queue_tier1_shard_reveal
    <3>4. k < SEMI
      BY <3>2, <3>3, Tier1Parts, Tier1Indices DEF TierInv
    <3>. QED BY <3>1, <3>2, <3>4 DEF queue_tier1_shard_reveal, Kept
  <2>2. CASE tier = "semi"
    <3>1. PICK k : queue_semifinal_reveal(k)
      BY <2>2 DEF QueueShard, queueOne
    <3>2. tier1.promoted /\ tier1.exists
      BY <3>1, NoTier1Parts DEF queue_semifinal_reveal, TierInv, Tier1Layout
    <3>. QED BY <3>1, <3>2 DEF queue_semifinal_reveal, Kept
  <2>. QED BY <2>1, <2>2 DEF JobInv
<1>3. /\ computations' = computations \cup {[index |-> i, entries |-> S]}
      /\ UNCHANGED <<bracket, tier1>>
  BY <1>2 DEF QueueFor
<1>4. matches' = matches /\ Kept' = Kept
  BY <1>3 DEF matches, Kept, partitionMatches
<1>5. InFlight'
  BY <1>1, <1>2, <1>3, <1>4 DEF JobInv, InFlight
<1>. QED BY <1>1, <1>3, <1>4, <1>5 DEF JobInv, Stations

LEMMA JobCollects ==
  ASSUME TierInv, JobInv, CollectShard
  PROVE  JobInv'
<1>1. pc = "collect" /\ UNCHANGED <<pc, tier, needQueue>>
  BY DEF CollectShard, drvars, progress
<1>2. /\ UNCHANGED <<computations, tier1.exists, tier1.promoted, tier1.shard_sizes,
                     tier1.shard_bounds>>
      /\ bracket'.generation = bracket.generation
  <2>1. CASE tier = "one"
    <3>1. PICK k : collect_tier1_winners(k, Chunk[k])
      BY <2>1 DEF CollectShard, collectOne
    <3>2. PICK w, d : tier1' = [tier1 EXCEPT !.winners = w, !.shard_done = d]
      BY <3>1 DEF collect_tier1_winners
    <3>. QED BY <3>1, <3>2 DEF collect_tier1_winners, vars, TierInv, Tier1Type
  <2>2. CASE tier = "semi"
    <3>1. PICK k : collect_semifinal_winners(k)
      BY <2>2 DEF CollectShard, collectOne
    <3>. QED BY <3>1, GenerationKept DEF collect_semifinal_winners
  <2>. QED BY <2>1, <2>2 DEF JobInv
<1>3. matches' = matches /\ Kept' = Kept /\ InFlight' = InFlight
  BY <1>2 DEF matches, Kept, InFlight, partitionMatches
<1>. QED BY <1>1, <1>2, <1>3 DEF JobInv, Stations

LEMMA JobEnds ==
  ASSUME TierInv, JobInv, Promote \/ QueueFinal \/ Apply
  PROVE  JobInv'
<1>1. CASE Promote
  <2>1. /\ pc' = "survey" /\ tier' = "semi" /\ tier1.exists
        /\ tier1' = [tier1 EXCEPT !.promoted = TRUE]
    BY <1>1 DEF Promote, promote_tier1
  <2>2. tier1'.promoted /\ tier1'.exists
    BY <2>1 DEF TierInv, Tier1Type
  <2>. QED BY <2>1, <2>2 DEF JobInv, InFlight, Kept, Stations
<1>2. CASE QueueFinal
  <2>1. /\ pc' = "awaitFinal" /\ UNCHANGED <<tier, needQueue, tier1>> /\ tier1.promoted
        /\ tier = "semi"
    BY <1>2 DEF QueueFinal, Sending, JobInv
  <2>2. tier1.exists
    BY <2>1, NoTier1Parts DEF TierInv, Tier1Layout
  <2>. QED BY <2>1, <2>2 DEF JobInv, InFlight, Kept, Stations
<1>3. CASE Apply
  <2>1. /\ pc' = "idle" /\ UNCHANGED <<tier, needQueue, tier1, computations>> /\ tier1.promoted
        /\ pc # "hand"
    BY <1>3 DEF Apply, Sending, JobInv, apply_bracket_result
  <2>2. InFlight'
    BY <2>1 DEF JobInv, InFlight, Kept, matches, partitionMatches
  <2>. QED BY <2>1, <2>2 DEF JobInv, Stations
<1>. QED BY <1>1, <1>2, <1>3

LEMMA JobAnswers ==
  ASSUME TierInv, JobInv, (Answer \/ Lose) \/ UNCHANGED drivervars
  PROVE  JobInv'
<1>1. /\ UNCHANGED <<bracket, tier1, pc, tier, needQueue>> /\ computations' \subseteq computations
  BY DEF Answer, Lose, reveal_top3_v5_callback, Abort, drvars, progress, drivervars, allvars, vars
<1>2. matches' = matches /\ Kept' = Kept
  BY <1>1 DEF matches, Kept, partitionMatches
<1>3. InFlight => InFlight'
  BY <1>1, <1>2 DEF InFlight
<1>. QED BY <1>1, <1>2, <1>3 DEF JobInv, Stations

LEMMA DriverInvStep == TierInv /\ JobInv /\ [DriverNext]_drivervars => TierInv' /\ JobInv'
<1>. SUFFICES ASSUME TierInv, JobInv, [DriverNext]_drivervars PROVE TierInv' /\ JobInv'
  OBVIOUS
<1>1. TierInv'
  BY DriverMoves, MoveKeeps
<1>2. JobInv'
  BY JobByHand, JobAsides, JobReplaces, JobQueues, JobCollects, JobEnds, JobAnswers
     DEF DriverNext, JobStep
<1>. QED BY <1>1, <1>2

LEMMA DriverAlways == DriverSpec => [](TierInv /\ JobInv)
BY InitJob, DriverInvStep, PTL DEF DriverSpec

\* The job and the other operator before it are operators TierSpec allows: no
\* partition is pinned with a computation in flight, and no winners promoted
\* with one whose answer their bracket could take, though the job never looks.
QuietRepins ==
  /\ pins' # pins => computations = {}
  /\ bracket'.generation # bracket.generation => \A c \in computations : c.index < SEMI

THEOREM TwoTierJobRepinsQuietly == DriverSpec => [][QuietRepins]_drivervars
<1>1. TierInv /\ TierMove => QuietRepins
  <2>. SUFFICES ASSUME TierInv, TierMove PROVE QuietRepins
    OBVIOUS
  <2>1. CASE computations = {}
    BY <2>1 DEF QuietRepins
  <2>2. CASE /\ \A c \in computations : c.index < SEMI
             /\ promote_tier1
    BY <2>2 DEF QuietRepins, promote_tier1
  <2>3. CASE SemifinalStep
    <3>1. pins' = pins
      BY <2>3 DEF SemifinalStep, queue_semifinal_reveal, collect_semifinal_winners, QueueFor
    <3>2. bracket'.generation = bracket.generation
      BY <2>3, GenerationKept DEF SemifinalStep, queue_semifinal_reveal, QueueFor
    <3>. QED BY <3>1, <3>2 DEF QuietRepins
  <2>4. CASE RoundUntouched /\ \/ \E S \in SUBSET Entries : queue_final(S)
                               \/ \E i \in Indices : apply_bracket_result(i)
    BY <2>4, GenerationKept DEF QuietRepins, RoundUntouched
  <2>5. CASE UNCHANGED <<bracket, pins>>
    BY <2>5 DEF QuietRepins
  <2>6. CASE \/ UNCHANGED allvars \/ close_tier1_bracket
             \/ \E k \in Tier1Shards : \E S \in SUBSET Entries :
                  queue_tier1_shard_reveal(k, S) \/ collect_tier1_winners(k, S)
             \/ RoundUntouched /\ \E c \in computations : reveal_top3_v5_callback(c) \/ Abort(c)
    BY <2>5, <2>6 DEF allvars, vars, close_tier1_bracket, queue_tier1_shard_reveal, collect_tier1_winners,
           QueueFor, RoundUntouched, reveal_top3_v5_callback, Abort
  <2>. QED BY <2>1, <2>2, <2>3, <2>4, <2>5, <2>6 DEF TierMove
<1>. QED BY <1>1, DriverMoves, DriverAlways, PTL DEF DriverSpec

\* The winners of a two-tier round appear in one step, are the best of all its
\* entries in order and never change, wherever an operator TierSpec allows left
\* the round with nothing in flight (HandOver), through any number of crashes, timeouts and lost computations.
THEOREM TwoTierJobKeepsPromise == DriverSpec => RevealKept
<1>1. DriverInit => Promise!Init
  BY DEF DriverInit, TierInit, Init, Promise!Init
<1>2. TierInv /\ JobInv /\ [DriverNext]_drivervars => [Promise!Reveal]_(Promise!vars)
  BY DriverMoves, MoveReveals
<1>. QED BY <1>1, <1>2, DriverAlways, PTL DEF DriverSpec, RevealKept, Promise!Spec

-----------------------------------------------------------------------------
(***************************************************************************)
(* The plan fits two tiers.                                                *)
(***************************************************************************)
\* Shards that yield TOP_K winners at most yield no more than MAX_TIER1_WINNERS.
LEMMA WinnersBounded ==
  ASSUME NEW sizes \in Seq(Nat), Len(sizes) <= MAX_TIER1_SHARDS
  PROVE  Total([k \in 1..Len(sizes) |-> taken(sizes[k])]) <= MAX_TIER1_WINNERS
<1>. DEFINE n == Len(sizes)
            yields == [k \in 1..n |-> taken(sizes[k])]
            all == (1..MAX_TIER1_SHARDS) \X (1..TOP_K)
<1>1. n \in Nat /\ TOP_K \in Nat /\ MAX_TIER1_SHARDS \in Nat
  BY SizesAssumption, Tier1Assumption
<1>2. /\ IsFiniteSet(1..MAX_TIER1_SHARDS) /\ Cardinality(1..MAX_TIER1_SHARDS) = MAX_TIER1_SHARDS
      /\ IsFiniteSet(1..TOP_K) /\ Cardinality(1..TOP_K) = TOP_K
  <2>1. ASSUME NEW m \in Nat PROVE IsFiniteSet(1..m) /\ Cardinality(1..m) = m
    BY FS_Interval
  <2>. QED BY <1>1, <2>1
<1>3. IsFiniteSet(all) /\ Cardinality(all) = MAX_TIER1_WINNERS
  <2>1. IsFiniteSet(all) /\ Cardinality(all) = MAX_TIER1_SHARDS * TOP_K
    <3>. DEFINE S == 1..MAX_TIER1_SHARDS
                T == 1..TOP_K
    <3>1. /\ IsFiniteSet(S) /\ Cardinality(S) = MAX_TIER1_SHARDS
          /\ IsFiniteSet(T) /\ Cardinality(T) = TOP_K /\ all = S \X T
      BY <1>2
    <3>. HIDE DEF S, T, all
    <3>2. IsFiniteSet(S \X T) /\ Cardinality(S \X T) = Cardinality(S) * Cardinality(T)
      BY <3>1, FS_Product
    <3>. QED BY <3>1, <3>2
  <2>2. \A a, b \in Nat : a * b = b * a
    OBVIOUS
  <2>3. MAX_TIER1_SHARDS * TOP_K = MAX_TIER1_WINNERS
    BY <1>1, <2>2, Zenon DEF MAX_TIER1_WINNERS
  <2>. HIDE DEF all
  <2>. QED BY <2>1, <2>3
<1>4. ASSUME NEW k \in 1..n PROVE taken(sizes[k]) \in Nat /\ taken(sizes[k]) <= TOP_K
  <2>1. sizes[k] \in Nat
    OBVIOUS
  <2>. QED BY <2>1, TakenType
<1>5. Len(yields) = n /\ \A k \in 1..n : yields[k] = taken(sizes[k])
  BY <1>1
<1>. HIDE DEF yields, all
<1>6. Places(yields) \subseteq all
  <2>1. ASSUME NEW p \in Places(yields) PROVE p \in all
    <3>1. PICK k \in 1..n : p \in {k} \X (1..yields[k])
      BY <1>5 DEF Places
    <3>2. k \in 1..MAX_TIER1_SHARDS
      BY <1>1
    <3>3. 1..yields[k] \subseteq 1..TOP_K
      BY <1>1, <1>4, <1>5
    <3>4. PICK i \in 1..yields[k] : p = <<k, i>>
      BY <3>1
    <3>. QED BY <3>2, <3>3, <3>4 DEF all
  <2>. QED BY <2>1
<1>. QED BY <1>3, <1>6, FS_Subset DEF Total, yields

\* The partition the job plans for a round too large for one tier is one that
\* init_tier1_bracket takes, if the first tier has room for the entries.
THEOREM TwoTierPlanIsValid == valid_tier1_layout(Plan.sizes, Plan.bounds)
<1>1. Plan.sizes = planShardSizes /\ Plan.bounds = Bound
  BY DEF Plan
<1>2. /\ Len(planShardSizes) \in 1..MAX_TIER1_SHARDS
      /\ Len(Bound) = Len(planShardSizes)
      /\ \A k \in 1..Len(planShardSizes) : planShardSizes[k] \in 1..MAX_SHARD_SIZE
      /\ Total(planShardSizes) = Cardinality(Entries)
      /\ planShardSizes \in Seq(Nat)
  BY PlanSizes, PlanBounds, Tier1Assumption, TwoTierDriverAssumption DEF N
<1>3. Len(planShardSizes) <= MAX_TIER1_SHARDS
  BY TwoTierDriverAssumption
<1>4. Total([k \in 1..Len(planShardSizes) |-> taken(planShardSizes[k])]) <= MAX_TIER1_WINNERS
  BY <1>2, <1>3, WinnersBounded
<1>5. valid_tier1_layout(planShardSizes, Bound)
  BY <1>2, <1>4, PlanAscends DEF valid_tier1_layout
<1>. QED BY <1>1, <1>5

\* What a run supplies for a shard of the first tier, it supplies to the
\* partition it was cut for, whatever was pinned before and by whom: every chunk
\* it queues or collects with passes the shard's checks.
SuppliesRuns ==
  pc \in {"queue", "collect"} /\ tier = "one" =>
    \A k \in PlanShards : k \in Tier1Shards /\ in_tier1_shard(Chunk[k], k)

THEOREM TwoTierJobSuppliesRuns == DriverSpec => []SuppliesRuns
<1>1. JobInv => SuppliesRuns
  <2>. SUFFICES ASSUME JobInv, pc \in {"queue", "collect"}, tier = "one", NEW k \in PlanShards
                PROVE  k \in Tier1Shards /\ in_tier1_shard(Chunk[k], k)
    BY DEF SuppliesRuns
  <2>1. matches
    BY DEF JobInv
  <2>2. tier1.shard_sizes = planShardSizes /\ tier1.shard_bounds = Bound
    BY <2>1 DEF matches, partitionMatches, Plan
  <2>3. k \in Tier1Shards /\ k \in Nat
    BY <2>2, PlanSizes DEF Tier1Shards
  <2>4. k < Len(tier1.shard_sizes) => k + 1 \in PlanShards
    BY <2>2, <2>3, PlanSizes
  <2>. QED BY <2>2, <2>3, <2>4, ChunkCounted, PlanBounds DEF in_tier1_shard
<1>. QED BY <1>1, DriverAlways, PTL
=============================================================================
