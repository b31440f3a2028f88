--------------------------- MODULE Bracket_proofs ---------------------------
(***************************************************************************)
(* Theorems about the single-tier bracket, for every set of entries and    *)
(* keys, number and size of shards and length of podium.                   *)
(*                                                                         *)
(* CollectedArePartition: the per-shard checks, each in a transaction of   *)
(* its own, add up to a partition.  PodiumSurvivesShards: nobody on the    *)
(* podium is lost in a shard.  BracketKeepsPromise: the winners written    *)
(* are the podium.  The last two are of QuietSpec, under which nothing is  *)
(* in flight at a re-pin; without it they fail (MCBracket_inflight).       *)
(* PlanIsValid and PlanFits: the partition that runner.ts plans is one     *)
(* that init_bracket accepts, and once it is pinned every chunk passes the *)
(* checks of its shard.                                                    *)
(*                                                                         *)
(* None of them is inductive.  A shard may be revealed over one run of     *)
(* entries and collected with another, both of which pass its checks, and  *)
(* only when the last shard is collected does it follow that they were     *)
(* the same: CollectedHaveRuns and HasWinners keep both runs until then.   *)
(* Partitioned counts places: n shards that are disjoint and have as many  *)
(* entries as the round cannot leave one out.  ComputationsAsked and       *)
(* ResultsAsked say that no answer of another generation can be used.      *)
(***************************************************************************)
EXTENDS BracketPlan, FiniteSetTheorems, FunctionTheorems, TLAPS

-----------------------------------------------------------------------------
(***************************************************************************)
(* Finite sets of numbers.                                                 *)
(***************************************************************************)

\* A nonempty set of naturals has a least element.
LEMMA LeastElement ==
  ASSUME NEW T \in SUBSET Nat, T # {}
  PROVE  \E n \in T : \A m \in T : n <= m
<1>. DEFINE R == StrictSubsetOrdering(Nat)
            U == {0..n : n \in T}
<1>1. IsWellFoundedOn(R, FiniteSubsetsOf(Nat))
  BY FS_StrictSubsetOrderingWellFounded
<1>2. U \subseteq FiniteSubsetsOf(Nat) /\ U # {}
  <2>1. \A n \in Nat : IsFiniteSet(0..n) /\ 0..n \subseteq Nat
    BY FS_Interval
  <2>. QED BY <2>1 DEF FiniteSubsetsOf
<1>3. \E x \in U : \A y \in U : ~ (<<y, x>> \in R)
  <2>. HIDE DEF R, U
  <2>. QED BY <1>1, <1>2, WFMin
<1>4. PICK n \in T : \A y \in U : ~ (<<y, 0..n>> \in R)
  BY <1>3
<1>5. ASSUME NEW m \in T, m < n PROVE FALSE
  <2>1. 0..m \subseteq 0..n /\ 0..m # 0..n /\ 0..n \subseteq Nat
    <3>1. n \in 0..n /\ n \notin 0..m
       BY <1>5
    <3>. QED BY <1>5, <3>1
  <2>2. <<0..m, 0..n>> \in R
    BY <2>1 DEF StrictSubsetOrdering
  <2>3. 0..m \in U
    OBVIOUS
  <2>. QED BY <1>4, <2>2, <2>3
<1>. QED BY <1>5

\* Bounds that ascend from each to the next ascend altogether.
LEMMA Ascends ==
  ASSUME NEW n \in Nat, NEW b, \A k \in 1..n : b[k] \in Nat,
         \A k \in 2..n : b[k] > b[k - 1],
         NEW j \in 1..n, NEW k \in 1..n, j < k
  PROVE  b[j] < b[k]
<1>. DEFINE T == {m \in 1..n : j < m /\ ~ (b[j] < b[m])}
<1>1. SUFFICES T = {}
  OBVIOUS
<1>2. SUFFICES ASSUME T # {} PROVE FALSE
  OBVIOUS
<1>3. T \subseteq Nat
  OBVIOUS
<1>4. PICK m \in T : \A l \in T : m <= l
  BY <1>2, <1>3, LeastElement
<1>5. b[m] > b[m - 1] /\ m - 1 \in 1..n
  OBVIOUS
<1>6. m - 1 = j \/ j < m - 1
  OBVIOUS
<1>7. CASE m - 1 = j
  BY <1>5, <1>7
<1>8. CASE j < m - 1
  <2>1. m - 1 \notin T
    BY <1>4, <1>5
  <2>2. b[j] < b[m - 1]
    BY <2>1, <1>5, <1>8
  <2>. QED BY <2>2, <1>5
<1>. QED BY <1>6, <1>7, <1>8

\* An injection between finite sets of one size reaches every element.
LEMMA Onto ==
  ASSUME NEW S, IsFiniteSet(S), NEW T, IsFiniteSet(T), Cardinality(S) = Cardinality(T),
         NEW f \in [S -> T], \A a, b \in S : f[a] = f[b] => a = b,
         NEW t \in T
  PROVE  \E s \in S : f[s] = t
<1>1. f \in Injection(S, T)
  BY Fun_IsInj
<1>2. f \in Surjection(S, T)
  BY <1>1, FS_Injection
<1>. QED BY <1>2, Fun_SurjectionProperties

-----------------------------------------------------------------------------
(***************************************************************************)
(* Slots: the entries of a run are numbered from 1, one slot each.         *)
(***************************************************************************)
LEMMA RunFinite ==
  ASSUME NEW S \in SUBSET Entries
  PROVE  IsFiniteSet(S) /\ Cardinality(S) \in Nat /\ S \subseteq Nat
BY EntriesAssumption, FS_Subset, FS_CardinalityType

LEMMA SlotType ==
  ASSUME NEW S \in SUBSET Entries, NEW e \in S
  PROVE  Slot(S, e) \in 1..Cardinality(S)
<1>. DEFINE B == {f \in S : f <= e}
<1>1. IsFiniteSet(B) /\ Cardinality(B) <= Cardinality(S) /\ Cardinality(B) \in Nat
  BY RunFinite, FS_Subset, FS_CardinalityType
<1>2. e \in B
  BY RunFinite
<1>3. Cardinality(B) # 0
  BY <1>1, <1>2, FS_EmptySet
<1>. QED BY <1>1, <1>3, RunFinite DEF Slot

LEMMA SlotAscends ==
  ASSUME NEW S \in SUBSET Entries, NEW e \in S, NEW f \in S, e < f
  PROVE  Slot(S, e) < Slot(S, f)
<1>. DEFINE B == {g \in S : g <= e}
            C == {g \in S : g <= f}
<1>1. IsFiniteSet(C) /\ Cardinality(B) \in Nat /\ Cardinality(C) \in Nat
  BY RunFinite, FS_Subset, FS_CardinalityType
<1>2. B \subseteq C /\ f \in C /\ f \notin B
  BY RunFinite
<1>3. Cardinality(B) <= Cardinality(C) /\ Cardinality(B) # Cardinality(C)
  BY <1>1, <1>2, FS_Subset
<1>. QED BY <1>1, <1>3 DEF Slot

LEMMA SlotDistinct ==
  ASSUME NEW S \in SUBSET Entries, NEW e \in S, NEW f \in S, Slot(S, e) = Slot(S, f)
  PROVE  e = f
<1>1. e \in Nat /\ f \in Nat /\ Slot(S, e) \in Nat
  BY RunFinite, SlotType
<1>2. CASE e < f
  BY <1>1, <1>2, SlotAscends
<1>3. CASE f < e
  BY <1>1, <1>3, SlotAscends
<1>. QED BY <1>1, <1>2, <1>3

LEMMA AtSlotOf ==
  ASSUME NEW S \in SUBSET Entries, NEW e \in S
  PROVE  AtSlot(S, Slot(S, e)) = e
BY SlotDistinct DEF AtSlot

LEMMA AtSlotType ==
  ASSUME NEW S \in SUBSET Entries, NEW i \in 1..Cardinality(S)
  PROVE  AtSlot(S, i) \in S /\ Slot(S, AtSlot(S, i)) = i
<1>. DEFINE f == [e \in S |-> Slot(S, e)]
            T == 1..Cardinality(S)
<1>1. IsFiniteSet(T) /\ Cardinality(S) = Cardinality(T) /\ IsFiniteSet(S)
  BY RunFinite, FS_Interval
<1>2. f \in [S -> T]
  BY SlotType
<1>3. \A a, b \in S : f[a] = f[b] => a = b
  BY SlotDistinct
<1>4. \E e \in S : f[e] = i
  <2>1. i \in T
    OBVIOUS
  <2>. HIDE DEF f, T
  <2>. QED BY <1>1, <1>2, <1>3, <2>1, Onto
<1>5. \E e \in S : Slot(S, e) = i
  BY <1>4
<1>. QED BY <1>5 DEF AtSlot

-----------------------------------------------------------------------------
(***************************************************************************)
(* Ranks: Beats is a total order, so the entries of a run are ranked from  *)
(* 1, one rank each, and a podium member keeps a podium rank in any run    *)
(* that has it.                                                            *)
(***************************************************************************)
Beaters(k, S, e) == {f \in S : Beats(k, f, e)}

LEMMA BeatersCount ==
  ASSUME NEW k \in [Entries -> Nat], NEW S \in SUBSET Entries, NEW e \in S
  PROVE  /\ IsFiniteSet(Beaters(k, S, e))
         /\ Cardinality(Beaters(k, S, e)) \in 0..(Cardinality(S) - 1)
<1>. DEFINE B == Beaters(k, S, e)
<1>1. B \subseteq S /\ e \notin B
  BY RunFinite DEF Beaters, Beats
<1>2. IsFiniteSet(B) /\ Cardinality(B) \in Nat /\ Cardinality(B) <= Cardinality(S)
  BY <1>1, RunFinite, FS_Subset, FS_CardinalityType
<1>3. Cardinality(B) # Cardinality(S)
  BY <1>1, RunFinite, FS_Subset
<1>. QED BY <1>2, <1>3, RunFinite

LEMMA RankAscends ==
  ASSUME NEW k \in [Entries -> Nat], NEW S \in SUBSET Entries, NEW e \in S, NEW f \in S,
         Beats(k, e, f)
  PROVE  Cardinality(Beaters(k, S, e)) < Cardinality(Beaters(k, S, f))
<1>. DEFINE B == Beaters(k, S, e)
            C == Beaters(k, S, f)
<1>1. B \subseteq C
  <2>. SUFFICES ASSUME NEW g \in S, Beats(k, g, e) PROVE Beats(k, g, f)
    BY DEF Beaters
  <2>1. g \in Nat /\ e \in Nat /\ f \in Nat /\ k[g] \in Nat /\ k[e] \in Nat /\ k[f] \in Nat
    BY RunFinite
  <2>. QED BY <2>1 DEF Beats
<1>2. e \in C /\ e \notin B
  BY RunFinite DEF Beaters, Beats
<1>3. IsFiniteSet(C) /\ Cardinality(B) \in Nat /\ Cardinality(C) \in Nat
  BY BeatersCount
<1>4. Cardinality(B) <= Cardinality(C) /\ Cardinality(B) # Cardinality(C)
  BY <1>1, <1>2, <1>3, FS_Subset
<1>. QED BY <1>3, <1>4

LEMMA RankDistinct ==
  ASSUME NEW k \in [Entries -> Nat], NEW S \in SUBSET Entries, NEW e \in S, NEW f \in S,
         Cardinality(Beaters(k, S, e)) = Cardinality(Beaters(k, S, f))
  PROVE  e = f
<1>1. /\ e \in Nat /\ f \in Nat /\ k[e] \in Nat /\ k[f] \in Nat
      /\ Cardinality(Beaters(k, S, e)) \in Nat
  <2>1. Cardinality(Beaters(k, S, e)) \in Nat
    BY BeatersCount, RunFinite
  <2>. QED BY <2>1, RunFinite
<1>2. e = f \/ Beats(k, e, f) \/ Beats(k, f, e)
  BY <1>1 DEF Beats
<1>3. CASE Beats(k, e, f)
  BY <1>1, <1>3, RankAscends
<1>4. CASE Beats(k, f, e)
  BY <1>1, <1>4, RankAscends
<1>. QED BY <1>2, <1>3, <1>4

\* Every rank is somebody's.
LEMMA BestType ==
  ASSUME NEW k \in [Entries -> Nat], NEW S \in SUBSET Entries, NEW i \in 1..Cardinality(S)
  PROVE  Best(k, S, i) \in S /\ Cardinality(Beaters(k, S, Best(k, S, i))) = i - 1
<1>. DEFINE f == [e \in S |-> Cardinality(Beaters(k, S, e))]
            n == Cardinality(S)
            T == 0..(n - 1)
<1>1. IsFiniteSet(T) /\ Cardinality(S) = Cardinality(T) /\ IsFiniteSet(S) /\ n \in Nat
  <2>1. IsFiniteSet(S) /\ n \in Nat
    BY RunFinite
  <2>. HIDE DEF n
  <2>2. n - 1 \in Int
    BY <2>1
  <2>3. IsFiniteSet(T) /\ Cardinality(T) = n
    BY <2>1, <2>2, FS_Interval
  <2>. QED BY <2>1, <2>3 DEF n
<1>2. f \in [S -> T]
  BY BeatersCount
<1>3. \A a, b \in S : f[a] = f[b] => a = b
  BY RankDistinct
<1>4. \E e \in S : f[e] = i - 1
  <2>1. i - 1 \in T
    BY <1>1
  <2>. HIDE DEF f, T
  <2>. QED BY <1>1, <1>2, <1>3, <2>1, Onto
<1>5. \E e \in S : Cardinality({f_ \in S : Beats(k, f_, e)}) = i - 1
  BY <1>4 DEF Beaters
<1>. QED BY <1>5 DEF Best, Beaters

\* And nobody else's.
LEMMA BestOf ==
  ASSUME NEW k \in [Entries -> Nat], NEW S \in SUBSET Entries, NEW e \in S,
         NEW i \in 1..Cardinality(S), Cardinality(Beaters(k, S, e)) = i - 1
  PROVE  Best(k, S, i) = e
BY BestType, RankDistinct

\* A smaller run does not worsen a rank.
LEMMA RankInRun ==
  ASSUME NEW k \in [Entries -> Nat], NEW S \in SUBSET Entries, NEW i \in 1..Cardinality(Entries),
         Best(k, Entries, i) \in S
  PROVE  \E j \in 1..i : j <= Cardinality(S) /\ Best(k, S, j) = Best(k, Entries, i)
<1>. DEFINE e == Best(k, Entries, i)
            c == Cardinality(Beaters(k, S, e))
<1>1. Cardinality(Beaters(k, Entries, e)) = i - 1 /\ IsFiniteSet(Beaters(k, Entries, e))
  BY BestType, BeatersCount
<1>2. Beaters(k, S, e) \subseteq Beaters(k, Entries, e)
  BY DEF Beaters
<1>3. c <= i - 1
  BY <1>1, <1>2, FS_Subset
<1>4. c \in 0..(Cardinality(S) - 1)
  BY BeatersCount
<1>5. c + 1 \in 1..i /\ c + 1 \in 1..Cardinality(S)
  BY <1>3, <1>4, RunFinite
<1>6. Best(k, S, c + 1) = e
  <2>1. c = (c + 1) - 1
    BY <1>4, RunFinite
  <2>. QED BY <1>5, <2>1, BestOf
<1>. QED BY <1>5, <1>6

\* A run that has the whole podium ranks it as the round does.
LEMMA PodiumInRun ==
  ASSUME NEW k \in [Entries -> Nat], NEW S \in SUBSET Entries,
         NEW n \in 0..Cardinality(Entries), \A i \in 1..n : Best(k, Entries, i) \in S,
         NEW i \in 1..n
  PROVE  i <= Cardinality(S) /\ Best(k, S, i) = Best(k, Entries, i)
<1>. DEFINE e == Best(k, Entries, i)
<1>0. i \in 1..Cardinality(Entries) /\ Cardinality(Entries) \in Nat
  BY RunFinite
<1>1. e \in S /\ Cardinality(Beaters(k, Entries, e)) = i - 1
  BY <1>0, BestType
<1>2. ASSUME NEW g \in Entries, Beats(k, g, e) PROVE g \in S
  <2>. DEFINE c == Cardinality(Beaters(k, Entries, g))
  <2>1. c < i - 1 /\ c \in Nat
    BY <1>1, <1>2, RankAscends, BeatersCount
  <2>2. c + 1 \in 1..n /\ c + 1 \in 1..Cardinality(Entries)
    BY <2>1, <1>0
  <2>3. Best(k, Entries, c + 1) = g
    <3>1. c = (c + 1) - 1
      BY <2>1
    <3>. QED BY <2>2, <3>1, BestOf
  <2>. QED BY <2>2, <2>3
<1>3. Beaters(k, S, e) = Beaters(k, Entries, e)
  BY <1>2 DEF Beaters
<1>4. i - 1 \in 0..(Cardinality(S) - 1)
  BY <1>1, <1>3, BeatersCount
<1>5. i \in 1..Cardinality(S)
  BY <1>4, RunFinite
<1>. QED BY <1>1, <1>3, <1>5, BestOf

-----------------------------------------------------------------------------
(***************************************************************************)
(* Sizes add up, and the sizes planBracket and promote_tier1 compute are   *)
(* balanced: the fewest shards that hold everybody, none over its size.    *)
(***************************************************************************)
PlacesTo(sizes, k) == UNION {{j} \X (1..sizes[j]) : j \in 1..k}
Sum(sizes, k) == Cardinality(PlacesTo(sizes, k))

LEMMA OneShardPlaces ==
  ASSUME NEW k, NEW m \in Nat
  PROVE  IsFiniteSet({k} \X (1..m)) /\ Cardinality({k} \X (1..m)) = m
<1>. DEFINE f == [i \in 1..m |-> <<k, i>>]
            T == {k} \X (1..m)
            D == 1..m
<1>1. f \in [D -> T]
  OBVIOUS
<1>2. \A a, b \in D : f[a] = f[b] => a = b
  OBVIOUS
<1>3. \A t \in T : \E a \in D : f[a] = t
  OBVIOUS
<1>4. IsFiniteSet(D) /\ Cardinality(D) = m
  BY FS_Interval
<1>. HIDE DEF f, T, D
<1>5. f \in Bijection(D, T)
  BY <1>1, <1>2, <1>3, Fun_IsBij
<1>6. ExistsBijection(D, T)
  BY <1>5, Fun_ExistsBij
<1>. QED BY <1>4, <1>6, FS_Bijection DEF T

LEMMA PlacesToSplit ==
  ASSUME NEW sizes, NEW k \in Nat \ {0}
  PROVE  /\ PlacesTo(sizes, k) = PlacesTo(sizes, k - 1) \cup ({k} \X (1..sizes[k]))
         /\ PlacesTo(sizes, k - 1) \cap ({k} \X (1..sizes[k])) = {}
<1>1. 1..k = 1..(k - 1) \cup {k} /\ k \notin 1..(k - 1)
  OBVIOUS
<1>2. ASSUME NEW p \in PlacesTo(sizes, k)
      PROVE  p \in PlacesTo(sizes, k - 1) \cup ({k} \X (1..sizes[k]))
  BY <1>1, <1>2 DEF PlacesTo
<1>3. ASSUME NEW p \in PlacesTo(sizes, k - 1) \cup ({k} \X (1..sizes[k]))
      PROVE  p \in PlacesTo(sizes, k)
  BY <1>1, <1>3 DEF PlacesTo
<1>4. ASSUME NEW p \in PlacesTo(sizes, k - 1), p \in {k} \X (1..sizes[k]) PROVE FALSE
  <2>1. PICK j \in 1..(k - 1) : p \in {j} \X (1..sizes[j])
    BY DEF PlacesTo
  <2>. QED BY <1>1, <1>4, <2>1
<1>. QED BY <1>2, <1>3, <1>4

LEMMA SumStep ==
  ASSUME NEW sizes \in Seq(Nat), NEW k \in 1..Len(sizes), IsFiniteSet(PlacesTo(sizes, k - 1))
  PROVE  /\ IsFiniteSet(PlacesTo(sizes, k))
         /\ Sum(sizes, k) = Sum(sizes, k - 1) + sizes[k]
<1>. DEFINE A == PlacesTo(sizes, k - 1)
            B == {k} \X (1..sizes[k])
<1>1. sizes[k] \in Nat /\ k \in Nat \ {0}
  OBVIOUS
<1>2. PlacesTo(sizes, k) = A \cup B /\ A \cap B = {}
  BY <1>1, PlacesToSplit
<1>3. IsFiniteSet(B) /\ Cardinality(B) = sizes[k]
  BY <1>1, OneShardPlaces
<1>. HIDE DEF A, B
<1>4. IsFiniteSet(A) /\ Cardinality(A) \in Nat
  BY FS_CardinalityType DEF A
<1>5. /\ IsFiniteSet(A \cup B)
      /\ Cardinality(A \cup B) = Cardinality(A) + Cardinality(B) - Cardinality(A \cap B)
  BY <1>3, <1>4, FS_Union
<1>6. Cardinality(A \cap B) = 0
  BY <1>2, FS_EmptySet
<1>7. Cardinality(A \cup B) = Cardinality(A) + sizes[k]
  BY <1>1, <1>3, <1>4, <1>5, <1>6
<1>. QED BY <1>2, <1>5, <1>7 DEF Sum, A

LEMMA SumType ==
  ASSUME NEW sizes \in Seq(Nat), NEW k \in 0..Len(sizes)
  PROVE  IsFiniteSet(PlacesTo(sizes, k)) /\ Sum(sizes, k) \in Nat
<1>. DEFINE T == {m \in 0..Len(sizes) : ~ IsFiniteSet(PlacesTo(sizes, m))}
<1>1. T = {}
  <2>. SUFFICES ASSUME T # {} PROVE FALSE
    OBVIOUS
  <2>1. PICK m \in T : \A l \in T : m <= l
    <3>1. T \in SUBSET Nat
      OBVIOUS
    <3>. HIDE DEF T
    <3>. QED BY <3>1, LeastElement
  <2>2. CASE m = 0
    <3>1. PlacesTo(sizes, 0) = {}
      BY DEF PlacesTo
    <3>. QED BY <2>2, <3>1, FS_EmptySet
  <2>3. CASE m # 0
    <3>1. m \in 1..Len(sizes) /\ m - 1 \in 0..Len(sizes) /\ ~ (m <= m - 1)
      BY <2>3
    <3>2. IsFiniteSet(PlacesTo(sizes, m - 1))
      BY <2>1, <3>1
    <3>. QED BY <3>1, <3>2, SumStep
  <2>. QED BY <2>2, <2>3
<1>. QED BY <1>1, FS_CardinalityType DEF Sum

LEMMA SumNext ==
  ASSUME NEW sizes \in Seq(Nat), NEW k \in 1..Len(sizes)
  PROVE  Sum(sizes, k) = Sum(sizes, k - 1) + sizes[k]
<1>1. k - 1 \in 0..Len(sizes)
  OBVIOUS
<1>. QED BY <1>1, SumType, SumStep

LEMMA SumZero == ASSUME NEW sizes PROVE Sum(sizes, 0) = 0
<1>1. PlacesTo(sizes, 0) = {}
  BY DEF PlacesTo
<1>. QED BY <1>1, FS_EmptySet DEF Sum

LEMMA SumGrows ==
  ASSUME NEW sizes \in Seq(Nat), NEW j \in 0..Len(sizes), NEW k \in 0..Len(sizes), j <= k
  PROVE  Sum(sizes, j) <= Sum(sizes, k)
<1>1. PlacesTo(sizes, j) \subseteq PlacesTo(sizes, k)
  <2>1. 1..j \subseteq 1..k
    OBVIOUS
  <2>. QED BY <2>1 DEF PlacesTo
<1>. QED BY <1>1, SumType, FS_Subset DEF Sum

LEMMA TotalSums ==
  ASSUME NEW sizes \in Seq(Nat)
  PROVE  /\ Total(sizes) = Sum(sizes, Len(sizes))
         /\ \A k \in 1..(Len(sizes) + 1) : Total(SubSeq(sizes, 1, k - 1)) = Sum(sizes, k - 1)
<1>1. Total(sizes) = Sum(sizes, Len(sizes))
  BY DEF Total, Places, Sum, PlacesTo
<1>2. ASSUME NEW k \in 1..(Len(sizes) + 1)
      PROVE  Total(SubSeq(sizes, 1, k - 1)) = Sum(sizes, k - 1)
  <2>. DEFINE s == SubSeq(sizes, 1, k - 1)
  <2>1. Len(s) = k - 1 /\ \A j \in 1..(k - 1) : s[j] = sizes[j]
    OBVIOUS
  <2>. HIDE DEF s
  <2>2. Places(s) = PlacesTo(sizes, k - 1)
    BY <2>1 DEF Places, PlacesTo
  <2>. QED BY <2>2 DEF Total, Sum, s
<1>. QED BY <1>1, <1>2

LEMMA Quotient ==
  ASSUME NEW x \in Nat, NEW m \in Nat \ {0}
  PROVE  /\ x \div m \in Nat /\ x % m \in 0..(m - 1)
         /\ x = m * (x \div m) + (x % m)
<1>1. x \div m \in Nat
  BY SMT
<1>2. x % m \in 0..(m - 1)
  BY SMT
<1>3. x = m * (x \div m) + (x % m)
  BY SMT
<1>. QED BY <1>1, <1>2, <1>3

LEMMA TimesGrows ==
  ASSUME NEW a \in Nat, NEW b \in Nat, NEW m \in Nat, a <= b
  PROVE  m * a <= m * b
BY SMT

LEMMA ShardCount ==
  ASSUME NEW n \in Nat \ {0}, NEW m \in Nat \ {0}
  PROVE  LET c == (n + m - 1) \div m IN
         c \in 1..n /\ n <= c * m /\ \A d \in Nat : n <= d * m => c <= d
<1>. DEFINE c == (n + m - 1) \div m
            r == (n + m - 1) % m
<1>1. c \in Nat /\ r \in 0..(m - 1) /\ n + m - 1 = m * c + r
  <2>. DEFINE x == n + m - 1
  <2>1. x \in Nat
    OBVIOUS
  <2>. HIDE DEF x
  <2>2. x \div m \in Nat /\ x % m \in 0..(m - 1) /\ x = m * (x \div m) + (x % m)
    BY <2>1, Quotient
  <2>. QED BY <2>2 DEF x
<1>2. n <= m * c /\ m * c < n + m
  BY <1>1
<1>. HIDE DEF c, r
<1>3. c # 0
  BY <1>1, <1>2
<1>4. ASSUME NEW d \in Nat, n <= m * d, c > d PROVE FALSE
  <2>1. m * (d + 1) <= m * c
    BY <1>1, <1>4, TimesGrows
  <2>2. m * (d + 1) = m * d + m
    OBVIOUS
  <2>. QED BY <1>1, <1>2, <1>4, <2>1, <2>2
<1>5. c <= n
  <2>1. n <= m * n
    <3>1. n * 1 <= n * m
      BY TimesGrows
    <3>. QED BY <3>1
  <2>. QED BY <1>1, <1>4, <2>1
<1>6. m * c = c * m /\ \A d \in Nat : m * d = d * m
  BY <1>1
<1>7. c \in 1..n /\ n <= c * m /\ \A d \in Nat : n <= d * m => c <= d
  BY <1>1, <1>2, <1>3, <1>4, <1>5, <1>6
<1>. QED BY <1>7 DEF c

BalancedSizes(n, sizes) ==
  LET count == (n + MAX_SHARD_SIZE - 1) \div MAX_SHARD_SIZE IN
  sizes = [k \in 1..count |-> (n \div count) + (IF k <= n % count THEN 1 ELSE 0)]

LEMMA Balanced ==
  ASSUME NEW n \in Nat \ {0}, MAX_SHARD_SIZE # 0, NEW s, BalancedSizes(n, s)
  PROVE  /\ s \in Seq(Nat) /\ Len(s) \in 1..n
         /\ n <= MAX_SHARDS * MAX_SHARD_SIZE => Len(s) <= MAX_SHARDS
         /\ \A k \in 1..Len(s) : s[k] \in 1..MAX_SHARD_SIZE
         /\ Total(s) = n
<1>. DEFINE m == MAX_SHARD_SIZE
            c == (n + m - 1) \div m
            q == n \div c
            r == n % c
            F(k) == q * k + (IF k <= r THEN k ELSE r)
<1>0. m \in Nat \ {0}
  BY SizesAssumption
<1>1. c \in 1..n /\ n <= c * m /\ \A d \in Nat : n <= d * m => c <= d
  BY <1>0, ShardCount, Zenon
<1>2. s = [k \in 1..c |-> q + (IF k <= r THEN 1 ELSE 0)]
  BY DEF BalancedSizes
<1>. HIDE DEF c
<1>3. q \in Nat /\ r \in 0..(c - 1) /\ n = c * q + r
  BY <1>1, Quotient
<1>. HIDE DEF q, r
<1>4. s \in Seq(Nat) /\ Len(s) = c
  BY <1>1, <1>2, <1>3
<1>5. q >= 1
  <2>. SUFFICES ASSUME q = 0 PROVE FALSE
    BY <1>3
  <2>. QED BY <1>1, <1>3
<1>6. q <= m /\ (r > 0 => q + 1 <= m)
  <2>1. ASSUME q > m PROVE FALSE
    <3>1. c * (m + 1) <= c * q
      BY <1>0, <1>1, <1>3, <2>1, TimesGrows
    <3>2. c * (m + 1) = c * m + c
      BY <1>0, <1>1
    <3>. QED BY <1>0, <1>1, <1>3, <3>1, <3>2
  <2>2. ASSUME r > 0, q >= m PROVE FALSE
    <3>1. c * m <= c * q
      BY <1>0, <1>1, <1>3, <2>2, TimesGrows
    <3>. QED BY <1>0, <1>1, <1>3, <2>2, <3>1
  <2>. QED BY <1>0, <1>3, <2>1, <2>2
<1>7. \A k \in 1..c : s[k] \in 1..m
  BY <1>0, <1>2, <1>3, <1>5, <1>6
<1>8. \A k \in 0..c : Sum(s, k) = F(k)
  <2>. DEFINE T == {k \in 0..c : Sum(s, k) # F(k)}
  <2>. SUFFICES ASSUME T # {} PROVE FALSE
    OBVIOUS
  <2>1. PICK k \in T : \A l \in T : k <= l
    <3>1. T \in SUBSET Nat
      BY <1>1
    <3>. HIDE DEF T
    <3>. QED BY <3>1, LeastElement
  <2>2. k # 0
    BY <1>3, SumZero
  <2>3. k \in 1..c /\ k - 1 \in 0..c /\ ~ (k <= k - 1)
    BY <1>1, <2>2
  <2>4. Sum(s, k - 1) = F(k - 1)
    BY <2>1, <2>3
  <2>5. Sum(s, k) = Sum(s, k - 1) + s[k]
    BY <1>4, <2>3, SumNext
  <2>6. F(k) = F(k - 1) + s[k]
    <3>1. s[k] = q + (IF k <= r THEN 1 ELSE 0)
      BY <1>2, <2>3
    <3>2. q * k = q * (k - 1) + q
      BY <1>3, <2>3
    <3>3. q * (k - 1) \in Nat
      BY <1>3, <2>3
    <3>. HIDE DEF T
    <3>. QED BY <1>1, <1>3, <2>3, <3>1, <3>2, <3>3
  <2>. QED BY <2>4, <2>5, <2>6
<1>9. Total(s) = n
  <2>1. Total(s) = F(c)
    BY <1>1, <1>4, <1>8, TotalSums
  <2>2. F(c) = q * c + r
    BY <1>1, <1>3
  <2>. QED BY <1>1, <1>3, <2>1, <2>2
<1>10. n <= MAX_SHARDS * MAX_SHARD_SIZE => c <= MAX_SHARDS
  BY <1>1, SizesAssumption
<1>. QED BY <1>1, <1>4, <1>7, <1>9, <1>10

-----------------------------------------------------------------------------
(***************************************************************************)
(* What the circuit's slots resolve to.  The slots were computed over a    *)
(* run T and are resolved against a run S of the same size, which need not *)
(* be T until the shards are known to be a partition.                      *)
(***************************************************************************)
Winner(S, T, i) == AtSlot(S, reveal_top3(T)[i])

KeyOK == key \in [Entries -> Nat]

LEMMA TakenType ==
  ASSUME NEW n \in Nat
  PROVE  taken(n) \in Nat /\ taken(n) <= n /\ taken(n) <= TOP_K
BY SizesAssumption DEF taken, Smaller

LEMMA SlotOfRank ==
  ASSUME KeyOK, NEW T \in SUBSET Entries, NEW i \in 1..taken(Cardinality(T))
  PROVE  /\ i \in 1..Cardinality(T)
         /\ reveal_top3(T)[i] = Slot(T, Best(key, T, i))
         /\ reveal_top3(T)[i] \in 1..Cardinality(T)
<1>1. i \in 1..Cardinality(T) /\ i \in 1..TOP_K
  BY RunFinite, TakenType, SizesAssumption
<1>2. reveal_top3(T)[i] = Slot(T, Best(key, T, i))
  BY <1>1 DEF reveal_top3
<1>3. Best(key, T, i) \in T
  BY <1>1, BestType DEF KeyOK
<1>. QED BY <1>1, <1>2, <1>3, SlotType

LEMMA WinnerType ==
  ASSUME KeyOK, NEW S \in SUBSET Entries, NEW T \in SUBSET Entries,
         Cardinality(S) = Cardinality(T), NEW i \in 1..taken(Cardinality(T))
  PROVE  Winner(S, T, i) \in S
BY SlotOfRank, AtSlotType DEF Winner

LEMMA WinnersDistinct ==
  ASSUME KeyOK, NEW S \in SUBSET Entries, NEW T \in SUBSET Entries,
         Cardinality(S) = Cardinality(T),
         NEW i \in 1..taken(Cardinality(T)), NEW j \in 1..taken(Cardinality(T)),
         Winner(S, T, i) = Winner(S, T, j)
  PROVE  i = j
<1>1. reveal_top3(T)[i] = reveal_top3(T)[j]
  BY SlotOfRank, AtSlotType DEF Winner
<1>2. Slot(T, Best(key, T, i)) = Slot(T, Best(key, T, j))
  BY <1>1, SlotOfRank
<1>3. /\ Best(key, T, i) \in T /\ Best(key, T, j) \in T
      /\ Cardinality(Beaters(key, T, Best(key, T, i))) = i - 1
      /\ Cardinality(Beaters(key, T, Best(key, T, j))) = j - 1
  BY SlotOfRank, BestType DEF KeyOK
<1>4. Best(key, T, i) = Best(key, T, j)
  BY <1>2, <1>3, SlotDistinct
<1>. QED BY <1>3, <1>4

LEMMA WinnerOfOwnRun ==
  ASSUME KeyOK, NEW S \in SUBSET Entries, NEW i \in 1..taken(Cardinality(S))
  PROVE  Winner(S, S, i) = Best(key, S, i)
<1>1. Best(key, S, i) \in S
  BY SlotOfRank, BestType DEF KeyOK
<1>. QED BY <1>1, SlotOfRank, AtSlotOf DEF Winner

-----------------------------------------------------------------------------
(***************************************************************************)
(* The partition.                                                          *)
(***************************************************************************)

\* Disjoint sets with as many entries, together, as there are places leave no
\* entry out.
LEMMA NoneLeftOut ==
  ASSUME NEW sizes \in Seq(Nat), Total(sizes) = Cardinality(Entries),
         NEW P, \A k \in 1..Len(sizes) : P[k] \in SUBSET Entries /\ Cardinality(P[k]) = sizes[k],
         \A j, k \in 1..Len(sizes) : \A e \in Entries : e \in P[j] /\ e \in P[k] => j = k,
         NEW e \in Entries
  PROVE  \E k \in 1..Len(sizes) : e \in P[k]
<1>. DEFINE L == Places(sizes)
            f == [p \in L |-> AtSlot(P[p[1]], p[2])]
<1>1. ASSUME NEW p \in L
      PROVE  /\ p = <<p[1], p[2]>> /\ p[1] \in 1..Len(sizes) /\ p[2] \in 1..sizes[p[1]]
             /\ f[p] \in P[p[1]] /\ f[p] \in Entries /\ Slot(P[p[1]], f[p]) = p[2]
  <2>1. p = <<p[1], p[2]>> /\ p[1] \in 1..Len(sizes) /\ p[2] \in 1..sizes[p[1]]
    BY DEF Places
  <2>. QED BY <2>1, AtSlotType
<1>2. \A p, q \in L : f[p] = f[q] => p = q
  <2>. SUFFICES ASSUME NEW p \in L, NEW q \in L, f[p] = f[q] PROVE p = q
    OBVIOUS
  <2>. HIDE DEF f, L
  <2>1. p[1] = q[1]
    BY <1>1
  <2>2. p[2] = q[2]
    BY <1>1, <2>1
  <2>. QED BY <1>1, <2>1, <2>2
<1>3. f \in [L -> Entries]
  BY <1>1
<1>. HIDE DEF f
<1>4. f \in Injection(L, Entries)
  <2>. HIDE DEF L
  <2>. QED BY <1>2, <1>3, Fun_IsInj
<1>5. IsFiniteSet(L)
  BY <1>4, EntriesAssumption, FS_Injection
<1>6. Cardinality(L) = Cardinality(Entries)
  BY DEF Total
<1>7. PICK p \in L : f[p] = e
  <2>. HIDE DEF L
  <2>. QED BY <1>2, <1>3, <1>5, <1>6, EntriesAssumption, Onto
<1>. QED BY <1>1, <1>7

\* Sizes and bounds that init_bracket, or init_tier1_bracket, lets through; the
\* runs of entries that fit shard k; and the entries between its bounds.
Divides(sizes, bounds) ==
  /\ sizes \in Seq(Nat)
  /\ Total(sizes) = Cardinality(Entries)
  /\ \A k \in 1..Len(sizes) : bounds[k] \in Nat
  /\ \A k \in 2..Len(sizes) : bounds[k] > bounds[k - 1]

Fits(sizes, bounds, S, k) ==
  /\ Cardinality(S) = sizes[k]
  /\ bounds[k] \in S
  /\ \A e \in S : e >= bounds[k]
  /\ k < Len(sizes) => \A e \in S : e < bounds[k + 1]

Between(sizes, bounds, k) ==
  {e \in Entries : /\ e >= bounds[k]
                   /\ k < Len(sizes) => e < bounds[k + 1]}

LEMMA FitsBetween ==
  ASSUME NEW sizes, NEW bounds, NEW S \in SUBSET Entries, NEW k, Fits(sizes, bounds, S, k)
  PROVE  S \subseteq Between(sizes, bounds, k)
BY DEF Fits, Between

LEMMA BetweenDisjoint ==
  ASSUME NEW sizes, NEW b, Divides(sizes, b),
         NEW j \in 1..Len(sizes), NEW k \in 1..Len(sizes), NEW e \in Entries,
         e \in Between(sizes, b, j), e \in Between(sizes, b, k)
  PROVE  j = k
<1>. DEFINE n == Len(sizes)
<1>0. n \in Nat /\ j \in 1..n /\ k \in 1..n
  BY DEF Divides
<1>1. /\ \A i \in 1..n : b[i] \in Nat
      /\ \A i \in 2..n : b[i] > b[i - 1]
      /\ e \in Nat
  BY EntriesAssumption DEF Divides
<1>2. ASSUME NEW i \in 1..n, NEW m \in 1..n, i < m,
             e \in Between(sizes, b, i), e \in Between(sizes, b, m)
      PROVE  FALSE
  <2>0. i + 1 \in 1..n /\ i < n /\ (i + 1 = m \/ i + 1 < m)
    BY <1>0, <1>2
  <2>1. e < b[i + 1] /\ e >= b[m]
    BY <1>2, <2>0 DEF Between
  <2>2. CASE i + 1 < m
    <3>1. b[i + 1] < b[m]
      <4>. HIDE DEF n
      <4>. QED BY <1>0, <1>1, <2>0, <2>2, Ascends
    <3>. QED BY <1>1, <2>0, <2>1, <3>1
  <2>. QED BY <1>1, <2>0, <2>1, <2>2
<1>. QED BY <1>0, <1>2

\* If every shard has a run that fits it, the shards are a partition, and no
\* other run fits them.
LEMMA Partitioned ==
  ASSUME NEW sizes, NEW b, Divides(sizes, b),
         \A k \in 1..Len(sizes) : \E S \in SUBSET Entries : Fits(sizes, b, S, k)
  PROVE  /\ \A e \in Entries : \E k \in 1..Len(sizes) : e \in Between(sizes, b, k)
         /\ \A k \in 1..Len(sizes) : \A S \in SUBSET Entries :
              Fits(sizes, b, S, k) => S = Between(sizes, b, k)
         /\ \A k \in 1..Len(sizes) : Fits(sizes, b, Between(sizes, b, k), k)
<1>. DEFINE D == 1..Len(sizes)
            I(k) == Between(sizes, b, k)
            F(S, k) == Fits(sizes, b, S, k)
            P == [k \in D |-> CHOOSE S \in SUBSET Entries : F(S, k)]
<1>1. \A k \in D : P[k] \in SUBSET Entries /\ F(P[k], k)
  OBVIOUS
<1>. HIDE DEF P
<1>2. \A k \in D : P[k] \subseteq I(k)
  BY <1>1, FitsBetween
<1>3. ASSUME NEW Q, \A k \in D : Q[k] \in SUBSET Entries /\ F(Q[k], k),
             NEW e \in Entries
      PROVE  \E k \in D : e \in Q[k]
  <2>1. \A k \in D : Q[k] \subseteq I(k)
    BY <1>3, FitsBetween
  <2>2. \A j, k \in D : \A g \in Entries : g \in Q[j] /\ g \in Q[k] => j = k
    BY <2>1, BetweenDisjoint
  <2>3. \A k \in D : Cardinality(Q[k]) = sizes[k]
    BY <1>3 DEF Fits
  <2>4. sizes \in Seq(Nat) /\ Total(sizes) = Cardinality(Entries)
    BY DEF Divides
  <2>. QED BY <1>3, <2>2, <2>3, <2>4, NoneLeftOut
<1>4. \A e \in Entries : \E k \in D : e \in I(k)
  BY <1>1, <1>2, <1>3
<1>5. ASSUME NEW k \in D, NEW S \in SUBSET Entries, F(S, k)
      PROVE  S = I(k)
  <2>. DEFINE R == [j \in D |-> IF j = k THEN S ELSE P[j]]
  <2>1. \A j \in D : R[j] \in SUBSET Entries /\ F(R[j], j)
    BY <1>1, <1>5
  <2>2. ASSUME NEW e \in I(k) PROVE e \in S
    <3>1. e \in Entries
      BY DEF Between
    <3>2. PICK j \in D : e \in R[j]
      <4>. HIDE DEF R
      <4>. QED BY <1>3, <2>1, <3>1
    <3>3. e \in I(j)
      BY <2>1, <3>2, FitsBetween
    <3>4. j = k
      BY <2>2, <3>1, <3>3, BetweenDisjoint
    <3>. QED BY <3>2, <3>4
  <2>. QED BY <1>5, <2>2, FitsBetween
<1>6. \A k \in D : F(I(k), k)
  BY <1>1, <1>5
<1>. QED BY <1>4, <1>5, <1>6

Layout ==
  /\ shard_count \in 0..MAX_SHARDS
  /\ bracket.shard_sizes \in Seq(Nat)
  /\ shard_count > 0 => Divides(bracket.shard_sizes, bracket.shard_bounds)

LEMMA FitsShard ==
  /\ \A S, k : in_shard(S, k) <=> Fits(bracket.shard_sizes, bracket.shard_bounds, S, k)
  /\ \A k : Interval(k) = Between(bracket.shard_sizes, bracket.shard_bounds, k)
  /\ Shards = 1..Len(bracket.shard_sizes)
BY DEF in_shard, Fits, Interval, Between, Shards, shard_count

LEMMA RunInInterval ==
  ASSUME NEW S \in SUBSET Entries, NEW k \in Shards, in_shard(S, k)
  PROVE  S \subseteq Interval(k)
BY FitsShard, FitsBetween

LEMMA IntervalsDisjoint ==
  ASSUME Layout, NEW j \in Shards, NEW k \in Shards, NEW e \in Entries,
         e \in Interval(j), e \in Interval(k)
  PROVE  j = k
<1>1. Divides(bracket.shard_sizes, bracket.shard_bounds)
  BY DEF Layout, Shards
<1>. QED BY <1>1, FitsShard, BetweenDisjoint

-----------------------------------------------------------------------------
(***************************************************************************)
(* What holds whatever operators do, a re-pin with computations in flight  *)
(* included: the types, and that every shard collected has had a run of    *)
(* entries at its bounds, of its size.                                     *)
(***************************************************************************)
BracketType ==
  [shard_sizes : Seq(Nat), shard_bounds : Seq(Entries), shards_collected : SUBSET Nat,
   finalists : Seq(Entries), final_queued : BOOLEAN, applied : BOOLEAN, generation : Nat]

ResultType == [ready : BOOLEAN, generation : Nat, slots : Seq(Nat \ {0})]

TypeOK ==
  /\ KeyOK
  /\ bracket \in BracketType
  /\ result \in [Indices -> ResultType]
  /\ \A i \in Indices : result[i].ready => result[i].slots \in [1..TOP_K -> Nat \ {0}]
  /\ computations \subseteq [index : Indices, entries : SUBSET Entries]

HasRun(k) == \E S \in SUBSET Entries : in_shard(S, k)

CollectedHaveRuns == \A k \in bracket.shards_collected : k \in Shards /\ HasRun(k)

Pinned == TypeOK /\ Layout /\ CollectedHaveRuns

LEMMA IndicesType ==
  /\ FINAL_SHARD_INDEX \in Indices
  /\ \A k \in 1..MAX_SHARDS : k \in Indices /\ k # FINAL_SHARD_INDEX
BY SizesAssumption DEF Indices, FINAL_SHARD_INDEX

LEMMA ShardsType ==
  ASSUME Layout, NEW k \in Shards
  PROVE  /\ k \in 1..MAX_SHARDS /\ k \in Indices /\ k # FINAL_SHARD_INDEX
         /\ bracket.shard_sizes[k] \in Nat
<1>1. k \in 1..Len(bracket.shard_sizes) /\ Len(bracket.shard_sizes) \in Nat
  BY DEF Layout, Shards, shard_count
<1>2. k \in 1..MAX_SHARDS
  BY <1>1, SizesAssumption DEF Layout, shard_count
<1>. QED BY <1>1, <1>2, IndicesType DEF Layout

LEMMA AscendingType ==
  ASSUME NEW S \in SUBSET Entries
  PROVE  /\ Ascending(S) \in Seq(Entries)
         /\ Len(Ascending(S)) = Cardinality(S)
         /\ Range(Ascending(S)) = S
         /\ \A i \in 1..Cardinality(S) : Ascending(S)[i] = AtSlot(S, i)
<1>1. Cardinality(S) \in Nat
  BY RunFinite
<1>2. Ascending(S) \in [1..Cardinality(S) -> S]
  BY AtSlotType DEF Ascending
<1>3. \A e \in S : Ascending(S)[Slot(S, e)] = e /\ Slot(S, e) \in 1..Cardinality(S)
  BY SlotType, AtSlotOf DEF Ascending
<1>4. Range(Ascending(S)) = S
  BY <1>2, <1>3 DEF Range
<1>. QED BY <1>1, <1>2, <1>4 DEF Ascending

LEMMA RevealType ==
  ASSUME KeyOK, NEW S \in SUBSET Entries
  PROVE  reveal_top3(S) \in [1..TOP_K -> Nat \ {0}] /\ reveal_top3(S) \in Seq(Nat \ {0})
<1>1. ASSUME NEW i \in 1..TOP_K, i <= Cardinality(S)
      PROVE  Slot(S, Best(key, S, i)) \in Nat \ {0}
  <2>1. i \in 1..Cardinality(S)
    BY <1>1, RunFinite, SizesAssumption
  <2>2. Best(key, S, i) \in S
    BY <2>1, BestType DEF KeyOK
  <2>. QED BY <2>2, SlotType, RunFinite
<1>. QED BY <1>1, SizesAssumption DEF reveal_top3

\* Joining winners to a sequence of finalists.
LEMMA Joined ==
  ASSUME NEW s \in Seq(Entries), NEW m \in Nat, NEW t \in [1..m -> Entries]
  PROVE  /\ s \o t \in Seq(Entries)
         /\ Len(s \o t) = Len(s) + m
         /\ \A i \in 1..Len(s) : (s \o t)[i] = s[i]
         /\ \A i \in 1..m : (s \o t)[Len(s) + i] = t[i]
         /\ Range(s \o t) = Range(s) \cup Range(t)
<1>1. t \in Seq(Entries) /\ Len(t) = m
  OBVIOUS
<1>2. /\ s \o t \in Seq(Entries)
      /\ Len(s \o t) = Len(s) + m
      /\ \A i \in 1..Len(s) : (s \o t)[i] = s[i]
      /\ \A i \in 1..m : (s \o t)[Len(s) + i] = t[i]
  BY <1>1
<1>3. ASSUME NEW x \in Range(s \o t) PROVE x \in Range(s) \cup Range(t)
  <2>1. PICK i \in 1..(Len(s) + m) : x = (s \o t)[i]
    BY <1>2, <1>3 DEF Range
  <2>2. CASE i <= Len(s)
    BY <1>2, <2>1, <2>2 DEF Range
  <2>3. CASE i > Len(s)
    <3>1. i - Len(s) \in 1..m /\ i = Len(s) + (i - Len(s))
      BY <2>3
    <3>2. x = t[i - Len(s)]
      BY <1>2, <2>1, <3>1
    <3>. QED BY <3>1, <3>2 DEF Range
  <2>. QED BY <2>1, <2>2, <2>3
<1>4. ASSUME NEW x \in Range(s) \cup Range(t) PROVE x \in Range(s \o t)
  <2>1. CASE x \in Range(s)
    <3>1. PICK i \in 1..Len(s) : x = s[i]
      BY <2>1 DEF Range
    <3>. QED BY <1>2, <3>1 DEF Range
  <2>2. CASE x \in Range(t)
    <3>1. PICK i \in 1..m : x = t[i]
      BY <2>2 DEF Range
    <3>2. Len(s) + i \in 1..Len(s \o t) /\ x = (s \o t)[Len(s) + i]
      BY <1>2, <3>1
    <3>. QED BY <1>2, <3>2 DEF Range
  <2>. QED BY <1>4, <2>1, <2>2
<1>. QED BY <1>2, <1>3, <1>4

LEMMA InitType == Init => TypeOK
<1>. SUFFICES ASSUME Init PROVE TypeOK
  OBVIOUS
<1>1. KeyOK
  BY KeysAssumption DEF Init, KeyOK
<1>2. NoBracket \in BracketType
  BY DEF NoBracket, BracketType
<1>3. NoResult \in ResultType /\ ~NoResult.ready
  BY DEF NoResult, ResultType
<1>. QED BY <1>1, <1>2, <1>3 DEF Init, TypeOK

LEMMA InitPinned == Init => Pinned
<1>. SUFFICES ASSUME Init PROVE Pinned
  OBVIOUS
<1>1. Layout /\ CollectedHaveRuns
  BY SizesAssumption DEF Init, Layout, CollectedHaveRuns, NoBracket, Shards, shard_count
<1>. QED BY <1>1, InitType DEF Pinned

LEMMA LayoutsType ==
  ASSUME NEW l \in Layouts
  PROVE  /\ l[1] \in Seq(Nat) /\ l[2] \in Seq(Entries)
         /\ Len(l[1]) \in 1..MAX_SHARDS /\ Len(l[2]) = Len(l[1])
         /\ valid_layout(l[1], l[2])
<1>1. PICK n \in 1..MAX_SHARDS : l[1] \in [1..n -> 1..MAX_SHARD_SIZE] /\ l[2] \in [1..n -> Entries]
  BY DEF Layouts
<1>2. n \in Nat
  BY SizesAssumption
<1>3. l[1] \in Seq(Nat) /\ l[2] \in Seq(Entries) /\ Len(l[1]) = n /\ Len(l[2]) = n
  BY <1>1, <1>2, SizesAssumption
<1>. QED BY <1>3 DEF Layouts

LEMMA PinnedBracketType ==
  ASSUME bracket \in BracketType, NEW sizes \in Seq(Nat), NEW bounds \in Seq(Entries),
         bracket' = pinned_bracket(sizes, bounds)
  PROVE  /\ bracket' \in BracketType
         /\ bracket'.shard_sizes = sizes /\ bracket'.shard_bounds = bounds
         /\ bracket'.shards_collected = {} /\ bracket'.finalists = <<>>
         /\ ~bracket'.final_queued /\ bracket'.generation = bracket.generation + 1
<1>. DEFINE g == bracket.generation + 1
<1>1. g \in Nat
  BY DEF BracketType
<1>2. bracket' = [NoBracket EXCEPT !.shard_sizes = sizes, !.shard_bounds = bounds,
                                   !.generation = g]
  BY DEF pinned_bracket
<1>. HIDE DEF g
<1>3. bracket' = [shard_sizes |-> sizes, shard_bounds |-> bounds, shards_collected |-> {},
                  finalists |-> <<>>, final_queued |-> FALSE, applied |-> FALSE,
                  generation |-> g]
  BY <1>2 DEF NoBracket
<1>. QED BY <1>1, <1>3 DEF BracketType, g

LEMMA PinnedByInit ==
  ASSUME Pinned, NEW sizes \in Seq(Nat), NEW bounds \in Seq(Entries), init_bracket(sizes, bounds)
  PROVE  Pinned'
<1>1. /\ bracket' = pinned_bracket(sizes, bounds) /\ valid_layout(sizes, bounds)
      /\ UNCHANGED <<key, result, computations>>
  BY DEF init_bracket
<1>2. /\ bracket'.shard_sizes = sizes /\ bracket'.shard_bounds = bounds
      /\ bracket'.shards_collected = {}
      /\ TypeOK'
  <2>1. bracket \in BracketType
    BY DEF Pinned, TypeOK
  <2>. QED BY <1>1, <2>1, PinnedBracketType DEF Pinned, TypeOK, KeyOK
<1>3. Layout'
  <2>1. /\ Len(sizes) \in 1..MAX_SHARDS /\ Len(bounds) = Len(sizes)
        /\ Total(sizes) = Cardinality(Entries)
        /\ \A k \in 2..Len(bounds) : bounds[k] > bounds[k - 1]
    BY <1>1 DEF valid_layout
  <2>2. \A k \in 1..Len(sizes) : bounds[k] \in Nat
    <3>1. \A k \in 1..Len(sizes) : bounds[k] \in Entries
      BY <2>1
    <3>. QED BY <3>1, EntriesAssumption
  <2>. QED BY <1>2, <2>1, <2>2, SizesAssumption DEF Layout, Divides, shard_count
<1>4. CollectedHaveRuns'
  BY <1>2 DEF CollectedHaveRuns
<1>. QED BY <1>2, <1>3, <1>4 DEF Pinned

\* The pinned layout and what has a run depend on nothing but these.
LEMMA LayoutKept ==
  ASSUME UNCHANGED <<bracket.shard_sizes, bracket.shard_bounds>>
  PROVE  /\ Layout => Layout'
         /\ Shards' = Shards /\ shard_count' = shard_count
         /\ needs_final_reveal' = needs_final_reveal
         /\ \A S, k : in_shard(S, k)' <=> in_shard(S, k)
         /\ \A k : Interval(k)' = Interval(k)
         /\ \A k : HasRun(k)' <=> HasRun(k)
BY DEF Layout, Shards, shard_count, in_shard, Interval, HasRun, needs_final_reveal

\* Stamping a result and asking for a run keeps the types, and so does an answer.
LEMMA TypeByStamp ==
  ASSUME TypeOK, NEW i \in Indices, NEW S \in SUBSET Entries, NEW g \in Nat,
         result' = [result EXCEPT ![i].ready = FALSE, ![i].generation = g],
         computations' = computations \cup {[index |-> i, entries |-> S]},
         UNCHANGED key, bracket' \in BracketType
  PROVE  TypeOK'
<1>1. result \in [Indices -> ResultType]
  BY DEF TypeOK
<1>2. result' = [result EXCEPT ![i] = [result[i] EXCEPT !.ready = FALSE, !.generation = g]]
  BY <1>1
<1>3. result' \in [Indices -> ResultType]
  BY <1>1, <1>2 DEF ResultType
<1>4. ASSUME NEW j \in Indices, result'[j].ready
      PROVE  result[j].ready /\ result'[j].slots = result[j].slots
  BY <1>1, <1>2, <1>4 DEF ResultType
<1>5. computations' \subseteq [index : Indices, entries : SUBSET Entries] /\ KeyOK'
  BY DEF TypeOK, KeyOK
<1>. QED BY <1>3, <1>4, <1>5 DEF TypeOK, BracketType

LEMMA TypeByAnswer ==
  ASSUME TypeOK, NEW c \in computations, reveal_top3_v5_callback(c) \/ Abort(c)
  PROVE  TypeOK'
<1>1. UNCHANGED <<bracket, key>> /\ computations' \subseteq computations
  BY DEF reveal_top3_v5_callback, Abort
<1>2. c.index \in Indices /\ c.entries \in SUBSET Entries
  BY DEF TypeOK
<1>3. /\ reveal_top3(c.entries) \in [1..TOP_K -> Nat \ {0}]
      /\ reveal_top3(c.entries) \in Seq(Nat \ {0})
  BY <1>2, RevealType DEF TypeOK
<1>4. /\ result' \in [Indices -> ResultType]
      /\ \A i \in Indices : result'[i].ready => result'[i].slots \in [1..TOP_K -> Nat \ {0}]
  <2>1. CASE reveal_top3_v5_callback(c)
    <3>. DEFINE slots == reveal_top3(c.entries)
    <3>1. result' = [result EXCEPT ![c.index].ready = TRUE, ![c.index].slots = slots]
      BY <2>1 DEF reveal_top3_v5_callback
    <3>2. slots \in [1..TOP_K -> Nat \ {0}] /\ slots \in Seq(Nat \ {0})
      BY <1>3
    <3>. HIDE DEF slots
    <3>3. result \in [Indices -> ResultType]
      BY DEF TypeOK
    <3>4. /\ [result[c.index] EXCEPT !.ready = TRUE, !.slots = slots] \in ResultType
          /\ result' = [result EXCEPT ![c.index] =
                          [result[c.index] EXCEPT !.ready = TRUE, !.slots = slots]]
      BY <1>2, <3>1, <3>2, <3>3 DEF ResultType
    <3>5. result' \in [Indices -> ResultType]
      BY <3>3, <3>4
    <3>6. ASSUME NEW i \in Indices
          PROVE  result'[i] = result[i] \/ result'[i].slots = slots
      BY <3>3, <3>4 DEF ResultType
    <3>. QED BY <3>2, <3>5, <3>6 DEF TypeOK
  <2>2. CASE Abort(c)
    BY <2>2 DEF TypeOK, Abort
  <2>. QED BY <2>1, <2>2
<1>. QED BY <1>1, <1>4 DEF TypeOK, KeyOK

LEMMA PinnedByQueue ==
  ASSUME Pinned, NEW S \in SUBSET Entries, queue_shard_reveal(S)
  PROVE  Pinned'
<1>1. PICK i \in Indices : Queue(i, S)
  BY ShardsType, IndicesType DEF Pinned, queue_shard_reveal, queue_shard, queue_final
<1>2. /\ UNCHANGED key
      /\ \/ bracket' = bracket
         \/ bracket' = [bracket EXCEPT !.finalists = Ascending(S), !.final_queued = TRUE]
  BY DEF queue_shard_reveal, queue_shard, queue_final
<1>3. TypeOK'
  <2>1. /\ result' = [result EXCEPT ![i].ready = FALSE, ![i].generation = bracket.generation]
        /\ computations' = computations \cup {[index |-> i, entries |-> S]}
    BY <1>1 DEF Queue
  <2>2. bracket' \in BracketType /\ bracket.generation \in Nat
    BY <1>2, AscendingType DEF Pinned, TypeOK, BracketType
  <2>. QED BY <1>2, <2>1, <2>2, TypeByStamp DEF Pinned
<1>4. UNCHANGED <<bracket.shard_sizes, bracket.shard_bounds, bracket.shards_collected>>
  BY <1>2 DEF Pinned, TypeOK, BracketType
<1>. QED BY <1>3, <1>4, LayoutKept DEF Pinned, CollectedHaveRuns

LEMMA PinnedByAnswer ==
  ASSUME Pinned, NEW c \in computations, reveal_top3_v5_callback(c) \/ Abort(c)
  PROVE  Pinned'
<1>1. UNCHANGED bracket
  BY DEF reveal_top3_v5_callback, Abort
<1>. QED BY <1>1, TypeByAnswer, LayoutKept DEF Pinned, CollectedHaveRuns

LEMMA PinnedByCollect ==
  ASSUME Pinned, NEW S \in SUBSET Entries, NEW k \in Shards, collect_shard_winners(k, S)
  PROVE  Pinned'
<1>. DEFINE slots == result[k].slots
            n == bracket.shard_sizes[k]
            new == [i \in 1..taken(n) |-> AtSlot(S, slots[i])]
<1>1. /\ in_shard(S, k) /\ n = Cardinality(S) /\ n \in Nat
      /\ \A i \in 1..taken(n) : slots[i] <= n
      /\ slots \in [1..TOP_K -> Nat \ {0}]
      /\ k \in Nat
  BY ShardsType DEF Pinned, collect_shard_winners, in_shard, usable, TypeOK, BracketType, ResultType
<1>2. new \in [1..taken(n) -> Entries] /\ taken(n) \in Nat
  <2>1. taken(n) \in Nat /\ taken(n) <= TOP_K
    BY <1>1, TakenType
  <2>2. ASSUME NEW i \in 1..taken(n) PROVE slots[i] \in 1..Cardinality(S)
    <3>1. i \in 1..TOP_K
      BY <2>1, SizesAssumption
    <3>2. slots[i] \in Nat \ {0} /\ slots[i] <= n
      BY <1>1, <3>1
    <3>. QED BY <1>1, <3>2
  <2>. QED BY <2>1, <2>2, AtSlotType
<1>3. /\ bracket' = [bracket EXCEPT !.finalists = @ \o new, !.shards_collected = @ \cup {k}]
      /\ UNCHANGED <<key, result, computations>>
  BY DEF collect_shard_winners
<1>4. bracket.finalists \o new \in Seq(Entries)
  <2>1. bracket.finalists \in Seq(Entries)
    BY DEF Pinned, TypeOK, BracketType, ResultType
  <2>. HIDE DEF new, n
  <2>. QED BY <1>2, <2>1, Joined
<1>. HIDE DEF new, slots, n
<1>5. TypeOK'
  BY <1>1, <1>3, <1>4 DEF Pinned, TypeOK, BracketType, ResultType, KeyOK
<1>6. /\ UNCHANGED <<bracket.shard_sizes, bracket.shard_bounds>>
      /\ bracket'.shards_collected = bracket.shards_collected \cup {k}
  BY <1>3 DEF Pinned, TypeOK, BracketType, ResultType
<1>7. HasRun(k)
  BY <1>1 DEF HasRun
<1>. QED BY <1>5, <1>6, <1>7, LayoutKept DEF Pinned, CollectedHaveRuns

LEMMA PinnedByApply ==
  ASSUME Pinned, NEW i \in Indices, apply_bracket_result(i)
  PROVE  Pinned'
<1>1. bracket' = [bracket EXCEPT !.applied = TRUE] /\ UNCHANGED <<key, result, computations>>
  BY DEF apply_bracket_result
<1>2. UNCHANGED <<bracket.shard_sizes, bracket.shard_bounds, bracket.shards_collected>>
  BY <1>1 DEF Pinned, TypeOK, BracketType, ResultType
<1>3. TypeOK'
  BY <1>1 DEF Pinned, TypeOK, BracketType, ResultType, KeyOK
<1>. QED BY <1>2, <1>3, LayoutKept DEF Pinned, CollectedHaveRuns

LEMMA PinnedByOther ==
  ASSUME Pinned, UNCHANGED vars \/ \E b \in BOOLEAN : SetPaused(b)
  PROVE  Pinned'
<1>1. UNCHANGED <<bracket, key, result, computations>>
  BY DEF vars, SetPaused
<1>. QED BY <1>1, LayoutKept DEF Pinned, CollectedHaveRuns, TypeOK, BracketType, ResultType, KeyOK

LEMMA PinnedStep == Pinned /\ [Next]_vars => Pinned'
<1>. SUFFICES ASSUME Pinned, [Next]_vars PROVE Pinned'
  OBVIOUS
<1>1. CASE UNCHANGED vars \/ \E b \in BOOLEAN : SetPaused(b)
  BY <1>1, PinnedByOther
<1>2. CASE \E l \in Layouts : init_bracket(l[1], l[2])
  BY <1>2, PinnedByInit, LayoutsType
<1>3. CASE \E S \in SUBSET Entries : queue_shard_reveal(S)
  BY <1>3, PinnedByQueue
<1>4. CASE \E S \in SUBSET Entries : \E k \in Shards : collect_shard_winners(k, S)
  BY <1>4, PinnedByCollect
<1>5. CASE \E c \in computations : reveal_top3_v5_callback(c) \/ Abort(c)
  BY <1>5, PinnedByAnswer
<1>6. CASE \E i \in Indices : apply_bracket_result(i)
  BY <1>6, PinnedByApply
<1>. QED BY <1>1, <1>2, <1>3, <1>4, <1>5, <1>6 DEF Next

LEMMA ShardsOfPartition ==
  ASSUME Pinned, shard_count > 0, all_shards_collected
  PROVE  /\ \A e \in Entries : \E k \in Shards : e \in Interval(k)
         /\ \A k \in Shards : \A S \in SUBSET Entries : in_shard(S, k) => S = Interval(k)
         /\ \A k \in Shards : in_shard(Interval(k), k)
<1>1. \A k \in Shards : \E S \in SUBSET Entries : in_shard(S, k)
  BY DEF Pinned, CollectedHaveRuns, HasRun, all_shards_collected
<1>2. Divides(bracket.shard_sizes, bracket.shard_bounds)
  BY DEF Pinned, Layout
<1>. QED BY <1>1, <1>2, FitsShard, Partitioned

LEMMA PinnedPartition == Pinned => ShardsPartition
<1>. SUFFICES ASSUME Pinned, shard_count > 0, all_shards_collected
              PROVE  /\ \A e \in Entries : \E k \in Shards : e \in Interval(k)
                     /\ \A k \in Shards : Cardinality(Interval(k)) = bracket.shard_sizes[k]
  BY DEF ShardsPartition
<1>. QED BY ShardsOfPartition DEF in_shard

\* With every shard collected the shards were a partition of the round's
\* entries, for every set of entries, number and size of shards, whatever
\* accounts were supplied, shard by shard, in whatever transactions, and
\* however often and at whatever moment the partition was pinned again.
THEOREM CollectedArePartition == Spec => []ShardsPartition
<1>1. Spec => []Pinned
  BY InitPinned, PinnedStep, PTL DEF Spec
<1>. QED BY <1>1, PinnedPartition, PTL

-----------------------------------------------------------------------------
(***************************************************************************)
(* What holds when nothing is in flight at a re-pin (QuietSpec): every     *)
(* computation, and every result of this generation, was asked for by this *)
(* bracket, and the finalists are the winners those results name.          *)
(***************************************************************************)
finalists == bracket.finalists

FinalistsDistinct ==
  /\ \A i, j \in 1..Len(finalists) : finalists[i] = finalists[j] => i = j
  /\ \A i \in 1..Len(finalists) :
       \E k \in bracket.shards_collected : finalists[i] \in Interval(k)

\* S is the run shard k was collected with, T the one it was revealed with.
HasWinners(k) ==
  \E S, T \in SUBSET Entries :
    /\ in_shard(S, k) /\ in_shard(T, k)
    /\ \A i \in 1..taken(bracket.shard_sizes[k]) : Winner(S, T, i) \in Range(finalists)

OneShardRanked ==
  shard_count = 1 /\ 1 \in bracket.shards_collected =>
    \E S, T \in SUBSET Entries :
      /\ in_shard(S, 1) /\ in_shard(T, 1)
      /\ Len(finalists) = taken(bracket.shard_sizes[1])
      /\ \A i \in 1..Len(finalists) : finalists[i] = Winner(S, T, i)

FinalInOrder ==
  bracket.final_queued =>
    /\ needs_final_reveal /\ all_shards_collected
    /\ finalists = Ascending(Range(finalists))

Gathered ==
  /\ FinalistsDistinct
  /\ \A k \in bracket.shards_collected : HasWinners(k)
  /\ OneShardRanked
  /\ FinalInOrder

\* A reveal of S into result account i is one this bracket may ask for.
Asked(i, S) ==
  \/ i \in Shards /\ in_shard(S, i)
  \/ i = FINAL_SHARD_INDEX /\ bracket.final_queued /\ S = Range(finalists)

ComputationsAsked == \A c \in computations : Asked(c.index, c.entries)

ResultsAsked ==
  \A i \in Indices :
    /\ result[i].generation <= bracket.generation
    /\ usable(i) => \E S \in SUBSET Entries : Asked(i, S) /\ result[i].slots = reveal_top3(S)

QuietInv == Pinned /\ Gathered /\ ComputationsAsked /\ ResultsAsked

-----------------------------------------------------------------------------
(***************************************************************************)
(* What it gives once every shard is collected.                            *)
(***************************************************************************)
LEMMA RangeCounted ==
  ASSUME NEW s \in Seq(Entries), \A i, j \in 1..Len(s) : s[i] = s[j] => i = j
  PROVE  /\ Range(s) \in SUBSET Entries /\ IsFiniteSet(Range(s))
         /\ Cardinality(Range(s)) = Len(s)
<1>. DEFINE D == 1..Len(s)
<1>1. s \in [D -> Entries] /\ Len(s) \in Nat
  OBVIOUS
<1>2. IsFiniteSet(D) /\ Cardinality(D) = Len(s)
  <2>. DEFINE n == Len(s)
  <2>1. n \in Nat
    BY <1>1
  <2>. HIDE DEF n
  <2>2. IsFiniteSet(1..n) /\ Cardinality(1..n) = n
    BY <2>1, FS_Interval
  <2>. QED BY <2>2 DEF n
<1>3. \A i, j \in D : s[i] = s[j] => i = j
  OBVIOUS
<1>. HIDE DEF D
<1>4. s \in Injection(D, Entries)
  BY <1>1, <1>3, Fun_IsInj
<1>5. s \in Bijection(D, Range(s))
  BY <1>4, Fun_InjMeansBijImage
<1>6. ExistsBijection(D, Range(s))
  BY <1>5, Fun_ExistsBij
<1>. QED BY <1>1, <1>2, <1>6, FS_Bijection, Fun_RangeProperties

LEMMA FinalistsCounted ==
  ASSUME Pinned, FinalistsDistinct
  PROVE  /\ finalists \in Seq(Entries) /\ Range(finalists) \in SUBSET Entries
         /\ IsFiniteSet(Range(finalists))
         /\ Cardinality(Range(finalists)) = Len(finalists)
<1>1. finalists \in Seq(Entries)
  BY DEF Pinned, TypeOK, BracketType, ResultType, finalists
<1>. QED BY <1>1, RangeCounted DEF FinalistsDistinct

PodiumSize == taken(Cardinality(Entries))

LEMMA PodiumSizeType ==
  /\ Cardinality(Entries) \in Nat
  /\ PodiumSize \in Nat /\ PodiumSize <= TOP_K /\ PodiumSize <= Cardinality(Entries)
BY EntriesAssumption, RunFinite, TakenType DEF PodiumSize

\* A member of the podium is among the winners of any run it is in.
LEMMA PodiumWinsRun ==
  ASSUME KeyOK, NEW i \in 1..PodiumSize, NEW I \in SUBSET Entries, Best(key, Entries, i) \in I
  PROVE  \E j \in 1..taken(Cardinality(I)) : Best(key, I, j) = Best(key, Entries, i)
<1>. DEFINE e == Best(key, Entries, i)
<1>0. key \in [Entries -> Nat]
  BY DEF KeyOK
<1>1. i \in 1..Cardinality(Entries) /\ i <= TOP_K
  BY PodiumSizeType, SizesAssumption
<1>2. PICK j \in 1..i : j <= Cardinality(I) /\ Best(key, I, j) = e
  BY <1>0, <1>1, RankInRun
<1>3. j \in 1..taken(Cardinality(I))
  BY <1>1, <1>2, RunFinite, SizesAssumption DEF taken, Smaller
<1>. QED BY <1>2, <1>3

LEMMA PodiumSurvives ==
  ASSUME Pinned, Gathered, shard_count > 0, all_shards_collected, NEW i \in 1..PodiumSize
  PROVE  Best(key, Entries, i) \in Range(finalists)
<1>. DEFINE e == Best(key, Entries, i)
<1>0. key \in [Entries -> Nat] /\ KeyOK
  BY DEF Pinned, TypeOK, BracketType, ResultType, KeyOK
<1>1. i \in 1..Cardinality(Entries) /\ e \in Entries
  BY <1>0, PodiumSizeType, BestType, SizesAssumption
<1>2. PICK k \in Shards : e \in Interval(k)
  BY <1>1, ShardsOfPartition
<1>. DEFINE I == Interval(k)
            n == bracket.shard_sizes[k]
<1>3. I \in SUBSET Entries /\ n = Cardinality(I)
  BY ShardsOfPartition DEF Interval, in_shard
<1>4. PICK S \in SUBSET Entries, T \in SUBSET Entries :
        /\ in_shard(S, k) /\ in_shard(T, k)
        /\ \A j \in 1..taken(n) : Winner(S, T, j) \in Range(finalists)
  BY DEF Gathered, HasWinners, all_shards_collected
<1>5. S = I /\ T = I
  BY <1>4, ShardsOfPartition
<1>6. e \in I
  BY <1>2
<1>. HIDE DEF I, n
<1>7. PICK j \in 1..taken(n) : Best(key, I, j) = e
  BY <1>0, <1>3, <1>6, PodiumWinsRun
<1>8. Winner(I, I, j) = e
  BY <1>0, <1>3, <1>7, WinnerOfOwnRun
<1>. QED BY <1>4, <1>5, <1>8

\* Finalists that have the podium are enough for it.
LEMMA PodiumFits ==
  ASSUME KeyOK, NEW R \in SUBSET Entries, \A i \in 1..PodiumSize : Best(key, Entries, i) \in R
  PROVE  PodiumSize <= Cardinality(R) /\ Cardinality(R) <= Cardinality(Entries)
<1>. DEFINE D == 1..PodiumSize
            f == [i \in D |-> Best(key, Entries, i)]
<1>0. key \in [Entries -> Nat] /\ IsFiniteSet(R)
  BY RunFinite DEF KeyOK
<1>2. IsFiniteSet(D) /\ Cardinality(D) = PodiumSize
  BY PodiumSizeType, FS_Interval
<1>3. f \in [D -> R]
  OBVIOUS
<1>4. ASSUME NEW a \in D, NEW b \in D, f[a] = f[b] PROVE a = b
  <2>1. a \in 1..Cardinality(Entries) /\ b \in 1..Cardinality(Entries)
    BY PodiumSizeType
  <2>2. /\ Cardinality(Beaters(key, Entries, Best(key, Entries, a))) = a - 1
        /\ Cardinality(Beaters(key, Entries, Best(key, Entries, b))) = b - 1
    BY <1>0, <2>1, BestType
  <2>. QED BY <1>4, <2>1, <2>2
<1>. HIDE DEF D, f
<1>5. f \in Injection(D, R)
  BY <1>3, <1>4, Fun_IsInj
<1>6. Cardinality(D) <= Cardinality(R)
  BY <1>0, <1>5, FS_Injection
<1>7. Cardinality(R) <= Cardinality(Entries)
  BY EntriesAssumption, FS_Subset
<1>. QED BY <1>2, <1>6, <1>7

LEMMA PodiumIsAmong == Pinned /\ Gathered => PodiumAmongFinalists
<1>. SUFFICES ASSUME Pinned, Gathered, shard_count > 0, all_shards_collected
              PROVE  /\ Cardinality(Range(bracket.finalists)) = Len(bracket.finalists)
                     /\ Range(Podium(key)) \subseteq Range(bracket.finalists)
  BY DEF PodiumAmongFinalists
<1>1. Cardinality(Range(bracket.finalists)) = Len(bracket.finalists)
  BY FinalistsCounted DEF Gathered, finalists
<1>2. \A i \in 1..PodiumSize : Best(key, Entries, i) \in Range(bracket.finalists)
  BY PodiumSurvives DEF finalists
<1>3. Podium(key) = [i \in 1..PodiumSize |-> Best(key, Entries, i)]
  BY DEF Podium, PodiumSize, taken
<1>. QED BY <1>1, <1>2, <1>3 DEF Range

\* The winners written are the podium, with one shard and with several.
LEMMA OneShardApplied ==
  ASSUME Pinned, Gathered, shard_count = 1, all_shards_collected
  PROVE  winners_of_one_shard = Podium(key)
<1>1. Shards = {1} /\ 1 \in bracket.shards_collected
  BY DEF Shards, all_shards_collected
<1>2. PICK S \in SUBSET Entries, T \in SUBSET Entries :
        /\ in_shard(S, 1) /\ in_shard(T, 1)
        /\ Len(finalists) = taken(bracket.shard_sizes[1])
        /\ \A i \in 1..Len(finalists) : finalists[i] = Winner(S, T, i)
  BY <1>1 DEF Gathered, OneShardRanked
<1>3. S = Entries /\ T = Entries /\ bracket.shard_sizes[1] = Cardinality(Entries)
  <2>1. S = Interval(1) /\ T = Interval(1) /\ Interval(1) \in SUBSET Entries
    BY <1>1, <1>2, ShardsOfPartition
  <2>2. \A e \in Entries : e \in Interval(1)
    <3>1. \A e \in Entries : \E k \in Shards : e \in Interval(k)
      BY ShardsOfPartition
    <3>. QED BY <1>1, <3>1
  <2>3. Interval(1) = Entries
    BY <2>1, <2>2
  <2>. QED BY <1>2, <2>1, <2>3 DEF in_shard
<1>4. Len(finalists) = PodiumSize
  BY <1>2, <1>3 DEF PodiumSize
<1>5. Smaller(TOP_K, Len(finalists)) = PodiumSize
  BY <1>4, PodiumSizeType, SizesAssumption DEF Smaller
<1>6. KeyOK /\ Entries \in SUBSET Entries
  BY DEF Pinned, TypeOK, BracketType, ResultType
<1>7. \A i \in 1..PodiumSize : finalists[i] = Best(key, Entries, i)
  BY <1>2, <1>3, <1>4, <1>6, WinnerOfOwnRun DEF PodiumSize
<1>. QED BY <1>5, <1>7 DEF winners_of_one_shard, Podium, finalists, PodiumSize, taken

\* A final reveal of finalists that have the podium names it, once they stand in
\* the order its slots index.
LEMMA FinalNamesPodium ==
  ASSUME KeyOK, finalists \in Seq(Entries), Cardinality(Range(finalists)) = Len(finalists),
         \A i \in 1..PodiumSize : Best(key, Entries, i) \in Range(finalists),
         finalists = Ascending(Range(finalists))
  PROVE  winners_of_final(reveal_top3(Range(finalists))) = Podium(key)
<1>. DEFINE R == Range(finalists)
<1>1. R \in SUBSET Entries /\ Cardinality(R) = Len(finalists) /\ Len(finalists) \in Nat
  BY DEF Range
<1>2. finalists = Ascending(R) /\ \A i \in 1..PodiumSize : Best(key, Entries, i) \in R
  OBVIOUS
<1>3. key \in [Entries -> Nat]
  BY DEF KeyOK
<1>. HIDE DEF R
<1>4. Smaller(TOP_K, Len(finalists)) = PodiumSize /\ taken(Cardinality(R)) = PodiumSize
  BY <1>1, <1>2, PodiumFits, PodiumSizeType, SizesAssumption DEF PodiumSize, taken, Smaller
<1>5. ASSUME NEW i \in 1..PodiumSize
      PROVE  finalists[reveal_top3(R)[i]] = Best(key, Entries, i)
  <2>1. /\ i \in 1..Cardinality(R)
        /\ reveal_top3(R)[i] = Slot(R, Best(key, R, i))
        /\ reveal_top3(R)[i] \in 1..Cardinality(R)
    BY <1>1, <1>4, SlotOfRank
  <2>2. finalists[reveal_top3(R)[i]] = AtSlot(R, reveal_top3(R)[i])
    BY <1>1, <1>2, <2>1, AscendingType
  <2>3. Best(key, R, i) \in R
    BY <1>1, <1>3, <2>1, BestType
  <2>4. AtSlot(R, reveal_top3(R)[i]) = Best(key, R, i)
    BY <1>1, <2>1, <2>3, AtSlotOf
  <2>5. Best(key, R, i) = Best(key, Entries, i)
    <3>1. PodiumSize \in 0..Cardinality(Entries)
      BY PodiumSizeType
    <3>. QED BY <1>1, <1>2, <1>3, <3>1, PodiumInRun
  <2>. QED BY <2>2, <2>4, <2>5
<1>. QED BY <1>4, <1>5 DEF winners_of_final, Podium, finalists, PodiumSize, taken, R

LEMMA FinalApplied ==
  ASSUME Pinned, Gathered, shard_count > 0, all_shards_collected, bracket.final_queued
  PROVE  winners_of_final(reveal_top3(Range(finalists))) = Podium(key)
<1>1. finalists \in Seq(Entries) /\ Cardinality(Range(finalists)) = Len(finalists)
  BY FinalistsCounted DEF Gathered
<1>2. finalists = Ascending(Range(finalists))
  BY DEF Gathered, FinalInOrder
<1>3. \A i \in 1..PodiumSize : Best(key, Entries, i) \in Range(finalists)
  BY PodiumSurvives
<1>. QED BY <1>1, <1>2, <1>3, FinalNamesPodium DEF Pinned, TypeOK, BracketType, ResultType

-----------------------------------------------------------------------------
(***************************************************************************)
(* Every step keeps it.                                                    *)
(***************************************************************************)
LEMMA InitQuiet == Init => QuietInv
<1>. SUFFICES ASSUME Init PROVE QuietInv
  OBVIOUS
<1>1. /\ bracket.finalists = <<>> /\ bracket.shards_collected = {} /\ ~bracket.final_queued
      /\ bracket.generation = 0 /\ computations = {}
      /\ \A i \in Indices : ~result[i].ready /\ result[i].generation = 0
  BY DEF Init, NoBracket, NoResult
<1>2. Gathered
  BY <1>1 DEF Gathered, FinalistsDistinct, OneShardRanked, FinalInOrder, finalists
<1>3. ComputationsAsked /\ ResultsAsked
  BY <1>1 DEF ComputationsAsked, ResultsAsked, usable
<1>. QED BY <1>2, <1>3, InitPinned DEF QuietInv

LEMMA GatheredKept ==
  ASSUME Gathered,
         UNCHANGED <<key, bracket.shard_sizes, bracket.shard_bounds, bracket.shards_collected,
                     bracket.finalists, bracket.final_queued>>
  PROVE  /\ Gathered'
         /\ \A i, S : Asked(i, S)' <=> Asked(i, S)
         /\ \A S : reveal_top3(S)' = reveal_top3(S)
<1>1. /\ \A k : Interval(k)' = Interval(k)
      /\ \A S, k : in_shard(S, k)' <=> in_shard(S, k)
      /\ Shards' = Shards /\ shard_count' = shard_count
      /\ needs_final_reveal' = needs_final_reveal
  BY LayoutKept
<1>2. all_shards_collected' = all_shards_collected /\ finalists' = finalists
  BY <1>1 DEF all_shards_collected, finalists
<1>3. \A S : reveal_top3(S)' = reveal_top3(S)
  BY DEF reveal_top3
<1>4. \A S, T, i : Winner(S, T, i)' = Winner(S, T, i)
  BY <1>3 DEF Winner
<1>5. FinalistsDistinct'
  BY <1>1, <1>2 DEF Gathered, FinalistsDistinct
<1>6. \A k \in bracket'.shards_collected : HasWinners(k)'
  BY <1>1, <1>2, <1>4 DEF Gathered, HasWinners
<1>7. OneShardRanked'
  BY <1>1, <1>2, <1>4 DEF Gathered, OneShardRanked
<1>8. FinalInOrder'
  BY <1>1, <1>2 DEF Gathered, FinalInOrder
<1>9. \A i, S : Asked(i, S)' <=> Asked(i, S)
  BY <1>1, <1>2 DEF Asked
<1>. QED BY <1>3, <1>5, <1>6, <1>7, <1>8, <1>9 DEF Gathered

LEMMA QuietByRepin ==
  ASSUME QuietInv, Pinned', computations = {}, NEW sizes, NEW bounds, init_bracket(sizes, bounds)
  PROVE  QuietInv'
<1>1. /\ bracket'.finalists = <<>> /\ bracket'.shards_collected = {} /\ ~bracket'.final_queued
      /\ bracket'.generation = bracket.generation + 1
      /\ UNCHANGED <<result, computations>>
  BY DEF init_bracket, pinned_bracket, NoBracket
<1>2. Gathered'
  BY <1>1 DEF Gathered, FinalistsDistinct, OneShardRanked, FinalInOrder, finalists
<1>3. ComputationsAsked'
  BY <1>1 DEF ComputationsAsked
<1>4. ResultsAsked'
  <2>. SUFFICES ASSUME NEW i \in Indices
                PROVE  result'[i].generation <= bracket'.generation /\ ~usable(i)'
    BY DEF ResultsAsked
  <2>1. result[i].generation <= bracket.generation
    BY DEF QuietInv, ResultsAsked
  <2>2. result[i].generation \in Nat /\ bracket.generation \in Nat
    BY DEF QuietInv, Pinned, TypeOK, BracketType, ResultType
  <2>3. result'[i].generation < bracket'.generation
    BY <1>1, <2>1, <2>2
  <2>. QED BY <1>1, <2>2, <2>3 DEF usable
<1>. QED BY <1>2, <1>3, <1>4 DEF QuietInv

\* Queueing into account i asks the bracket for S.
LEMMA AskedByQueue ==
  ASSUME QuietInv, NEW i \in Indices, NEW S \in SUBSET Entries, Queue(i, S), Asked(i, S)',
         bracket'.generation = bracket.generation,
         \A j, T : Asked(j, T) => Asked(j, T)', \A T : reveal_top3(T)' = reveal_top3(T)
  PROVE  ComputationsAsked' /\ ResultsAsked'
<1>1. /\ result' = [result EXCEPT ![i].ready = FALSE, ![i].generation = bracket.generation]
      /\ computations' = computations \cup {[index |-> i, entries |-> S]}
  BY DEF Queue
<1>2. ComputationsAsked'
  <2>. SUFFICES ASSUME NEW c \in computations' PROVE Asked(c.index, c.entries)'
    BY DEF ComputationsAsked
  <2>1. CASE c \in computations
    BY <2>1 DEF QuietInv, ComputationsAsked
  <2>2. CASE c = [index |-> i, entries |-> S]
    BY <2>2
  <2>. QED BY <1>1, <2>1, <2>2
<1>3. ResultsAsked'
  <2>. SUFFICES ASSUME NEW j \in Indices
                PROVE  /\ result'[j].generation <= bracket'.generation
                       /\ usable(j)' => \E T \in SUBSET Entries :
                            Asked(j, T)' /\ result'[j].slots = reveal_top3(T)'
    BY DEF ResultsAsked
  <2>1. CASE j = i
    <3>1. ~result'[j].ready /\ result'[j].generation = bracket.generation
      BY <1>1, <2>1 DEF QuietInv, Pinned, TypeOK, BracketType, ResultType
    <3>2. bracket.generation \in Nat
      BY DEF QuietInv, Pinned, TypeOK, BracketType, ResultType
    <3>. QED BY <3>1, <3>2 DEF usable
  <2>2. CASE j # i
    <3>1. result'[j] = result[j]
      BY <1>1, <2>2 DEF QuietInv, Pinned, TypeOK, BracketType, ResultType
    <3>2. /\ result[j].generation <= bracket.generation
          /\ usable(j) => \E T \in SUBSET Entries :
               Asked(j, T) /\ result[j].slots = reveal_top3(T)
      BY DEF QuietInv, ResultsAsked
    <3>3. usable(j)' <=> usable(j)
      BY <3>1 DEF usable
    <3>. QED BY <3>1, <3>2, <3>3
  <2>. QED BY <2>1, <2>2
<1>. QED BY <1>2, <1>3

LEMMA QuietByQueueShard ==
  ASSUME QuietInv, Pinned', NEW k \in Shards, NEW S \in SUBSET Entries, queue_shard(k, S)
  PROVE  QuietInv'
<1>1. UNCHANGED <<bracket, key>> /\ Queue(k, S) /\ in_shard(S, k) /\ k \in Indices
  BY ShardsType DEF queue_shard, QuietInv, Pinned
<1>2. /\ Gathered' /\ \A i, T : Asked(i, T)' <=> Asked(i, T)
      /\ \A T : reveal_top3(T)' = reveal_top3(T)
  BY <1>1, GatheredKept DEF QuietInv
<1>3. Asked(k, S)
  BY <1>1 DEF Asked
<1>4. ComputationsAsked' /\ ResultsAsked'
  BY <1>1, <1>2, <1>3, AskedByQueue
<1>. QED BY <1>2, <1>4 DEF QuietInv

LEMMA QuietByQueueFinal ==
  ASSUME QuietInv, Pinned', NEW S \in SUBSET Entries, queue_final(S)
  PROVE  QuietInv'
<1>1. /\ UNCHANGED key /\ Queue(FINAL_SHARD_INDEX, S)
      /\ shard_count > 1 /\ needs_final_reveal /\ all_shards_collected
      /\ bracket' = [bracket EXCEPT !.finalists = Ascending(S), !.final_queued = TRUE]
  BY DEF queue_final, needs_final_reveal
<1>2. S = Range(finalists)
  <2>1. /\ IsFiniteSet(Range(finalists))
        /\ Cardinality(Range(finalists)) = Len(finalists)
    BY FinalistsCounted DEF QuietInv, Gathered
  <2>2. S \subseteq Range(finalists) /\ Cardinality(S) = Len(finalists)
    BY DEF queue_final, finalists
  <2>. QED BY <2>1, <2>2, FS_Subset
<1>3. /\ finalists' = Ascending(S) /\ bracket'.final_queued
      /\ UNCHANGED <<bracket.shard_sizes, bracket.shard_bounds, bracket.shards_collected,
                     bracket.generation>>
  BY <1>1 DEF QuietInv, Pinned, TypeOK, BracketType, ResultType, finalists
<1>4. Range(finalists') = Range(finalists)
  BY <1>2, <1>3, AscendingType
<1>5. /\ \A k : Interval(k)' = Interval(k)
      /\ \A T, k : in_shard(T, k)' <=> in_shard(T, k)
      /\ Shards' = Shards /\ shard_count' = shard_count
      /\ needs_final_reveal' = needs_final_reveal
      /\ all_shards_collected' = all_shards_collected
  BY <1>3, LayoutKept DEF all_shards_collected
<1>6. /\ \A T : reveal_top3(T)' = reveal_top3(T)
      /\ \A T, U, i : Winner(T, U, i)' = Winner(T, U, i)
  BY <1>1 DEF Winner, reveal_top3
<1>7. Gathered'
  <2>1. FinalistsDistinct'
    <3>1. \A i \in 1..Len(finalists') :
            /\ i \in 1..Cardinality(S)
            /\ finalists'[i] = AtSlot(S, i) /\ finalists'[i] \in S
            /\ Slot(S, finalists'[i]) = i
      BY <1>3, AscendingType, AtSlotType
    <3>2. ASSUME NEW i \in 1..Len(finalists')
          PROVE  \E k \in bracket'.shards_collected : finalists'[i] \in Interval(k)'
      <4>1. PICK j \in DOMAIN finalists : finalists'[i] = finalists[j]
        BY <1>2, <3>1 DEF Range
      <4>2. j \in 1..Len(finalists)
        BY FinalistsCounted, <4>1 DEF QuietInv, Gathered
      <4>. QED BY <1>3, <1>5, <4>1, <4>2 DEF QuietInv, Gathered, FinalistsDistinct
    <3>. QED BY <3>1, <3>2 DEF FinalistsDistinct
  <2>2. ASSUME NEW k \in bracket'.shards_collected PROVE HasWinners(k)'
    BY <1>3, <1>4, <1>5, <1>6 DEF QuietInv, Gathered, HasWinners
  <2>3. OneShardRanked'
    BY <1>1, <1>5 DEF OneShardRanked
  <2>4. FinalInOrder'
    BY <1>1, <1>2, <1>3, <1>4, <1>5 DEF FinalInOrder
  <2>. QED BY <2>1, <2>2, <2>3, <2>4 DEF Gathered
<1>8. \A i, T : Asked(i, T) => Asked(i, T)'
  BY <1>3, <1>4, <1>5 DEF Asked
<1>9. Asked(FINAL_SHARD_INDEX, S)'
  BY <1>2, <1>3, <1>4 DEF Asked
<1>10. ComputationsAsked' /\ ResultsAsked'
  BY <1>1, <1>3, <1>6, <1>8, <1>9, IndicesType, AskedByQueue
<1>. QED BY <1>7, <1>10 DEF QuietInv

LEMMA QuietByAnswer ==
  ASSUME QuietInv, Pinned', NEW c \in computations, reveal_top3_v5_callback(c) \/ Abort(c)
  PROVE  QuietInv'
<1>1. UNCHANGED <<bracket, key>> /\ computations' \subseteq computations
  BY DEF reveal_top3_v5_callback, Abort
<1>2. /\ Gathered' /\ \A i, T : Asked(i, T)' <=> Asked(i, T)
      /\ \A T : reveal_top3(T)' = reveal_top3(T)
  BY <1>1, GatheredKept DEF QuietInv
<1>3. ComputationsAsked'
  BY <1>1, <1>2 DEF QuietInv, ComputationsAsked
<1>4. c.index \in Indices /\ c.entries \in SUBSET Entries /\ Asked(c.index, c.entries)
  BY DEF QuietInv, Pinned, TypeOK, BracketType, ResultType, ComputationsAsked
<1>5. ResultsAsked'
  <2>. SUFFICES ASSUME NEW j \in Indices
                PROVE  /\ result'[j].generation <= bracket'.generation
                       /\ usable(j)' => \E T \in SUBSET Entries :
                            Asked(j, T)' /\ result'[j].slots = reveal_top3(T)'
    BY DEF ResultsAsked
  <2>1. /\ result[j].generation <= bracket.generation
        /\ usable(j) => \E T \in SUBSET Entries :
             Asked(j, T) /\ result[j].slots = reveal_top3(T)
    BY DEF QuietInv, ResultsAsked
  <2>2. CASE result'[j] = result[j]
    <3>1. usable(j)' <=> usable(j)
      BY <1>1, <2>2 DEF usable
    <3>. QED BY <1>1, <1>2, <2>1, <2>2, <3>1
  <2>3. CASE reveal_top3_v5_callback(c) /\ j = c.index
    <3>. DEFINE slots == reveal_top3(c.entries)
    <3>1. result' = [result EXCEPT ![c.index].ready = TRUE, ![c.index].slots = slots]
      BY <2>3 DEF reveal_top3_v5_callback
    <3>. HIDE DEF slots
    <3>2. result'[j].slots = slots /\ result'[j].generation = result[j].generation
      BY <1>4, <2>3, <3>1 DEF QuietInv, Pinned, TypeOK, BracketType, ResultType
    <3>3. Asked(j, c.entries)' /\ result'[j].slots = reveal_top3(c.entries)'
      BY <1>2, <1>4, <2>3, <3>2 DEF slots
    <3>. QED BY <1>1, <1>4, <2>1, <3>2, <3>3
  <2>4. result'[j] = result[j] \/ (reveal_top3_v5_callback(c) /\ j = c.index)
    BY <1>4 DEF QuietInv, Pinned, TypeOK, BracketType, ResultType, reveal_top3_v5_callback, Abort
  <2>. QED BY <2>2, <2>3, <2>4
<1>. QED BY <1>2, <1>3, <1>5 DEF QuietInv

\* A step that leaves what is collected, asked and answered alone.
LEMMA QuietByOther ==
  ASSUME QuietInv, Pinned',
         UNCHANGED <<key, result, computations, bracket.generation,
                     bracket.shard_sizes, bracket.shard_bounds, bracket.shards_collected,
                     bracket.finalists, bracket.final_queued>>
  PROVE  QuietInv'
<1>1. /\ Gathered' /\ \A i, T : Asked(i, T)' <=> Asked(i, T)
      /\ \A T : reveal_top3(T)' = reveal_top3(T)
  BY GatheredKept DEF QuietInv
<1>2. ComputationsAsked'
  BY <1>1 DEF QuietInv, ComputationsAsked
<1>3. \A i : usable(i)' <=> usable(i)
  BY DEF usable
<1>4. ResultsAsked'
  BY <1>1, <1>3 DEF QuietInv, ResultsAsked
<1>. QED BY <1>1, <1>2, <1>4 DEF QuietInv

LEMMA QuietByCollect ==
  ASSUME QuietInv, Pinned', NEW k \in Shards, NEW S \in SUBSET Entries,
         collect_shard_winners(k, S)
  PROVE  QuietInv'
<1>. DEFINE n == bracket.shard_sizes[k]
<1>1. /\ usable(k) /\ k \notin bracket.shards_collected /\ in_shard(S, k)
      /\ UNCHANGED <<key, result, computations>>
      /\ bracket' = [bracket EXCEPT
           !.finalists = @ \o [i \in 1..taken(n) |-> AtSlot(S, result[k].slots[i])],
           !.shards_collected = @ \cup {k}]
  BY DEF collect_shard_winners, uncollected
<1>2. k \in Indices /\ k # FINAL_SHARD_INDEX /\ n \in Nat
  BY ShardsType DEF QuietInv, Pinned
<1>3. PICK T \in SUBSET Entries : in_shard(T, k) /\ result[k].slots = reveal_top3(T)
  BY <1>1, <1>2 DEF QuietInv, ResultsAsked, Asked
<1>. DEFINE new == [i \in 1..taken(n) |-> Winner(S, T, i)]
<1>4. Cardinality(S) = n /\ Cardinality(T) = n /\ KeyOK /\ taken(n) \in Nat
  BY <1>1, <1>2, <1>3, TakenType DEF in_shard, QuietInv, Pinned, TypeOK, BracketType, ResultType
<1>5. \A i \in 1..taken(n) : new[i] \in S /\ new[i] \in Entries
  BY <1>4, WinnerType
<1>6. \A i, j \in 1..taken(n) : new[i] = new[j] => i = j
  BY <1>4, WinnersDistinct
<1>7. /\ finalists' = finalists \o new
      /\ bracket'.shards_collected = bracket.shards_collected \cup {k}
      /\ UNCHANGED <<bracket.shard_sizes, bracket.shard_bounds, bracket.generation,
                     bracket.final_queued>>
  BY <1>1, <1>3 DEF QuietInv, Pinned, TypeOK, BracketType, ResultType, finalists, Winner
<1>8. new \in [1..taken(n) -> Entries]
  BY <1>5
<1>9. \A i \in 1..taken(n) : new[i] = Winner(S, T, i)
  OBVIOUS
<1>. HIDE DEF new, n
<1>10. finalists \in Seq(Entries) /\ Len(finalists) \in Nat
  BY FinalistsCounted DEF QuietInv, Gathered
<1>11. /\ Len(finalists') = Len(finalists) + taken(n)
       /\ \A i \in 1..Len(finalists) : finalists'[i] = finalists[i]
       /\ \A i \in 1..taken(n) : finalists'[Len(finalists) + i] = new[i]
       /\ Range(finalists') = Range(finalists) \cup Range(new)
  <2>. DEFINE m == taken(n)
  <2>1. m \in Nat /\ new \in [1..m -> Entries]
    BY <1>4, <1>8
  <2>. HIDE DEF m
  <2>2. /\ Len(finalists \o new) = Len(finalists) + m
        /\ \A i \in 1..Len(finalists) : (finalists \o new)[i] = finalists[i]
        /\ \A i \in 1..m : (finalists \o new)[Len(finalists) + i] = new[i]
        /\ Range(finalists \o new) = Range(finalists) \cup Range(new)
    BY <1>10, <2>1, Joined
  <2>. QED BY <1>7, <2>2 DEF m
<1>12. \A i \in 1..Len(finalists') :
         \/ i \in 1..Len(finalists)
         \/ \E j \in 1..taken(n) : i = Len(finalists) + j
  <2>. SUFFICES ASSUME NEW i \in 1..Len(finalists'), i \notin 1..Len(finalists)
                PROVE  \E j \in 1..taken(n) : i = Len(finalists) + j
    OBVIOUS
  <2>1. i - Len(finalists) \in 1..taken(n) /\ i = Len(finalists) + (i - Len(finalists))
    BY <1>4, <1>10, <1>11
  <2>. QED BY <2>1
<1>13. /\ \A j : Interval(j)' = Interval(j)
       /\ \A U, j : in_shard(U, j)' <=> in_shard(U, j)
       /\ Shards' = Shards /\ shard_count' = shard_count
  BY <1>7, LayoutKept
<1>14. /\ \A U : reveal_top3(U)' = reveal_top3(U)
       /\ \A U, V, i : Winner(U, V, i)' = Winner(U, V, i)
  BY <1>1 DEF Winner, reveal_top3
<1>15. ~bracket.final_queued
  BY <1>1 DEF QuietInv, Gathered, FinalInOrder, all_shards_collected
<1>16. FinalistsDistinct'
  <2>1. ASSUME NEW i \in 1..Len(finalists), NEW j \in 1..taken(n)
        PROVE  finalists[i] # new[j]
    <3>1. PICK m \in bracket.shards_collected : finalists[i] \in Interval(m)
      BY DEF QuietInv, Gathered, FinalistsDistinct
    <3>2. m \in Shards /\ m # k
      BY <1>1 DEF QuietInv, Pinned, CollectedHaveRuns
    <3>3. new[j] \in Interval(k) /\ new[j] \in Entries
      BY <1>1, <1>5, RunInInterval
    <3>. QED BY <3>1, <3>2, <3>3, IntervalsDisjoint DEF QuietInv, Pinned
  <2>2. ASSUME NEW i \in 1..Len(finalists'), NEW j \in 1..Len(finalists'),
               finalists'[i] = finalists'[j]
        PROVE  i = j
    <3>1. CASE i \in 1..Len(finalists) /\ j \in 1..Len(finalists)
      BY <1>11, <2>2, <3>1 DEF QuietInv, Gathered, FinalistsDistinct
    <3>2. CASE i \in 1..Len(finalists) /\ j \notin 1..Len(finalists)
      BY <1>11, <1>12, <2>1, <2>2, <3>2
    <3>3. CASE i \notin 1..Len(finalists) /\ j \in 1..Len(finalists)
      BY <1>11, <1>12, <2>1, <2>2, <3>3
    <3>4. CASE i \notin 1..Len(finalists) /\ j \notin 1..Len(finalists)
      <4>1. PICK a \in 1..taken(n) : i = Len(finalists) + a
        BY <1>12, <3>4
      <4>2. PICK b \in 1..taken(n) : j = Len(finalists) + b
        BY <1>12, <3>4
      <4>3. new[a] = new[b]
        BY <1>11, <2>2, <4>1, <4>2
      <4>. QED BY <1>6, <4>1, <4>2, <4>3
    <3>. QED BY <3>1, <3>2, <3>3, <3>4
  <2>3. ASSUME NEW i \in 1..Len(finalists')
        PROVE  \E m \in bracket'.shards_collected : finalists'[i] \in Interval(m)'
    <3>1. CASE i \in 1..Len(finalists)
      <4>1. PICK m \in bracket.shards_collected : finalists[i] \in Interval(m)
        BY <3>1 DEF QuietInv, Gathered, FinalistsDistinct
      <4>. QED BY <1>7, <1>11, <1>13, <3>1, <4>1
    <3>2. CASE i \notin 1..Len(finalists)
      <4>1. finalists'[i] \in S
        BY <1>5, <1>11, <1>12, <3>2
      <4>2. finalists'[i] \in Interval(k)
        BY <1>1, <4>1, RunInInterval
      <4>. QED BY <1>7, <1>13, <4>2
    <3>. QED BY <3>1, <3>2
  <2>. QED BY <2>2, <2>3 DEF FinalistsDistinct
<1>17. ASSUME NEW m \in bracket'.shards_collected PROVE HasWinners(m)'
  <2>1. CASE m \in bracket.shards_collected
    <3>1. HasWinners(m)
      BY <2>1 DEF QuietInv, Gathered
    <3>. QED BY <1>7, <1>11, <1>13, <1>14, <3>1 DEF HasWinners
  <2>2. CASE m = k
    <3>1. \A i \in 1..taken(n) : Winner(S, T, i) \in Range(finalists')
      BY <1>8, <1>9, <1>11 DEF Range
    <3>2. bracket'.shard_sizes[m] = n
      BY <1>7, <2>2 DEF n
    <3>. QED BY <1>1, <1>3, <1>13, <1>14, <2>2, <3>1, <3>2 DEF HasWinners
  <2>. QED BY <1>7, <2>1, <2>2
<1>18. OneShardRanked'
  <2>. SUFFICES ASSUME shard_count = 1
                PROVE  \E U, V \in SUBSET Entries :
                         /\ in_shard(U, 1)' /\ in_shard(V, 1)'
                         /\ Len(finalists') = taken(bracket'.shard_sizes[1])
                         /\ \A i \in 1..Len(finalists') : finalists'[i] = Winner(U, V, i)'
    BY <1>13 DEF OneShardRanked
  <2>1. Shards = {1}
    BY DEF Shards
  <2>2. k = 1 /\ bracket.shards_collected = {}
    BY <1>1, <2>1 DEF QuietInv, Pinned, CollectedHaveRuns
  <2>3. Len(finalists) = 0
    BY <1>10, <2>2 DEF QuietInv, Gathered, FinalistsDistinct
  <2>4. bracket'.shard_sizes[1] = n /\ Len(finalists') = taken(n)
    BY <1>4, <1>7, <1>11, <2>2, <2>3 DEF n
  <2>5. \A i \in 1..taken(n) : finalists'[i] = Winner(S, T, i)
    BY <1>4, <1>9, <1>11, <2>3
  <2>. QED BY <1>1, <1>3, <1>13, <1>14, <2>2, <2>4, <2>5
<1>19. FinalInOrder'
  BY <1>7, <1>15 DEF FinalInOrder
<1>20. \A i, U : Asked(i, U) => Asked(i, U)'
  BY <1>7, <1>13, <1>15 DEF Asked
<1>21. ComputationsAsked'
  BY <1>1, <1>20 DEF QuietInv, ComputationsAsked
<1>22. ResultsAsked'
  <2>1. \A i : usable(i)' <=> usable(i)
    BY <1>1, <1>7 DEF usable
  <2>. QED BY <1>1, <1>7, <1>14, <1>20, <2>1 DEF QuietInv, ResultsAsked
<1>. QED BY <1>16, <1>17, <1>18, <1>19, <1>21, <1>22 DEF QuietInv, Gathered

LEMMA QuietStep == QuietInv /\ [QuietNext]_vars => QuietInv'
<1>. SUFFICES ASSUME QuietInv, [QuietNext]_vars PROVE QuietInv'
  OBVIOUS
<1>0. Pinned' /\ [Next]_vars
  BY PinnedStep DEF QuietInv, QuietNext
<1>1. CASE UNCHANGED vars \/ \E b \in BOOLEAN : SetPaused(b)
  <2>1. UNCHANGED <<bracket, key, result, computations>>
    BY <1>1 DEF vars, SetPaused
  <2>. QED BY <1>0, <2>1, QuietByOther
<1>2. CASE QuietNext /\ \E l \in Layouts : init_bracket(l[1], l[2])
  <2>1. PICK l \in Layouts : init_bracket(l[1], l[2])
    BY <1>2
  <2>2. bracket'.generation # bracket.generation
    <3>1. bracket'.generation = bracket.generation + 1
      BY <2>1 DEF init_bracket, pinned_bracket, NoBracket
    <3>2. bracket.generation \in Nat
      BY DEF QuietInv, Pinned, TypeOK, BracketType, ResultType
    <3>. QED BY <3>1, <3>2
  <2>3. computations = {}
    BY <1>2, <2>2 DEF QuietNext
  <2>. QED BY <1>0, <2>1, <2>3, QuietByRepin
<1>3. CASE \E S \in SUBSET Entries : queue_shard_reveal(S)
  BY <1>0, <1>3, QuietByQueueShard, QuietByQueueFinal DEF queue_shard_reveal
<1>4. CASE \E S \in SUBSET Entries : \E k \in Shards : collect_shard_winners(k, S)
  BY <1>0, <1>4, QuietByCollect
<1>5. CASE \E c \in computations : reveal_top3_v5_callback(c) \/ Abort(c)
  BY <1>0, <1>5, QuietByAnswer
<1>6. CASE \E i \in Indices : apply_bracket_result(i)
  <2>1. bracket' = [bracket EXCEPT !.applied = TRUE] /\ UNCHANGED <<key, result, computations>>
    BY <1>6 DEF apply_bracket_result
  <2>2. UNCHANGED <<bracket.generation, bracket.shard_sizes, bracket.shard_bounds,
                    bracket.shards_collected, bracket.finalists, bracket.final_queued>>
    BY <2>1 DEF QuietInv, Pinned, TypeOK, BracketType, ResultType
  <2>. QED BY <1>0, <2>1, <2>2, QuietByOther
<1>. QED BY <1>1, <1>2, <1>3, <1>4, <1>5, <1>6 DEF QuietNext, Next

LEMMA QuietAlways == QuietSpec => []QuietInv
BY InitQuiet, QuietStep, PTL DEF QuietSpec

\* Whoever belongs on the podium survives the shards, whatever accounts were
\* supplied for them and however often a shard was revealed again, as long as
\* the partition is pinned again only with nothing in flight.
THEOREM PodiumSurvivesShards == QuietSpec => []PodiumAmongFinalists
<1>1. QuietInv => PodiumAmongFinalists
  BY PodiumIsAmong DEF QuietInv
<1>. QED BY <1>1, QuietAlways, PTL

LEMMA AppliedIsPodium ==
  ASSUME QuietInv, NEW i \in Indices, apply_bracket_result(i)
  PROVE  top' = Podium(key)
<1>1. /\ shard_count > 0 /\ all_shards_collected /\ usable(i)
  BY DEF apply_bracket_result
<1>2. Pinned /\ Gathered /\ shard_count \in Nat
  BY DEF QuietInv, Pinned, Layout, shard_count
<1>3. CASE ~needs_final_reveal /\ top' = winners_of_one_shard
  <2>1. shard_count = 1
    BY <1>1, <1>2, <1>3 DEF needs_final_reveal
  <2>. QED BY <1>1, <1>2, <1>3, <2>1, OneShardApplied
<1>4. CASE /\ i = FINAL_SHARD_INDEX /\ bracket.final_queued
           /\ top' = winners_of_final(result[i].slots)
  <2>1. i \notin Shards
    BY <1>2, <1>4, ShardsType DEF Pinned
  <2>2. result[i].slots = reveal_top3(Range(finalists))
    BY <1>1, <2>1 DEF QuietInv, ResultsAsked, Asked
  <2>. QED BY <1>1, <1>2, <1>4, <2>2, FinalApplied
<1>. QED BY <1>3, <1>4 DEF apply_bracket_result

\* The bracket implements RevealPromise: winners appear in one step, are the
\* podium of everybody who entered, and never change, for every set of entries,
\* partition, supply of accounts and order of answers QuietSpec allows.
THEOREM BracketKeepsPromise == QuietSpec => RevealKept
<1>1. Init => Promise!Init
  BY DEF Init, Promise!Init
<1>2. QuietInv /\ [QuietNext]_vars => [Promise!Reveal]_(Promise!vars)
  <2>. SUFFICES ASSUME QuietInv, [QuietNext]_vars
                PROVE  [Promise!Reveal]_(Promise!vars)
    OBVIOUS
  <2>1. CASE UNCHANGED <<key, scoring_revealed, top>>
    BY <2>1 DEF Promise!vars
  <2>2. CASE \E i \in Indices : apply_bracket_result(i)
    <3>1. top' = Podium(key) /\ ~scoring_revealed /\ scoring_revealed' /\ UNCHANGED key
      BY <2>2, AppliedIsPodium DEF apply_bracket_result
    <3>. QED BY <3>1 DEF Promise!Reveal
  <2>3. QuietNext /\ ~(\E i \in Indices : apply_bracket_result(i)) =>
          UNCHANGED <<key, scoring_revealed, top>>
    BY DEF QuietNext, Next, SetPaused, init_bracket, queue_shard_reveal, queue_shard,
           queue_final, reveal_top3_v5_callback, Abort, collect_shard_winners
  <2>. QED BY <2>1, <2>2, <2>3 DEF vars
<1>. QED BY <1>1, <1>2, QuietAlways, PTL DEF QuietSpec, RevealKept, Promise!Spec

-----------------------------------------------------------------------------
(***************************************************************************)
(* The partition the job plans.                                            *)
(***************************************************************************)
LEMMA LeastOf ==
  ASSUME NEW S \in SUBSET Nat, S # {}
  PROVE  Least(S) \in S /\ \A j \in S : Least(S) <= j
<1>1. \E k \in S : \A j \in S : k <= j
  BY LeastElement
<1>. QED BY <1>1 DEF Least

LEMMA PlanSizes ==
  /\ N \in Nat \ {0} /\ planShardSizes \in Seq(Nat)
  /\ Len(planShardSizes) \in 1..N /\ PlanShards = 1..Len(planShardSizes)
  /\ N <= MAX_SHARDS * MAX_SHARD_SIZE => Len(planShardSizes) <= MAX_SHARDS
  /\ \A k \in PlanShards : planShardSizes[k] \in 1..MAX_SHARD_SIZE
  /\ Total(planShardSizes) = N
<1>1. N \in Nat \ {0}
  <2>1. N \in Nat
    BY RunFinite DEF N
  <2>2. N # 0
    BY PlanAssumption, EntriesAssumption, FS_EmptySet DEF N
  <2>. QED BY <2>1, <2>2
<1>2. BalancedSizes(N, planShardSizes)
  BY DEF BalancedSizes, planShardSizes
<1>3. MAX_SHARD_SIZE # 0
  BY PlanAssumption, SizesAssumption
<1>4. /\ planShardSizes \in Seq(Nat) /\ Len(planShardSizes) \in 1..N
      /\ N <= MAX_SHARDS * MAX_SHARD_SIZE => Len(planShardSizes) <= MAX_SHARDS
      /\ \A k \in 1..Len(planShardSizes) : planShardSizes[k] \in 1..MAX_SHARD_SIZE
      /\ Total(planShardSizes) = N
  BY <1>1, <1>2, <1>3, Balanced
<1>5. PlanShards = 1..Len(planShardSizes)
  BY <1>4 DEF PlanShards
<1>. QED BY <1>1, <1>4, <1>5

\* A chunk is the entries on the places its shard takes up, as many as they are.
Before(k) == Sum(planShardSizes, k - 1)

LEMMA ChunkPlaces ==
  ASSUME NEW k \in PlanShards
  PROVE  /\ Before(k) \in Nat /\ Before(k) + planShardSizes[k] <= N
         /\ Sum(planShardSizes, k) = Before(k) + planShardSizes[k]
         /\ Chunk[k] = {e \in Entries :
              Slot(Entries, e) \in (Before(k) + 1)..(Before(k) + planShardSizes[k])}
<1>. DEFINE s == planShardSizes
            n == Len(s)
<1>1. s \in Seq(Nat) /\ n \in Nat /\ k \in 1..n /\ Total(s) = N
  BY PlanSizes
<1>2. Chunk[k] = {e \in Entries :
        Slot(Entries, e) \in (Total(SubSeq(s, 1, k - 1)) + 1)..(Total(SubSeq(s, 1, k - 1)) + s[k])}
  BY DEF Chunk
<1>. HIDE DEF s
<1>3. k \in 1..(n + 1) /\ k - 1 \in 0..n /\ k \in 0..n /\ n \in 0..n /\ k <= n
  BY <1>1
<1>4. Total(SubSeq(s, 1, k - 1)) = Sum(s, k - 1) /\ Total(s) = Sum(s, n)
  BY <1>1, <1>3, TotalSums
<1>5. Sum(s, k) = Sum(s, k - 1) + s[k] /\ Sum(s, k - 1) \in Nat
  BY <1>1, <1>3, SumNext, SumType
<1>6. Sum(s, k) <= Sum(s, n)
  BY <1>1, <1>3, SumGrows
<1>. QED BY <1>1, <1>2, <1>4, <1>5, <1>6 DEF Before, s

LEMMA ChunkCounted ==
  ASSUME NEW k \in PlanShards
  PROVE  /\ Chunk[k] \in SUBSET Entries /\ Chunk[k] # {}
         /\ Cardinality(Chunk[k]) = planShardSizes[k]
<1>. DEFINE a == Before(k)
            u == planShardSizes[k]
            D == (a + 1)..(a + u)
            C == Chunk[k]
            f == [i \in D |-> AtSlot(Entries, i)]
<1>1. a \in Nat /\ u \in Nat \ {0} /\ a + u <= N /\ N \in Nat
  BY ChunkPlaces, PlanSizes
<1>2. C = {e \in Entries : Slot(Entries, e) \in D}
  BY ChunkPlaces
<1>. HIDE DEF a, u, C
<1>3. \A i \in D : i \in 1..Cardinality(Entries)
  BY <1>1 DEF N
<1>4. \A i \in D : AtSlot(Entries, i) \in C /\ Slot(Entries, AtSlot(Entries, i)) = i
  BY <1>2, <1>3, AtSlotType
<1>5. f \in [D -> C] /\ \A i, j \in D : f[i] = f[j] => i = j
  <2>1. f \in [D -> C]
    BY <1>4
  <2>2. ASSUME NEW i \in D, NEW j \in D, f[i] = f[j] PROVE i = j
    <3>1. AtSlot(Entries, i) = AtSlot(Entries, j)
      BY <2>2
    <3>2. Slot(Entries, AtSlot(Entries, i)) = i /\ Slot(Entries, AtSlot(Entries, j)) = j
      BY <1>4
    <3>. QED BY <3>1, <3>2
  <2>. QED BY <2>1, <2>2
<1>6. \A e \in C : \E i \in D : f[i] = e
  <2>. SUFFICES ASSUME NEW e \in C PROVE f[Slot(Entries, e)] = e /\ Slot(Entries, e) \in D
    OBVIOUS
  <2>1. e \in Entries /\ Slot(Entries, e) \in D
    BY <1>2
  <2>. QED BY <2>1, AtSlotOf
<1>7. IsFiniteSet(D) /\ Cardinality(D) = u
  <2>. DEFINE b == a + 1
              c == a + u
  <2>1. b \in Int /\ c \in Int /\ b <= c /\ c - b + 1 = u
    BY <1>1
  <2>. HIDE DEF b, c
  <2>2. IsFiniteSet(b..c) /\ Cardinality(b..c) = c - b + 1
    BY <2>1, FS_Interval
  <2>. QED BY <2>1, <2>2 DEF b, c
<1>. HIDE DEF f, D
<1>8. f \in Bijection(D, C)
  BY <1>5, <1>6, Fun_IsBij
<1>9. ExistsBijection(D, C)
  BY <1>8, Fun_ExistsBij
<1>10. IsFiniteSet(C) /\ Cardinality(C) = u
  BY <1>7, <1>9, FS_Bijection
<1>11. C # {} /\ C \in SUBSET Entries
  BY <1>1, <1>2, <1>10, FS_EmptySet
<1>. QED BY <1>10, <1>11 DEF C, u

\* The bounds are the chunks' first entries, and the chunks follow one another.
LEMMA PlanBounds ==
  /\ Bound \in Seq(Entries) /\ Len(Bound) = Len(planShardSizes)
  /\ \A k \in PlanShards : Bound[k] \in Chunk[k] /\ \A e \in Chunk[k] : e >= Bound[k]
  /\ \A k \in PlanShards : k + 1 \in PlanShards => \A e \in Chunk[k] : e < Bound[k + 1]
<1>1. ASSUME NEW k \in PlanShards
      PROVE  Bound[k] \in Chunk[k] /\ Bound[k] \in Entries /\ \A e \in Chunk[k] : e >= Bound[k]
  <2>1. Chunk[k] \in SUBSET Entries /\ Chunk[k] # {}
    BY ChunkCounted
  <2>2. Chunk[k] \in SUBSET Nat
    BY <2>1, RunFinite
  <2>3. Bound[k] = Least(Chunk[k])
    BY DEF Bound
  <2>4. Bound[k] \in Chunk[k] /\ \A e \in Chunk[k] : Bound[k] <= e
    BY <2>1, <2>2, <2>3, LeastOf
  <2>. QED BY <2>1, <2>2, <2>4
<1>2. /\ Bound \in [1..Len(planShardSizes) -> Entries] /\ Len(planShardSizes) \in Nat
  BY <1>1, PlanSizes DEF Bound
<1>3. Bound \in Seq(Entries) /\ Len(Bound) = Len(planShardSizes)
  BY <1>2
<1>4. ASSUME NEW k \in PlanShards, k + 1 \in PlanShards, NEW e \in Chunk[k]
      PROVE  e < Bound[k + 1]
  <2>. DEFINE f == Bound[k + 1]
  <2>1. f \in Chunk[k + 1] /\ f \in Entries /\ e \in Entries /\ k \in Nat
    BY <1>1, <1>4, ChunkCounted, PlanSizes
  <2>2. Before(k + 1) = Before(k) + planShardSizes[k]
    <3>1. (k + 1) - 1 = k
      BY <2>1
    <3>. QED BY <3>1, ChunkPlaces DEF Before
  <2>3. /\ Slot(Entries, e) <= Before(k) + planShardSizes[k]
        /\ Slot(Entries, f) > Before(k + 1)
        /\ Before(k + 1) \in Nat
    <3>1. Slot(Entries, e) \in (Before(k) + 1)..(Before(k) + planShardSizes[k])
      BY ChunkPlaces
    <3>2. /\ Slot(Entries, f) \in (Before(k + 1) + 1)..(Before(k + 1) + planShardSizes[k + 1])
          /\ Before(k + 1) \in Nat
      BY <1>4, <2>1, ChunkPlaces
    <3>. QED BY <3>1, <3>2
  <2>4. Slot(Entries, e) \in Nat /\ Slot(Entries, f) \in Nat /\ Entries \in SUBSET Entries
    BY <2>1, SlotType
  <2>5. Slot(Entries, e) < Slot(Entries, f) /\ e \in Nat /\ f \in Nat
    BY <2>1, <2>2, <2>3, <2>4, RunFinite
  <2>. HIDE DEF f
  <2>6. CASE f < e
    BY <2>1, <2>4, <2>5, <2>6, SlotAscends
  <2>7. CASE f = e
    BY <2>4, <2>5, <2>7
  <2>. QED BY <2>5, <2>6, <2>7 DEF f
<1>. QED BY <1>1, <1>3, <1>4

LEMMA PlanAscends == \A k \in 2..Len(Bound) : Bound[k] > Bound[k - 1]
<1>1. ASSUME NEW k \in 2..Len(Bound) PROVE Bound[k] > Bound[k - 1]
  <2>1. k \in PlanShards /\ k - 1 \in PlanShards /\ (k - 1) + 1 = k
    BY PlanSizes, PlanBounds
  <2>2. Bound[k - 1] < Bound[k]
    BY <2>1, PlanBounds
  <2>3. Bound[k] \in Nat /\ Bound[k - 1] \in Nat
    BY <2>1, PlanBounds, ChunkCounted, RunFinite
  <2>. QED BY <2>2, <2>3
<1>. QED BY <1>1

\* The partition the job plans is one the program takes, for every round that
\* one tier has room for.
THEOREM PlanIsValid ==
  N <= MAX_SHARDS * MAX_SHARD_SIZE => valid_layout(Plan.sizes, Plan.bounds)
<1>. SUFFICES ASSUME N <= MAX_SHARDS * MAX_SHARD_SIZE
              PROVE  valid_layout(planShardSizes, Bound)
  BY DEF Plan
<1>1. /\ Len(planShardSizes) \in 1..MAX_SHARDS
      /\ Len(Bound) = Len(planShardSizes)
      /\ \A k \in 1..Len(planShardSizes) : planShardSizes[k] \in 1..MAX_SHARD_SIZE
      /\ Total(planShardSizes) = Cardinality(Entries)
  BY PlanSizes, PlanBounds, SizesAssumption DEF N
<1>. QED BY <1>1, PlanAscends DEF valid_layout

\* While the planned partition is pinned, what the job supplies for a shard
\* passes the shard's checks.
THEOREM PlanFits ==
  partitionMatches(bracket) => \A k \in PlanShards : k \in Shards /\ in_shard(Chunk[k], k)
<1>. SUFFICES ASSUME partitionMatches(bracket), NEW k \in PlanShards
              PROVE  k \in Shards /\ in_shard(Chunk[k], k)
  OBVIOUS
<1>1. bracket.shard_sizes = planShardSizes /\ bracket.shard_bounds = Bound
  BY DEF partitionMatches, Plan
<1>2. k \in Shards /\ shard_count = Len(planShardSizes) /\ k \in Nat
  BY <1>1, PlanSizes DEF Shards, shard_count
<1>3. k < shard_count => k + 1 \in PlanShards
  BY <1>2, PlanSizes
<1>. QED BY <1>1, <1>2, <1>3, ChunkCounted, PlanBounds DEF in_shard
=============================================================================
