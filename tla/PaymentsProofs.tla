----------------------------- MODULE PaymentsProofs ----------------------------
(***************************************************************************)
(* Machine-checked proofs about the fee estimator and the requests that    *)
(* use it, for any sources, replies, requests and bounds.                  *)
(***************************************************************************)
EXTENDS Payments, CommonLemmas, FiniteSetTheorems

(* Finite sets of numbers *)

\* A finite set of numbers has a least and a greatest member.
LEMMA Extremes ==
    ASSUME NEW S \in SUBSET Int, IsFiniteSet(S), S # {}
    PROVE  \E a, b \in S : \A y \in S : a <= y /\ y <= b
<1> DEFINE Bounded(T) == \E a, b \in T : \A y \in T : a <= y /\ y <= b
           Sizes == {n \in Nat : \E T \in SUBSET Int : /\ IsFiniteSet(T) /\ T # {} /\ Cardinality(T) = n
                                                       /\ ~Bounded(T)}
<1>1. SUFFICES ASSUME Sizes # {} PROVE FALSE
  <2>1. Cardinality(S) \in Nat
    BY FS_CardinalityType
  <2>2. Bounded(S)
    BY <2>1, <1>1
  <2> QED BY <2>2
<1>2. PICK n \in Sizes : \A m \in Sizes : n <= m
  <2>1. Sizes \in SUBSET Nat
    OBVIOUS
  <2> HIDE DEF Sizes
  <2> QED BY <1>1, <2>1, LeastNatural
<1>3. PICK T \in SUBSET Int : IsFiniteSet(T) /\ T # {} /\ Cardinality(T) = n /\ ~Bounded(T)
  BY <1>2
<1>4. PICK x \in T : TRUE
  BY <1>3
<1>5. IsFiniteSet(T \ {x}) /\ Cardinality(T \ {x}) = n - 1 /\ n - 1 \in Nat
  <2>1. IsFiniteSet(T \ {x}) /\ Cardinality(T \ {x}) = Cardinality(T) - 1
    BY <1>3, <1>4, FS_RemoveElement
  <2>2. Cardinality(T \ {x}) \in Nat
    BY <2>1, FS_CardinalityType
  <2> QED BY <1>3, <2>1, <2>2
<1>6. CASE T \ {x} = {}
  <2>1. \A y \in T : y = x
    BY <1>6
  <2> QED BY <1>3, <1>4, <2>1
<1>7. CASE T \ {x} # {}
  <2>1. n - 1 \notin Sizes
    BY <1>2
  <2>2. Bounded(T \ {x})
    BY <2>1, <1>5, <1>7
  <2>3. PICK a, b \in T \ {x} : \A y \in T \ {x} : a <= y /\ y <= b
    BY <2>2
  <2>4. a \in Int /\ b \in Int /\ x \in Int
    BY <1>4
  <2> DEFINE low == IF x < a THEN x ELSE a
             high == IF b < x THEN x ELSE b
  <2>5. low \in T /\ high \in T
    BY <1>4
  <2>6. \A y \in T : low <= y /\ y <= high
    BY <2>3, <2>4
  <2> QED BY <2>5, <2>6, <1>3
<1> QED BY <1>6, <1>7

LEMMA MaxIsGreatest ==
    ASSUME NEW S \in SUBSET Int, IsFiniteSet(S), S # {}
    PROVE  Max(S) \in S /\ \A y \in S : y <= Max(S)
<1>1. PICK b \in S : \A y \in S : y <= b
  BY Extremes
<1>2. \A y \in S : b >= y
  BY <1>1
<1>3. Max(S) \in S /\ \A y \in S : Max(S) >= y
  BY <1>2 DEF Max
<1> QED BY <1>3

LEMMA MinIsLeast ==
    ASSUME NEW S \in SUBSET Int, IsFiniteSet(S), S # {}
    PROVE  Min(S) \in S /\ \A y \in S : Min(S) <= y
<1>1. PICK a \in S : \A y \in S : a <= y
  BY Extremes
<1> QED BY <1>1 DEF Min

\* What a function takes on a finite set is finite.
LEMMA FiniteImage ==
    ASSUME NEW S, IsFiniteSet(S), NEW f
    PROVE  IsFiniteSet({f[x] : x \in S})
<1> DEFINE T == {f[x] : x \in S}
           g == [x \in S |-> f[x]]
<1>1. g \in Surjection(S, T)
  BY DEF Surjection
<1> QED BY <1>1, FS_Surjection

\* The greater and the smaller of two numbers.
LEMMA PairExtremes ==
    ASSUME NEW a \in Int, NEW b \in Int
    PROVE  /\ Max({a, b}) \in {a, b} /\ a <= Max({a, b}) /\ b <= Max({a, b})
           /\ Min({a, b}) \in {a, b} /\ a >= Min({a, b}) /\ b >= Min({a, b})
<1>1. IsFiniteSet({a, b})
  <2>1. IsFiniteSet({a} \cup {b})
    BY FS_Singleton, FS_AddElement
  <2>2. {a} \cup {b} = {a, b}
    OBVIOUS
  <2> QED BY <2>1, <2>2
<1>2. {a, b} \in SUBSET Int /\ {a, b} # {}
  OBVIOUS
<1>3. Max({a, b}) \in {a, b} /\ \A y \in {a, b} : y <= Max({a, b})
  BY <1>1, <1>2, MaxIsGreatest
<1>4. Min({a, b}) \in {a, b} /\ \A y \in {a, b} : Min({a, b}) <= y
  BY <1>1, <1>2, MinIsLeast
<1> QED BY <1>3, <1>4

--------------------------------------------------------------------------------
(* Estimates *)

\* An estimate as sanitize leaves it: no tier below 1 or below a slower one.
Sane(est) ==
    /\ est \in [Tiers -> Int]
    /\ \A t \in Tiers : est[t] >= 1
    /\ \A t \in Tiers : \A u \in 1 .. t : est[u] <= est[t]

\* sanitize raises a tier to one of those below it, or to 1.
LEMMA SanitizeRaises ==
    ASSUME NEW est \in [Tiers -> Int], NEW t \in Tiers
    PROVE  /\ sanitize(est)[t] \in Int
           /\ sanitize(est)[t] >= 1
           /\ \A u \in 1 .. t : sanitize(est)[t] >= est[u]
           /\ sanitize(est)[t] = 1 \/ \E u \in 1 .. t : sanitize(est)[t] = est[u]
<1> DEFINE E == {est[u] : u \in 1 .. t}
           S == {1} \cup E
<1>1. IsFiniteSet(1 .. t) /\ 1 .. t \subseteq Tiers
  BY FS_Interval DEF Tiers
<1>2. IsFiniteSet(E)
  BY <1>1, FiniteImage
<1>3. IsFiniteSet(E \cup {1}) /\ E \cup {1} = S
  BY <1>2, FS_AddElement
<1>4. S \in SUBSET Int /\ S # {}
  BY <1>1
<1>5. Max(S) \in S /\ \A y \in S : y <= Max(S)
  BY <1>3, <1>4, MaxIsGreatest
<1>6. sanitize(est)[t] = Max(S)
  BY DEF sanitize
<1>7. \A u \in 1 .. t : est[u] \in S
  OBVIOUS
<1> QED BY <1>4, <1>5, <1>6, <1>7

LEMMA SanitizeIsSane ==
    ASSUME NEW est \in [Tiers -> Int]
    PROVE  Sane(sanitize(est))
<1>1. \A t \in Tiers : sanitize(est)[t] \in Int /\ sanitize(est)[t] >= 1
  BY SanitizeRaises
<1>2. sanitize(est) \in [Tiers -> Int]
  BY <1>1 DEF sanitize
<1>3. ASSUME NEW t \in Tiers, NEW u \in 1 .. t PROVE sanitize(est)[u] <= sanitize(est)[t]
  <2>1. u \in Tiers /\ 1 .. u \subseteq 1 .. t
    BY DEF Tiers
  <2>2. sanitize(est)[u] = 1 \/ \E v \in 1 .. u : sanitize(est)[u] = est[v]
    BY <2>1, SanitizeRaises
  <2>3. sanitize(est)[t] \in Int /\ sanitize(est)[t] >= 1 /\ \A v \in 1 .. t : sanitize(est)[t] >= est[v]
    BY SanitizeRaises
  <2>4. \A v \in 1 .. t : est[v] \in Int
    BY DEF Tiers
  <2> QED BY <2>1, <2>2, <2>3, <2>4
<1> QED BY <1>1, <1>2, <1>3 DEF Sane

LEMMA FallbackIsSane == Sane(FALLBACK_FEES)
  BY DEF Sane, FALLBACK_FEES, Tiers

LEMMA CeilTenthsType ==
    ASSUME NEW rate \in Int
    PROVE  CeilTenths(rate) \in Int
<1>1. (rate + 9) \div 10 \in Int
  OBVIOUS
<1>2. Max({1, (rate + 9) \div 10}) \in {1, (rate + 9) \div 10}
  BY <1>1, PairExtremes
<1> QED BY <1>1, <1>2 DEF CeilTenths

LEMMA HalfType ==
    ASSUME NEW rate \in Int
    PROVE  Max({1, rate \div 2}) \in Int
<1>1. rate \div 2 \in Int
  OBVIOUS
<1>2. Max({1, rate \div 2}) \in {1, rate \div 2}
  BY <1>1, PairExtremes
<1> QED BY <1>1, <1>2

\* Five rates are an estimate.
LEMMA FiveTiers ==
    ASSUME NEW a \in Int, NEW b \in Int, NEW c \in Int, NEW d \in Int, NEW e \in Int
    PROVE  <<a, b, c, d, e>> \in [Tiers -> Int]
  BY DEF Tiers

\* Every source's answer becomes a sane estimate or none.
LEMMA EsploraSane ==
    ASSUME NEW rates, IsFiniteSet(DOMAIN rates),
           \A t \in DOMAIN rates : t \in Nat /\ rates[t] \in Int
    PROVE  to_fee_estimate(rates) = Silent \/ Sane(to_fee_estimate(rates))
<1> DEFINE targets == {t \in DOMAIN rates : rates[t] > 0}
           At(t) == CeilTenths(rates[t])
           get_rate(desired) == IF \E t \in targets : t >= desired
                                THEN At(Min({t \in targets : t >= desired}))
                                ELSE At(Max(targets))
           est == <<At(Max(targets)), get_rate(24), get_rate(6), get_rate(3), At(Min(targets))>>
<1>1. SUFFICES ASSUME targets # {} PROVE Sane(sanitize(est))
  BY DEF to_fee_estimate
<1>2. \A T \in SUBSET targets : T # {} => Max(T) \in T /\ Min(T) \in T
  <2>1. targets \in SUBSET DOMAIN rates
    OBVIOUS
  <2>2. SUFFICES ASSUME NEW T \in SUBSET targets, T # {} PROVE Max(T) \in T /\ Min(T) \in T
    OBVIOUS
  <2>3. IsFiniteSet(T)
    BY <2>1, <2>2, FS_Subset
  <2>4. T \in SUBSET Int
    BY <2>1
  <2> QED BY <2>2, <2>3, <2>4, MaxIsGreatest, MinIsLeast
<1>3. \A t \in targets : At(t) \in Int
  BY CeilTenthsType
<1>4. At(Max(targets)) \in Int /\ At(Min(targets)) \in Int
  BY <1>1, <1>2, <1>3
<1>5. ASSUME NEW desired \in Nat PROVE get_rate(desired) \in Int
  <2> DEFINE T == {t \in targets : t >= desired}
  <2>1. CASE T # {}
    <3>1. T \in SUBSET targets
      OBVIOUS
    <3>2. Min(T) \in targets
      BY <1>2, <2>1, <3>1
    <3> QED BY <1>3, <2>1, <3>2
  <2>2. CASE T = {}
    BY <1>4, <2>2
  <2> QED BY <2>1, <2>2
<1>6. get_rate(24) \in Int /\ get_rate(6) \in Int /\ get_rate(3) \in Int
  BY <1>5
<1> HIDE DEF get_rate, At, targets
<1>7. est \in [Tiers -> Int]
  BY <1>4, <1>6, FiveTiers
<1> HIDE DEF est
<1> QED BY <1>7, SanitizeIsSane

LEMMA CoreSane ==
    ASSUME NEW rates, \A t \in DOMAIN rates : t \in Nat /\ rates[t] \in Int
    PROVE  CoreEstimate(rates) = Silent \/ Sane(CoreEstimate(rates))
<1> DEFINE known == {t \in {1, 3, 6, 24} : t \in DOMAIN rates /\ rates[t] > 0}
           At(t) == CeilTenths(rates[t])
           Or(ts, default) == IF ts \cap known = {} THEN default ELSE At(Min(ts \cap known))
           fastest == Or({1, 3, 6}, 0)
           half_hour == Or({3, 6}, fastest)
           hour == Or({6}, half_hour)
           economy == Or({24}, Max({1, hour \div 2}))
           est == <<1, economy, hour, half_hour, fastest>>
<1>1. CoreEstimate(rates) = IF {1, 3, 6} \cap known = {} THEN Silent ELSE sanitize(est)
  BY DEF CoreEstimate
<1>2. ASSUME NEW ts, NEW default \in Int PROVE Or(ts, default) \in Int
  <2>1. CASE ts \cap known # {}
    <3> DEFINE T == ts \cap known
    <3>1. T \in SUBSET (1 .. 24) /\ T \in SUBSET Int /\ T # {}
      BY <2>1
    <3>2. IsFiniteSet(T)
      <4>1. \A n \in Nat : IsFiniteSet(1 .. n)
        BY FS_Interval
      <4> HIDE DEF T
      <4> QED BY <3>1, <4>1, FS_Subset
    <3>3. Min(T) \in T
      BY <3>1, <3>2, MinIsLeast
    <3>4. rates[Min(T)] \in Int
      BY <3>3
    <3>5. At(Min(T)) \in Int
      BY <3>4, CeilTenthsType
    <3> QED BY <2>1, <3>5
  <2>2. CASE ts \cap known = {}
    BY <2>2
  <2> QED BY <2>1, <2>2
<1> HIDE DEF Or
<1>3. fastest \in Int
  BY <1>2
<1>4. half_hour \in Int
  BY <1>2, <1>3
<1>5. hour \in Int
  BY <1>2, <1>4
<1>6. Max({1, hour \div 2}) \in Int
  BY <1>5, HalfType
<1>7. economy \in Int
  BY <1>2, <1>6
<1> HIDE DEF fastest, half_hour, hour, economy
<1>8. est \in [Tiers -> Int]
  BY <1>3, <1>4, <1>5, <1>7, FiveTiers
<1> HIDE DEF est
<1>9. Sane(sanitize(est))
  BY <1>8, SanitizeIsSane
<1> QED BY <1>1, <1>9

LEMMA SourceSane ==
    ASSUME NEW s \in Sources, NEW r \in Replies[s]
    PROVE  fetch_source_estimate(s, r) = Silent \/ Sane(fetch_source_estimate(s, r))
<1>1. \/ r = Silent
      \/ IF Kind[s] \in {"core", "esplora"}
         THEN /\ IsFiniteSet(DOMAIN r)
              /\ \A target \in DOMAIN r : target \in Nat /\ r[target] \in Int
         ELSE r \in [1 .. 5 -> Nat]
  BY RepliesAssumption
<1>2. CASE r = Silent
  BY <1>2 DEF fetch_source_estimate
<1>3. CASE r # Silent /\ Kind[s] = "core"
  <2>1. CoreEstimate(r) = Silent \/ Sane(CoreEstimate(r))
    BY <1>1, <1>3, CoreSane
  <2> QED BY <2>1, <1>3 DEF fetch_source_estimate
<1>4. CASE r # Silent /\ Kind[s] = "esplora"
  <2>1. to_fee_estimate(r) = Silent \/ Sane(to_fee_estimate(r))
    BY <1>1, <1>4, EsploraSane
  <2> QED BY <2>1, <1>4 DEF fetch_source_estimate
<1>5. CASE r # Silent /\ Kind[s] \notin {"core", "esplora"}
  <2>1. r \in [Tiers -> Int]
    BY <1>1, <1>5 DEF Tiers
  <2>2. Sane(sanitize(r))
    BY <2>1, SanitizeIsSane
  <2> QED BY <2>2, <1>5 DEF fetch_source_estimate
<1> QED BY <1>2, <1>3, <1>4, <1>5

--------------------------------------------------------------------------------
(* The median *)

\* How many of the sources say at most v.
AtMost(values, S, v) == {s \in S : values[s] <= v}

\* Every position of the sorted list has a value.
LEMMA RankedExists ==
    ASSUME NEW S, IsFiniteSet(S), NEW values \in [S -> Nat], NEW k \in 1 .. Cardinality(S)
    PROVE  /\ Ranked(values, S, k) \in {values[s] : s \in S}
           /\ Cardinality({s \in S : values[s] < Ranked(values, S, k)}) < k
           /\ Cardinality({s \in S : values[s] <= Ranked(values, S, k)}) >= k
<1> DEFINE V == {values[s] : s \in S}
           Enough == {v \in Nat : Cardinality(AtMost(values, S, v)) >= k}
<1>1. Cardinality(S) \in Nat /\ S # {} /\ k \in Nat /\ k >= 1 /\ k <= Cardinality(S)
  BY FS_CardinalityType, FS_EmptySet
<1>2. IsFiniteSet(V) /\ V \in SUBSET Int /\ V # {}
  BY <1>1, FiniteImage
<1>3. Max(V) \in V /\ \A y \in V : y <= Max(V)
  BY <1>2, MaxIsGreatest
<1>4. Max(V) \in Enough
  <2>1. AtMost(values, S, Max(V)) = S
    BY <1>3 DEF AtMost
  <2> QED BY <1>1, <1>3, <2>1
<1>5. PICK v \in Enough : \A w \in Enough : v <= w
  <2>1. Enough \in SUBSET Nat
    OBVIOUS
  <2> HIDE DEF Enough
  <2> QED BY <1>4, <2>1, LeastNatural
<1>6. v \in Nat /\ Cardinality(AtMost(values, S, v)) >= k
  BY <1>5
<1>7. Cardinality({s \in S : values[s] < v}) < k
  <2>1. CASE v = 0
    <3>1. {s \in S : values[s] < v} = {}
      BY <2>1
    <3> QED BY <1>1, <3>1, FS_EmptySet
  <2>2. CASE v # 0
    <3>1. v - 1 \in Nat /\ v - 1 \notin Enough
      BY <1>5, <1>6, <2>2
    <3>2. {s \in S : values[s] < v} = AtMost(values, S, v - 1)
      BY <1>6 DEF AtMost
    <3>3. IsFiniteSet(AtMost(values, S, v - 1))
      BY FS_Subset DEF AtMost
    <3>4. Cardinality(AtMost(values, S, v - 1)) \in Nat
      BY <3>3, FS_CardinalityType
    <3>5. ~ (Cardinality(AtMost(values, S, v - 1)) >= k)
      BY <3>1
    <3> QED BY <1>1, <3>2, <3>4, <3>5
  <2> QED BY <2>1, <2>2
<1>8. v \in V
  <2>1. SUFFICES ASSUME v \notin V PROVE FALSE
    OBVIOUS
  <2>2. {s \in S : values[s] < v} = AtMost(values, S, v)
    BY <1>6, <2>1 DEF AtMost
  <2>3. IsFiniteSet(AtMost(values, S, v))
    BY FS_Subset DEF AtMost
  <2>4. Cardinality(AtMost(values, S, v)) \in Nat
    BY <2>3, FS_CardinalityType
  <2> QED BY <1>1, <1>6, <1>7, <2>2, <2>4
<1>9. \E w \in V : /\ Cardinality({s \in S : values[s] < w}) < k
                   /\ Cardinality({s \in S : values[s] <= w}) >= k
  BY <1>6, <1>7, <1>8 DEF AtMost
<1> HIDE DEF V
<1>10. Ranked(values, S, k) = CHOOSE w \in V : /\ Cardinality({s \in S : values[s] < w}) < k
                                               /\ Cardinality({s \in S : values[s] <= w}) >= k
  BY DEF Ranked, V
<1>11. /\ Ranked(values, S, k) \in V
       /\ Cardinality({s \in S : values[s] < Ranked(values, S, k)}) < k
       /\ Cardinality({s \in S : values[s] <= Ranked(values, S, k)}) >= k
  BY <1>9, <1>10
<1> QED BY <1>11 DEF V

\* A position that the sources outside H can fill neither from below nor from above holds a
\* value between those that H said.
LEMMA RankedInRange ==
    ASSUME NEW S, IsFiniteSet(S), NEW values \in [S -> Nat], NEW k \in 1 .. Cardinality(S),
           NEW H \in SUBSET S, NEW lo \in Int, NEW hi \in Int,
           \A s \in H : lo <= values[s] /\ values[s] <= hi,
           Cardinality(S \ H) < k, k <= Cardinality(H)
    PROVE  Ranked(values, S, k) \in Nat /\ lo <= Ranked(values, S, k) /\ Ranked(values, S, k) <= hi
<1> DEFINE v == Ranked(values, S, k)
           below == {s \in S : values[s] < v}
           upto == {s \in S : values[s] <= v}
<1>1. v \in {values[s] : s \in S} /\ Cardinality(below) < k /\ Cardinality(upto) >= k
  BY RankedExists
<1> HIDE DEF v
<1>2. v \in Nat
  BY <1>1
<1>3. IsFiniteSet(S \ H) /\ IsFiniteSet(below) /\ IsFiniteSet(upto) /\ IsFiniteSet(H)
  BY FS_Subset
<1>4. /\ Cardinality(S \ H) \in Nat /\ Cardinality(below) \in Nat /\ Cardinality(upto) \in Nat
      /\ Cardinality(H) \in Nat
  BY <1>3, FS_CardinalityType
<1>5. ASSUME v < lo PROVE FALSE
  <2>1. upto \in SUBSET (S \ H)
    BY <1>2, <1>5
  <2>2. Cardinality(upto) <= Cardinality(S \ H)
    BY <1>3, <2>1, FS_Subset
  <2> QED BY <1>1, <1>4, <2>2
<1>6. ASSUME hi < v PROVE FALSE
  <2>1. H \in SUBSET below
    BY <1>2, <1>6
  <2>2. Cardinality(H) <= Cardinality(below)
    BY <1>3, <2>1, FS_Subset
  <2> QED BY <1>1, <1>4, <2>2
<1>7. v \in Nat /\ lo <= v /\ v <= hi
  BY <1>2, <1>5, <1>6
<1> QED BY <1>7 DEF v

\* The middle of n, when m of the n are dishonest and 2m < n.
LEMMA MiddlePositions ==
    ASSUME NEW n \in Nat, NEW m \in Nat, 2 * m < n
    PROVE  /\ n \div 2 \in Nat /\ n \div 2 + 1 \in Nat /\ n \div 2 <= n
           /\ m < n \div 2 + 1
           /\ n % 2 = 1 => n \div 2 + 1 <= n - m
           /\ n % 2 # 1 => m < n \div 2 /\ n \div 2 + 1 <= n - m
  OBVIOUS

\* The median of what S say lies in the range of what all but a minority of S say.
LEMMA MedianInRange ==
    ASSUME NEW S, IsFiniteSet(S), NEW values \in [S -> Nat],
           NEW H \in SUBSET S, NEW lo \in Int, NEW hi \in Int,
           \A s \in H : lo <= values[s] /\ values[s] <= hi,
           2 * Cardinality(S \ H) < Cardinality(S)
    PROVE  MedianOf(values, S) \in Nat /\ lo <= MedianOf(values, S) /\ MedianOf(values, S) <= hi
<1> DEFINE n == Cardinality(S)
           m == Cardinality(S \ H)
<1>1. n \in Nat /\ m \in Nat /\ Cardinality(H) = n - m
  <2>1. IsFiniteSet(H) /\ IsFiniteSet(S \ H)
    BY FS_Subset
  <2>2. H \cup (S \ H) = S /\ H \cap (S \ H) = {}
    OBVIOUS
  <2>3. Cardinality(H \cup (S \ H)) = Cardinality(H) + Cardinality(S \ H) - Cardinality(H \cap (S \ H))
    BY <2>1, FS_Union
  <2>4. n \in Nat /\ m \in Nat /\ Cardinality(H) \in Nat
    BY <2>1, FS_CardinalityType
  <2>5. n = Cardinality(H) + m - Cardinality({}) /\ Cardinality({}) = 0
    BY <2>2, <2>3, FS_EmptySet
  <2> HIDE DEF n, m
  <2> QED BY <2>4, <2>5
<1>2. \A k \in Nat : m < k /\ k <= n - m =>
          Ranked(values, S, k) \in Nat /\ lo <= Ranked(values, S, k) /\ Ranked(values, S, k) <= hi
  <2>1. SUFFICES ASSUME NEW k \in Nat, m < k, k <= n - m
                 PROVE  Ranked(values, S, k) \in Nat /\ lo <= Ranked(values, S, k) /\ Ranked(values, S, k) <= hi
    OBVIOUS
  <2>2. k \in 1 .. Cardinality(S)
    BY <1>1, <2>1
  <2>3. Cardinality(S \ H) < k /\ k <= Cardinality(H)
    BY <1>1, <2>1
  <2> QED BY <2>2, <2>3, RankedInRange
<1> DEFINE a == Ranked(values, S, n \div 2)
           b == Ranked(values, S, n \div 2 + 1)
<1>3. /\ n \div 2 \in Nat /\ n \div 2 + 1 \in Nat
      /\ m < n \div 2 + 1
      /\ n % 2 = 1 => n \div 2 + 1 <= n - m
      /\ n % 2 # 1 => m < n \div 2 /\ n \div 2 + 1 <= n - m
  BY <1>1, MiddlePositions
<1>4. MedianOf(values, S) = IF n % 2 = 1 THEN b ELSE (a + b + 1) \div 2
  BY DEF MedianOf
<1>5. n \div 2 + 1 <= n - m
  BY <1>3
<1>6. b \in Nat /\ lo <= b /\ b <= hi
  BY <1>2, <1>3, <1>5
<1>7. CASE n % 2 = 1
  BY <1>4, <1>6, <1>7
<1>8. CASE n % 2 # 1
  <2>1. n \div 2 <= n - m
    BY <1>1, <1>3, <1>5
  <2>2. a \in Nat /\ lo <= a /\ a <= hi
    BY <1>2, <1>3, <1>8, <2>1
  <2> HIDE DEF a, b, n
  <2>3. (a + b + 1) \div 2 \in Nat /\ lo <= (a + b + 1) \div 2 /\ (a + b + 1) \div 2 <= hi
    BY <1>6, <2>2
  <2> QED BY <1>4, <1>8, <2>3
<1> QED BY <1>7, <1>8

--------------------------------------------------------------------------------
(* Decay *)

LEMMA TimesMonotone ==
    ASSUME NEW a \in Int, NEW b \in Int, NEW c \in Nat, a <= b
    PROVE  a * c <= b * c
  OBVIOUS

\* Rounding to the nearest multiple of d stays between two bounds.
LEMMA RoundedInRange ==
    ASSUME NEW x \in Int, NEW d \in Nat \ {0}, NEW lo \in Int, NEW hi \in Int,
           lo * d <= x, x <= hi * d
    PROVE  /\ (2 * x + d) \div (2 * d) \in Int
           /\ lo <= (2 * x + d) \div (2 * d)
           /\ (2 * x + d) \div (2 * d) <= hi
<1> DEFINE e == 2 * d
           y == 2 * x + d
           q == y \div e
<1>1. e \in Nat /\ e > 0 /\ y \in Int
  OBVIOUS
<1> HIDE DEF e, y
<1>2. q \in Int /\ q * e <= y /\ y < (q + 1) * e
  BY <1>1
<1> HIDE DEF q
<1>3. lo * e <= y
  BY DEF e, y
<1>4. y < (hi + 1) * e
  BY DEF e, y
<1>5. ASSUME q < lo PROVE FALSE
  <2>1. (q + 1) * e <= lo * e
    BY <1>1, <1>2, <1>5, TimesMonotone
  <2> QED BY <1>1, <1>2, <1>3, <2>1
<1>6. ASSUME hi < q PROVE FALSE
  <2>1. (hi + 1) * e <= q * e
    BY <1>1, <1>2, <1>6, TimesMonotone
  <2> QED BY <1>1, <1>2, <1>4, <2>1
<1> QED BY <1>2, <1>5, <1>6 DEF q, y, e

--------------------------------------------------------------------------------
(* Observations *)

\* An estimate with its time and the range it lies in.
Observed(o) ==
    /\ o = CachedEstimate(o.estimate, o.time, o.low, o.high)
    /\ o.estimate \in [Tiers -> Int] /\ o.low \in [Tiers -> Int] /\ o.time \in Nat
    /\ Sane(o.high)
    /\ \A t \in Tiers : o.low[t] <= o.estimate[t] /\ o.estimate[t] <= o.high[t]

\* What sane estimates of H range over.
LEMMA RangeOf ==
    ASSUME NEW H, IsFiniteSet(H), H # {}, NEW estimates, \A s \in H : Sane(estimates[s])
    PROVE  /\ Lowest(estimates, H) \in [Tiers -> Int]
           /\ Sane(Highest(estimates, H))
           /\ \A t \in Tiers : \A s \in H : /\ Lowest(estimates, H)[t] <= estimates[s][t]
                                            /\ estimates[s][t] <= Highest(estimates, H)[t]
<1> DEFINE At(t) == {estimates[s][t] : s \in H}
           Top == Highest(estimates, H)
<1>1. ASSUME NEW t \in Tiers
      PROVE  At(t) \in SUBSET Int /\ At(t) # {} /\ IsFiniteSet(At(t))
  <2> DEFINE f == [s \in H |-> estimates[s][t]]
  <2>1. IsFiniteSet({f[s] : s \in H})
    BY FiniteImage
  <2>2. {f[s] : s \in H} = At(t)
    OBVIOUS
  <2> QED BY <2>1, <2>2 DEF Sane
<1>2. \A t \in Tiers : /\ Max(At(t)) \in At(t) /\ \A y \in At(t) : y <= Max(At(t))
                       /\ Min(At(t)) \in At(t) /\ \A y \in At(t) : Min(At(t)) <= y
  BY <1>1, MaxIsGreatest, MinIsLeast
<1>3. \A t \in Tiers : Top[t] = Max(At(t)) /\ Lowest(estimates, H)[t] = Min(At(t))
  BY DEF Lowest, Highest
<1>4. Top \in [Tiers -> Int] /\ Lowest(estimates, H) \in [Tiers -> Int]
  <2>1. \A t \in Tiers : Max(At(t)) \in Int /\ Min(At(t)) \in Int
    BY <1>1, <1>2
  <2> QED BY <2>1 DEF Lowest, Highest
<1>5. \A t \in Tiers : \A s \in H : Lowest(estimates, H)[t] <= estimates[s][t] /\ estimates[s][t] <= Top[t]
  <2>1. \A t \in Tiers : \A s \in H : estimates[s][t] \in At(t)
    OBVIOUS
  <2> QED BY <1>2, <1>3, <2>1
<1>6. ASSUME NEW t \in Tiers PROVE Top[t] >= 1
  <2>1. PICK s \in H : TRUE
    OBVIOUS
  <2>2. estimates[s][t] >= 1 /\ estimates[s][t] \in Int
    BY DEF Sane
  <2> QED BY <1>4, <1>5, <2>2
<1>7. ASSUME NEW t \in Tiers, NEW u \in 1 .. t PROVE Top[u] <= Top[t]
  <2>1. u \in Tiers
    BY DEF Tiers
  <2>2. PICK s \in H : Top[u] = estimates[s][u]
    BY <1>2, <1>3, <2>1
  <2>3. /\ estimates[s][u] <= estimates[s][t]
        /\ estimates[s][u] \in Int /\ estimates[s][t] \in Int
    BY <2>1 DEF Sane
  <2> QED BY <1>4, <1>5, <2>2, <2>3
<1>8. Sane(Top)
  BY <1>4, <1>6, <1>7 DEF Sane
<1> QED BY <1>4, <1>5, <1>8

\* What is in range tier by tier still is when it has been sanitized, if the upper bounds are
\* themselves sane.
LEMMA SanitizeInRange ==
    ASSUME NEW est \in [Tiers -> Int], NEW low \in [Tiers -> Int], NEW high, Sane(high),
           \A t \in Tiers : low[t] <= est[t] /\ est[t] <= high[t]
    PROVE  /\ sanitize(est) \in [Tiers -> Int]
           /\ \A t \in Tiers : low[t] <= sanitize(est)[t] /\ sanitize(est)[t] <= high[t]
<1>1. sanitize(est) \in [Tiers -> Int]
  BY SanitizeIsSane DEF Sane
<1>2. ASSUME NEW t \in Tiers PROVE low[t] <= sanitize(est)[t] /\ sanitize(est)[t] <= high[t]
  <2>1. /\ sanitize(est)[t] \in Int
        /\ \A u \in 1 .. t : sanitize(est)[t] >= est[u]
        /\ sanitize(est)[t] = 1 \/ \E u \in 1 .. t : sanitize(est)[t] = est[u]
    BY SanitizeRaises
  <2>2. t \in 1 .. t /\ 1 .. t \subseteq Tiers
    BY DEF Tiers
  <2>3. low[t] <= est[t] /\ est[t] <= sanitize(est)[t] /\ low[t] \in Int /\ est[t] \in Int
    BY <2>1, <2>2
  <2>4. high[t] \in Int /\ 1 <= high[t]
    BY DEF Sane
  <2>5. \A u \in 1 .. t : est[u] <= high[t]
    <3>1. SUFFICES ASSUME NEW u \in 1 .. t PROVE est[u] <= high[t]
      OBVIOUS
    <3>2. u \in Tiers /\ est[u] <= high[u]
      BY <2>2
    <3>3. high[u] <= high[t] /\ high[u] \in Int /\ est[u] \in Int
      BY <3>2 DEF Sane
    <3> QED BY <2>4, <3>2, <3>3
  <2> QED BY <2>1, <2>3, <2>4, <2>5
<1> QED BY <1>1, <1>2

\* What the consensus observes lies in the range of the honest answers.
LEMMA ConsensusObserved ==
    ASSUME NEW S \in SUBSET Sources, S # {}, NEW estimates, \A s \in S : Sane(estimates[s]),
           NEW time \in Nat
    PROVE  /\ Observed(Observation(estimates, S, time))
           /\ Observation(estimates, S, time).time = time
<1> DEFINE H == IF 2 * Cardinality(S \cap Liars) < Cardinality(S) THEN S \ Liars ELSE S
           o == Observation(estimates, S, time)
           low == Lowest(estimates, H)
           high == Highest(estimates, H)
           median == [t \in Tiers |-> MedianOf([s \in S |-> estimates[s][t]], S)]
<1>1. IsFiniteSet(S) /\ H \in SUBSET S /\ IsFiniteSet(H)
  BY SourcesAssumption, FS_Subset
<1>2. 2 * Cardinality(S \ H) < Cardinality(S)
  <2>1. Cardinality(S) \in Nat /\ Cardinality(S) # 0
    BY <1>1, FS_CardinalityType, FS_EmptySet
  <2>2. CASE 2 * Cardinality(S \cap Liars) < Cardinality(S)
    <3>1. S \ H = S \cap Liars
      BY <2>2
    <3> QED BY <2>2, <3>1
  <2>3. CASE ~ (2 * Cardinality(S \cap Liars) < Cardinality(S))
    <3>1. S \ H = {}
      BY <2>3
    <3>2. Cardinality(S \ H) = 0
      BY <3>1, FS_EmptySet
    <3> QED BY <2>1, <3>2
  <2> QED BY <2>2, <2>3
<1>3. H # {}
  <2>1. SUFFICES ASSUME H = {} PROVE FALSE
    OBVIOUS
  <2>2. S \ H = S
    BY <2>1
  <2>3. Cardinality(S) \in Nat /\ 2 * Cardinality(S) < Cardinality(S)
    BY <1>1, <1>2, <2>2, FS_CardinalityType
  <2> QED BY <2>3
<1>4. o = CachedEstimate(sanitize(median), time, low, high)
  BY DEF Observation, compute_median_fee
<1> HIDE DEF H, o
<1>5. /\ low \in [Tiers -> Int] /\ Sane(high)
      /\ \A t \in Tiers : \A s \in H : low[t] <= estimates[s][t] /\ estimates[s][t] <= high[t]
  BY <1>1, <1>3, RangeOf
<1>6. ASSUME NEW t \in Tiers PROVE median[t] \in Int /\ low[t] <= median[t] /\ median[t] <= high[t]
  <2> DEFINE values == [s \in S |-> estimates[s][t]]
  <2>1. values \in [S -> Nat]
    BY DEF Sane
  <2>2. \A s \in H : low[t] <= values[s] /\ values[s] <= high[t]
    BY <1>1, <1>5
  <2>3. low[t] \in Int /\ high[t] \in Int
    BY <1>5 DEF Sane
  <2>4. median[t] = MedianOf(values, S)
    OBVIOUS
  <2> HIDE DEF values, low, high, median
  <2>5. MedianOf(values, S) \in Nat /\ low[t] <= MedianOf(values, S) /\ MedianOf(values, S) <= high[t]
    BY <1>1, <1>2, <2>1, <2>2, <2>3, MedianInRange
  <2> QED BY <2>4, <2>5
<1>7. median \in [Tiers -> Int]
  BY <1>6
<1> HIDE DEF low, high, median
<1>8. /\ sanitize(median) \in [Tiers -> Int]
      /\ \A t \in Tiers : low[t] <= sanitize(median)[t] /\ sanitize(median)[t] <= high[t]
  BY <1>5, <1>6, <1>7, SanitizeInRange
<1>9. /\ o = CachedEstimate(o.estimate, o.time, o.low, o.high)
      /\ o.estimate = sanitize(median) /\ o.time = time /\ o.low = low /\ o.high = high
  BY <1>4 DEF CachedEstimate
<1>10. Observed(o)
  BY <1>5, <1>8, <1>9 DEF Observed
<1> QED BY <1>9, <1>10 DEF o

\* A weighted mean of two numbers lies between bounds of both.
LEMMA MeanInRange ==
    ASSUME NEW a \in Int, NEW b \in Int, NEW d \in Nat, NEW k \in 0 .. d,
           NEW lo \in Int, NEW hi \in Int, lo <= a, lo <= b, a <= hi, b <= hi
    PROVE  lo * d <= a * (d - k) + b * k /\ a * (d - k) + b * k <= hi * d
<1>1. d - k \in Nat /\ k \in Nat
  OBVIOUS
<1>2. lo * (d - k) <= a * (d - k) /\ lo * k <= b * k
  BY <1>1, TimesMonotone
<1>3. a * (d - k) <= hi * (d - k) /\ b * k <= hi * k
  BY <1>1, TimesMonotone
<1>4. lo * d = lo * (d - k) + lo * k /\ hi * d = hi * (d - k) + hi * k
  BY <1>1
<1> QED BY <1>1, <1>2, <1>3, <1>4

LowWithFallback(o) == [t \in Tiers |-> Min({o.low[t], FALLBACK_FEES[t]})]
HighWithFallback(o) == [t \in Tiers |-> Max({o.high[t], FALLBACK_FEES[t]})]

LEMMA WithFallback ==
    ASSUME NEW o, Observed(o)
    PROVE  /\ LowWithFallback(o) \in [Tiers -> Int] /\ Sane(HighWithFallback(o))
           /\ \A t \in Tiers :
                 /\ LowWithFallback(o)[t] <= o.low[t] /\ LowWithFallback(o)[t] <= FALLBACK_FEES[t]
                 /\ o.high[t] <= HighWithFallback(o)[t] /\ FALLBACK_FEES[t] <= HighWithFallback(o)[t]
<1> DEFINE F == FALLBACK_FEES
           low == LowWithFallback(o)
           high == HighWithFallback(o)
<1>1. Sane(F)
  BY FallbackIsSane
<1> HIDE DEF F
<1>2. /\ \A t \in Tiers : F[t] \in Int /\ F[t] >= 1 /\ o.low[t] \in Int /\ o.high[t] \in Int
      /\ \A t \in Tiers : \A u \in 1 .. t : F[u] <= F[t] /\ o.high[u] <= o.high[t]
  BY <1>1 DEF Sane, Observed
<1>3. /\ low = [t \in Tiers |-> Min({o.low[t], F[t]})]
      /\ high = [t \in Tiers |-> Max({o.high[t], F[t]})]
  BY DEF LowWithFallback, HighWithFallback, F
<1> HIDE DEF low, high
<1>4. \A t \in Tiers : /\ low[t] \in {o.low[t], F[t]} /\ low[t] <= o.low[t] /\ low[t] <= F[t]
                       /\ high[t] \in {o.high[t], F[t]} /\ o.high[t] <= high[t] /\ F[t] <= high[t]
  BY <1>2, <1>3, PairExtremes
<1>5. \A t \in Tiers : low[t] \in Int /\ high[t] \in Int /\ high[t] >= 1
  BY <1>2, <1>4
<1>6. low \in [Tiers -> Int] /\ high \in [Tiers -> Int]
  <2>1. \A t \in Tiers : Min({o.low[t], F[t]}) \in Int /\ Max({o.high[t], F[t]}) \in Int
    BY <1>3, <1>5
  <2>2. [t \in Tiers |-> Min({o.low[t], F[t]})] \in [Tiers -> Int]
    BY <2>1
  <2>3. [t \in Tiers |-> Max({o.high[t], F[t]})] \in [Tiers -> Int]
    BY <2>1
  <2> QED BY <1>3, <2>2, <2>3
<1>7. ASSUME NEW t \in Tiers, NEW u \in 1 .. t PROVE high[u] <= high[t]
  <2>1. u \in Tiers
    BY DEF Tiers
  <2>2. high[u] \in {o.high[u], F[u]}
    BY <1>4, <2>1
  <2>3. o.high[u] <= o.high[t] /\ F[u] <= F[t] /\ o.high[t] <= high[t] /\ F[t] <= high[t]
    BY <1>2, <1>4
  <2>4. /\ o.high[u] \in Int /\ o.high[t] \in Int /\ F[u] \in Int /\ F[t] \in Int
        /\ high[t] \in Int /\ high[u] \in Int
    BY <1>2, <1>5, <2>1
  <2> QED BY <2>2, <2>3, <2>4
<1>8. Sane(high)
  BY <1>5, <1>6, <1>7 DEF Sane
<1> QED BY <1>4, <1>6, <1>8 DEF low, high, F

\* A decayed estimate lies between the range of the observation and the fallback.
LEMMA DecayInRange ==
    ASSUME NEW o, Observed(o), NEW elapsed \in Nat, elapsed < Staleness
    PROVE  /\ decay_estimate(o.estimate, elapsed) \in [Tiers -> Int]
           /\ \A t \in Tiers : /\ LowWithFallback(o)[t] <= decay_estimate(o.estimate, elapsed)[t]
                               /\ decay_estimate(o.estimate, elapsed)[t] <= HighWithFallback(o)[t]
<1> DEFINE F == FALLBACK_FEES
           e == o.estimate
           low == LowWithFallback(o)
           high == HighWithFallback(o)
           Mean(t) == e[t] * (Staleness - elapsed) + F[t] * elapsed
           Near(t) == (2 * Mean(t) + Staleness) \div (2 * Staleness)
           raw == [t \in Tiers |-> Max({1, Near(t)})]
<1>1. Staleness \in Nat \ {0} /\ elapsed \in 0 .. Staleness
  BY BoundsAssumption
<1>2. decay_estimate(e, elapsed) = sanitize(raw)
  BY <1>1 DEF decay_estimate
<1>3. /\ low \in [Tiers -> Int] /\ Sane(high)
      /\ \A t \in Tiers : /\ low[t] <= o.low[t] /\ low[t] <= F[t]
                          /\ o.high[t] <= high[t] /\ F[t] <= high[t]
  BY WithFallback
<1>4. Sane(F)
  BY FallbackIsSane
<1> HIDE DEF F, low, high
<1>5. ASSUME NEW t \in Tiers PROVE raw[t] \in Int /\ low[t] <= raw[t] /\ raw[t] <= high[t]
  <2>1. /\ F[t] \in Int /\ e[t] \in Int /\ low[t] \in Int /\ high[t] \in Int /\ high[t] >= 1
        /\ o.low[t] \in Int /\ o.high[t] \in Int /\ o.low[t] <= e[t] /\ e[t] <= o.high[t]
    BY <1>3, <1>4 DEF Observed, Sane
  <2>2. low[t] <= e[t] /\ low[t] <= F[t] /\ e[t] <= high[t] /\ F[t] <= high[t]
    BY <1>3, <2>1
  <2> HIDE DEF e
  <2>3. low[t] * Staleness <= Mean(t) /\ Mean(t) <= high[t] * Staleness
    BY <1>1, <2>1, <2>2, MeanInRange
  <2>4. Mean(t) \in Int
    BY <1>1, <2>1
  <2> HIDE DEF Mean
  <2>5. Near(t) \in Int /\ low[t] <= Near(t) /\ Near(t) <= high[t]
    BY <1>1, <2>1, <2>3, <2>4, RoundedInRange
  <2> HIDE DEF Near
  <2>6. Max({1, Near(t)}) \in {1, Near(t)} /\ Near(t) <= Max({1, Near(t)})
    BY <2>5, PairExtremes
  <2>7. raw[t] = Max({1, Near(t)})
    OBVIOUS
  <2> QED BY <2>1, <2>5, <2>6, <2>7
<1>6. raw \in [Tiers -> Int]
  BY <1>5
<1> HIDE DEF raw
<1>7. /\ sanitize(raw) \in [Tiers -> Int]
      /\ \A t \in Tiers : low[t] <= sanitize(raw)[t] /\ sanitize(raw)[t] <= high[t]
  BY <1>3, <1>5, <1>6, SanitizeInRange
<1> QED BY <1>2, <1>7 DEF low, high, e

--------------------------------------------------------------------------------
(* The cache and the fetches *)

\* HonestRange for one fetch in state x.
InRange(x) ==
    \A t \in Tiers :
        LET decayed == x.from = "cache"
        IN  /\ x.report.estimate[t] >= Min({x.report.low[t]} \cup (IF decayed THEN {FALLBACK_FEES[t]} ELSE {}))
            /\ x.report.estimate[t] <= Max({x.report.high[t]} \cup (IF decayed THEN {FALLBACK_FEES[t]} ELSE {}))

FetchInv(x) ==
    /\ x.time \in Nat
    /\ DOMAIN x = {"pc", "time", "from", "report"}
    /\ InRange(x)

\* What is cached was observed.
CacheInv(c) == c = Silent \/ Observed(c)

FeesInv ==
    /\ clock \in Nat
    /\ CacheInv(cache)
    /\ fetch = [f \in Fetches |-> fetch[f]]
    /\ \A f \in Fetches : FetchInv(fetch[f])

\* A report in range of what was observed.
LEMMA ObservedInRange ==
    ASSUME NEW x, x.from # "cache", Observed(x.report)
    PROVE  InRange(x)
<1>1. SUFFICES ASSUME NEW t \in Tiers
               PROVE  /\ x.report.estimate[t] >= Min({x.report.low[t]})
                      /\ x.report.estimate[t] <= Max({x.report.high[t]})
  <2>1. \A v : {v} \cup {} = {v}
    OBVIOUS
  <2> QED BY <2>1 DEF InRange
<1>2. /\ x.report.low[t] \in Int /\ x.report.high[t] \in Int
      /\ x.report.low[t] <= x.report.estimate[t] /\ x.report.estimate[t] <= x.report.high[t]
      /\ x.report.estimate[t] \in Int
  BY DEF Observed, Sane
<1>3. \A v \in Int : Min({v}) = v /\ Max({v}) = v
  <2>1. \A v \in Int : Min({v, v}) \in {v, v} /\ Max({v, v}) \in {v, v}
    BY PairExtremes
  <2>2. \A v : {v, v} = {v}
    OBVIOUS
  <2> QED BY <2>1, <2>2
<1> QED BY <1>2, <1>3

LEMMA DecayedInRange ==
    ASSUME NEW x, x.from = "cache", NEW o, Observed(o), x.report.low = o.low, x.report.high = o.high,
           \A t \in Tiers : /\ LowWithFallback(o)[t] <= x.report.estimate[t]
                            /\ x.report.estimate[t] <= HighWithFallback(o)[t]
    PROVE  InRange(x)
<1>1. SUFFICES ASSUME NEW t \in Tiers
               PROVE  /\ x.report.estimate[t] >= Min({o.low[t], FALLBACK_FEES[t]})
                      /\ x.report.estimate[t] <= Max({o.high[t], FALLBACK_FEES[t]})
  <2>1. \A v, w : {v} \cup {w} = {v, w}
    OBVIOUS
  <2> HIDE DEF FALLBACK_FEES
  <2> QED BY <2>1 DEF InRange
<1>2. /\ LowWithFallback(o)[t] = Min({o.low[t], FALLBACK_FEES[t]})
      /\ HighWithFallback(o)[t] = Max({o.high[t], FALLBACK_FEES[t]})
  BY DEF LowWithFallback, HighWithFallback
<1> QED BY <1>2

LEMMA NothingObserved ==
    ASSUME NEW time \in Nat
    PROVE  LET o == [NoEstimate EXCEPT !.time = time] IN Observed(o) /\ o.time = time
<1> DEFINE o == [NoEstimate EXCEPT !.time = time]
<1>1. o = CachedEstimate(FALLBACK_FEES, time, FALLBACK_FEES, FALLBACK_FEES)
  BY DEF NoEstimate, CachedEstimate
<1>2. /\ o.estimate = FALLBACK_FEES /\ o.low = FALLBACK_FEES /\ o.high = FALLBACK_FEES /\ o.time = time
      /\ o = CachedEstimate(o.estimate, o.time, o.low, o.high)
  BY <1>1 DEF CachedEstimate
<1>3. Sane(FALLBACK_FEES)
  BY FallbackIsSane
<1>4. FALLBACK_FEES \in [Tiers -> Int] /\ \A t \in Tiers : FALLBACK_FEES[t] <= FALLBACK_FEES[t]
  BY <1>3 DEF Sane
<1> HIDE DEF o
<1>5. Observed(o)
  BY <1>2, <1>3, <1>4 DEF Observed
<1> QED BY <1>2, <1>5 DEF o

LEMMA FeesInitially == FeesInit => FeesInv
<1> SUFFICES ASSUME FeesInit PROVE FeesInv
  OBVIOUS
<1>1. clock = 0 /\ cache = Silent /\ fetch = [f \in Fetches |-> NewFetch]
  BY DEF FeesInit
<1>2. /\ NewFetch.time = 0 /\ NewFetch.pc = "new" /\ NewFetch.from = "none" /\ NewFetch.report = NoEstimate
      /\ DOMAIN NewFetch = {"pc", "time", "from", "report"}
  BY DEF NewFetch
<1>3. Observed(NoEstimate) /\ NoEstimate.time = 0
  <2>1. [NoEstimate EXCEPT !.time = 0] = NoEstimate
    BY DEF NoEstimate
  <2> QED BY <2>1, NothingObserved
<1>4. InRange(NewFetch)
  BY <1>2, <1>3, ObservedInRange
<1>5. FetchInv(NewFetch)
  BY <1>1, <1>2, <1>3, <1>4 DEF FetchInv
<1> QED BY <1>1, <1>5 DEF FeesInv, CacheInv

\* What a fetch reports is in range, and what it caches was observed.
LEMMA FinishStep ==
    ASSUME FeesInv, NEW q \in Fetches, FinishFetch(q), clock' = clock
    PROVE  FeesInv'
<1> DEFINE now == fetch[q].time
           NewState(from, observed) == [pc |-> "done", time |-> now, from |-> from, report |-> observed]
<1>1. PICK estimates \in SourceEstimates :
          LET S == {s \in Sources : estimates[s] # Silent}
          IN  IF Cardinality(S) >= MinSources /\ S # {}
              THEN LET observed == Observation(estimates, S, now)
                   IN  fetch' = [fetch EXCEPT ![q] = NewState("sources", observed)] /\ cache' = observed
              ELSE /\ cache' = cache
                   /\ IF ServeCached(now)
                      THEN fetch' = [fetch EXCEPT ![q] = NewState("cache",
                               [cache EXCEPT !.estimate =
                                   decay_estimate(@, IF now > cache.time THEN now - cache.time ELSE 0)])]
                      ELSE fetch' = [fetch EXCEPT ![q] = NewState("fallback", [NoEstimate EXCEPT !.time = now])]
  BY DEF FinishFetch
<1>2. clock \in Nat /\ now \in Nat /\ CacheInv(cache)
  BY DEF FeesInv, FetchInv
<1>3. Staleness \in Nat
  BY BoundsAssumption
\* It is enough to look at this fetch and at the cache.
<1>4. ASSUME NEW x, fetch' = [fetch EXCEPT ![q] = x], FetchInv(x), CacheInv(cache')
      PROVE  FeesInv'
  <2>1. fetch = [f \in Fetches |-> fetch[f]] /\ \A f \in Fetches : FetchInv(fetch[f])
    BY DEF FeesInv
  <2>2. \A f \in Fetches : fetch'[f] = IF f = q THEN x ELSE fetch[f]
    BY <1>4, <2>1
  <2>3. fetch' = [f \in Fetches |-> fetch'[f]]
    BY <1>4, <2>1
  <2>4. \A f \in Fetches : FetchInv(fetch'[f])
    BY <1>4, <2>1, <2>2
  <2> QED BY <1>2, <1>4, <2>3, <2>4 DEF FeesInv
\* A report that was observed at the time of the fetch.
<1>5. ASSUME NEW from, from # "cache", NEW o, Observed(o)
      PROVE  FetchInv(NewState(from, o))
  <2> DEFINE x == NewState(from, o)
  <2>1. /\ x.pc = "done" /\ x.time = now /\ x.from = from /\ x.report = o
        /\ DOMAIN x = {"pc", "time", "from", "report"}
    OBVIOUS
  <2> HIDE DEF x
  <2>2. InRange(x)
    BY <1>5, <2>1, ObservedInRange
  <2> HIDE DEF now
  <2>3. FetchInv(x)
    BY <1>2, <2>1, <2>2 DEF FetchInv
  <2> QED BY <2>3 DEF x
<1> DEFINE S == {s \in Sources : estimates[s] # Silent}
<1>6. CASE Cardinality(S) >= MinSources /\ S # {}
  <2> DEFINE o == Observation(estimates, S, now)
  <2>1. fetch' = [fetch EXCEPT ![q] = NewState("sources", o)] /\ cache' = o
    BY <1>1, <1>6
  <2>2. \A s \in S : Sane(estimates[s])
    <3>1. PICK r \in [Sources -> UNION {Replies[s] : s \in Sources}] :
              /\ \A s \in Sources : r[s] \in Replies[s]
              /\ estimates = [s \in Sources |-> fetch_source_estimate(s, r[s])]
      BY DEF SourceEstimates
    <3>2. \A s \in Sources : estimates[s] = Silent \/ Sane(estimates[s])
      BY <3>1, SourceSane
    <3> QED BY <3>2
  <2>3. S \in SUBSET Sources
    OBVIOUS
  <2> HIDE DEF S
  <2>4. Observed(o)
    BY <1>2, <1>6, <2>2, <2>3, ConsensusObserved
  <2> HIDE DEF o
  <2>5. FetchInv(NewState("sources", o))
    BY <1>5, <2>4
  <2>6. CacheInv(o)
    BY <1>2, <2>4 DEF CacheInv
  <2> HIDE DEF NewState
  <2> QED BY <1>4, <2>1, <2>5, <2>6
<1>7. CASE ~ (Cardinality(S) >= MinSources /\ S # {}) /\ ~ServeCached(now)
  <2> DEFINE o == [NoEstimate EXCEPT !.time = now]
  <2>1. fetch' = [fetch EXCEPT ![q] = NewState("fallback", o)] /\ cache' = cache
    BY <1>1, <1>7
  <2>2. Observed(o)
    BY <1>2, NothingObserved
  <2> HIDE DEF o
  <2>3. FetchInv(NewState("fallback", o))
    BY <1>5, <2>2
  <2> HIDE DEF NewState
  <2> QED BY <1>2, <1>4, <2>1, <2>3
<1>8. CASE ~ (Cardinality(S) >= MinSources /\ S # {}) /\ ServeCached(now)
  <2> DEFINE age == IF now > cache.time THEN now - cache.time ELSE 0
             est == decay_estimate(cache.estimate, age)
             o == [cache EXCEPT !.estimate = est]
             x == NewState("cache", o)
  <2>1. fetch' = [fetch EXCEPT ![q] = x] /\ cache' = cache
    BY <1>1, <1>8
  <2>2. cache # Silent /\ age < Staleness
    BY <1>8 DEF ServeCached
  <2>3. Observed(cache) /\ cache.time \in Nat
    BY <1>2, <2>2 DEF CacheInv, Observed
  <2>4. age \in Nat
    BY <1>2, <2>3
  <2> HIDE DEF age
  <2>5. \A t \in Tiers : LowWithFallback(cache)[t] <= est[t] /\ est[t] <= HighWithFallback(cache)[t]
    BY <2>2, <2>3, <2>4, DecayInRange
  <2>6. o.estimate = est /\ o.low = cache.low /\ o.high = cache.high /\ o.time = cache.time
    <3>1. cache = CachedEstimate(cache.estimate, cache.time, cache.low, cache.high)
      BY <2>3 DEF Observed
    <3> HIDE DEF est
    <3> QED BY <3>1 DEF CachedEstimate
  <2> HIDE DEF est, o
  <2>7. /\ x.pc = "done" /\ x.time = now /\ x.from = "cache" /\ x.report = o
        /\ DOMAIN x = {"pc", "time", "from", "report"}
    OBVIOUS
  <2> HIDE DEF x, now
  <2>8. InRange(x)
    BY <2>3, <2>5, <2>6, <2>7, DecayedInRange
  <2>9. FetchInv(x)
    BY <1>2, <2>7, <2>8 DEF FetchInv
  <2> QED BY <1>2, <1>4, <2>1, <2>9
<1> QED BY <1>6, <1>7, <1>8

LEMMA StartStep ==
    ASSUME FeesInv, NEW q \in Fetches, StartFetch(q), UNCHANGED <<clock, cache>>
    PROVE  FeesInv'
<1> DEFINE old == fetch[q]
           new == [[old EXCEPT !.pc = "waiting"] EXCEPT !.time = clock]
<1>1. /\ clock \in Nat /\ CacheInv(cache) /\ fetch = [f \in Fetches |-> fetch[f]]
      /\ \A f \in Fetches : FetchInv(fetch[f])
  BY DEF FeesInv
<1>2. DOMAIN old = {"pc", "time", "from", "report"}
  BY <1>1 DEF FetchInv
<1>3. fetch' = [fetch EXCEPT ![q] = new]
  BY <1>1 DEF StartFetch
<1> HIDE DEF old
<1>4. /\ new.pc = "waiting" /\ new.time = clock /\ new.from = old.from /\ new.report = old.report
      /\ DOMAIN new = {"pc", "time", "from", "report"}
  BY <1>2
<1>5. FetchInv(old)
  BY <1>1 DEF old
<1> HIDE DEF new
<1>6. FetchInv(new)
  <2>1. InRange(old)
    BY <1>5 DEF FetchInv
  <2>2. InRange(new)
    BY <1>4, <2>1 DEF InRange
  <2> QED BY <1>1, <1>4, <2>1, <2>2 DEF FetchInv
<1>7. \A f \in Fetches : fetch'[f] = IF f = q THEN new ELSE fetch[f]
  BY <1>1, <1>3
<1>8. \A f \in Fetches : FetchInv(fetch'[f])
  BY <1>1, <1>6, <1>7
<1>9. fetch' = [f \in Fetches |-> fetch'[f]]
  BY <1>1, <1>3
<1>10. clock' = clock /\ cache' = cache
  OBVIOUS
<1> QED BY <1>1, <1>8, <1>9, <1>10 DEF FeesInv

LEMMA PassStep ==
    ASSUME FeesInv, Pass
    PROVE  FeesInv'
<1>1. clock' \in Nat /\ cache' = cache /\ fetch' = fetch
  BY BoundsAssumption DEF Pass, Tick
<1> QED BY <1>1 DEF FeesInv

LEMMA FeesUnchanged ==
    ASSUME FeesInv, UNCHANGED fvars
    PROVE  FeesInv'
<1>1. clock' = clock /\ cache' = cache /\ fetch' = fetch
  BY DEF fvars
<1> QED BY <1>1 DEF FeesInv

\* A step of a request starts its fetch, ends it, or leaves the fees alone.
LEMMA FeesStep ==
    ASSUME FeesInv, [Next]_vars
    PROVE  FeesInv'
<1>1. CASE UNCHANGED vars
  BY <1>1, FeesUnchanged DEF vars
<1>2. CASE Pass
  BY <1>2, PassStep
<1>3. ASSUME NEW q \in Fetches, Step(q) PROVE FeesInv'
  <2>1. CASE Ask(q) \/ (\E failed \in BOOLEAN : NotFound(q, failed)) \/ LnurlInvoice(q) \/ Bolt12Invoice(q)
    <3>1. UNCHANGED fvars
      BY <2>1 DEF Ask, NotFound, LnurlInvoice, Bolt12Invoice
    <3> QED BY <3>1, FeesUnchanged
  <2>2. ASSUME NEW profile \in Profiles, Found(q, profile) PROVE FeesInv'
    <3>1. UNCHANGED fvars \/ (StartFetch(q) /\ UNCHANGED <<clock, cache>>)
      BY <2>2 DEF Found
    <3>2. CASE UNCHANGED fvars
      BY <3>2, FeesUnchanged
    <3>3. CASE StartFetch(q) /\ UNCHANGED <<clock, cache>>
      BY <3>3, StartStep
    <3> QED BY <3>1, <3>2, <3>3
  <2>3. CASE FeesArrive(q)
    <3>1. FinishFetch(q) /\ clock' = clock
      BY <2>3 DEF FeesArrive
    <3> QED BY <3>1, FinishStep
  <2> QED BY <1>3, <2>1, <2>2, <2>3 DEF Step
<1> QED BY <1>1, <1>2, <1>3 DEF Next

LEMMA FeesInvariant == Spec => []FeesInv
<1>1. Init => FeesInv
  BY FeesInitially DEF Init
<1>2. FeesInv /\ [Next]_vars => FeesInv'
  BY FeesStep
<1> QED BY <1>1, <1>2, PTL DEF Spec

\* A minority of the answering sources cannot move any tier of an estimate (compute_median_fee
\* and decay_estimate) out of the range of what the others said, or in a decayed one of that and
\* the fallback: for any number of sources, any answers, and any overlap of the fetches.
THEOREM HonestRangeHolds == Spec => []HonestRange
<1>1. FeesInv => HonestRange
  BY DEF FeesInv, FetchInv, InRange, HonestRange
<1> QED BY <1>1, FeesInvariant, PTL

--------------------------------------------------------------------------------
(* Selections *)

UpTo(kept, v) == {j \in kept : j <= v}

\* A finite set of naturals has a k-th member.
LEMMA NthAmong ==
    ASSUME NEW kept, IsFiniteSet(kept), NEW same \in [kept -> Nat], NEW k \in 1 .. Cardinality(kept)
    PROVE  kept \in SUBSET Nat /\ (\A i \in kept : same[i] = i) =>
               \E v \in kept : Cardinality(UpTo(kept, v)) = k
<1> DEFINE v == Ranked(same, kept, k)
           below == {s \in kept : same[s] < v}
           upto == {s \in kept : same[s] <= v}
<1>1. v \in {same[s] : s \in kept} /\ Cardinality(below) < k /\ Cardinality(upto) >= k
  BY RankedExists
<1> HIDE DEF v
<1> SUFFICES ASSUME kept \in SUBSET Nat, \A i \in kept : same[i] = i
             PROVE  \E w \in kept : Cardinality(UpTo(kept, w)) = k
  OBVIOUS
<1>2. v \in kept /\ v \in Nat
  BY <1>1
<1>3. upto = below \cup {v}
  <2>1. ASSUME NEW s \in kept PROVE s \in upto <=> s \in below \/ s = v
    <3>1. same[s] = s /\ s \in Nat
      OBVIOUS
    <3> QED BY <1>2, <3>1
  <2> QED BY <1>2, <2>1
<1>4. v \notin below
  BY <1>2
<1>5. upto = UpTo(kept, v)
  BY <1>2 DEF UpTo
<1>6. IsFiniteSet(below)
  BY FS_Subset
<1> HIDE DEF below, upto
<1>7. Cardinality(below) \in Nat /\ Cardinality(upto) = Cardinality(below) + 1
  BY <1>3, <1>4, <1>6, FS_AddElement, FS_CardinalityType
<1>8. Cardinality(upto) = k
  <2>1. k \in Int
    BY FS_CardinalityType
  <2> QED BY <1>1, <1>7, <2>1
<1> QED BY <1>2, <1>5, <1>8

LEMMA NthExists ==
    ASSUME NEW kept, IsFiniteSet(kept), NEW k \in 1 .. Cardinality(kept)
    PROVE  kept \in SUBSET Nat => \E v \in kept : Cardinality(UpTo(kept, v)) = k
<1>1. ASSUME NEW same \in [kept -> Nat]
      PROVE  kept \in SUBSET Nat /\ (\A i \in kept : same[i] = i) =>
                 \E v \in kept : Cardinality(UpTo(kept, v)) = k
  BY NthAmong
<1>2. kept \in SUBSET Nat => \E same \in [kept -> Nat] : \A i \in kept : same[i] = i
  <2>1. SUFFICES ASSUME kept \in SUBSET Nat PROVE \E same \in [kept -> Nat] : \A i \in kept : same[i] = i
    OBVIOUS
  <2>2. [i \in kept |-> i] \in [kept -> Nat] /\ \A i \in kept : [j \in kept |-> j][i] = i
    BY <2>1
  <2> QED BY <2>2
<1> QED BY <1>1, <1>2

\* What retain leaves are members of the list that are to be kept.
LEMMA RetainKeeps ==
    ASSUME NEW methods \in Seq(Method), NEW keep
    PROVE  /\ Retain(methods, keep) \in Seq(Method)
           /\ \A k \in DOMAIN Retain(methods, keep) :
                 /\ Retain(methods, keep)[k] \in keep
                 /\ Retain(methods, keep)[k] \in Range(methods)
<1> DEFINE kept == {i \in DOMAIN methods : methods[i] \in keep}
           Nth(k) == CHOOSE i \in kept : Cardinality({j \in kept : j <= i}) = k
           n == Cardinality(kept)
<1>1. DOMAIN methods = 1 .. Len(methods) /\ Len(methods) \in Nat /\ kept \in SUBSET (1 .. Len(methods))
  OBVIOUS
<1>2. IsFiniteSet(kept) /\ n \in Nat
  <2>1. IsFiniteSet(1 .. Len(methods))
    BY <1>1, FS_Interval
  <2>2. IsFiniteSet(kept)
    BY <1>1, <2>1, FS_Subset
  <2> QED BY <1>1, <2>2, FS_CardinalityType
<1>3. \A k \in 1 .. n : Nth(k) \in kept
  <2>1. kept \in SUBSET Nat
    BY <1>1
  <2> HIDE DEF kept
  <2>2. \A k \in 1 .. n : \E i \in kept : Cardinality(UpTo(kept, i)) = k
    BY <1>2, <2>1, NthExists
  <2>3. \A k : Nth(k) = CHOOSE i \in kept : Cardinality(UpTo(kept, i)) = k
    BY DEF UpTo
  <2> HIDE DEF Nth
  <2> QED BY <2>2, <2>3
<1>4. Retain(methods, keep) = [k \in 1 .. n |-> methods[Nth(k)]]
  BY DEF Retain
<1> HIDE DEF Nth, n
<1>5. \A k \in 1 .. n : methods[Nth(k)] \in Method /\ methods[Nth(k)] \in keep /\ methods[Nth(k)] \in Range(methods)
  <2>1. \A i \in kept : methods[i] \in Method /\ methods[i] \in keep /\ methods[i] \in Range(methods)
    BY <1>1 DEF Range
  <2> QED BY <1>3, <2>1
<1> QED BY <1>2, <1>4, <1>5

\* The methods a door looks at are the profile's, and the daemon's are verified.
LEMMA MethodsOfProfile ==
    ASSUME NEW door, NEW profile \in Profiles
    PROVE  /\ Methods(door, profile) \in Seq(Method)
           /\ \A k \in DOMAIN Methods(door, profile) :
                 /\ Methods(door, profile)[k] \in Range(profile.methods)
                 /\ door = "daemon" => Methods(door, profile)[k] \in profile.verified
<1>1. profile.methods \in Seq(Method)
  BY ProfilesAssumption
<1>2. CASE door = "daemon"
  BY <1>1, <1>2, RetainKeeps DEF Methods
<1>3. CASE door # "daemon"
  BY <1>1, <1>3 DEF Methods, Range
<1> QED BY <1>2, <1>3

\* The first method on a rail is one of the methods.
LEMMA OnRailFinds ==
    ASSUME NEW methods \in Seq(Method), NEW rail, OnRail(methods, rail) # None
    PROVE  \E i \in DOMAIN methods : OnRail(methods, rail) = methods[i] /\ methods[i].rail = rail
<1> DEFINE I == {i \in 1 .. Len(methods) : methods[i].rail = rail}
<1>1. OnRail(methods, rail) = LET i == IF I # {} THEN Min(I) ELSE 0 IN IF i = 0 THEN None ELSE methods[i]
  BY DEF OnRail, FirstThat, SelectInSeq
<1>2. I # {}
  BY <1>1
<1>3. Min(I) \in I /\ Min(I) # 0
  <2>1. Len(methods) \in Nat /\ I \in SUBSET (1 .. Len(methods))
    OBVIOUS
  <2> HIDE DEF I
  <2> QED BY <1>2, <2>1, FirstIndex
<1>4. OnRail(methods, rail) = methods[Min(I)]
  <2> HIDE DEF I
  <2> QED BY <1>1, <1>2, <1>3
<1>5. Min(I) \in DOMAIN methods /\ methods[Min(I)].rail = rail
  BY <1>3
<1> HIDE DEF I
<1> QED BY <1>4, <1>5

\* What the doors that use select_route are promised of a method m.
Carries(m, sats) ==
    m.rail \in {"Lightning", "Bolt12"} =>
        /\ sats < LIGHTNING_THRESHOLD_SATS
        /\ m.rail = "Bolt12" => sats >= m.minimum
        /\ m.offer # None /\ parse_bolt12_offer(m.offer).ok =>
              sats * 1000 >= (IF parse_bolt12_offer(m.offer).amount_msats = None THEN 0
                              ELSE parse_bolt12_offer(m.offer).amount_msats)

LEMMA AvailableCarries ==
    ASSUME NEW m \in Method, NEW sats \in Nat, sats < LIGHTNING_THRESHOLD_SATS,
           is_lightning_available_for_amount_sync(m, sats)
    PROVE  Carries(m, sats)
<1> DEFINE offer == parse_bolt12_offer(m.offer)
<1>1. offer.min_amount_msats = offer.amount_msats
  BY DEF parse_bolt12_offer, OfferOf
<1>2. OfferAllows(offer, sats * 1000) /\ offer.ok =>
          sats * 1000 >= (IF offer.amount_msats = None THEN 0 ELSE offer.amount_msats)
  <2> HIDE DEF offer
  <2> QED BY <1>1 DEF OfferAllows, is_amount_valid
<1> HIDE DEF offer
<1>3. ASSUME m.rail \in {"Lightning", "Bolt12"}, m.offer # None
      PROVE  OfferAllows(offer, sats * 1000)
  BY <1>3 DEF is_lightning_available_for_amount_sync, offer
<1>4. m.rail = "Bolt12" => sats >= m.minimum
  BY DEF is_lightning_available_for_amount_sync
<1> QED BY <1>2, <1>3, <1>4 DEF Carries, offer

LEMMA LightningRouteCarries ==
    ASSUME NEW methods \in Seq(Method), NEW sats \in Nat, LightningRoute(methods, sats) # None
    PROVE  \E i \in DOMAIN methods : /\ LightningRoute(methods, sats).method = methods[i]
                                     /\ Carries(methods[i], sats)
<1> DEFINE Test(m) == is_lightning_available(m) /\ is_lightning_available_for_amount_sync(m, sats)
           I == {i \in 1 .. Len(methods) : Test(methods[i])}
           ln == LET i == IF I # {} THEN Min(I) ELSE 0 IN IF i = 0 THEN None ELSE methods[i]
<1>1. LightningRoute(methods, sats) = LightningQuote(ln, sats)
  BY DEF LightningRoute, FirstThat, SelectInSeq
<1> HIDE DEF ln
<1>2. ln # None /\ sats < LIGHTNING_THRESHOLD_SATS /\ LightningRoute(methods, sats).method = ln
  BY <1>1 DEF LightningQuote, Quote
<1>3. I # {}
  BY <1>2 DEF ln
<1>4. Min(I) \in I /\ Min(I) # 0
  <2>1. Len(methods) \in Nat /\ I \in SUBSET (1 .. Len(methods))
    OBVIOUS
  <2> HIDE DEF I
  <2> QED BY <1>3, <2>1, FirstIndex
<1>5. ln = methods[Min(I)]
  <2> HIDE DEF I
  <2> QED BY <1>3, <1>4 DEF ln
<1>6. Min(I) \in DOMAIN methods /\ methods[Min(I)] \in Method
  BY <1>4
<1>7. is_lightning_available_for_amount_sync(methods[Min(I)], sats)
  BY <1>4
<1> HIDE DEF I
<1>8. Carries(methods[Min(I)], sats)
  BY <1>2, <1>6, <1>7, AvailableCarries
<1> QED BY <1>2, <1>5, <1>6, <1>8

LEMMA ChainRouteCarries ==
    ASSUME NEW methods \in Seq(Method), NEW sats, NEW rate, ChainRoute(methods, rate) # None
    PROVE  \E i \in DOMAIN methods : /\ ChainRoute(methods, rate).method = methods[i]
                                     /\ Carries(methods[i], sats)
<1> DEFINE onchain == OnRail(methods, "Onchain")
           ark == OnRail(methods, "Ark")
<1>1. \/ onchain # None /\ ChainRoute(methods, rate).method = onchain
      \/ ark # None /\ ChainRoute(methods, rate).method = ark
  <2> HIDE DEF onchain, ark
  <2> QED BY DEF ChainRoute, Quote, onchain, ark
<1>2. CASE onchain # None /\ ChainRoute(methods, rate).method = onchain
  <2>1. PICK i \in DOMAIN methods : onchain = methods[i] /\ methods[i].rail = "Onchain"
    BY <1>2, OnRailFinds
  <2> QED BY <1>2, <2>1 DEF Carries
<1>3. CASE ark # None /\ ChainRoute(methods, rate).method = ark
  <2>1. PICK i \in DOMAIN methods : ark = methods[i] /\ methods[i].rail = "Ark"
    BY <1>3, OnRailFinds
  <2> QED BY <1>3, <2>1 DEF Carries
<1> QED BY <1>1, <1>2, <1>3

LEMMA SelectRouteCarries ==
    ASSUME NEW methods \in Seq(Method), NEW sats \in Nat, NEW est, NEW urgency,
           select_route(methods, sats, est, urgency) # None
    PROVE  \E i \in DOMAIN methods : /\ select_route(methods, sats, est, urgency).method = methods[i]
                                     /\ Carries(methods[i], sats)
<1> DEFINE rate == WithBuffer(est[Urgencies[urgency]])
<1>1. select_route(methods, sats, est, urgency) = OrElse(LightningRoute(methods, sats), ChainRoute(methods, rate))
  BY DEF select_route
<1> HIDE DEF rate
<1>2. CASE LightningRoute(methods, sats) # None
  <2>1. select_route(methods, sats, est, urgency) = LightningRoute(methods, sats)
    BY <1>1, <1>2 DEF OrElse
  <2> QED BY <1>2, <2>1, LightningRouteCarries
<1>3. CASE LightningRoute(methods, sats) = None
  <2>1. select_route(methods, sats, est, urgency) = ChainRoute(methods, rate)
    BY <1>1, <1>3 DEF OrElse
  <2> QED BY <2>1, ChainRouteCarries
<1> QED BY <1>2, <1>3

\* The daemon's send takes one of the methods, whatever it carries.
LEMMA PriorityRouteFinds ==
    ASSUME NEW methods \in Seq(Method), NEW sats, NEW est, NEW routing_ok,
           select_priority_route(methods, sats, est, routing_ok) # None
    PROVE  \E i \in DOMAIN methods : select_priority_route(methods, sats, est, routing_ok) = methods[i]
<1> DEFINE route == select_priority_route(methods, sats, est, routing_ok)
           I == {i \in 1 .. Len(methods) : methods[i].rail \in {"Lightning", "Bolt12"}}
           lightning == LET i == IF I # {} THEN Min(I) ELSE 0 IN IF i = 0 THEN None ELSE methods[i]
           onchain == OnRail(methods, "Onchain")
           ark == OnRail(methods, "Ark")
<1>1. route \in {onchain, lightning, ark}
  <2>1. FirstThat(methods, LAMBDA m : m.rail \in {"Lightning", "Bolt12"}) = lightning
    BY DEF FirstThat, SelectInSeq
  <2> HIDE DEF lightning, I
  <2> QED BY <2>1 DEF select_priority_route
<1>2. CASE route = onchain
  BY <1>2, OnRailFinds
<1>3. CASE route = ark
  BY <1>3, OnRailFinds
<1>4. CASE route = lightning
  <2>1. I # {}
    BY <1>4
  <2>2. Len(methods) \in Nat /\ I \in SUBSET (1 .. Len(methods))
    OBVIOUS
  <2>3. Min(I) \in I /\ Min(I) # 0
    <3> HIDE DEF I
    <3> QED BY <2>1, <2>2, FirstIndex
  <2>4. Min(I) \in DOMAIN methods
    BY <2>3
  <2>5. lightning = methods[Min(I)]
    <3> HIDE DEF I
    <3> QED BY <2>1, <2>3
  <2> HIDE DEF lightning, route
  <2> QED BY <1>4, <2>4, <2>5 DEF route
<1> QED BY <1>1, <1>2, <1>3, <1>4

\* What PaysTheRecipient asks of a route.
Promised(door, profile, route, sats) ==
    /\ route.method \in Method
    /\ route.method \in Range(profile.methods)
    /\ door = "daemon" => route.method \in profile.verified
    /\ door # "send" => Carries(route.method, sats)

LEMMA EarlyRoutePromised ==
    ASSUME NEW door, NEW profile \in Profiles, NEW sats \in Nat,
           LightningRoute(Methods(door, profile), sats) # None
    PROVE  Promised(door, profile, LightningRoute(Methods(door, profile), sats), sats)
<1> DEFINE methods == Methods(door, profile)
           route == LightningRoute(methods, sats)
<1>1. /\ methods \in Seq(Method)
      /\ \A k \in DOMAIN methods : /\ methods[k] \in Range(profile.methods)
                                   /\ door = "daemon" => methods[k] \in profile.verified
  BY MethodsOfProfile
<1> HIDE DEF methods
<1>2. PICK i \in DOMAIN methods : route.method = methods[i] /\ Carries(methods[i], sats)
  BY <1>1, LightningRouteCarries DEF methods
<1>3. methods[i] \in Method
  BY <1>1
<1> HIDE DEF route
<1>4. Promised(door, profile, route, sats)
  BY <1>1, <1>2, <1>3 DEF Promised
<1> QED BY <1>4 DEF route, methods

LEMMA RoutePromised ==
    ASSUME NEW r, r.ask.profile \in Profiles, r.ask.sats \in Nat, NEW est, RouteWithFees(r, est) # None
    PROVE  Promised(r.ask.door, r.ask.profile, RouteWithFees(r, est), r.ask.sats)
<1> DEFINE door == r.ask.door
           profile == r.ask.profile
           sats == r.ask.sats
           methods == Methods(door, profile)
           route == RouteWithFees(r, est)
<1>1. /\ methods \in Seq(Method)
      /\ \A k \in DOMAIN methods : /\ methods[k] \in Range(profile.methods)
                                   /\ door = "daemon" => methods[k] \in profile.verified
  BY MethodsOfProfile
<1>2. CASE door = "send"
  <2> DEFINE routing_ok == TRUE
             m == select_priority_route(methods, sats, est, routing_ok)
  <2>1. route = IF m = None THEN None ELSE Quote(m, 0, None)
    BY <1>2 DEF RouteWithFees
  <2>2. route # None
    OBVIOUS
  <2> HIDE DEF routing_ok, methods, m, route
  <2>3. m # None /\ route = Quote(m, 0, None)
    BY <2>1, <2>2
  <2>4. route.method = m
    BY <2>3 DEF Quote
  <2>5. PICK i \in DOMAIN methods : m = methods[i]
    BY <1>1, <2>3, PriorityRouteFinds DEF m
  <2>6. methods[i] \in Method
    BY <1>1
  <2>7. Promised(door, profile, route, sats)
    BY <1>1, <1>2, <2>4, <2>5, <2>6 DEF Promised
  <2> QED BY <2>7 DEF route
<1>3. CASE door # "send"
  <2>1. route = select_route(methods, sats, est, "Normal")
    BY <1>3 DEF RouteWithFees
  <2> HIDE DEF methods
  <2>2. select_route(methods, sats, est, "Normal") # None
    BY <2>1 DEF methods
  <2>3. PICK i \in DOMAIN methods : /\ select_route(methods, sats, est, "Normal").method = methods[i]
                                    /\ Carries(methods[i], sats)
    BY <1>1, <2>2, SelectRouteCarries
  <2>4. methods[i] \in Method /\ route.method = methods[i]
    BY <1>1, <2>1, <2>3
  <2> HIDE DEF route
  <2>5. Promised(door, profile, route, sats)
    BY <1>1, <2>3, <2>4 DEF Promised
  <2> QED BY <2>5 DEF route
<1> QED BY <1>2, <1>3

--------------------------------------------------------------------------------
(* Requests *)

\* The fields of a request, and its call.
Shape(x) ==
    /\ DOMAIN x = {"pc", "ask", "checked", "route", "status", "payload", "invoice"}
    /\ DOMAIN x.ask = {"door", "profile", "sats"}
    /\ x.ask.door \in DOMAIN Doors /\ x.ask.sats \in Nat

Resolved(x) == x.ask.profile \in Profiles /\ x.ask.profile.valid

\* The route is one the recipient's profile offers.
Routable(x) == Resolved(x) /\ Promised(x.ask.door, x.ask.profile, x.route, x.ask.sats)

\* What a request in state x has established: an invoice is asked for, and an answer is given,
\* only for a route of the recipient's.
RequestInv(x) ==
    /\ Shape(x)
    /\ x.pc # "done" => x.status = "none"
    /\ x.pc = "fees" => Resolved(x)
    /\ x.pc = "invoice" => Routable(x) /\ x.payload # "none"
    /\ x.status = "ok" => Routable(x) /\ x.payload # "none"

RequestsInv ==
    /\ request = [q \in Fetches |-> request[q]]
    /\ \A q \in Fetches : RequestInv(request[q])

\* No door answers "ok" when it refuses.
LEMMA DoorsRefuse ==
    ASSUME NEW d \in DOMAIN Doors
    PROVE  /\ Doors[d].missing # "ok" /\ Doors[d].failed # "ok" /\ Doors[d].invalid # "ok"
           /\ Doors[d].expired # "ok" /\ Doors[d].unroutable # "ok"
           /\ Doors[d].zero # None => Doors[d].zero # "ok"
<1>1. d \in {"quote", "daemon", "send", "pay", "preview", "previewInvoice", "cli", "wasm"}
  BY DEF Doors
<1>2. Doors[d] \in {quote_inner, quote_response, send_response, cmd_pay,
                    build_mainnet_preview_response, cmd_quote, wasm_quote}
  BY <1>1 DEF Doors
<1> QED BY <1>2 DEF quote_inner, quote_response, send_response, cmd_pay,
                    build_mainnet_preview_response, cmd_quote, wasm_quote

LEMMA RequestReplaced ==
    ASSUME RequestsInv, NEW q \in Fetches, NEW x, request' = [request EXCEPT ![q] = x], RequestInv(x)
    PROVE  RequestsInv'
<1>1. request = [p \in Fetches |-> request[p]] /\ \A p \in Fetches : RequestInv(request[p])
  BY DEF RequestsInv
<1>2. \A p \in Fetches : request'[p] = IF p = q THEN x ELSE request[p]
  BY <1>1
<1>3. request' = [p \in Fetches |-> request'[p]]
  BY <1>1
<1>4. \A p \in Fetches : RequestInv(request'[p])
  BY <1>1, <1>2
<1> QED BY <1>3, <1>4 DEF RequestsInv

\* An answer that is not "ok" needs nothing.
LEMMA RefusalStep ==
    ASSUME RequestsInv, NEW q \in Fetches, NEW r, Shape(r), NEW status, status # "ok", Answer(q, r, status)
    PROVE  RequestsInv'
<1> DEFINE x == [r EXCEPT !.pc = "done", !.status = status]
<1>1. x.pc = "done" /\ x.status = status /\ x.ask = r.ask /\ DOMAIN x = DOMAIN r
  BY DEF Shape
<1>2. request' = [request EXCEPT ![q] = x]
  BY DEF Answer
<1> HIDE DEF x
<1>3. RequestInv(x)
  BY <1>1 DEF RequestInv, Shape
<1> QED BY <1>2, <1>3, RequestReplaced

LEMMA OkStep ==
    ASSUME RequestsInv, NEW q \in Fetches, NEW r, Shape(r), Routable(r), r.payload # "none",
           Answer(q, r, "ok")
    PROVE  RequestsInv'
<1> DEFINE x == [r EXCEPT !.pc = "done", !.status = "ok"]
<1>1. /\ x.pc = "done" /\ x.ask = r.ask /\ x.route = r.route /\ x.payload = r.payload
      /\ x.invoice = r.invoice /\ DOMAIN x = DOMAIN r
  BY DEF Shape
<1>2. request' = [request EXCEPT ![q] = x]
  BY DEF Answer
<1> HIDE DEF x
<1>3. RequestInv(x)
  BY <1>1 DEF RequestInv, Shape, Routable, Resolved
<1> QED BY <1>2, <1>3, RequestReplaced

LEMMA RoutedStep ==
    ASSUME RequestsInv, NEW q \in Fetches, NEW r, Shape(r), r.status = "none", Resolved(r), NEW route,
           Promised(r.ask.door, r.ask.profile, route, r.ask.sats), Routed(q, r, route)
    PROVE  RequestsInv'
<1> DEFINE m == route.method
           payload == Payload(r.ask.door, m)
           new == [r EXCEPT !.route = route, !.payload = payload]
           waiting == [new EXCEPT !.pc = "invoice"]
           none == [r EXCEPT !.route = route]
<1>1. \/ Answer(q, none, Doors[r.ask.door].unroutable)
      \/ payload # "none" /\ request' = [request EXCEPT ![q] = waiting]
      \/ payload # "none" /\ Answer(q, new, "ok")
  BY DEF Routed
<1> HIDE DEF payload
<1>2. CASE Answer(q, none, Doors[r.ask.door].unroutable)
  <2>1. none.ask = r.ask /\ DOMAIN none = DOMAIN r
    BY DEF Shape
  <2>2. Shape(none)
    BY <2>1 DEF Shape
  <2>3. Doors[r.ask.door].unroutable # "ok"
    BY DoorsRefuse DEF Shape
  <2> HIDE DEF none
  <2> QED BY <1>2, <2>2, <2>3, RefusalStep
<1>3. /\ new.ask = r.ask /\ new.route = route /\ new.payload = payload /\ new.status = "none"
      /\ DOMAIN new = DOMAIN r
  BY DEF Shape
<1> HIDE DEF new
<1>4. Shape(new) /\ Routable(new)
  BY <1>3 DEF Shape, Routable, Resolved
<1>5. CASE payload # "none" /\ request' = [request EXCEPT ![q] = waiting]
  <2>1. /\ waiting.ask = r.ask /\ waiting.route = route /\ waiting.payload = payload
        /\ waiting.status = "none" /\ waiting.pc = "invoice" /\ DOMAIN waiting = DOMAIN r
    BY <1>3 DEF Shape
  <2> HIDE DEF waiting
  <2>2. RequestInv(waiting)
    BY <1>5, <2>1 DEF RequestInv, Shape, Routable, Resolved
  <2> QED BY <1>5, <2>2, RequestReplaced
<1>6. CASE payload # "none" /\ Answer(q, new, "ok")
  BY <1>3, <1>4, <1>6, OkStep
<1> QED BY <1>1, <1>2, <1>5, <1>6

LEMMA AskStep ==
    ASSUME RequestsInv, NEW q \in Fetches, Ask(q)
    PROVE  RequestsInv'
<1>1. PICK ask \in Asks[q] :
          LET door == ask[1]
              sats == ask[2]
              r == [NewRequest EXCEPT !.ask = [door |-> door, profile |-> None, sats |-> sats]]
          IN  IF sats = 0 /\ Doors[door].zero # None
              THEN Answer(q, r, Doors[door].zero)
              ELSE request' = [request EXCEPT ![q] = [r EXCEPT !.pc = "resolve"]]
  BY DEF Ask
<1> DEFINE door == ask[1]
           sats == ask[2]
           call == [door |-> door, profile |-> None, sats |-> sats]
           r == [NewRequest EXCEPT !.ask = call]
           x == [r EXCEPT !.pc = "resolve"]
<1>2. door \in DOMAIN Doors /\ sats \in Nat
  BY AsksAssumption
<1>3. \/ Doors[door].zero # None /\ Answer(q, r, Doors[door].zero)
      \/ request' = [request EXCEPT ![q] = x]
  BY <1>1
<1> HIDE DEF door, sats
<1>4. call.door = door /\ call.sats = sats /\ DOMAIN call = {"door", "profile", "sats"}
  OBVIOUS
<1> HIDE DEF call
<1>5. /\ r.ask = call /\ r.status = "none"
      /\ DOMAIN r = {"pc", "ask", "checked", "route", "status", "payload", "invoice"}
  BY DEF NewRequest
<1> HIDE DEF r
<1>6. Shape(r)
  BY <1>2, <1>4, <1>5 DEF Shape
<1>7. CASE Doors[door].zero # None /\ Answer(q, r, Doors[door].zero)
  <2>1. Doors[door].zero # "ok"
    BY <1>2, <1>7, DoorsRefuse
  <2> QED BY <1>6, <1>7, <2>1, RefusalStep
<1>8. CASE request' = [request EXCEPT ![q] = x]
  <2>1. x.ask = call /\ x.status = "none" /\ x.pc = "resolve" /\ DOMAIN x = DOMAIN r
    BY <1>5
  <2> HIDE DEF x
  <2>2. RequestInv(x)
    BY <1>5, <1>6, <2>1 DEF RequestInv, Shape
  <2> QED BY <1>8, <2>2, RequestReplaced
<1> QED BY <1>3, <1>7, <1>8

LEMMA NotFoundStep ==
    ASSUME RequestsInv, NEW q \in Fetches, NEW failed, NotFound(q, failed)
    PROVE  RequestsInv'
<1> DEFINE r == request[q]
<1>1. Shape(r)
  BY DEF RequestsInv, RequestInv
<1>2. \/ Answer(q, r, Doors[r.ask.door].failed)
      \/ Answer(q, r, Doors[r.ask.door].missing)
  BY DEF NotFound
<1>3. Doors[r.ask.door].failed # "ok" /\ Doors[r.ask.door].missing # "ok"
  BY <1>1, DoorsRefuse DEF Shape
<1> HIDE DEF r
<1> QED BY <1>1, <1>2, <1>3, RefusalStep

LEMMA FoundStep ==
    ASSUME RequestsInv, NEW q \in Fetches, NEW profile \in Profiles, Found(q, profile)
    PROVE  RequestsInv'
<1> DEFINE old == request[q]
           r == [old EXCEPT !.ask.profile = profile, !.checked = clock]
           door == r.ask.door
           early == IF door = "send" THEN None ELSE LightningRoute(Methods(door, profile), r.ask.sats)
           x == [r EXCEPT !.pc = "fees"]
<1>1. Shape(old) /\ old.status = "none"
  BY DEF RequestsInv, RequestInv, Found
<1>2. \/ Answer(q, r, Doors[door].invalid)
      \/ Answer(q, r, Doors[door].expired)
      \/ Answer(q, r, "no_route")
      \/ profile.valid /\ early # None /\ Routed(q, r, early)
      \/ profile.valid /\ request' = [request EXCEPT ![q] = x]
  BY DEF Found
<1> HIDE DEF old
<1>3. /\ r.ask.profile = profile /\ r.ask.door = old.ask.door /\ r.ask.sats = old.ask.sats
      /\ r.status = "none" /\ DOMAIN r = DOMAIN old /\ DOMAIN r.ask = DOMAIN old.ask
  BY <1>1 DEF Shape
<1> HIDE DEF r
<1>4. Shape(r)
  BY <1>1, <1>3 DEF Shape
<1>5. Doors[door].invalid # "ok" /\ Doors[door].expired # "ok"
  BY <1>4, DoorsRefuse DEF Shape
<1>6. CASE Answer(q, r, Doors[door].invalid) \/ Answer(q, r, Doors[door].expired) \/ Answer(q, r, "no_route")
  BY <1>4, <1>5, <1>6, RefusalStep
<1>7. CASE profile.valid /\ early # None /\ Routed(q, r, early)
  <2>1. early = LightningRoute(Methods(door, profile), r.ask.sats)
    BY <1>7
  <2>2. Promised(door, profile, early, r.ask.sats)
    BY <1>4, <1>7, <2>1, EarlyRoutePromised DEF Shape
  <2>3. Resolved(r)
    BY <1>3, <1>7 DEF Resolved
  <2> HIDE DEF early
  <2> QED BY <1>3, <1>4, <1>7, <2>2, <2>3, RoutedStep
<1>8. CASE profile.valid /\ request' = [request EXCEPT ![q] = x]
  <2>1. x.ask = r.ask /\ x.status = "none" /\ x.pc = "fees" /\ DOMAIN x = DOMAIN r
    BY <1>3, <1>4 DEF Shape
  <2> HIDE DEF x
  <2>2. RequestInv(x)
    BY <1>3, <1>4, <1>8, <2>1 DEF RequestInv, Shape, Resolved
  <2> QED BY <1>8, <2>2, RequestReplaced
<1> QED BY <1>2, <1>6, <1>7, <1>8

LEMMA FeesArriveStep ==
    ASSUME RequestsInv, NEW q \in Fetches, FeesArrive(q)
    PROVE  RequestsInv'
<1> DEFINE r == request[q]
           est == fetch'[q].report.estimate
           route == RouteWithFees(r, est)
<1>1. Shape(r) /\ Resolved(r) /\ r.status = "none"
  BY DEF RequestsInv, RequestInv, FeesArrive
<1>2. \/ Answer(q, r, Doors[r.ask.door].unroutable)
      \/ route # None /\ Routed(q, r, route)
  BY DEF FeesArrive, RouteOrFail
<1> HIDE DEF r, est
<1>3. Doors[r.ask.door].unroutable # "ok"
  BY <1>1, DoorsRefuse DEF Shape
<1>4. CASE Answer(q, r, Doors[r.ask.door].unroutable)
  BY <1>1, <1>3, <1>4, RefusalStep
<1>5. CASE route # None /\ Routed(q, r, route)
  <2>1. Promised(r.ask.door, r.ask.profile, route, r.ask.sats)
    BY <1>1, <1>5, RoutePromised DEF Shape, Resolved
  <2> HIDE DEF route
  <2> QED BY <1>1, <1>5, <2>1, RoutedStep
<1> QED BY <1>2, <1>4, <1>5

\* With an invoice, or without one.
LEMMA InvoicedStep ==
    ASSUME RequestsInv, NEW q \in Fetches, request[q].pc = "invoice", NEW invoice, Invoiced(q, invoice)
    PROVE  RequestsInv'
<1> DEFINE r == request[q]
           billed == [r EXCEPT !.payload = "invoice", !.invoice = invoice]
           empty == [r EXCEPT !.payload = "none"]
<1>1. Shape(r) /\ Routable(r) /\ r.payload # "none"
  BY DEF RequestsInv, RequestInv
<1>2. \/ invoice # None /\ Answer(q, billed, "ok")
      \/ Answer(q, r, "ok")
      \/ Answer(q, empty, "unavailable")
      \/ Answer(q, empty, "error")
  BY DEF Invoiced
<1> HIDE DEF r
<1>3. CASE invoice # None /\ Answer(q, billed, "ok")
  <2>1. /\ billed.ask = r.ask /\ billed.route = r.route /\ billed.payload = "invoice"
        /\ billed.invoice = invoice /\ DOMAIN billed = DOMAIN r
    BY <1>1 DEF Shape
  <2> HIDE DEF billed
  <2>2. Shape(billed) /\ Routable(billed)
    BY <1>1, <2>1 DEF Shape, Routable, Resolved
  <2> QED BY <1>3, <2>1, <2>2, OkStep
<1>4. CASE Answer(q, r, "ok")
  BY <1>1, <1>4, OkStep
<1>5. CASE Answer(q, empty, "unavailable") \/ Answer(q, empty, "error")
  <2>1. empty.ask = r.ask /\ DOMAIN empty = DOMAIN r
    BY <1>1 DEF Shape
  <2> HIDE DEF empty
  <2>2. Shape(empty)
    BY <1>1, <2>1 DEF Shape
  <2> QED BY <1>5, <2>2, RefusalStep
<1> QED BY <1>2, <1>3, <1>4, <1>5

LEMMA LnurlStep ==
    ASSUME RequestsInv, NEW q \in Fetches, LnurlInvoice(q)
    PROVE  RequestsInv'
<1>1. /\ request[q].pc = "invoice"
      /\ \E invoice : Invoiced(q, invoice)
  BY DEF LnurlInvoice
<1> QED BY <1>1, InvoicedStep

LEMMA Bolt12Step ==
    ASSUME RequestsInv, NEW q \in Fetches, Bolt12Invoice(q)
    PROVE  RequestsInv'
<1>1. /\ request[q].pc = "invoice"
      /\ \E invoice : Invoiced(q, invoice)
  BY DEF Bolt12Invoice
<1> QED BY <1>1, InvoicedStep

LEMMA RequestsUnchanged ==
    ASSUME RequestsInv, request' = request
    PROVE  RequestsInv'
  BY DEF RequestsInv

LEMMA RequestsStep ==
    ASSUME RequestsInv, [Next]_vars
    PROVE  RequestsInv'
<1>1. CASE UNCHANGED vars \/ Pass
  <2>1. request' = request
    BY <1>1 DEF vars, Pass
  <2> QED BY <2>1, RequestsUnchanged
<1>2. ASSUME NEW q \in Fetches, Step(q) PROVE RequestsInv'
  BY <1>2, AskStep, NotFoundStep, FoundStep, FeesArriveStep, LnurlStep, Bolt12Step DEF Step
<1> QED BY <1>1, <1>2 DEF Next

LEMMA RequestsInvariant == Spec => []RequestsInv
<1>1. Init => RequestsInv
  <2> SUFFICES ASSUME Init PROVE RequestsInv
    OBVIOUS
  <2>1. request = [q \in Fetches |-> NewRequest]
    BY DEF Init
  <2>2. /\ NewRequest.pc = "new" /\ NewRequest.status = "none" /\ NewRequest.ask = NoAsk
        /\ DOMAIN NewRequest = {"pc", "ask", "checked", "route", "status", "payload", "invoice"}
    BY DEF NewRequest
  <2>3. NoAsk.door = "quote" /\ NoAsk.sats = 0 /\ DOMAIN NoAsk = {"door", "profile", "sats"}
    BY DEF NoAsk
  <2>4. "quote" \in DOMAIN Doors
    BY DEF Doors
  <2>5. RequestInv(NewRequest)
    BY <2>2, <2>3, <2>4 DEF RequestInv, Shape
  <2> QED BY <2>1, <2>5 DEF RequestsInv
<1>2. RequestsInv /\ [Next]_vars => RequestsInv'
  BY RequestsStep
<1> QED BY <1>1, <1>2, PTL DEF Spec

\* Whatever a user is asked to pay is a method of a profile with a valid signature, through the
\* daemon one whose ownership is proved, and one that carries the amount where select_route
\* chose it: for any profiles, requests, fees and answers of the recipient's servers.
THEOREM PaysTheRecipientHolds == Spec => []PaysTheRecipient
<1>1. RequestsInv => PaysTheRecipient
  <2>1. SUFFICES ASSUME RequestsInv, NEW q \in Fetches, request[q].status = "ok"
                 PROVE  LET r == request[q]
                            p == r.ask.profile
                            m == r.route.method
                        IN  /\ r.payload # "none"
                            /\ p.valid
                            /\ m \in Range(p.methods)
                            /\ r.ask.door = "daemon" => m \in p.verified
                            /\ r.ask.door # "send" => Carries(m, r.ask.sats)
    BY DEF PaysTheRecipient, Carries
  <2>2. RequestInv(request[q])
    BY <2>1 DEF RequestsInv
  <2> QED BY <2>1, <2>2 DEF RequestInv, Routable, Resolved, Promised
<1> QED BY <1>1, RequestsInvariant, PTL

--------------------------------------------------------------------------------
(* Route selections *)

\* A rail without a first method has none.
LEMMA NoneOnRail ==
    ASSUME NEW methods \in Seq(Method), None \notin Method, NEW rail, OnRail(methods, rail) = None
    PROVE  \A i \in DOMAIN methods : methods[i].rail # rail
<1> DEFINE I == {i \in 1 .. Len(methods) : methods[i].rail = rail}
<1>1. OnRail(methods, rail) = LET i == IF I # {} THEN Min(I) ELSE 0 IN IF i = 0 THEN None ELSE methods[i]
  BY DEF OnRail, FirstThat, SelectInSeq
<1>2. Len(methods) \in Nat /\ I \in SUBSET (1 .. Len(methods)) /\ DOMAIN methods = 1 .. Len(methods)
  OBVIOUS
<1>3. SUFFICES ASSUME I # {} PROVE FALSE
  BY <1>2
<1>4. PICK m : m = Min(I)
  OBVIOUS
<1>5. m \in I /\ m # 0
  <2> HIDE DEF I
  <2> QED BY <1>2, <1>3, <1>4, FirstIndex
<1>6. OnRail(methods, rail) = methods[m]
  <2> HIDE DEF I
  <2> QED BY <1>1, <1>3, <1>4, <1>5
<1>7. methods[m] \in Method
  BY <1>5
<1> QED BY <1>6, <1>7

\* A method that carries an amount is available.
LEMMA CarriedIsAvailable ==
    ASSUME NEW m \in Method, NEW sats, is_lightning_available_for_amount_sync(m, sats)
    PROVE  is_lightning_available(m)
BY DEF is_lightning_available_for_amount_sync, is_lightning_available

\* The live and the deterministic selection are the same function: a method that carries the
\* amount is available, so both look for the same one.
LEMMA LiveIsDeterministic ==
    ASSUME NEW methods \in Seq(Method), NEW sats, NEW est, NEW urgency
    PROVE  select_route(methods, sats, est, urgency) = select_route_with_fees(methods, sats, est, urgency)
<1> DEFINE I == {i \in 1 .. Len(methods) : is_lightning_available(methods[i])
                                             /\ is_lightning_available_for_amount_sync(methods[i], sats)}
           J == {i \in 1 .. Len(methods) : is_lightning_available_for_amount_sync(methods[i], sats)}
           Pick(K) == LET i == IF K # {} THEN Min(K) ELSE 0 IN IF i = 0 THEN None ELSE methods[i]
           chain == ChainRoute(methods, WithBuffer(est[Urgencies[urgency]]))
<1>1. I = J
  BY CarriedIsAvailable
<1>2. select_route(methods, sats, est, urgency) = OrElse(LightningQuote(Pick(I), sats), chain)
  BY DEF select_route, LightningRoute, FirstThat, SelectInSeq
<1>3. select_route_with_fees(methods, sats, est, urgency) = OrElse(LightningQuote(Pick(J), sats), chain)
  BY DEF select_route_with_fees, FirstThat, SelectInSeq
<1> HIDE DEF I, J, Pick, chain
<1> QED BY <1>1, <1>2, <1>3

\* Without a Lightning method neither router takes Lightning.
LEMMA WithoutLightning ==
    ASSUME NEW methods \in Seq(Method), NEW sats, NEW est, NEW urgency,
           \A i \in DOMAIN methods : methods[i].rail \notin {"Lightning", "Bolt12"}
    PROVE  /\ LightningRoute(methods, sats) = None
           /\ FirstThat(methods, WasmLightningAvailable) = None
<1> DEFINE I == {i \in 1 .. Len(methods) : is_lightning_available(methods[i])
                                             /\ is_lightning_available_for_amount_sync(methods[i], sats)}
           J == {i \in 1 .. Len(methods) : WasmLightningAvailable(methods[i])}
           Pick(K) == LET i == IF K # {} THEN Min(K) ELSE 0 IN IF i = 0 THEN None ELSE methods[i]
<1>1. I = {} /\ J = {}
  BY DEF is_lightning_available, WasmLightningAvailable
<1>2. LightningRoute(methods, sats) = LightningQuote(Pick(I), sats)
  BY DEF LightningRoute, FirstThat, SelectInSeq
<1>3. FirstThat(methods, WasmLightningAvailable) = Pick(J)
  BY DEF FirstThat, SelectInSeq
<1> HIDE DEF I, J
<1>4. Pick(I) = None /\ Pick(J) = None
  BY <1>1
<1> HIDE DEF Pick
<1> QED BY <1>2, <1>3, <1>4 DEF LightningQuote

\* router.rs, priority.rs and the browser's router.rs: select_route and select_route_with_fees
\* decide alike for every profile, amount and estimate; neither gives up while there is an on-chain
\* or an Ark method; the priority router finds a method for every profile that has one; and without
\* Lightning methods the browser takes the method that the native router takes.
THEOREM SelectionsDecideAlike ==
    ASSUME NEW methods \in Seq(Method), None \notin Method, \A m, fee, execution : Quote(m, fee, execution) # None,
           NEW sats \in Nat, NEW est, NEW urgency, NEW routing_ok \in BOOLEAN
    PROVE  LET live == select_route(methods, sats, est, urgency)
               wasm == wasm_select_route(methods, sats, est, urgency)
           IN  /\ live = select_route_with_fees(methods, sats, est, urgency)
               /\ live = None => \A i \in DOMAIN methods : methods[i].rail \notin {"Onchain", "Ark"}
               /\ select_priority_route(methods, sats, est, routing_ok) = None <=> methods = << >>
               /\ (\A i \in DOMAIN methods : methods[i].rail \notin {"Lightning", "Bolt12"}) =>
                     /\ live = None <=> wasm = None
                     /\ live # None => wasm.method = live.method
<1> DEFINE live == select_route(methods, sats, est, urgency)
           wasm == wasm_select_route(methods, sats, est, urgency)
           rate == WithBuffer(est[Urgencies[urgency]])
           onchain == OnRail(methods, "Onchain")
           ark == OnRail(methods, "Ark")
           chain == ChainRoute(methods, rate)
<1>1. live = OrElse(LightningRoute(methods, sats), chain)
  BY DEF select_route
<1>2. \A m, fee, execution : Quote(m, fee, execution) # None /\ Quote(m, fee, execution).method = m
  BY DEF Quote
<1>3. \/ chain = None /\ onchain = None /\ ark = None
      \/ /\ chain # None /\ (onchain # None \/ ark # None)
         /\ chain.method = IF onchain # None /\ (rate <= 10 \/ ark = None) THEN onchain ELSE ark
  <2> HIDE DEF onchain, ark, rate
  <2> QED BY <1>2 DEF ChainRoute, chain, onchain, ark
<1>4. live = select_route_with_fees(methods, sats, est, urgency)
  BY LiveIsDeterministic
<1>5. live = None => \A i \in DOMAIN methods : methods[i].rail \notin {"Onchain", "Ark"}
  <2>1. SUFFICES ASSUME live = None PROVE onchain = None /\ ark = None
    BY NoneOnRail
  <2> HIDE DEF chain, onchain, ark, live
  <2> QED BY <1>1, <1>3, <2>1 DEF OrElse
<1>6. select_priority_route(methods, sats, est, routing_ok) = None <=> methods = << >>
  <2> DEFINE route == select_priority_route(methods, sats, est, routing_ok)
             I == {i \in 1 .. Len(methods) : methods[i].rail \in {"Lightning", "Bolt12"}}
             lightning == LET i == IF I # {} THEN Min(I) ELSE 0 IN IF i = 0 THEN None ELSE methods[i]
  <2>1. FirstThat(methods, LAMBDA m : m.rail \in {"Lightning", "Bolt12"}) = lightning
    BY DEF FirstThat, SelectInSeq
  <2>2. Len(methods) \in Nat /\ I \in SUBSET (1 .. Len(methods)) /\ DOMAIN methods = 1 .. Len(methods)
    OBVIOUS
  <2>3. lightning = None => \A i \in DOMAIN methods : methods[i].rail \notin {"Lightning", "Bolt12"}
    <3>1. SUFFICES ASSUME I # {} PROVE lightning # None
      BY <2>2
    <3>2. PICK m : m = Min(I)
      OBVIOUS
    <3>3. m \in I /\ m # 0
      <4> HIDE DEF I
      <4> QED BY <2>2, <3>1, <3>2, FirstIndex
    <3>4. methods[m] \in Method
      BY <3>3
    <3>5. lightning = methods[m]
      <4> HIDE DEF I
      <4> QED BY <3>1, <3>2, <3>3
    <3> QED BY <3>4, <3>5
  <2>4. route = None => onchain = None /\ ark = None /\ lightning = None
    <3> HIDE DEF lightning, I
    <3> QED BY <2>1 DEF select_priority_route
  <2>5. route = None => methods = << >>
    <3>1. SUFFICES ASSUME route = None PROVE methods = << >>
      OBVIOUS
    <3>2. \A i \in DOMAIN methods : methods[i].rail \notin {"Onchain", "Ark", "Lightning", "Bolt12"}
      <4> HIDE DEF lightning, I, route
      <4> QED BY <2>3, <2>4, <3>1, NoneOnRail
    <3>3. \A i \in DOMAIN methods : methods[i].rail \in {"Onchain", "Ark", "Lightning", "Bolt12"}
      <4>1. SUFFICES ASSUME NEW i \in DOMAIN methods
                     PROVE  methods[i].rail \in {"Onchain", "Ark", "Lightning", "Bolt12"}
        OBVIOUS
      <4>2. methods[i] \in Method
        OBVIOUS
      <4> QED BY <4>2 DEF Method, Rails
    <3> QED BY <3>2, <3>3
  <2>6. methods = << >> => route = None
    <3>1. SUFFICES ASSUME methods = << >>, route # None PROVE FALSE
      OBVIOUS
    <3>2. select_priority_route(methods, sats, est, routing_ok) # None
      BY <3>1
    <3>3. \E i \in DOMAIN methods : route = methods[i]
      <4> HIDE DEF route
      <4>1. \E i \in DOMAIN methods : select_priority_route(methods, sats, est, routing_ok) = methods[i]
        BY <3>2, PriorityRouteFinds
      <4> QED BY <4>1 DEF route
    <3>4. DOMAIN methods = {}
      BY <3>1
    <3> QED BY <3>3, <3>4
  <2> QED BY <2>5, <2>6
<1>7. ASSUME \A i \in DOMAIN methods : methods[i].rail \notin {"Lightning", "Bolt12"}
      PROVE  (live = None <=> wasm = None) /\ (live # None => wasm.method = live.method)
  <2>1. LightningRoute(methods, sats) = None /\ FirstThat(methods, WasmLightningAvailable) = None
    BY <1>7, WithoutLightning
  <2>2. live = chain
    <3> HIDE DEF live, chain
    <3> QED BY <1>1, <2>1 DEF OrElse
  <2> DEFINE Onchain == Quote(onchain, WasmOnchainFee(rate), "ManualWallet")
  <2>3. wasm = IF onchain # None /\ rate <= 10 THEN Onchain
               ELSE IF ark # None
                    THEN Quote(ark, 1, IF ark.opaque THEN "ManualWallet" ELSE "TestnetExperimental")
               ELSE IF onchain # None THEN Onchain
               ELSE None
    <3> HIDE DEF rate, onchain, ark
    <3> QED BY <2>1 DEF wasm_select_route, rate, onchain, ark
  <2> HIDE DEF onchain, ark, rate, chain, live, wasm
  <2>4. \/ wasm = None /\ onchain = None /\ ark = None
        \/ /\ wasm # None /\ (onchain # None \/ ark # None)
           /\ wasm.method = IF onchain # None /\ (rate <= 10 \/ ark = None) THEN onchain ELSE ark
    BY <1>2, <2>3
  <2> DEFINE m == IF onchain # None /\ (rate <= 10 \/ ark = None) THEN onchain ELSE ark
  <2>5. CASE onchain = None /\ ark = None
    <3>1. live = None /\ wasm = None
      BY <1>3, <2>2, <2>4, <2>5
    <3> QED BY <3>1
  <2>6. CASE onchain # None \/ ark # None
    <3>1. live # None /\ live.method = m
      BY <1>3, <2>2, <2>6
    <3>2. wasm # None /\ wasm.method = m
      BY <2>4, <2>6
    <3> QED BY <3>1, <3>2
  <2> QED BY <2>5, <2>6
<1> QED BY <1>4, <1>5, <1>6, <1>7

\* A candidate's figures are numbers, and its rail's condition is what makes it available.
LEMMA CandidateFigures ==
    ASSUME NEW m \in Method, NEW sats \in Nat, NEW prefs, NEW rate \in Nat,
           Candidate(m, sats, prefs, rate) # None
    PROVE  LET c == Candidate(m, sats, prefs, rate)
           IN  /\ c.reliability \in Int /\ c.privacy \in Int /\ c.seconds \in Int /\ c.fee \in Int
               /\ c.method = m
               /\ m.rail = "Onchain" => c.available = (sats >= 546)
               /\ m.rail = "Ark" => c.available = prefs.ark
<1> DEFINE c == Candidate(m, sats, prefs, rate)
           blinded == m.offer # None /\ HasBlindedPath(parse_bolt12_offer(m.offer))
           fee == estimate_lightning_fee_sats(sats)
<1>1. m.rail \in {"Lightning", "Bolt12", "Onchain", "Ark"} /\ m.complexity \in 1 .. 3
  BY DEF Method, Rails
<1>2. fee \in Int
  <2> DEFINE part == sats \div 10000
  <2>1. part \in Int
    OBVIOUS
  <2> HIDE DEF part
  <2>2. Max({1, part}) \in Int
    BY <2>1 DEF Max
  <2> QED BY <2>2 DEF estimate_lightning_fee_sats, part
<1> HIDE DEF fee, blinded
<1>3. CASE m.rail = "Lightning"
  <2>1. is_lightning_available(m)
    BY <1>3 DEF Candidate
  <2>2. c = [rail |-> m.rail, method |-> m, fee |-> fee, seconds |-> 5,
             privacy |-> IF m.address \/ m.lnurl THEN 7 ELSE IF blinded THEN 9 ELSE 8,
             reliability |-> 8, available |-> TRUE]
    BY <1>3, <2>1, ZenonT(60) DEF Candidate, blinded, fee
  <2> QED BY <1>2, <1>3, <2>2
<1>4. CASE m.rail = "Bolt12"
  <2>1. c = [rail |-> "Lightning", method |-> m, fee |-> fee, seconds |-> 2,
             privacy |-> IF blinded THEN 9 ELSE 8, reliability |-> 9, available |-> TRUE]
    BY <1>4, ZenonT(60) DEF Candidate, blinded, fee
  <2> QED BY <1>2, <1>4, <2>1
<1>5. CASE m.rail = "Onchain"
  <2>1. c = [rail |-> m.rail, method |-> m, fee |-> rate * 141, seconds |-> 600,
             privacy |-> 4, reliability |-> 10 - m.complexity, available |-> sats >= 546]
    BY <1>5, ZenonT(60) DEF Candidate
  <2>2. rate * 141 \in Int /\ 10 - m.complexity \in Int
    BY <1>1
  <2>3. /\ c.fee = rate * 141 /\ c.seconds = 600 /\ c.privacy = 4
        /\ c.reliability = 10 - m.complexity /\ c.method = m /\ c.available = (sats >= 546)
    BY <2>1
  <2> QED BY <1>5, <2>2, <2>3
<1>6. CASE m.rail = "Ark"
  <2>1. c = [rail |-> m.rail, method |-> m, fee |-> 1, seconds |-> 30,
             privacy |-> 8, reliability |-> IF prefs.ark THEN 5 ELSE 2, available |-> prefs.ark]
    BY <1>6, ZenonT(60) DEF Candidate
  <2> QED BY <1>6, <2>1
<1> QED BY <1>1, <1>3, <1>4, <1>5, <1>6

\* A score is a number.
LEMMA ScoreIsANumber ==
    ASSUME NEW c, c.reliability \in Int, c.privacy \in Int, c.seconds \in Int, c.fee \in Int,
           NEW sats, NEW prefs, NEW order \in Seq(Rails)
    PROVE  candidate_score(c, sats, prefs, order) \in Int
<1> DEFINE position == {i \in DOMAIN order : order[i] = c.rail}
           bonus == IF position = {} THEN 0 ELSE 50 - (Min(position) - 1) * 10
           weight == IF prefs.privacy THEN 8 ELSE 2
           slow == IF prefs.speed THEN c.seconds \div 30 ELSE 0
           dear == IF prefs.cheap THEN c.fee \div 10 ELSE 0
           small == IF c.rail = "Lightning" /\ sats <= 1000000 THEN 30 ELSE 0
           large == IF c.rail = "Onchain" /\ sats >= 1000000 THEN 20 ELSE 0
           ark == IF c.rail = "Ark" /\ ~prefs.ark THEN 1000 ELSE 0
<1>1. bonus \in Int
  <2>1. position \in SUBSET (1 .. Len(order)) /\ Len(order) \in Nat
    OBVIOUS
  <2> HIDE DEF position
  <2>2. CASE position = {}
    BY <2>2
  <2>3. CASE position # {}
    <3>1. Min(position) \in 1 .. Len(order)
      BY <2>1, <2>3, FirstIndex
    <3> QED BY <2>1, <2>3, <3>1
  <2> QED BY <2>2, <2>3
<1>2. weight \in Int /\ slow \in Int /\ dear \in Int /\ small \in Int /\ large \in Int /\ ark \in Int
  OBVIOUS
<1>3. candidate_score(c, sats, prefs, order)
        = c.reliability * 10 + c.privacy * weight - slow - dear + small + large - ark + bonus
  BY DEF candidate_score
<1> HIDE DEF bonus, weight, slow, dear, small, large, ark, position
<1>4. PICK score : score = candidate_score(c, sats, prefs, order)
  OBVIOUS
<1>5. PICK a, b : a = c.reliability * 10 /\ b = c.privacy * weight
  OBVIOUS
<1>6. a \in Int /\ b \in Int
  BY <1>2, <1>5
<1>7. score = a + b - slow - dear + small + large - ark + bonus
  BY <1>3, <1>4, <1>5
<1>8. score \in Int
  BY <1>1, <1>2, <1>6, <1>7
<1> QED BY <1>4, <1>8

\* scoring.rs, score_routes: the scored router gives up only if no method is available within the
\* limit on the fee; what it takes is such a method, none other of them scores higher, and it is
\* Ark only where the payer allows Ark and on-chain only from the dust limit up: for every profile,
\* amount, rate, preference and order of rails.
THEOREM ScoredRouteIsBest ==
    ASSUME NEW methods \in Seq(Method), NEW sats \in Nat, NEW prefs, NEW rate \in Nat,
           NEW order \in Seq(Rails)
    PROVE  LET best == score_routes(methods, sats, prefs, rate, order)
               Of(i) == Candidate(methods[i], sats, prefs, rate)
           IN  /\ best = None <=> \A i \in DOMAIN methods : ~Eligible(Of(i), prefs)
               /\ best # None =>
                    /\ \E i \in DOMAIN methods : best = Of(i) /\ best.method = methods[i]
                    /\ prefs.max_fee # None => best.fee <= prefs.max_fee
                    /\ best.method.rail = "Ark" => prefs.ark
                    /\ best.method.rail = "Onchain" => sats >= 546
                    /\ \A j \in DOMAIN methods : Eligible(Of(j), prefs) =>
                          candidate_score(Of(j), sats, prefs, order) <= candidate_score(best, sats, prefs, order)
<1> DEFINE best == score_routes(methods, sats, prefs, rate, order)
           Of(i) == Candidate(methods[i], sats, prefs, rate)
           Score(c) == candidate_score(c, sats, prefs, order)
           candidates == {<<i, Of(i)>> : i \in DOMAIN methods}
           eligible == {c \in candidates : Eligible(c[2], prefs)}
           Beats(d, c) == Score(c[2]) < Score(d[2]) \/ (Score(c[2]) = Score(d[2]) /\ c[1] <= d[1])
           index == {i \in DOMAIN methods : Eligible(Of(i), prefs)}
           score == [i \in DOMAIN methods |-> Score(Of(i))]
           top == {i \in index : \A j \in index : score[j] <= score[i]}
<1>1. best = IF eligible = {} THEN None ELSE (CHOOSE d \in eligible : \A c \in eligible : Beats(d, c))[2]
  BY DEF score_routes, BestOf
<1>2. Len(methods) \in Nat /\ DOMAIN methods = 1 .. Len(methods) /\ index \in SUBSET (1 .. Len(methods))
  OBVIOUS
<1>3. /\ \A i \in DOMAIN methods : i \in index <=> Eligible(Of(i), prefs)
      /\ \A i \in index : <<i, Of(i)>> \in eligible
      /\ \A c \in eligible : \E i \in index : c = <<i, Of(i)>>
  <2> HIDE DEF Of
  <2> QED OBVIOUS
<1>4. ASSUME NEW i \in index
      PROVE  /\ Of(i) # None /\ Of(i).method = methods[i]
             /\ prefs.max_fee # None => Of(i).fee <= prefs.max_fee
             /\ methods[i].rail = "Ark" => prefs.ark
             /\ methods[i].rail = "Onchain" => sats >= 546
             /\ candidate_score(Of(i), sats, prefs, order) \in Int
  <2>1. i \in DOMAIN methods /\ methods[i] \in Method /\ Eligible(Of(i), prefs)
    BY <1>3
  <2>2. Of(i) # None /\ Of(i).available /\ (prefs.max_fee # None => Of(i).fee <= prefs.max_fee)
    <3> HIDE DEF Of
    <3> QED BY <2>1 DEF Eligible
  <2>3. /\ Of(i).reliability \in Int /\ Of(i).privacy \in Int /\ Of(i).seconds \in Int /\ Of(i).fee \in Int
        /\ Of(i).method = methods[i]
        /\ methods[i].rail = "Onchain" => Of(i).available = (sats >= 546)
        /\ methods[i].rail = "Ark" => Of(i).available = prefs.ark
    <3>1. PICK m : m = methods[i]
      OBVIOUS
    <3>2. m \in Method /\ Candidate(m, sats, prefs, rate) # None
      BY <2>1, <2>2, <3>1
    <3>3. LET c == Candidate(m, sats, prefs, rate)
          IN  /\ c.reliability \in Int /\ c.privacy \in Int /\ c.seconds \in Int /\ c.fee \in Int
              /\ c.method = m
              /\ m.rail = "Onchain" => c.available = (sats >= 546)
              /\ m.rail = "Ark" => c.available = prefs.ark
      BY <3>2, CandidateFigures
    <3>4. Of(i) = Candidate(m, sats, prefs, rate)
      BY <3>1
    <3> HIDE DEF Of
    <3> QED BY <3>1, <3>3, <3>4
  <2> HIDE DEF Of
  <2>4. candidate_score(Of(i), sats, prefs, order) \in Int
    BY <2>3, ScoreIsANumber
  <2> QED BY <2>2, <2>3, <2>4
<1>5. CASE index = {}
  <2>1. eligible = {}
    <3> HIDE DEF eligible, index
    <3> QED BY <1>3, <1>5
  <2>2. best = None
    BY <1>1, <2>1
  <2>3. \A i \in DOMAIN methods : ~Eligible(Of(i), prefs)
    BY <1>3, <1>5
  <2> QED BY <2>2, <2>3
<1>6. CASE index # {}
  <2>1. \A i \in index : score[i] = Score(Of(i)) /\ score[i] \in Int /\ i \in DOMAIN methods
    BY <1>4
  <2>2. top # {} /\ top \in SUBSET (1 .. Len(methods))
    <3>1. \A i \in index : score[i] \in Int
      BY <2>1
    <3>2. PICK i \in index : \A j \in index : score[j] <= score[i]
      <4> HIDE DEF index, score
      <4> QED BY <1>2, <1>6, <3>1, Largest
    <3>3. i \in top
      BY <3>2
    <3> QED BY <1>2, <3>3
  <2>3. PICK k \in top : \A j \in top : j <= k
    <3> HIDE DEF top
    <3> QED BY <1>2, <2>2, LastIndex
  <2>4. k \in index /\ \A j \in index : score[j] < score[k] \/ (score[j] = score[k] /\ j <= k)
    <3> HIDE DEF index, score
    <3>1. k \in index /\ \A j \in index : score[j] <= score[k]
      BY <2>3
    <3>2. ASSUME NEW j \in index, score[j] = score[k] PROVE j <= k
      <4>1. j \in top
        BY <3>1, <3>2
      <4> QED BY <2>3, <4>1
    <3> QED BY <2>1, <3>1, <3>2
  <2> HIDE DEF index, score, top, Of, Score, eligible
  <2>5. \A i, j \in index :
           Beats(<<i, Of(i)>>, <<j, Of(j)>>) <=> score[j] < score[i] \/ (score[j] = score[i] /\ j <= i)
    BY <2>1
  <2>6. <<k, Of(k)>> \in eligible /\ \A c \in eligible : Beats(<<k, Of(k)>>, c)
    <3>1. ASSUME NEW c \in eligible PROVE Beats(<<k, Of(k)>>, c)
      <4>1. PICK j \in index : c = <<j, Of(j)>>
        BY <1>3
      <4>2. Beats(<<k, Of(k)>>, <<j, Of(j)>>)
        <5> HIDE DEF Beats
        <5> QED BY <2>4, <2>5
      <4> QED BY <4>1, <4>2
    <3> QED BY <1>3, <2>4, <3>1
  <2> HIDE DEF Beats
  <2>7. PICK d : d = CHOOSE x \in eligible : \A c \in eligible : Beats(x, c)
    OBVIOUS
  <2>8. d \in eligible /\ \A c \in eligible : Beats(d, c)
    BY <2>6, <2>7
  <2>9. PICK i \in index : d = <<i, Of(i)>>
    BY <1>3, <2>8
  <2>10. \A j \in index : score[j] <= score[i]
    <3>1. ASSUME NEW j \in index PROVE score[j] <= score[i]
      <4>1. Beats(<<i, Of(i)>>, <<j, Of(j)>>)
        BY <1>3, <2>8, <2>9
      <4> QED BY <2>1, <2>5, <4>1
    <3> QED BY <3>1
  <2>11. best = Of(i)
    <3>1. eligible # {}
      BY <2>8
    <3>2. best = d[2]
      <4> HIDE DEF best
      <4> QED BY <1>1, <2>7, <3>1
    <3> HIDE DEF best
    <3> QED BY <2>9, <3>2
  <2> HIDE DEF best
  <2>12. best # None /\ best.method = methods[i]
    BY <1>4, <2>11
  <2>13. ~\A j \in DOMAIN methods : ~Eligible(Of(j), prefs)
    BY <1>3, <2>1
  <2>14. /\ prefs.max_fee # None => best.fee <= prefs.max_fee
         /\ best.method.rail = "Ark" => prefs.ark
         /\ best.method.rail = "Onchain" => sats >= 546
    BY <1>4, <2>11, <2>12
  <2>15. \A j \in DOMAIN methods : Eligible(Of(j), prefs) => Score(Of(j)) <= Score(best)
    BY <1>3, <2>1, <2>10, <2>11
  <2>16. \E j \in DOMAIN methods : best = Of(j) /\ best.method = methods[j]
    BY <2>1, <2>11, <2>12
  <2> USE DEF best, Of, Score
  <2> QED BY <2>12, <2>13, <2>14, <2>15, <2>16
<1> QED BY <1>5, <1>6

================================================================================
