----------------------------- MODULE CommonLemmas ------------------------------
(* Lemmas about prefixes of sequences and about numbers, used by several proofs. *)
EXTENDS Integers, SequencesExt, SequenceTheorems, WellFoundedInduction, TLAPS

\* IsPrefix, element by element.
LEMMA IsPrefixElements ==
    ASSUME NEW S, NEW s \in Seq(S), NEW t \in Seq(S)
    PROVE  IsPrefix(s, t) <=> /\ Len(s) <= Len(t)
                              /\ \A i \in 1..Len(s) : s[i] = t[i]
<1>1. ASSUME IsPrefix(s, t)
      PROVE  Len(s) <= Len(t) /\ \A i \in 1..Len(s) : s[i] = t[i]
  <2>1. Len(s) <= Len(t) /\ SubSeq(s, 1, Len(s)) = SubSeq(t, 1, Len(s))
    BY <1>1 DEF IsPrefix
  <2>2. \A i \in 1..Len(s) : SubSeq(s, 1, Len(s))[i] = s[i] /\ SubSeq(t, 1, Len(s))[i] = t[i]
    BY <2>1
  <2> QED BY <2>1, <2>2
<1>2. ASSUME Len(s) <= Len(t), \A i \in 1..Len(s) : s[i] = t[i]
      PROVE  IsPrefix(s, t)
  BY <1>2 DEF IsPrefix
<1> QED BY <1>1, <1>2

\* A prefix stays one when the longer sequence grows.
LEMMA IsPrefixGrows ==
    ASSUME NEW S, NEW s \in Seq(S), NEW t \in Seq(S), NEW e \in S, IsPrefix(s, t)
    PROVE  IsPrefix(s, Append(t, e))
<1>1. Append(t, e) \in Seq(S)
  OBVIOUS
<1>2. Len(s) <= Len(Append(t, e)) /\ \A i \in 1..Len(s) : s[i] = Append(t, e)[i]
  BY IsPrefixElements
<1> QED BY <1>1, <1>2, IsPrefixElements

\* A prefix of the same length is the sequence.
LEMMA IsPrefixSameLength ==
    ASSUME NEW S, NEW s \in Seq(S), NEW t \in Seq(S), IsPrefix(s, t), Len(s) = Len(t)
    PROVE  s = t
<1>1. \A i \in 1..Len(s) : s[i] = t[i]
  BY IsPrefixElements
<1> QED BY <1>1, SeqEqual

\* A sequence is a prefix of itself, and of itself with one more element.
LEMMA PrefixOfLonger ==
    ASSUME NEW S, NEW s \in Seq(S), NEW x \in S
    PROVE  IsPrefix(s, Append(s, x)) /\ IsPrefix(s, s)
  BY DEF IsPrefix

\* Prefixes chain.
LEMMA IsPrefixTransitive ==
    ASSUME NEW S, NEW s \in Seq(S), NEW t \in Seq(S), NEW u \in Seq(S),
           IsPrefix(s, t), IsPrefix(t, u)
    PROVE  IsPrefix(s, u)
<1>1. Len(s) <= Len(t) /\ \A i \in 1..Len(s) : s[i] = t[i]
  BY IsPrefixElements
<1>2. Len(t) <= Len(u) /\ \A i \in 1..Len(t) : t[i] = u[i]
  BY IsPrefixElements
<1>3. Len(s) <= Len(u) /\ \A i \in 1..Len(s) : s[i] = u[i]
  BY <1>1, <1>2
<1> QED BY <1>3, IsPrefixElements

\* Two prefixes of one sequence do not fork.
LEMMA PrefixesComparable ==
    ASSUME NEW S, NEW s \in Seq(S), NEW t \in Seq(S), NEW u \in Seq(S),
           IsPrefix(s, u), IsPrefix(t, u)
    PROVE  IsPrefix(s, t) \/ IsPrefix(t, s)
<1>1. Len(s) <= Len(u) /\ \A i \in 1..Len(s) : s[i] = u[i]
  BY IsPrefixElements
<1>2. Len(t) <= Len(u) /\ \A i \in 1..Len(t) : t[i] = u[i]
  BY IsPrefixElements
<1>3. CASE Len(s) <= Len(t)
  <2>1. \A i \in 1..Len(s) : s[i] = t[i]
    BY <1>1, <1>2, <1>3
  <2> QED BY <1>3, <2>1, IsPrefixElements
<1>4. CASE Len(t) <= Len(s)
  <2>1. \A i \in 1..Len(t) : t[i] = s[i]
    BY <1>1, <1>2, <1>4
  <2> QED BY <1>4, <2>1, IsPrefixElements
<1> QED BY <1>3, <1>4

--------------------------------------------------------------------------------
(* Numbers *)

\* Every non-empty set of naturals has a least element.
LEMMA LeastNatural ==
    ASSUME NEW T \in SUBSET Nat, T # {}
    PROVE  \E x \in T : \A y \in T : x <= y
<1> DEFINE R == {ss \in Nat \X Nat : ss[1] < ss[2]}
<1>1. IsWellFoundedOn(R, Nat)
  BY NatLessThanWellFounded DEF OpToRel
<1> HIDE DEF R
<1>2. PICK x \in T : \A y \in T : ~ (<<y, x>> \in R)
  BY <1>1, WFMin
<1>3. \A y \in T : ~(y < x)
  BY <1>2 DEF R
<1> QED BY <1>3

\* A set of indices of a sequence has a last one.
LEMMA LastIndex ==
    ASSUME NEW n \in Nat, NEW I \in SUBSET (1..n), I # {}
    PROVE  \E i \in I : \A j \in I : j <= i
<1> DEFINE T == {m \in Nat : \E i \in I : m = n - i}
<1>1. PICK i0 \in I : TRUE
  OBVIOUS
<1>2. n - i0 \in T
  BY <1>1
<1>3. PICK t \in T : \A y \in T : t <= y
  BY <1>2, LeastNatural
<1>4. PICK i \in I : t = n - i
  OBVIOUS
<1>5. ASSUME NEW j \in I PROVE j <= i
  <2>1. n - j \in T
    OBVIOUS
  <2>2. t <= n - j
    BY <2>1, <1>3
  <2> QED BY <2>2, <1>4
<1> QED BY <1>5

\* The first index of a set (SelectInSeq).
LEMMA FirstIndex ==
    ASSUME NEW n \in Nat, NEW I \in SUBSET (1..n), I # {}
    PROVE  Min(I) \in I /\ Min(I) # 0 /\ \A j \in I : Min(I) <= j
<1>1. I \in SUBSET Nat
  OBVIOUS
<1>2. \E x \in I : \A y \in I : x <= y
  BY <1>1, LeastNatural
<1>3. Min(I) \in I /\ \A y \in I : Min(I) <= y
  BY <1>2 DEF Min
<1> QED BY <1>3

\* Of finitely many numbers one is the largest.
LEMMA Largest ==
    ASSUME NEW n \in Nat, NEW I \in SUBSET (1 .. n), I # {}, NEW f, \A i \in I : f[i] \in Int
    PROVE  \E i \in I : \A j \in I : f[j] <= f[i]
<1> DEFINE Upto(k) == {i \in I : i <= k}
           HasLargest(k) == \E i \in Upto(k) : \A j \in Upto(k) : f[j] <= f[i]
           T == {k \in Nat : Upto(k) # {} /\ ~HasLargest(k)}
<1>0. \A i \in I : i \in Nat /\ 1 <= i /\ i <= n
  OBVIOUS
<1>1. CASE T = {}
  <2>1. Upto(n) = I
    BY <1>0
  <2>2. HasLargest(n)
    BY <1>1, <2>1
  <2> QED BY <2>1, <2>2
<1>2. CASE T # {}
  <2>1. T \in SUBSET Nat
    OBVIOUS
  <2>2. PICK k \in T : \A l \in T : k <= l
    <3> HIDE DEF T
    <3> QED BY <1>2, <2>1, LeastNatural
  <2>3. k \in Nat /\ Upto(k) # {} /\ ~HasLargest(k) /\ k > 0
    <3>1. k \in Nat /\ Upto(k) # {} /\ ~HasLargest(k)
      BY <2>2
    <3>2. PICK i \in I : i <= k
      BY <3>1
    <3> QED BY <1>0, <3>1, <3>2
  <2>4. k - 1 \in Nat /\ k - 1 \notin T
    BY <2>2, <2>3
  <2>5. CASE Upto(k - 1) = {}
    <3>1. Upto(k) \subseteq {k}
      <4>1. \A i \in I : ~(i <= k - 1)
        BY <2>5
      <4>2. \A i \in I : i <= k => i = k
        BY <1>0, <2>3, <4>1
      <4> QED BY <4>2
    <3>2. Upto(k) = {k}
      BY <2>3, <3>1
    <3>3. HasLargest(k)
      BY <3>2
    <3> QED BY <2>3, <3>3
  <2>6. CASE Upto(k - 1) # {}
    <3>1. PICK m \in Upto(k - 1) : \A j \in Upto(k - 1) : f[j] <= f[m]
      BY <2>4, <2>6
    <3>2. m \in Upto(k) /\ \A j \in Upto(k) : j \in Upto(k - 1) \/ j = k
      BY <1>0, <2>3, <3>1
    <3>3. CASE k \notin I
      <4>1. \A j \in Upto(k) : f[j] <= f[m]
        BY <3>1, <3>2, <3>3
      <4> QED BY <2>3, <3>2, <4>1
    <3>4. CASE k \in I /\ f[k] <= f[m]
      <4>1. \A j \in Upto(k) : f[j] <= f[m]
        BY <3>1, <3>2, <3>4
      <4> QED BY <2>3, <3>2, <4>1
    <3>5. CASE k \in I /\ ~(f[k] <= f[m])
      <4>1. k \in Upto(k) /\ \A j \in Upto(k) : f[j] <= f[k]
        BY <2>3, <3>1, <3>2, <3>5
      <4> QED BY <2>3, <4>1
    <3> QED BY <3>3, <3>4, <3>5
  <2> QED BY <2>5, <2>6
<1> QED BY <1>1, <1>2

================================================================================
