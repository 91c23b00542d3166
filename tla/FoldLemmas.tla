----------------------------- MODULE FoldLemmas -----------------------------
(* Facts about numbers, sets and folds that other proofs cite: induction   *)
(* over the naturals with a set in place of a predicate, extremes, that    *)
(* the function behind FoldLeft, which takes the greatest index of a set   *)
(* of indices last, exists, and what is in sequences that are joined.      *)
EXTENDS Integers, Sequences, SequencesExt, FiniteSetTheorems,
        WellFoundedInduction, TLAPS

-----------------------------------------------------------------------------
(* Extremes and induction.                                                 *)

LEMMA LeastOfNats ==
  ASSUME NEW T, T \subseteq Nat, T # {}
  PROVE  Min(T) \in T /\ \A y \in T : Min(T) <= y
<1> DEFINE R == {ss \in Nat \X Nat : ss[1] < ss[2]}
<1>1. IsWellFoundedOn(R, Nat)
  BY NatLessThanWellFounded DEF OpToRel
<1>2. PICK x \in T : \A y \in T : ~(<<y, x>> \in R)
  BY <1>1, WFMin
<1>3. ASSUME NEW y \in T PROVE x <= y
  <2>1. <<y, x>> \in Nat \X Nat /\ <<y, x>> \notin R /\ x \in Nat /\ y \in Nat
    BY <1>2
  <2>2. ~(y < x)
    BY <2>1
  <2> QED
    BY <2>1, <2>2
<1> QED
  BY <1>3 DEF Min

LEMMA SetInduction ==
  ASSUME NEW S, 0 \in S, \A n \in Nat : n \in S => n + 1 \in S
  PROVE  Nat \subseteq S
<1> DEFINE T == Nat \ S
<1>1. SUFFICES ASSUME T # {} PROVE FALSE
  OBVIOUS
<1> DEFINE n == Min(T)
<1>2. n \in T /\ \A y \in T : n <= y
  BY <1>1, LeastOfNats, T \subseteq Nat
<1> HIDE DEF n
<1>3. n - 1 \in Nat /\ n - 1 \notin T
  BY <1>2
<1> QED
  BY <1>2, <1>3

(* A set of numbers up to n has a greatest: the least of its bounds.       *)
LEMMA GreatestUpTo ==
  ASSUME NEW n \in Nat, NEW T, T \subseteq 0..n, T # {}
  PROVE  Max(T) \in T /\ \A y \in T : Max(T) >= y
<1> DEFINE Bounds == {b \in Nat : \A y \in T : b >= y}
           b == Min(Bounds)
<1>1. b \in Bounds /\ \A c \in Bounds : b <= c
  <2>1. n \in Bounds
    OBVIOUS
  <2>2. Bounds \subseteq Nat /\ Bounds # {}
    BY <2>1
  <2> HIDE DEF Bounds
  <2> QED
    BY <2>2, LeastOfNats
<1> HIDE DEF b
<1>2. b \in Nat /\ \A y \in T : b >= y
  BY <1>1
<1>3. b \in T
  <2> SUFFICES ASSUME b \notin T PROVE FALSE
    OBVIOUS
  <2>1. \A y \in T : y \in Nat /\ y <= b - 1
    BY <1>2
  <2>2. PICK y \in T : y \in Nat /\ y <= b - 1
    BY <2>1
  <2>3. b - 1 \in Nat
    BY <1>2, <2>2
  <2>4. b - 1 \in Bounds
    BY <2>1, <2>3
  <2> QED
    BY <1>1, <1>2, <2>4
<1> QED
  BY <1>2, <1>3 DEF Max

(* A finite set of integers has a greatest and a least element.            *)
LEMMA FiniteExtremes ==
  ASSUME NEW S, S \subseteq Int, IsFiniteSet(S), S # {}
  PROVE  /\ Max(S) \in S /\ \A y \in S : Max(S) >= y
         /\ Min(S) \in S /\ \A y \in S : Min(S) <= y
<1> DEFINE Bounded(T) == (\E m \in T : \A y \in T : m >= y) /\ \E m \in T : \A y \in T : m <= y
           P == {n \in Nat : \A T \in SUBSET S : T # {} /\ Cardinality(T) = n => Bounded(T)}
<1>1. 0 \in P
  <2> SUFFICES ASSUME NEW T \in SUBSET S, Cardinality(T) = 0 PROVE T = {}
    OBVIOUS
  <2> QED
    BY FS_Subset, FS_EmptySet
<1>2. ASSUME NEW n \in Nat, n \in P, NEW T \in SUBSET S, T # {}, Cardinality(T) = n + 1
      PROVE  Bounded(T)
  <2>1. PICK x \in T : TRUE
    BY <1>2
  <2>2. T \ {x} \in SUBSET S /\ T \subseteq Int
    OBVIOUS
  <2>3. Cardinality(T \ {x}) = n
    <3>1. IsFiniteSet(T) /\ Cardinality(T \ {x}) = Cardinality(T) - 1
      BY <2>1, FS_Subset, FS_RemoveElement
    <3> QED
      BY <1>2, <3>1
  <2>4. CASE T \ {x} = {}
    <3>1. T = {x} /\ x \in Int
      BY <2>1, <2>2, <2>4
    <3> QED
      BY <3>1
  <2>5. CASE T \ {x} # {}
    <3>1. Bounded(T \ {x})
      <4> HIDE DEF Bounded
      <4> QED
        BY <1>2, <2>2, <2>3, <2>5
    <3>2. PICK a \in T \ {x}, b \in T \ {x} : \A y \in T \ {x} : a >= y /\ b <= y
      BY <3>1
    <3>3. /\ a \in Int /\ b \in Int /\ x \in Int
          /\ \A y \in T : y \in Int /\ (y = x \/ y \in T \ {x})
      BY <2>1, <2>2
    <3>4. \E m \in T : \A y \in T : m >= y
      <4>1. CASE a >= x
        BY <3>2, <3>3, <4>1
      <4>2. CASE x >= a
        BY <2>1, <3>2, <3>3, <4>2
      <4> QED
        BY <3>3, <4>1, <4>2
    <3>5. \E m \in T : \A y \in T : m <= y
      <4>1. CASE b <= x
        BY <3>2, <3>3, <4>1
      <4>2. CASE x <= b
        BY <2>1, <3>2, <3>3, <4>2
      <4> QED
        BY <3>3, <4>1, <4>2
    <3> QED
      BY <3>4, <3>5
  <2> QED
    BY <2>4, <2>5
<1>3. Bounded(S)
  <2> HIDE DEF Bounded
  <2>1. \A n \in Nat : n \in P => n + 1 \in P
    BY <1>2
  <2>2. Cardinality(S) \in P
    <3> HIDE DEF P
    <3> QED
      BY <1>1, <2>1, FS_CardinalityType, SetInduction
  <2> QED
    BY <2>2
<1> QED
  BY <1>3 DEF Max, Min

(* The values of finitely many indices have a greatest and a least.        *)
LEMMA ManyExtremes ==
  ASSUME NEW n \in Nat, n > 0, NEW f \in [1..n -> Int], NEW T, T = {f[i] : i \in 1..n}
  PROVE  /\ T \subseteq Int
         /\ Max(T) \in T /\ \A y \in T : Max(T) >= y
         /\ Min(T) \in T /\ \A y \in T : Min(T) <= y
<1>1. IsFiniteSet(1..n)
  BY FS_Interval
<1>2. f \in Surjection(1..n, T)
  BY DEF Surjection
<1>3. IsFiniteSet(T)
  BY <1>1, <1>2, FS_Surjection
<1>4. T \subseteq Int /\ f[1] \in T
  OBVIOUS
<1> QED
  BY <1>3, <1>4, FiniteExtremes

LEMMA LesserAndGreater ==
  ASSUME NEW a \in Int, NEW b \in Int
  PROVE  /\ Min({a, b}) = IF a <= b THEN a ELSE b
         /\ Max({a, b}) = IF a <= b THEN b ELSE a
<1> DEFINE f == [i \in 1..2 |-> IF i = 1 THEN a ELSE b]
<1>1. f \in [1..2 -> Int] /\ {a, b} = {f[i] : i \in 1..2}
  OBVIOUS
<1>2. /\ Max({a, b}) \in {a, b} /\ \A y \in {a, b} : Max({a, b}) >= y
      /\ Min({a, b}) \in {a, b} /\ \A y \in {a, b} : Min({a, b}) <= y
  <2> DEFINE T == {a, b}
  <2>1. T = {f[i] : i \in 1..2}
    BY <1>1
  <2> HIDE DEF f, T
  <2>2. /\ Max(T) \in T /\ \A y \in T : Max(T) >= y
        /\ Min(T) \in T /\ \A y \in T : Min(T) <= y
    BY <1>1, <2>1, ManyExtremes, 2 \in Nat, 2 > 0
  <2> QED
    BY <2>2 DEF T
<1> QED
  BY <1>2

-----------------------------------------------------------------------------
(* Folds.                                                                  *)

LEMMA GreatestIndex ==
  ASSUME NEW n \in Nat, NEW s \in SUBSET (1..n), s # {}
  PROVE  Max(s) \in s /\ \A i \in s : i <= Max(s)
<1>1. s \subseteq 0..n
  OBVIOUS
<1>2. Max(s) \in s /\ \A i \in s : Max(s) >= i
  BY <1>1, GreatestUpTo
<1> QED
  BY <1>2

LEMMA LastIndex ==
  ASSUME NEW k \in Nat
  PROVE  1..(k + 1) # {} /\ Max(1..(k + 1)) = k + 1 /\ (1..(k + 1)) \ {k + 1} = 1..k
<1>1. 1..(k + 1) # {} /\ (1..(k + 1)) \ {k + 1} = 1..k /\ k + 1 \in 1..(k + 1)
  OBVIOUS
<1>2. Max(1..(k + 1)) \in 1..(k + 1) /\ k + 1 <= Max(1..(k + 1))
  <2>1. k + 1 \in Nat /\ 1..(k + 1) \in SUBSET (1..(k + 1))
    OBVIOUS
  <2> QED
    BY <1>1, <2>1, GreatestIndex
<1> QED
  BY <1>1, <1>2

Folds(f, n, base, step) ==
  \A s \in SUBSET (1..n) :
    f[s] = IF s = {} THEN base ELSE step[<<Max(s), f[s \ {Max(s)}]>>]

LEMMA FoldExists ==
  ASSUME NEW n \in Nat, NEW D, NEW base \in D, NEW step \in [(1..n) \X D -> D]
  PROVE  \E f \in [SUBSET (1..n) -> D] : Folds(f, n, base, step)
<1> DEFINE Fold(k) == \E f \in [SUBSET (1..k) -> D] : Folds(f, k, base, step)
           P == {k \in Nat : k <= n => Fold(k)}
<1>1. 0 \in P
  <2> DEFINE f == [s \in SUBSET (1..0) |-> base]
  <2>1. f \in [SUBSET (1..0) -> D] /\ \A s \in SUBSET (1..0) : s = {} /\ f[s] = base
    OBVIOUS
  <2>2. Folds(f, 0, base, step)
    BY <2>1 DEF Folds
  <2> QED
    BY <2>1, <2>2
<1>2. ASSUME NEW k \in Nat, k \in P, k + 1 <= n
      PROVE  Fold(k + 1)
  <2>1. PICK f \in [SUBSET (1..k) -> D] : Folds(f, k, base, step)
    <3>1. Fold(k)
      <4> HIDE DEF Fold
      <4> QED
        BY <1>2
    <3> QED
      BY <3>1
  <2> DEFINE g == [s \in SUBSET (1..(k + 1)) |->
                     IF k + 1 \in s THEN step[<<k + 1, f[s \ {k + 1}]>>] ELSE f[s]]
  <2>2. ASSUME NEW s \in SUBSET (1..(k + 1))
        PROVE  s \ {k + 1} \in SUBSET (1..k) /\ (k + 1 \notin s => s \in SUBSET (1..k))
    BY <2>2
  <2>3. g \in [SUBSET (1..(k + 1)) -> D]
    BY <1>2, <2>1, <2>2
  <2>4. ASSUME NEW s \in SUBSET (1..(k + 1))
        PROVE  g[s] = IF s = {} THEN base ELSE step[<<Max(s), g[s \ {Max(s)}]>>]
    <3>1. CASE k + 1 \in s
      <4>1. Max(s) = k + 1
        <5>1. k + 1 \in Nat /\ s # {}
          BY <3>1
        <5>2. Max(s) \in s /\ k + 1 <= Max(s)
          BY <3>1, <5>1, GreatestIndex
        <5>3. Max(s) \in 1..(k + 1)
          BY <5>2
        <5> HIDE DEF g
        <5> QED
          BY <5>1, <5>2, <5>3
      <4>2. g[s \ {k + 1}] = f[s \ {k + 1}]
        BY <2>2
      <4>3. g[s] = step[<<k + 1, f[s \ {k + 1}]>>]
        BY <3>1
      <4> QED
        BY <3>1, <4>1, <4>2, <4>3
    <3>2. CASE k + 1 \notin s
      <4>1. s \in SUBSET (1..k) /\ g[s] = f[s]
        BY <2>2, <3>2
      <4>2. s # {} => Max(s) \in s /\ g[s \ {Max(s)}] = f[s \ {Max(s)}]
        BY <3>2, <4>1, GreatestIndex
      <4> QED
        BY <2>1, <4>1, <4>2 DEF Folds
    <3> QED
      BY <3>1, <3>2
  <2> HIDE DEF g
  <2>5. Folds(g, k + 1, base, step)
    BY <2>4 DEF Folds
  <2> QED
    BY <2>3, <2>5
<1>3. \A k \in Nat : k \in P => k + 1 \in P
  <2> HIDE DEF Fold
  <2> QED
    BY <1>2
<1>4. n \in P
  <2> HIDE DEF P
  <2> QED
    BY <1>1, <1>3, SetInduction
<1>5. Fold(n)
  <2> HIDE DEF Fold
  <2> QED
    BY <1>4
<1> QED
  BY <1>5

(* A function that obeys the equation of a fold wherever the value before  *)
(* is typed passes the elements one after the other.                       *)
Obeys(f, n, D, base, step) ==
  /\ base \in D /\ step \in [(1..n) \X D -> D] /\ f[{}] = base
  /\ \A s \in SUBSET (1..n) : s # {} /\ Max(s) \in 1..n /\ f[s \ {Max(s)}] \in D
       => f[s] = step[<<Max(s), f[s \ {Max(s)}]>>]

Passes(w, n, D, base, step) ==
  /\ w \in [0..n -> D] /\ w[0] = base
  /\ \A k \in 1..n : w[k] = step[<<k, w[k - 1]>>]

LEMMA FoldPasses ==
  ASSUME NEW n \in Nat, NEW D, NEW base, NEW step, NEW f, Obeys(f, n, D, base, step)
  PROVE  \E w : Passes(w, n, D, base, step) /\ f[1..n] = w[n]
<1>0. base \in D /\ step \in [(1..n) \X D -> D]
  BY DEF Obeys
<1> DEFINE w == [k \in 0..n |-> f[1..k]]
           P == {k \in Nat : k <= n => w[k] \in D}
<1>1. w[0] = base
  <2>1. 1..0 = {}
    OBVIOUS
  <2> QED
    BY <2>1 DEF Obeys
<1>2. ASSUME NEW k \in Nat, k + 1 <= n, w[k] \in D
      PROVE  w[k + 1] = step[<<k + 1, w[k]>>] /\ w[k + 1] \in D
  <2>1. 1..(k + 1) # {} /\ Max(1..(k + 1)) = k + 1 /\ (1..(k + 1)) \ {k + 1} = 1..k
    BY LastIndex
  <2>2. 1..(k + 1) \in SUBSET (1..n) /\ k + 1 \in 1..n /\ k + 1 \in 0..n /\ k \in 0..n
    BY <1>2
  <2>3. f[1..(k + 1)] = step[<<k + 1, f[1..k]>>]
    BY <1>2, <2>1, <2>2 DEF Obeys
  <2> QED
    BY <1>0, <1>2, <2>2, <2>3
<1> HIDE DEF w
<1>3. \A k \in Nat : k \in P
  <2>0. 0 \in P
    BY <1>0, <1>1
  <2>1. ASSUME NEW k \in Nat, k \in P PROVE k + 1 \in P
    <3>1. ASSUME k + 1 <= n PROVE w[k + 1] \in D
      <4>1. k <= n
        BY <3>1
      <4> QED
        BY <1>2, <2>1, <3>1, <4>1
    <3> QED
      BY <3>1
  <2> HIDE DEF P
  <2> QED
    BY <2>0, <2>1, SetInduction
<1>4. w \in [0..n -> D]
  <2>1. \A k \in 0..n : w[k] \in D
    BY <1>3
  <2> QED
    BY <2>1 DEF w
<1>5. ASSUME NEW k \in 1..n PROVE w[k] = step[<<k, w[k - 1]>>]
  <2>1. k - 1 \in Nat /\ (k - 1) + 1 = k /\ k - 1 \in 0..n
    OBVIOUS
  <2> QED
    BY <1>2, <1>4, <2>1
<1>6. f[1..n] = w[n]
  BY DEF w
<1> QED
  BY <1>1, <1>4, <1>5, <1>6 DEF Passes

(* For any base and step there are such values.                            *)
LEMMA Accumulates ==
  ASSUME NEW n \in Nat, NEW D, NEW base \in D, NEW step \in [(1..n) \X D -> D]
  PROVE  \E w : Passes(w, n, D, base, step)
<1>1. PICK g \in [SUBSET (1..n) -> D] : Folds(g, n, base, step)
  BY FoldExists
<1>2. Obeys(g, n, D, base, step)
  <2>1. g[{}] = base
    BY <1>1 DEF Folds
  <2>2. \A s \in SUBSET (1..n) : s # {} => g[s] = step[<<Max(s), g[s \ {Max(s)}]>>]
    BY <1>1 DEF Folds
  <2> QED
    BY <2>1, <2>2 DEF Obeys
<1> QED
  BY <1>2, FoldPasses

(* Sequences one after the other: what is in the whole is in one of them.  *)
LEMMA Joined ==
  ASSUME NEW S, NEW s \in Seq(S), NEW t \in Seq(S)
  PROVE  s \o t \in Seq(S) /\ Range(s \o t) = Range(s) \cup Range(t)
<1>1. /\ s \o t \in Seq(S) /\ DOMAIN (s \o t) = 1..(Len(s) + Len(t))
      /\ DOMAIN s = 1..Len(s) /\ DOMAIN t = 1..Len(t) /\ Len(s) \in Nat /\ Len(t) \in Nat
  OBVIOUS
<1>2. \A i \in 1..(Len(s) + Len(t)) :
        (s \o t)[i] = IF i <= Len(s) THEN s[i] ELSE t[i - Len(s)]
  OBVIOUS
<1>3. Range(s \o t) \subseteq Range(s) \cup Range(t)
  <2>1. \A i \in 1..(Len(s) + Len(t)) : i \in 1..Len(s) \/ i - Len(s) \in 1..Len(t)
    BY <1>1
  <2> QED
    BY <1>1, <1>2, <2>1 DEF Range
<1>4. Range(s) \subseteq Range(s \o t)
  <2>1. \A i \in 1..Len(s) : i \in 1..(Len(s) + Len(t)) /\ i <= Len(s)
    BY <1>1
  <2> QED
    BY <1>1, <1>2, <2>1 DEF Range
<1>5. Range(t) \subseteq Range(s \o t)
  <2>1. \A i \in 1..Len(t) : /\ Len(s) + i \in 1..(Len(s) + Len(t)) /\ ~(Len(s) + i <= Len(s))
                             /\ (Len(s) + i) - Len(s) = i
    BY <1>1
  <2>2. \A i \in 1..Len(t) : (s \o t)[Len(s) + i] = t[i]
    BY <1>2, <2>1
  <2> QED
    BY <1>1, <2>1, <2>2 DEF Range
<1> QED
  BY <1>1, <1>3, <1>4, <1>5

LEMMA Flattened ==
  ASSUME NEW S, NEW ss \in Seq(Seq(S))
  PROVE  /\ FlattenSeq(ss) \in Seq(S)
         /\ Range(FlattenSeq(ss)) = UNION {Range(ss[i]) : i \in 1..Len(ss)}
<1> DEFINE n == Len(ss)
           D == Seq(S)
           step == [x \in (1..n) \X D |-> x[2] \o ss[x[1]]]
           F == CHOOSE f : f = [i \in 1..n |-> IF i = 1 THEN ss[i] ELSE f[i - 1] \o ss[i]]
<1>1. n \in Nat /\ DOMAIN ss = 1..n /\ \A i \in 1..n : ss[i] \in D
  OBVIOUS
<1>2. CASE n = 0
  <2>1. ss = <<>> /\ FlattenSeq(ss) = <<>>
    BY <1>2 DEF FlattenSeq
  <2>2. Range(<<>>) = {} /\ 1..0 = {} /\ <<>> \in Seq(S)
    BY DEF Range
  <2> QED
    BY <1>2, <2>1, <2>2
<1>3. CASE n # 0
  <2>1. FlattenSeq(ss) = F[n]
    BY <1>3 DEF FlattenSeq
  <2>2. <<>> \in D /\ step \in [(1..n) \X D -> D]
    BY <1>1
  <2> HIDE DEF n
  <2>3. PICK w : Passes(w, n, D, <<>>, step)
    <3> HIDE DEF D, step
    <3> QED
      BY <1>1, <2>2, Accumulates
  <2>4. /\ w \in [0..n -> D] /\ w[0] = <<>>
        /\ \A k \in 1..n : w[k] = w[k - 1] \o ss[k]
    <3>1. \A k \in 1..n : k - 1 \in 0..n
      BY <1>1
    <3> QED
      BY <2>3, <3>1 DEF Passes
  <2>5. F = [i \in 1..n |-> IF i = 1 THEN ss[i] ELSE F[i - 1] \o ss[i]]
    <3> DEFINE g == [i \in 1..n |-> w[i]]
    <3>1. ASSUME NEW i \in 1..n PROVE g[i] = IF i = 1 THEN ss[i] ELSE g[i - 1] \o ss[i]
      <4>1. CASE i = 1
        <5>0. 1 \in 1..n /\ 1 - 1 = 0
          BY <4>1
        <5>1. w[1] = w[0] \o ss[1] /\ ss[1] \in Seq(S)
          BY <1>1, <2>4, <5>0
        <5>2. <<>> \o ss[1] = ss[1]
          BY <5>1
        <5> QED
          BY <2>4, <4>1, <5>1, <5>2
      <4>2. CASE i # 1
        <5>1. i - 1 \in 1..n
          BY <1>1, <4>2
        <5> QED
          BY <2>4, <4>2, <5>1
      <4> QED
        BY <4>1, <4>2
    <3>2. g = [i \in 1..n |-> IF i = 1 THEN ss[i] ELSE g[i - 1] \o ss[i]]
      BY <3>1
    <3> HIDE DEF g
    <3> QED
      BY <3>2
  <2> HIDE DEF F
  <2> DEFINE OK(k) == F[k + 1] \in D /\ Range(F[k + 1]) = UNION {Range(ss[i]) : i \in 1..(k + 1)}
             P == {k \in Nat : k + 1 <= n => OK(k)}
  <2>6. 0 \in P
    <3>1. 1 <= n /\ 0 + 1 = 1 /\ 1..1 = {1} /\ 1 \in 1..n
      BY <1>1, <1>3
    <3>2. F[1] = ss[1]
      BY <2>5, <3>1
    <3> QED
      BY <1>1, <3>1, <3>2
  <2>7. ASSUME NEW k \in Nat, k \in P, (k + 1) + 1 <= n PROVE OK(k + 1)
    <3>1. /\ k + 1 \in 1..n /\ (k + 1) + 1 \in 1..n /\ (k + 1) + 1 # 1
          /\ ((k + 1) + 1) - 1 = k + 1 /\ k + 1 <= n
      BY <1>1, <2>7
    <3>2. F[(k + 1) + 1] = F[k + 1] \o ss[(k + 1) + 1]
      BY <2>5, <3>1
    <3>3. F[k + 1] \in D /\ Range(F[k + 1]) = UNION {Range(ss[i]) : i \in 1..(k + 1)}
      BY <2>7, <3>1
    <3>4. ss[(k + 1) + 1] \in D
      BY <1>1, <3>1
    <3>5. \A s, t \in Seq(S) : s \o t \in Seq(S) /\ Range(s \o t) = Range(s) \cup Range(t)
      BY Joined
    <3>6. Range(F[(k + 1) + 1]) = Range(F[k + 1]) \cup Range(ss[(k + 1) + 1]) /\ F[(k + 1) + 1] \in D
      BY <3>2, <3>3, <3>4, <3>5
    <3>7. 1..((k + 1) + 1) = 1..(k + 1) \cup {(k + 1) + 1}
      OBVIOUS
    <3> QED
      BY <3>3, <3>6, <3>7
  <2>8. OK(n - 1)
    <3> HIDE DEF OK
    <3>1. \A k \in Nat : k \in P => k + 1 \in P
      <4>1. ASSUME NEW k \in Nat, k \in P PROVE k + 1 \in P
        <5>1. (k + 1) + 1 <= n => OK(k + 1)
          BY <2>7, <4>1
        <5>2. k + 1 \in Nat
          OBVIOUS
        <5> QED
          BY <5>1, <5>2
      <4> QED
        BY <4>1
    <3>2. n - 1 \in Nat /\ (n - 1) + 1 = n
      BY <1>1, <1>3
    <3>3. n - 1 \in P
      <4> HIDE DEF P
      <4> QED
        BY <2>6, <3>1, <3>2, SetInduction
    <3> QED
      BY <3>2, <3>3
  <2>9. (n - 1) + 1 = n
    BY <1>1
  <2> QED
    BY <2>1, <2>8, <2>9 DEF n
<1> QED
  BY <1>2, <1>3
=============================================================================
