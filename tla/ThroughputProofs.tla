-------------------------- MODULE ThroughputProofs --------------------------
(***************************************************************************)
(* Theorems about Throughput, for every value of its constants: the types  *)
(* of its state, that an estimate stays within its samples, that an entry  *)
(* belongs to one pair of addresses and one host, that a fragment is asked *)
(* for at the right bitrate, and that its log line is its own.             *)
(***************************************************************************)
EXTENDS Throughput, NumberLemmas

(* Quotients cut towards zero *)

LEMMA TruncInt ==
    ASSUME NEW x \in Int, NEW y \in Nat \ {0}
    PROVE  Trunc(x, y) \in Int /\ (x >= 0 => Trunc(x, y) >= 0) /\ (x < 0 => Trunc(x, y) <= 0)
<1>1. CASE x >= 0
  BY <1>1, Quotient DEF Trunc
<1>2. CASE x < 0
  <2>1. -x \in Nat
    BY <1>2
  <2>2. (-x) \div y \in Nat
    BY <2>1, Quotient
  <2> QED
    BY <1>2, <2>2 DEF Trunc
<1> QED
  BY <1>1, <1>2

\* Of two quotients the larger is not cut below the smaller.
LEMMA TruncOrder ==
    ASSUME NEW a \in Int, NEW b \in Nat \ {0}, NEW c \in Int, NEW d \in Nat \ {0},
           a * d <= c * b
    PROVE  Trunc(a, b) <= Trunc(c, d)
<1>1. CASE a >= 0 /\ c >= 0
  <2>1. a \in Nat /\ c \in Nat
    BY <1>1
  <2>2. a \div b <= c \div d
    BY <2>1, QuotientOrder
  <2> QED
    BY <1>1, <2>2 DEF Trunc
<1>2. CASE a < 0 /\ c >= 0
  BY <1>2, TruncInt
<1>3. CASE a >= 0 /\ c < 0
  <2>1. 0 <= a * d
    BY <1>3, SMT
  <2>2. c * b < 0
    BY <1>3, SMT
  <2> QED
    BY <2>1, <2>2, SMT
<1>4. CASE a < 0 /\ c < 0
  <2>1. (-c) * b <= (-a) * d
    <3>1. (-c) * b = -(c * b) /\ (-a) * d = -(a * d) /\ c * b \in Int /\ a * d \in Int
      BY SMT
    <3> QED
      BY <3>1, SMT
  <2>2. -c \in Nat /\ -a \in Nat
    BY <1>4
  <2>3. (-c) \div d <= (-a) \div b
    BY <2>1, <2>2, QuotientOrder
  <2>4. (-c) \div d \in Nat /\ (-a) \div b \in Nat
    BY <2>2, Quotient
  <2>5. Trunc(a, b) = -((-a) \div b) /\ Trunc(c, d) = -((-c) \div d)
    BY <1>4 DEF Trunc
  <2> QED
    BY <2>3, <2>4, <2>5
<1> QED
  BY <1>1, <1>2, <1>3, <1>4

LEMMA TruncWhole ==
    ASSUME NEW x \in Int
    PROVE  Trunc(x, 1) = x
<1>1. \A n \in Nat : n \div 1 = n
  BY SMT
<1> QED
  BY <1>1 DEF Trunc

(* The average *)

\* An entry's estimate after a sample: it, the sample and the old estimate.
Between(x, a, b) == (a <= x /\ x <= b) \/ (b <= x /\ x <= a)

\* The mean of a sample and a number lies between the two.
LEMMA MixedBetween ==
    ASSUME NEW num \in Int, NEW den \in Nat \ {0}, NEW avg \in Int
    PROVE  LET m == Mixed([num |-> num, den |-> den], avg)
           IN  /\ m.num \in Int /\ m.den \in Nat \ {0}
               /\ num <= avg * den => num * m.den <= m.num * den /\ m.num <= avg * m.den
               /\ num >= avg * den => num * m.den >= m.num * den /\ m.num >= avg * m.den
<1> DEFINE A == ALPHA
           B == SCALE - ALPHA
           v == avg * den
<1>1. A \in Nat /\ B \in Nat /\ SCALE = A + B /\ SCALE \in Nat \ {0} /\ v \in Int
  BY ThroughputAssumption, SMT
<1>2. Mixed([num |-> num, den |-> den], avg) = [num |-> A * num + B * avg * den, den |-> SCALE * den]
  BY DEF Mixed
<1> DEFINE M == A * num + B * v
<1>3. B * avg * den = B * v /\ M \in Int /\ SCALE * den \in Nat \ {0}
  BY <1>1, SMT
<1>4. /\ M = SCALE * num + B * (v - num)
      /\ M = SCALE * v - A * (v - num)
  BY <1>1, SMT
<1>5. /\ num * (SCALE * den) = (SCALE * num) * den
      /\ avg * (SCALE * den) = SCALE * v
  BY <1>1, SMT
<1> HIDE DEF A, B, v, M
<1>6. ASSUME num <= v
      PROVE  num * (SCALE * den) <= M * den /\ M <= avg * (SCALE * den)
  <2>1. 0 <= B * (v - num) /\ 0 <= A * (v - num)
    BY <1>1, <1>6, Product, SMT
  <2>2. SCALE * num <= M /\ M <= SCALE * v
    BY <1>1, <1>3, <1>4, <2>1, SMT
  <2>3. (SCALE * num) * den <= M * den
    BY <1>1, <1>3, <2>2, Product, SMT
  <2> QED
    BY <2>2, <2>3, <1>5
<1>7. ASSUME num >= v
      PROVE  num * (SCALE * den) >= M * den /\ M >= avg * (SCALE * den)
  <2>1. 0 <= B * (num - v) /\ 0 <= A * (num - v)
    BY <1>1, <1>7, Product, SMT
  <2>2. B * (num - v) = -(B * (v - num)) /\ A * (num - v) = -(A * (v - num))
    BY <1>1, SMT
  <2>3. M <= SCALE * num /\ SCALE * v <= M
    BY <1>1, <1>3, <1>4, <2>1, <2>2, SMT
  <2>4. M * den <= (SCALE * num) * den
    BY <1>1, <1>3, <2>3, Product, SMT
  <2> QED
    BY <2>3, <2>4, <1>5
<1> QED
  BY <1>1, <1>2, <1>3, <1>6, <1>7 DEF M, v

\* Cut to an int the mean lies between the sample, cut, and the number.
LEMMA MixedCut ==
    ASSUME NEW num \in Int, NEW den \in Nat \ {0}, NEW avg \in Int
    PROVE  LET m == Mixed([num |-> num, den |-> den], avg)
           IN  Between(Trunc(m.num, m.den), Trunc(num, den), avg)
<1> DEFINE m == Mixed([num |-> num, den |-> den], avg)
<1>1. m.num \in Int /\ m.den \in Nat \ {0}
  BY MixedBetween
<1>2. avg * den \in Int /\ Trunc(avg, 1) = avg
  BY TruncWhole, SMT
<1>3. CASE num <= avg * den
  <2>1. num * m.den <= m.num * den /\ m.num <= avg * m.den
    BY <1>3, MixedBetween
  <2>2. Trunc(num, den) <= Trunc(m.num, m.den)
    BY <1>1, <2>1, TruncOrder
  <2>3. Trunc(m.num, m.den) <= Trunc(avg, 1)
    <3>1. m.num * 1 <= avg * m.den
      BY <1>1, <2>1, SMT
    <3> QED
      BY <1>1, <3>1, TruncOrder
  <2> QED
    BY <1>2, <2>2, <2>3 DEF Between
<1>4. CASE num >= avg * den
  <2>1. num * m.den >= m.num * den /\ m.num >= avg * m.den
    BY <1>4, MixedBetween
  <2>2. Trunc(m.num, m.den) <= Trunc(num, den)
    <3>1. m.num * den <= num * m.den
      BY <1>1, <2>1, SMT
    <3> QED
      BY <1>1, <3>1, TruncOrder
  <2>3. Trunc(avg, 1) <= Trunc(m.num, m.den)
    <3>1. avg * m.den <= m.num * 1
      BY <1>1, <2>1, SMT
    <3> QED
      BY <1>1, <3>1, TruncOrder
  <2> QED
    BY <1>2, <2>2, <2>3 DEF Between
<1> QED
  BY <1>2, <1>3, <1>4, SMT

\* ToInt of a sample is one of the values it counts for, each an int.
LEMMA ValuesSound ==
    ASSUME NEW num \in Int, NEW den \in Nat
    PROVE  LET V == Values([num |-> num, den |-> den])
           IN  V \subseteq Int /\ IsFiniteSet(V) /\ ToInt(num, den) \in V /\ ToInt(num, den) \in ints
<1>1. ToInt(num, den) \in ints
  BY ThroughputAssumption DEF ToInt, ints
<1>2. den # 0 => Trunc(num, den) \in Int
  BY TruncInt
<1>3. Values([num |-> num, den |-> den]) = {ToInt(num, den)} \cup
          (IF den = 0 THEN {} ELSE {Trunc(num, den)})
  BY DEF Values
<1>4. /\ IsFiniteSet({ToInt(num, den)}) /\ IsFiniteSet({}) /\ IsFiniteSet({Trunc(num, den)})
      /\ IsFiniteSet({ToInt(num, den)} \cup {Trunc(num, den)})
      /\ IsFiniteSet({ToInt(num, den)} \cup {})
  BY FS_Singleton, FS_EmptySet, FS_Union
<1>5. ints \subseteq Int
  BY ThroughputAssumption DEF ints
<1> QED
  BY <1>1, <1>2, <1>3, <1>4, <1>5

\* The new estimate is an int, a value of the sample when it is the first one,
\* and within all bounds of the sample's values and the old estimate.
LEMMA AverageWithin ==
    ASSUME NEW num \in Int, NEW den \in Nat, NEW avg \in ints,
           NEW lo \in Int, NEW hi \in Int,
           \A v \in Values([num |-> num, den |-> den]) : lo <= v /\ v <= hi,
           avg = 0 \/ (lo <= avg /\ avg <= hi)
    PROVE  LET a == Average([num |-> num, den |-> den], avg)
           IN  a \in ints /\ lo <= a /\ a <= hi
<1> DEFINE new == [num |-> num, den |-> den]
           m == Mixed(new, avg)
           q == Trunc(num, den)
           t == Trunc(m.num, m.den)
<1>1. /\ ToInt(num, den) \in ints /\ lo <= ToInt(num, den) /\ ToInt(num, den) <= hi
      /\ den # 0 => lo <= q /\ q <= hi
  BY ValuesSound DEF Values
<1>2. /\ ints \subseteq Int /\ INT_MIN \in ints
      /\ \A x \in Int : x \in ints <=> INT_MIN <= x /\ x <= INT_MAX
  BY ThroughputAssumption DEF ints
<1>3. CASE avg = 0
  BY <1>1, <1>3 DEF Average
<1>4. CASE avg # 0 /\ den = 0
  <2>1. m.den = 0
    BY <1>4, ThroughputAssumption DEF Mixed
  <2>2. ToInt(m.num, m.den) = INT_MIN /\ ToInt(num, den) = INT_MIN
    BY <1>4, <2>1 DEF ToInt
  <2> QED
    BY <1>1, <1>4, <2>2 DEF Average
<1>5. CASE avg # 0 /\ den # 0
  <2>1. den \in Nat \ {0} /\ avg \in Int
    BY <1>2, <1>5
  <2>2. m.num \in Int /\ m.den \in Nat \ {0} /\ Between(t, q, avg)
    BY <2>1, MixedBetween, MixedCut
  <2>3. q \in Int /\ t \in Int
    BY <2>1, <2>2, TruncInt
  <2>4. Average(new, avg) = IF t \in ints THEN t ELSE INT_MIN
    BY <1>5, <2>2 DEF Average, ToInt
  <2>5. ToInt(num, den) = IF q \in ints THEN q ELSE INT_MIN
    BY <1>5 DEF ToInt
  <2> DEFINE a == Average(new, avg)
  <2> HIDE DEF new, m, q, t, a
  <2> SUFFICES a \in ints /\ lo <= a /\ a <= hi
    BY DEF a, new
  <2>6. CASE t \in ints
    <3>1. a = t
      BY <2>4, <2>6 DEF a
    <3>2. lo <= t /\ t <= hi
      BY <1>1, <1>5, <2>1, <2>2, <2>3 DEF Between
    <3> QED
      BY <2>6, <3>1, <3>2
  <2>7. CASE t \notin ints
    <3>1. q \notin ints
      BY <1>2, <2>1, <2>2, <2>3, <2>7, ThroughputAssumption DEF Between
    <3>2. a = INT_MIN /\ ToInt(num, den) = INT_MIN
      BY <2>4, <2>5, <2>7, <3>1 DEF a
    <3> QED
      BY <1>1, <3>2
  <2> QED
    BY <2>6, <2>7
<1> QED
  BY <1>3, <1>4, <1>5

(* The choice of a bitrate *)

LEMMA LeastIs ==
    ASSUME NEW S, S \subseteq Int, NEW m \in S, \A j \in S : m <= j
    PROVE  Least(S) = m
<1>1. \A i \in S : (\A j \in S : i <= j) => i = m
  OBVIOUS
<1> QED
  BY <1>1 DEF Least

LEMMA GreatestIs ==
    ASSUME NEW S, S \subseteq Int, NEW m \in S, \A j \in S : j <= m
    PROVE  Greatest(S) = m
<1>1. \A i \in S : (\A j \in S : j <= i) => i = m
  OBVIOUS
<1> QED
  BY <1>1 DEF Greatest

\* The recursive function of Passes exists, so that it is what it says.
LEMMA PassesDef ==
    ASSUME bitrates \in Seq(Int), NEW avg
    PROVE  Passes(avg) = [i \in 0 .. Len(bitrates) |->
               IF i = 0 THEN [chosen |-> 0, smallest |-> 100]
               ELSE Pass(Passes(avg)[i - 1], bitrates[i], avg)]
<1> DEFINE F(f, n) == [i \in 0 .. n |-> IF i = 0 THEN [chosen |-> 0, smallest |-> 100]
                                        ELSE Pass(f[i - 1], bitrates[i], avg)]
           T == {n \in Nat : ~ \E f : f = F(f, n)}
<1>1. ASSUME T # {}
      PROVE  FALSE
  <2>1. PICK n \in T : \A m \in T : n <= m
    <3> HIDE DEF T
    <3>1. T \subseteq Nat
      BY DEF T
    <3> QED
      BY <1>1, <3>1, LeastNumber
  <2>2. CASE n = 0
    <3> DEFINE f == [i \in 0 .. 0 |-> [chosen |-> 0, smallest |-> 100]]
    <3>1. f = F(f, 0)
      OBVIOUS
    <3> QED
      BY <2>2, <3>1
  <2>3. CASE n # 0
    <3>1. n - 1 \in Nat /\ n - 1 \notin T
      <4>1. n \in Nat
        BY <2>1
      <4> HIDE DEF T
      <4> QED
        BY <2>1, <2>3, <4>1
    <3>2. PICK f : f = F(f, n - 1)
      BY <3>1
    <3> DEFINE g == [i \in 0 .. n |-> IF i = n THEN Pass(f[n - 1], bitrates[n], avg) ELSE f[i]]
    <3>3. ASSUME NEW i \in 0 .. n
          PROVE  g[i] = F(g, n)[i]
      <4>1. CASE i = 0
        <5>1. f[0] = [chosen |-> 0, smallest |-> 100]
          BY <3>1, <3>2
        <5> QED
          BY <2>3, <4>1, <5>1
      <4>2. CASE i \in 1 .. n - 1
        <5>1. f[i] = Pass(f[i - 1], bitrates[i], avg)
          BY <3>2, <4>2
        <5>2. g[i] = f[i] /\ g[i - 1] = f[i - 1]
          BY <4>2
        <5> QED
          BY <4>2, <5>1, <5>2
      <4>3. CASE i = n
        <5>1. g[n] = Pass(f[n - 1], bitrates[n], avg) /\ g[n - 1] = f[n - 1]
          BY <3>1
        <5> QED
          BY <2>3, <4>3, <5>1
      <4> QED
        BY <4>1, <4>2, <4>3, <3>1
    <3>4. g = F(g, n)
      <4>1. DOMAIN g = 0 .. n /\ g = [i \in 0 .. n |-> g[i]]
        OBVIOUS
      <4> HIDE DEF g
      <4> QED
        BY <3>3, <4>1
    <3> QED
      BY <2>1, <3>4
  <2> QED
    BY <2>2, <2>3
<1>2. Len(bitrates) \in Nat
  OBVIOUS
<1>3. \E f : f = F(f, Len(bitrates))
  BY <1>1, <1>2
<1>4. Passes(avg) = CHOOSE f : f = F(f, Len(bitrates))
  BY DEF Passes
<1> QED
  BY <1>3, <1>4

\* What the loop over bitrates has found in the first elements, the set S: the
\* highest usable one above 0, and the lowest one or 100.
Found(p, S, usable) ==
    /\ p.chosen \in Nat
    /\ p.chosen # 0 => p.chosen \in S /\ p.chosen <= usable
    /\ \A b \in S : b <= usable => b <= p.chosen
    /\ p.smallest \in S \cup {100}
    /\ \A b \in S \cup {100} : p.smallest <= b

LEMMA PassesFind ==
    ASSUME bitrates \in Seq(Int), NEW avg, Usable(avg) \in Int, NEW n \in 0 .. Len(bitrates)
    PROVE  Found(Passes(avg)[n], {bitrates[j] : j \in 1 .. n}, Usable(avg))
<1> DEFINE E(i) == {bitrates[j] : j \in 1 .. i}
           N == Len(bitrates)
           T == {i \in 0 .. N : ~ Found(Passes(avg)[i], E(i), Usable(avg))}
<1>0. N \in Nat /\ \A j \in 1 .. N : bitrates[j] \in Int
  OBVIOUS
<1>1. Passes(avg)[0] = [chosen |-> 0, smallest |-> 100]
  BY PassesDef
<1>2. \A i \in 1 .. N : Passes(avg)[i] = Pass(Passes(avg)[i - 1], bitrates[i], avg)
  BY PassesDef
<1>3. ASSUME T # {}
      PROVE  FALSE
  <2>0. T \subseteq Nat
    OBVIOUS
  <2>1. PICK i \in T : \A m \in T : i <= m
    <3> HIDE DEF T
    <3> QED
      BY <1>3, <2>0, LeastNumber
  <2>2. i \in 0 .. N /\ ~ Found(Passes(avg)[i], E(i), Usable(avg))
    BY <2>1
  <2>3. CASE i = 0
    <3>1. E(0) = {}
      OBVIOUS
    <3> HIDE DEF E
    <3>2. Found(Passes(avg)[0], E(0), Usable(avg))
      BY <1>1, <3>1 DEF Found
    <3> QED
      BY <2>2, <2>3, <3>2
  <2>4. CASE i # 0
    <3>1. i - 1 \in 0 .. N /\ i - 1 \notin T
      <4>1. i \in Nat
        BY <2>2
      <4> HIDE DEF T
      <4> QED
        BY <1>0, <2>1, <2>2, <2>4, <4>1
    <3>2. Found(Passes(avg)[i - 1], E(i - 1), Usable(avg))
      BY <3>1
    <3>3. E(i) = E(i - 1) \cup {bitrates[i]} /\ E(i - 1) \subseteq Int
      <4>1. 1 .. i = (1 .. i - 1) \cup {i}
        BY <2>2, <2>4
      <4>2. 1 .. i - 1 \subseteq 1 .. N
        BY <2>2, <1>0
      <4> QED
        BY <4>1, <4>2, <1>0
    <3>4. PICK b \in Int : b = bitrates[i]
      BY <1>0, <2>2, <2>4
    <3>5. PICK p : p = Passes(avg)[i - 1]
      OBVIOUS
    <3>6. Passes(avg)[i] = Pass(p, b, avg)
      BY <1>2, <2>2, <2>4, <3>4, <3>5
    <3> DEFINE S == E(i - 1)
    <3>6a. PICK u \in Int : u = Usable(avg)
      OBVIOUS
    <3>6b. PICK q : q = Pass(p, b, avg)
      OBVIOUS
    <3>7. S \subseteq Int /\ E(i) = S \cup {b} /\ Found(p, S, u)
      BY <3>2, <3>3, <3>4, <3>5, <3>6a
    <3> HIDE DEF S, E, T
    <3>8. /\ q.chosen = IF b > p.chosen /\ b <= u THEN b ELSE p.chosen
          /\ q.smallest = IF b < p.smallest THEN b ELSE p.smallest
      BY <3>6a, <3>6b DEF Pass
    <3>9. Found(q, S \cup {b}, u)
      <4>0. p.chosen \in Nat /\ p.smallest \in S \cup {100} /\ p.smallest \in Int
        <5>1. p.chosen \in Nat /\ p.smallest \in S \cup {100}
          BY <3>7 DEF Found
        <5>2. \A x \in S \cup {100} : x \in Int
          BY <3>7
        <5> QED
          BY <5>1, <5>2
      <4>1. /\ q.chosen \in Nat
            /\ q.chosen # 0 => q.chosen \in S \cup {b} /\ q.chosen <= u
        BY <3>7, <3>8, <4>0 DEF Found
      <4>2. \A x \in S \cup {b} : x <= u => x <= q.chosen
        <5>1. \A x \in S : x \in Int /\ (x <= u => x <= p.chosen)
          BY <3>7 DEF Found
        <5> QED
          BY <3>8, <4>0, <5>1
      <4>3. q.smallest \in (S \cup {b}) \cup {100}
        BY <3>8, <4>0
      <4>4. \A x \in (S \cup {b}) \cup {100} : q.smallest <= x
        <5>1. \A x \in S \cup {100} : x \in Int /\ p.smallest <= x
          BY <3>7 DEF Found
        <5> QED
          BY <3>8, <4>0, <5>1
      <4> QED
        BY <4>1, <4>2, <4>3, <4>4 DEF Found
    <3> QED
      BY <2>2, <3>6, <3>6a, <3>6b, <3>7, <3>9
  <2> QED
    BY <2>3, <2>4
<1> QED
  BY <1>3

\* Two thirds of x are enough for b.
LEMMA UsableMeans ==
    ASSUME NEW x \in Int, NEW b \in Nat \ {0}
    PROVE  Usable(x) \in Int /\ (b <= Usable(x) <=> 3 * b <= 2 * x)
<1>1. Usable(x) \in Int
  BY TruncInt DEF Usable
<1>2. CASE x >= 0
  <2>1. Usable(x) = (2 * x) \div 3
    BY <1>2 DEF Usable, Trunc
  <2> QED
    BY <1>1, <2>1, SMT
<1>3. CASE x < 0
  <2>1. Usable(x) <= 0
    BY <1>3, TruncInt DEF Usable
  <2> QED
    BY <1>1, <1>3, <2>1
<1> QED
  BY <1>1, <1>2, <1>3

\* The loop chooses the highest bitrate that fits, or the lowest one, or 100.
LEMMA ChoiceMeans ==
    ASSUME bitrates \in Seq(Int), NEW avg \in Int
    PROVE  LET fits == {b \in Range(bitrates) : b > 0 /\ 3 * b <= 2 * avg}
           IN  /\ Choice(avg) \in Int
               /\ Choice(avg) = IF fits # {} THEN Greatest(fits)
                                ELSE Least(Range(bitrates) \cup {100})
<1> DEFINE S == Range(bitrates)
           fits == {b \in S : b > 0 /\ 3 * b <= 2 * avg}
           p == Passes(avg)[Len(bitrates)]
<1>1. S = {bitrates[j] : j \in 1 .. Len(bitrates)} /\ S \subseteq Int
  BY DEF Range
<1>2. Usable(avg) \in Int /\ \A b \in Nat \ {0} : b <= Usable(avg) <=> 3 * b <= 2 * avg
  BY UsableMeans
<1>3. Found(p, S, Usable(avg))
  <2>1. Len(bitrates) \in 0 .. Len(bitrates)
    OBVIOUS
  <2> QED
    BY <1>1, <1>2, <2>1, PassesFind
<1>4. Choice(avg) = IF p.chosen <= 0 THEN p.smallest ELSE p.chosen
  BY DEF Choice
<1> HIDE DEF p, S
<1>5. p.chosen \in Nat /\ p.smallest \in S \cup {100} /\ p.smallest \in Int
  <2>1. p.chosen \in Nat /\ p.smallest \in S \cup {100}
    BY <1>3 DEF Found
  <2> QED
    BY <1>1, <2>1
<1>6. CASE p.chosen = 0
  <2>1. fits = {}
    <3>1. SUFFICES ASSUME NEW b \in S, b > 0, 3 * b <= 2 * avg
                   PROVE  FALSE
      OBVIOUS
    <3>2. b \in Nat \ {0}
      BY <1>1, <3>1
    <3> QED
      BY <1>2, <1>3, <1>6, <3>1, <3>2 DEF Found
  <2>2. \A b \in S \cup {100} : p.smallest <= b
    BY <1>3 DEF Found
  <2>3. Least(S \cup {100}) = p.smallest
    <3>1. S \cup {100} \subseteq Int
      BY <1>1
    <3> QED
      BY <1>5, <2>2, <3>1, LeastIs
  <2> QED
    BY <1>4, <1>5, <1>6, <2>1, <2>3 DEF S
<1>7. CASE p.chosen # 0
  <2>1. p.chosen \in S /\ p.chosen \in Nat \ {0} /\ p.chosen <= Usable(avg)
    BY <1>3, <1>5, <1>7 DEF Found
  <2>2. p.chosen \in fits
    BY <1>2, <2>1
  <2>3. \A b \in fits : b <= p.chosen
    <3>1. SUFFICES ASSUME NEW b \in S, b > 0, 3 * b <= 2 * avg
                   PROVE  b <= p.chosen
      OBVIOUS
    <3>2. b \in Nat \ {0}
      BY <1>1, <3>1
    <3> QED
      BY <1>2, <1>3, <3>1, <3>2 DEF Found
  <2>4. Greatest(fits) = p.chosen
    <3>1. fits \subseteq Int
      BY <1>1
    <3> HIDE DEF fits
    <3> QED
      BY <2>2, <2>3, <3>1, GreatestIs
  <2>5. fits # {}
    BY <2>2
  <2>6. Choice(avg) = p.chosen
    BY <1>4, <1>5, <1>7
  <2> QED
    BY <1>5, <2>4, <2>5, <2>6 DEF S
<1> QED
  BY <1>5, <1>6, <1>7

(* The entries of thru_l *)

Full == \A i \in Slots : thru_l[i] # NULL

UniquePairs ==
    \A i, j \in Slots : thru_l[i] # NULL /\ thru_l[j] # NULL /\ i # j =>
        <<thru_l[i].clit_addr, thru_l[i].serv_addr>> # <<thru_l[j].clit_addr, thru_l[j].serv_addr>>

\* An entry is fed by the host it is of; a client is entered with its own address
\* or with none.
FedByOwn ==
    /\ \A i \in Slots : thru_l[i] = NULL => seen[i].hosts = {}
    /\ \A i \in Slots : thru_l[i] # NULL =>
          /\ seen[i].hosts = {} => thru_l[i].avg_put = 0
          /\ thru_l[i].clit_addr # NoAddr => seen[i].hosts \subseteq {thru_l[i].clit_addr}
    /\ \A c \in Client : addr[c] \in {NULL, NoAddr, HostOf[c]}

\* The clients entered as 0.0.0.0, of which only the first is one, live on a host h.
NoAddrOf(h) ==
    /\ \A c \in Client : addr[c] = NoAddr => HostOf[c] = h
    /\ \A i \in Slots : thru_l[i] # NULL /\ thru_l[i].clit_addr = NoAddr => seen[i].hosts \subseteq {h}
FirstOnly ==
    /\ \E h : NoAddrOf(h)
    /\ cli_size = 0 => /\ \A c \in Client : addr[c] = NULL
                       /\ \A i \in Slots : thru_l[i] = NULL

\* A conn has an entry, or there was no room for it.
ConnsEntered ==
    /\ \A k \in Conns : conns[k] # NULL => OfPair(k) # {} \/ Full
    /\ pc = "crashed" => Full

ThroughputInv ==
    /\ ThroughputTypeOK /\ AvgWithinSamples
    /\ UniquePairs /\ FedByOwn /\ FirstOnly /\ ConnsEntered

\* The mark the lookup ends at leaves no entry out, so that it finds the one entry
\* of a pair.
LEMMA LookupSound ==
    ASSUME ThruTyped, NEW a, NEW s
    PROVE  LET E == {i \in Slots : /\ thru_l[i] # NULL
                                   /\ thru_l[i].clit_addr = a /\ thru_l[i].serv_addr = s}
           IN  /\ get_thru_by_addrs(a, s) = 0 <=> E = {}
               /\ get_thru_by_addrs(a, s) # 0 => /\ get_thru_by_addrs(a, s) \in E
                                                 /\ get_thru_by_addrs(a, s) = Least(E)
<1> DEFINE E == {i \in Slots : /\ thru_l[i] # NULL
                               /\ thru_l[i].clit_addr = a /\ thru_l[i].serv_addr = s}
           G == {i \in 1 .. max_thru_idx : /\ thru_l[i] # NULL
                                           /\ thru_l[i].clit_addr = a /\ thru_l[i].serv_addr = s}
<1>1. 1 .. max_thru_idx \subseteq Slots /\ \A i \in Slots : thru_l[i] # NULL => i \in 1 .. max_thru_idx
  BY ThroughputAssumption DEF ThruTyped, Slots
<1>2. G = E
  BY <1>1
<1>3. get_thru_by_addrs(a, s) = IF G = {} THEN 0 ELSE Least(G)
  BY DEF get_thru_by_addrs
<1>4. E \subseteq Nat \ {0}
  BY ThroughputAssumption DEF Slots
<1> HIDE DEF E, G
<1>5. ASSUME E = {}
      PROVE  get_thru_by_addrs(a, s) = 0
  BY <1>2, <1>3, <1>5
<1>6. ASSUME E # {}
      PROVE  /\ get_thru_by_addrs(a, s) # 0 /\ get_thru_by_addrs(a, s) \in E
             /\ get_thru_by_addrs(a, s) = Least(E)
  <2>1. PICK m \in E : \A j \in E : m <= j
    BY <1>4, <1>6, LeastNumber
  <2>2. Least(E) = m
    <3>1. E \subseteq Int
      BY <1>4
    <3> QED
      BY <2>1, <3>1, LeastIs
  <2>3. m # 0
    BY <1>4, <2>1
  <2> QED
    BY <1>2, <1>3, <1>6, <2>1, <2>2, <2>3
<1>7. /\ get_thru_by_addrs(a, s) = 0 <=> E = {}
      /\ get_thru_by_addrs(a, s) # 0 => /\ get_thru_by_addrs(a, s) \in E
                                        /\ get_thru_by_addrs(a, s) = Least(E)
  BY <1>5, <1>6
<1> QED
  BY <1>7 DEF E

LEMMA FreeSlotSound ==
    /\ FreeSlot = 0 <=> Full
    /\ FreeSlot # 0 => FreeSlot \in Slots /\ thru_l[FreeSlot] = NULL
<1> DEFINE F == {i \in Slots : thru_l[i] = NULL}
<1>1. FreeSlot = IF F = {} THEN 0 ELSE Least(F)
  BY DEF FreeSlot
<1>2. F \subseteq Nat \ {0} /\ (F = {} <=> Full)
  BY ThroughputAssumption DEF Slots, Full
<1>3. \A i \in F : i \in Slots /\ thru_l[i] = NULL
  OBVIOUS
<1> HIDE DEF F
<1>4. CASE F # {}
  <2>1. PICK m \in F : \A j \in F : m <= j
    BY <1>2, <1>4, LeastNumber
  <2>2. Least(F) = m
    <3>1. F \subseteq Int
      BY <1>2
    <3> QED
      BY <2>1, <3>1, LeastIs
  <2> QED
    BY <1>1, <1>2, <1>3, <1>4, <2>1, <2>2
<1> QED
  BY <1>1, <1>2, <1>4

(* The steps *)

\* Closing a conn ends what is waited for on it; a client without conns is no
\* longer entered, and no conn that stays has its client's address changed.
LEMMA CloseSafe ==
    ASSUME ConnsTyped, NEW k \in Conns, Close(k)
    PROVE  /\ ConnsTyped'
           /\ \A c \in Client : addr'[c] \in {addr[c], NULL}
           /\ \A j \in Conns : conns'[j] # NULL => conns[j] # NULL /\ addr'[j[1]] = addr[j[1]]
           /\ cli_size' = cli_size /\ asked' = asked
<1> DEFINE left == \E s \in Server \ {k[2]} : conns[<<k[1], s>>] # NULL
<1>1. /\ conns' = [conns EXCEPT ![k] = NULL]
      /\ pending' = [pending EXCEPT ![k] = <<>>]
      /\ addr' = [addr EXCEPT ![k[1]] = IF left THEN @ ELSE NULL]
      /\ cli_size' = cli_size /\ asked' = asked
  BY DEF Close
<1>2. /\ conns \in [Conns -> {NULL} \cup Conn] /\ pending \in [Conns -> Seq(Sent)]
      /\ addr \in [Client -> {NULL, NoAddr} \cup Host]
      /\ \A j \in Conns : /\ pending[j] # <<>> => conns[j] # NULL
                          /\ conns[j] # NULL => addr[j[1]] # NULL
  BY DEF ConnsTyped
<1>3. k[1] \in Client /\ \A j \in Conns : j[1] \in Client /\ j[2] \in Server /\ j = <<j[1], j[2]>>
  BY DEF Conns
<1>4. /\ conns' \in [Conns -> {NULL} \cup Conn] /\ pending' \in [Conns -> Seq(Sent)]
      /\ addr' \in [Client -> {NULL, NoAddr} \cup Host]
  BY <1>1, <1>2, <1>3
<1>5. \A c \in Client : addr'[c] \in {addr[c], NULL}
  BY <1>1, <1>2
<1>6. ASSUME NEW j \in Conns, conns'[j] # NULL
      PROVE  conns[j] # NULL /\ addr'[j[1]] = addr[j[1]]
  <2>1. j # k /\ conns[j] # NULL
    BY <1>1, <1>2, <1>6
  <2>2. CASE j[1] = k[1]
    <3>1. j[2] \in Server \ {k[2]} /\ conns[<<k[1], j[2]>>] # NULL
      BY <1>3, <2>1, <2>2
    <3>2. left
      BY <3>1
    <3> QED
      BY <1>1, <1>2, <2>1, <3>2
  <2>3. CASE j[1] # k[1]
    BY <1>1, <1>2, <1>3, <2>1, <2>3
  <2> QED
    BY <2>2, <2>3
<1>7. \A j \in Conns : pending'[j] # <<>> => conns'[j] # NULL
  BY <1>1, <1>2
<1> QED
  BY <1>1, <1>2, <1>4, <1>5, <1>6, <1>7 DEF ConnsTyped

\* A step that leaves the entries alone and gives no client an address.
LEMMA Calm ==
    ASSUME ThroughputInv, ConnsTyped', ThreadTyped', UNCHANGED <<thruVars, cli_size>>,
           \A c \in Client : addr'[c] \in {addr[c], NULL},
           \A j \in Conns : conns'[j] # NULL => conns[j] # NULL /\ addr'[j[1]] = addr[j[1]],
           pc' = "crashed" => Full
    PROVE  ThroughputInv'
<1>1. thru_l' = thru_l /\ max_thru_idx' = max_thru_idx /\ seen' = seen /\ cli_size' = cli_size
  BY DEF thruVars
<1>2. ThruTyped' /\ AvgWithinSamples' /\ UniquePairs'
  BY <1>1 DEF ThroughputInv, ThroughputTypeOK, ThruTyped, AvgWithinSamples, UniquePairs
<1>3. FedByOwn'
  BY <1>1 DEF ThroughputInv, FedByOwn
<1>4. FirstOnly'
  <2>1. PICK h : NoAddrOf(h)
    BY DEF ThroughputInv, FirstOnly
  <2>2. NULL # NoAddr
    BY ThroughputAssumption
  <2>3. NoAddrOf(h)'
    BY <1>1, <2>1, <2>2 DEF NoAddrOf
  <2>4. cli_size' = 0 => /\ \A c \in Client : addr'[c] = NULL
                         /\ \A i \in Slots : thru_l'[i] = NULL
    BY <1>1 DEF ThroughputInv, FirstOnly
  <2> QED
    BY <2>3, <2>4 DEF FirstOnly
<1>5. ConnsEntered'
  <2>1. \A j \in Conns : conns'[j] # NULL => OfPair(j)' = OfPair(j)
    BY <1>1 DEF OfPair
  <2>2. Full' <=> Full
    BY <1>1 DEF Full
  <2> QED
    BY <2>1, <2>2 DEF ThroughputInv, ConnsEntered
<1> QED
  BY <1>2, <1>3, <1>4, <1>5 DEF ThroughputInv, ThroughputTypeOK

\* Steps that touch neither the table nor a client's address, or close a conn.
LEMMA QuietSteps ==
    ASSUME ThroughputInv,
           \/ Tick \/ Refused \/ \E c \in Client, kind \in {"list", "frag"} : BeginRequest(c, kind)
           \/ \E s \in Server : Rejected(s)
           \/ \E k \in Conns : Listed(k) \/ Plain(k) \/ Dropped(k)
    PROVE  ThroughputInv'
<1>1. ConnsTyped /\ ThreadTyped
  BY DEF ThroughputInv, ThroughputTypeOK
<1>2. pc' = "crashed" => Full
  BY DEF ThroughputInv, ConnsEntered, Tick, Refused, BeginRequest, Rejected, Listed, Plain,
         Dropped, threadVars
<1>3. CASE Tick
  <2>1. UNCHANGED <<connVars, thruVars, bitrates, threadVars, pending>> /\ ticks' \in Nat /\ now' \in Int
    BY <1>1, <1>3, ThroughputAssumption DEF Tick, ThreadTyped
  <2>2. ConnsTyped' /\ ThreadTyped'
    BY <1>1, <2>1 DEF connVars, threadVars, ConnsTyped, ThreadTyped
  <2> QED
    BY <1>2, <2>1, <2>2, Calm DEF connVars
<1>4. CASE Refused
  <2>1. ConnsTyped' /\ ThreadTyped'
    BY <1>1, <1>4 DEF Refused, Fails, ConnsTyped, ThreadTyped
  <2> QED
    BY <1>2, <1>4, <2>1, Calm DEF Refused
<1>5. ASSUME NEW c \in Client, NEW kind \in {"list", "frag"}, BeginRequest(c, kind)
      PROVE  ThroughputInv'
  <2>1. asked' \in Nat /\ asked' = asked + 1 /\ hand' = [clit |-> c, kind |-> kind, file |-> asked', at |-> now]
    BY <1>1, <1>5 DEF BeginRequest, ThreadTyped
  <2>2. hand' \in Request /\ addr[hand'.clit] # NULL
    BY <1>1, <1>5, <2>1 DEF BeginRequest, Request, ThreadTyped
  <2>3. ConnsTyped' /\ ThreadTyped'
    BY <1>1, <1>5, <2>1, <2>2 DEF BeginRequest, ConnsTyped, ThreadTyped
  <2> QED
    BY <1>2, <1>5, <2>3, Calm DEF BeginRequest
<1>6. ASSUME NEW s \in Server, Rejected(s)
      PROVE  ThroughputInv'
  <2>1. <<hand.clit, s>> \in Conns
    BY <1>1, <1>6 DEF Rejected, ThreadTyped, Request, Conns
  <2>2. Close(<<hand.clit, s>>)
    BY <1>6 DEF Rejected
  <2>3. ThreadTyped'
    BY <1>1, <1>6, <2>1, <2>2, CloseSafe DEF Rejected, Fails, ThreadTyped
  <2> QED
    BY <1>1, <1>2, <1>6, <2>1, <2>2, <2>3, CloseSafe, Calm DEF Rejected
<1>7. ASSUME NEW k \in Conns, Listed(k)
      PROVE  ThroughputInv'
  <2>1. /\ pending[k] \in Seq(Sent) /\ pending[k] # <<>>
        /\ pending' = [pending EXCEPT ![k] = Append(Tail(pending[k]), [Head(pending[k]) EXCEPT !.kind = "nolist"])]
        /\ bitrates' \in Manifests
        /\ UNCHANGED <<now, ticks, connVars, thruVars, threadVars>>
    BY <1>1, <1>7 DEF Listed, ConnsTyped
  <2>2. [Head(pending[k]) EXCEPT !.kind = "nolist"] \in Sent
    <3>1. \A r \in Sent : [r EXCEPT !.kind = "nolist"] \in Sent
      BY DEF Sent
    <3>2. Head(pending[k]) \in Sent
      BY <2>1
    <3> QED
      BY <3>1, <3>2, Zenon
  <2>3. Append(Tail(pending[k]), [Head(pending[k]) EXCEPT !.kind = "nolist"]) \in Seq(Sent)
    BY <2>1, <2>2
  <2>4. pending' \in [Conns -> Seq(Sent)] /\ \A j \in Conns : pending'[j] # <<>> => pending[j] # <<>>
    BY <1>1, <2>1, <2>3 DEF ConnsTyped
  <2>5. ConnsTyped'
    BY <1>1, <2>1, <2>4 DEF ConnsTyped, connVars
  <2>6. ThreadTyped'
    BY <1>1, <2>1, ThroughputAssumption DEF ThreadTyped, connVars, threadVars
  <2> QED
    BY <1>2, <2>1, <2>5, <2>6, Calm DEF connVars
<1>8. ASSUME NEW k \in Conns, Plain(k)
      PROVE  ThroughputInv'
  <2>1. /\ pending[k] \in Seq(Sent) /\ pending[k] # <<>> /\ conns[k] # NULL
        /\ pending' = [pending EXCEPT ![k] = Tail(pending[k])]
        /\ conns' = [conns EXCEPT ![k].end = now]
        /\ UNCHANGED <<now, ticks, addr, cli_size, asked, faults, thruVars, bitrates, threadVars>>
    BY <1>1, <1>8 DEF Plain, Settled, ConnsTyped
  <2>2. conns[k] \in Conn /\ now \in Int
    BY <1>1, <2>1 DEF ConnsTyped, ThreadTyped
  <2>3. [conns[k] EXCEPT !.end = now] \in Conn
    BY <2>2 DEF Conn
  <2>4. NULL \notin Conn
    BY ThroughputAssumption
  <2>5. /\ conns' \in [Conns -> {NULL} \cup Conn]
        /\ \A j \in Conns : conns'[j] # NULL <=> conns[j] # NULL
    BY <1>1, <2>1, <2>3, <2>4 DEF ConnsTyped
  <2>6. pending' \in [Conns -> Seq(Sent)] /\ \A j \in Conns : pending'[j] # <<>> => pending[j] # <<>>
    <3>1. Tail(pending[k]) \in Seq(Sent)
      BY <2>1
    <3> QED
      BY <1>1, <2>1, <3>1 DEF ConnsTyped
  <2>7. ConnsTyped'
    BY <1>1, <2>1, <2>5, <2>6 DEF ConnsTyped
  <2>8. ThreadTyped'
    BY <1>1, <2>1 DEF ThreadTyped, threadVars
  <2> QED
    BY <1>2, <2>1, <2>5, <2>7, <2>8, Calm
<1>9. ASSUME NEW k \in Conns, Dropped(k)
      PROVE  ThroughputInv'
  <2>1. Close(k) /\ Fails /\ pc' = pc /\ hand' = hand /\ pc = "select"
    BY <1>9 DEF Dropped, threadVars
  <2>2. ThreadTyped'
    BY <1>1, <1>9, <2>1, CloseSafe DEF Dropped, Fails, ThreadTyped
  <2> QED
    BY <1>1, <1>2, <1>9, <2>1, <2>2, CloseSafe, Calm DEF Dropped
<1> QED
  BY <1>3, <1>4, <1>5, <1>6, <1>7, <1>8, <1>9

\* Only the first client is entered without its address.
LEMMA AcceptStep ==
    ASSUME ThroughputInv, NEW c \in Client, Accept(c)
    PROVE  ThroughputInv'
<1>1. /\ addr \in [Client -> {NULL, NoAddr} \cup Host] /\ addr[c] = NULL /\ pc = "select"
      /\ addr' = [addr EXCEPT ![c] = Entered(c)] /\ cli_size' = 16
      /\ UNCHANGED <<conns, pending, thruVars>> /\ thru_l' = thru_l /\ max_thru_idx' = max_thru_idx /\ seen' = seen
  BY DEF Accept, ThroughputInv, ThroughputTypeOK, ConnsTyped, thruVars
<1>2. HostOf[c] \in Host /\ Entered(c) \in {NoAddr} \cup Host /\ Entered(c) # NULL
  BY ThroughputAssumption DEF Entered
<1>3. \A d \in Client : d # c => addr'[d] = addr[d]
  BY <1>1
<1>4. \A j \in Conns : conns'[j] # NULL => addr'[j[1]] = addr[j[1]]
  BY <1>1, <1>3 DEF ThroughputInv, ThroughputTypeOK, ConnsTyped, Conns
<1>5. ConnsTyped'
  BY <1>1, <1>2, <1>4 DEF ThroughputInv, ThroughputTypeOK, ConnsTyped
<1>6. ThreadTyped'
  BY <1>1 DEF Accept, threadVars, ThroughputInv, ThroughputTypeOK, ThreadTyped
<1>7. ThruTyped' /\ AvgWithinSamples' /\ UniquePairs'
  BY <1>1 DEF ThroughputInv, ThroughputTypeOK, ThruTyped, AvgWithinSamples, UniquePairs
<1>8. FedByOwn'
  BY <1>1, <1>2 DEF ThroughputInv, FedByOwn, Entered
<1>9. FirstOnly'
  <2>1. CASE cli_size = 0
    <3>1. \A d \in Client : d # c => addr'[d] = NULL
      BY <1>3, <2>1 DEF ThroughputInv, FirstOnly
    <3>2. NoAddrOf(HostOf[c])'
      BY <1>1, <2>1, <3>1, ThroughputAssumption DEF NoAddrOf, ThroughputInv, FirstOnly
    <3> QED
      BY <1>1, <3>2 DEF FirstOnly
  <2>2. CASE cli_size # 0
    <3>1. PICK h : NoAddrOf(h)
      BY DEF ThroughputInv, FirstOnly
    <3>2. addr'[c] # NoAddr
      BY <1>1, <1>2, <2>2, ThroughputAssumption DEF Entered
    <3>3. NoAddrOf(h)'
      BY <1>1, <1>3, <3>1, <3>2 DEF NoAddrOf
    <3> QED
      BY <1>1, <3>3 DEF FirstOnly
  <2> QED
    BY <2>1, <2>2
<1>10. ConnsEntered'
  <2>1. \A j \in Conns : conns'[j] # NULL => OfPair(j)' = OfPair(j)
    BY <1>1, <1>4 DEF OfPair
  <2>2. (Full' <=> Full) /\ pc' # "crashed"
    BY <1>1 DEF Full, Accept, threadVars
  <2> QED
    BY <1>1, <2>1, <2>2 DEF ThroughputInv, ConnsEntered
<1> QED
  BY <1>5, <1>6, <1>7, <1>8, <1>9, <1>10 DEF ThroughputInv, ThroughputTypeOK

\* A request is sent on: a pair without an entry gets the first free slot.
LEMMA ForwardStep ==
    ASSUME ThroughputInv, NEW s \in Server, Forward(s)
    PROVE  ThroughputInv'
<1> DEFINE c == hand.clit
           k == <<hand.clit, s>>
           i == get_thru_by_addrs(addr[c], s)
           avg == IF i = 0 THEN 0 ELSE thru_l[i].avg_put
           rate == IF hand.kind = "frag" THEN Choice(avg) ELSE Current(k).cur_bitrate
           f == FreeSlot
           new == [clit_addr |-> addr[c], serv_addr |-> s, avg_put |-> 0]
           sent == [kind |-> hand.kind, file |-> hand.file, at |-> hand.at, rate |-> rate]
           up == Updated(k, rate)
<1>1. /\ ThruTyped /\ ConnsTyped /\ ThreadTyped /\ AvgWithinSamples
      /\ UniquePairs /\ FedByOwn /\ FirstOnly /\ ConnsEntered
  BY DEF ThroughputInv, ThroughputTypeOK
<1>2. /\ pc = "request" /\ pc' = "select" /\ hand' = NULL
      /\ IF i = 0 THEN AddThru(addr[c], s) ELSE UNCHANGED <<thru_l, max_thru_idx>>
      /\ conns' = [conns EXCEPT ![k] = up]
      /\ pending' = [pending EXCEPT ![k] = Append(pending[k], sent)]
      /\ UNCHANGED <<now, ticks, addr, cli_size, asked, faults, seen, bitrates>>
  <2>1. ConnsTyped /\ k \in Conns
    BY <1>1 DEF Forward, ThreadTyped, Request, Conns
  <2> QED
    BY <2>1 DEF Forward, ConnsTyped
<1>3. hand \in Request /\ c \in Client /\ k \in Conns /\ addr[c] \in {NoAddr} \cup Host /\ addr[c] # NULL
  BY <1>1, <1>2 DEF ThreadTyped, ConnsTyped, Request, Conns
<1>4. /\ NULL \notin Conn \cup Thruput \cup Host \cup {NoAddr}
      /\ NoAddr \notin Host /\ 0 \in ints /\ ints \subseteq Int
  BY ThroughputAssumption DEF ints
<1>5. rate \in Int
  <2>1. i # 0 => i \in Slots /\ thru_l[i] # NULL
    BY <1>1, LookupSound
  <2>2. avg \in Int
    <3>1. i # 0 => thru_l[i] \in Thruput
      BY <1>1, <2>1 DEF ThruTyped
    <3> QED
      BY <1>4, <3>1 DEF Thruput
  <2>3. Choice(avg) \in Int
    BY <1>1, <2>2, ChoiceMeans DEF ThreadTyped
  <2>4. Current(k).cur_bitrate \in Int
    BY <1>1, <1>3 DEF ConnsTyped, Conn, NewConn, Current
  <2> QED
    BY <2>3, <2>4
<1> HIDE DEF rate
<1>6. up \in Conn /\ sent \in Sent
  <2>1. \A old \in Conn, a, b, r \in Int, file \in Nat :
            [old EXCEPT !.start = a, !.end = b, !.cur_file = file, !.cur_bitrate = r] \in Conn
    BY DEF Conn
  <2>2. NewConn \in Conn
    BY <1>4 DEF NewConn, Conn
  <2>3. Current(k) \in Conn
    BY <1>1, <1>3, <2>2 DEF ConnsTyped, Current
  <2>4. hand.at \in Int /\ now \in Int /\ hand.file \in Nat /\ hand.kind \in {"list", "frag"}
    BY <1>1, <1>3 DEF Request, ThreadTyped
  <2>5. up \in Conn
    BY <1>5, <2>1, <2>3, <2>4, Zenon DEF Updated, Started
  <2> QED
    BY <1>5, <2>4, <2>5 DEF Sent
<1> HIDE DEF up, sent
<1>7. ConnsTyped'
  <2>1. Append(pending[k], sent) \in Seq(Sent)
    BY <1>1, <1>3, <1>6 DEF ConnsTyped
  <2>2. pending' \in [Conns -> Seq(Sent)] /\ conns' \in [Conns -> {NULL} \cup Conn]
    BY <1>1, <1>2, <1>3, <1>6, <2>1 DEF ConnsTyped
  <2>3. \A j \in Conns : j # k => pending'[j] = pending[j] /\ conns'[j] = conns[j]
    BY <1>1, <1>2 DEF ConnsTyped
  <2>4. conns'[k] # NULL /\ addr' = addr
    BY <1>1, <1>2, <1>3, <1>4, <1>6 DEF ConnsTyped
  <2>5. k[1] = c
    OBVIOUS
  <2> HIDE DEF k, c
  <2> QED
    BY <1>1, <1>2, <1>3, <2>2, <2>3, <2>4, <2>5 DEF ConnsTyped
<1>8. ThreadTyped'
  BY <1>1, <1>2 DEF ThreadTyped
<1>9. \/ UNCHANGED <<thru_l, max_thru_idx>> /\ (i # 0 \/ Full)
      \/ /\ i = 0 /\ f \in Slots /\ thru_l[f] = NULL
         /\ thru_l' = [thru_l EXCEPT ![f] = new] /\ max_thru_idx' = Raised(f)
  BY <1>2, FreeSlotSound DEF AddThru
<1> HIDE DEF i, f
<1>10. CASE UNCHANGED <<thru_l, max_thru_idx>> /\ (i # 0 \/ Full)
  <2>1. ThruTyped' /\ AvgWithinSamples' /\ UniquePairs' /\ FedByOwn'
    BY <1>1, <1>2, <1>10 DEF ThruTyped, AvgWithinSamples, UniquePairs, FedByOwn
  <2>2. FirstOnly'
    BY <1>1, <1>2, <1>10 DEF FirstOnly, NoAddrOf
  <2>3. \A j \in Conns : OfPair(j)' = OfPair(j)
    BY <1>2, <1>10 DEF OfPair
  <2>4. (Full' <=> Full) /\ pc' # "crashed"
    BY <1>2, <1>10 DEF Full
  <2>5. i # 0 => OfPair(k) # {}
    BY <1>1, LookupSound DEF i, OfPair
  <2>6. \A j \in Conns : j # k => conns'[j] = conns[j]
    BY <1>1, <1>2 DEF ConnsTyped
  <2> HIDE DEF k
  <2>7. ConnsEntered'
    BY <1>1, <1>3, <1>10, <2>3, <2>4, <2>5, <2>6 DEF ConnsEntered
  <2> QED
    BY <1>7, <1>8, <2>1, <2>2, <2>7 DEF ThroughputInv, ThroughputTypeOK
<1>11. CASE /\ i = 0 /\ f \in Slots /\ thru_l[f] = NULL
            /\ thru_l' = [thru_l EXCEPT ![f] = new] /\ max_thru_idx' = Raised(f)
  <2>1. /\ thru_l \in [Slots -> {NULL} \cup Thruput] /\ thru_l'[f] = new
        /\ \A j \in Slots : j # f => thru_l'[j] = thru_l[j]
    BY <1>1, <1>11 DEF ThruTyped
  <2>2. new \in Thruput /\ new # NULL
    BY <1>3, <1>4 DEF Thruput
  <2>3. new.clit_addr = addr[c] /\ new.serv_addr = s /\ new.avg_put = 0
    OBVIOUS
  <2>4. ~ \E j \in Slots : thru_l[j] # NULL /\ thru_l[j].clit_addr = addr[c] /\ thru_l[j].serv_addr = s
    BY <1>1, <1>11, LookupSound DEF i
  <2>5. seen' = seen /\ seen[f].hosts = {}
    BY <1>1, <1>2, <1>11 DEF FedByOwn
  <2> HIDE DEF new
  <2>6. ThruTyped'
    <3>1. thru_l' \in [Slots -> {NULL} \cup Thruput]
      BY <1>11, <2>1, <2>2
    <3>2. max_thru_idx \in Int /\ Slots \subseteq Int /\ \A j \in Slots : j <= FD_SETSIZE /\ j >= 0
      BY <1>1, ThroughputAssumption DEF ThruTyped, Slots
    <3>3. max_thru_idx' \in 0 .. FD_SETSIZE /\ f <= max_thru_idx' /\ max_thru_idx <= max_thru_idx'
      BY <1>1, <1>11, <3>2, ThroughputAssumption DEF ThruTyped, Raised
    <3>4. \A j \in Slots : thru_l'[j] # NULL => j <= max_thru_idx'
      BY <1>1, <1>11, <2>1, <3>2, <3>3 DEF ThruTyped
    <3> QED
      BY <1>1, <2>5, <3>1, <3>3, <3>4 DEF ThruTyped
  <2>7. AvgWithinSamples'
    BY <1>1, <2>1, <2>5 DEF AvgWithinSamples
  <2>8. UniquePairs'
    <3>1. SUFFICES ASSUME NEW x \in Slots, NEW y \in Slots, thru_l'[x] # NULL, thru_l'[y] # NULL, x # y,
                          <<thru_l'[x].clit_addr, thru_l'[x].serv_addr>> = <<thru_l'[y].clit_addr, thru_l'[y].serv_addr>>
                   PROVE  FALSE
      BY DEF UniquePairs
    <3>2. x = f \/ y = f
      BY <1>1, <2>1, <3>1 DEF UniquePairs
    <3> QED
      BY <2>1, <2>3, <2>4, <3>1, <3>2
  <2>9. FedByOwn'
    <3>1. \A j \in Slots : thru_l'[j] = NULL => seen'[j].hosts = {}
      BY <1>1, <2>1, <2>2, <2>5 DEF FedByOwn
    <3>2. \A j \in Slots : thru_l'[j] # NULL =>
             /\ seen'[j].hosts = {} => thru_l'[j].avg_put = 0
             /\ thru_l'[j].clit_addr # NoAddr => seen'[j].hosts \subseteq {thru_l'[j].clit_addr}
      BY <1>1, <2>1, <2>3, <2>5 DEF FedByOwn
    <3> QED
      BY <1>1, <1>2, <3>1, <3>2 DEF FedByOwn
  <2>10. FirstOnly'
    <3>1. PICK h : NoAddrOf(h)
      BY <1>1 DEF FirstOnly
    <3>2. NoAddrOf(h)'
      BY <1>2, <2>1, <2>5, <3>1 DEF NoAddrOf
    <3>3. cli_size' # 0
      BY <1>1, <1>2, <1>3 DEF FirstOnly
    <3> QED
      BY <3>2, <3>3 DEF FirstOnly
  <2>11. ConnsEntered'
    <3>1. \A j \in Conns : OfPair(j) \subseteq OfPair(j)'
      BY <1>2, <1>11, <2>1 DEF OfPair
    <3>2. \A j \in Conns : j = k => f \in {x \in Slots : /\ thru_l'[x] # NULL
                     /\ thru_l'[x].clit_addr = addr'[j[1]] /\ thru_l'[x].serv_addr = j[2]}
      BY <1>2, <1>11, <2>1, <2>2, <2>3
    <3>2a. \A j \in Conns : j = k => OfPair(j)' # {}
      BY <3>2 DEF OfPair
    <3>3. Full => Full'
      BY <2>1, <2>2, <1>11 DEF Full
    <3>4. \A j \in Conns : j # k => conns'[j] = conns[j]
      BY <1>1, <1>2 DEF ConnsTyped
    <3>5. pc' # "crashed"
      BY <1>2
    <3> HIDE DEF k
    <3> QED
      BY <1>1, <3>1, <3>2a, <3>3, <3>4, <3>5 DEF ConnsEntered
  <2> QED
    BY <1>7, <1>8, <2>6, <2>7, <2>8, <2>9, <2>10, <2>11 DEF ThroughputInv, ThroughputTypeOK
<1> QED
  BY <1>9, <1>10, <1>11

\* The least and the greatest element of a finite set of numbers exist.
LEMMA BoundsExist ==
    ASSUME NEW S, S \subseteq Int, IsFiniteSet(S), S # {}
    PROVE  /\ Least(S) \in Int /\ Greatest(S) \in Int
           /\ \A j \in S : Least(S) <= j /\ j <= Greatest(S)
<1>1. PICK lo \in S, hi \in S : \A j \in S : lo <= j /\ j <= hi
  BY Extremes
<1>2. Least(S) = lo
  BY <1>1, LeastIs
<1>3. Greatest(S) = hi
  BY <1>1, GreatestIs
<1> QED
  BY <1>1, <1>2, <1>3

\* A fragment: the new estimate lies within all samples, and they are of one host.
LEMMA FragmentStep ==
    ASSUME ThroughputInv, NEW k \in Conns, NEW sum \in Sizes, NEW taken \in BOOLEAN,
           Fragment(k, sum, taken)
    PROVE  ThroughputInv'
<1> DEFINE i == Entry(k)
           new == Sample(sum, now - conns[k].start)
           avg == Average(new, thru_l[i].avg_put)
           conn == [conns[k] EXCEPT !.end = now, !.t_put = ToInt(new.num, new.den)]
           old == IF seen[i].hosts = {} THEN {} ELSE {seen[i].lo, seen[i].hi}
           all == Values(new) \cup old
           was == [lo |-> Least(all), hi |-> Greatest(all), hosts |-> seen[i].hosts \cup {HostOf[k[1]]}]
<1>1. /\ ThruTyped /\ ConnsTyped /\ ThreadTyped /\ AvgWithinSamples
      /\ UniquePairs /\ FedByOwn /\ FirstOnly /\ ConnsEntered
  BY DEF ThroughputInv, ThroughputTypeOK
<1>2. i \in Slots /\ thru_l[i] # NULL /\ thru_l[i].clit_addr = addr[k[1]] /\ thru_l[i].serv_addr = k[2]
  BY <1>1, LookupSound DEF Fragment, Entry
<1>3. /\ pending[k] # <<>> /\ conns[k] # NULL /\ pc = "select"
      /\ thru_l' = [thru_l EXCEPT ![i].avg_put = avg]
      /\ seen' = [seen EXCEPT ![i] = was]
      /\ UNCHANGED <<now, ticks, max_thru_idx, bitrates, threadVars>>
  <2>1. seen' = Recorded(i, new, HostOf[k[1]])
    BY DEF Fragment
  <2>2. Recorded(i, new, HostOf[k[1]]) = [seen EXCEPT ![i] = was]
    BY <1>1, <1>2 DEF Recorded, ThruTyped
  <2> QED
    BY <1>1, <2>1, <2>2 DEF Fragment, ConnsTyped
<1>4. conns[k] \in Conn /\ k[1] \in Client /\ addr[k[1]] \in {NoAddr} \cup Host /\ addr[k[1]] # NULL
  BY <1>1, <1>3 DEF ConnsTyped, Conns
<1>5. /\ NULL \notin Conn \cup Thruput \cup Host \cup {NoAddr}
      /\ 0 \in ints /\ ints \subseteq Int /\ HostOf[k[1]] \in Host
  BY <1>4, ThroughputAssumption DEF ints
<1>6. PICK num \in Int, den \in Nat : new = [num |-> num, den |-> den]
  <2>1. now - conns[k].start \in Int
    BY <1>1, <1>4 DEF Conn, ThreadTyped
  <2>2. PICK e \in Int : e = now - conns[k].start
    BY <2>1
  <2>3. sum \div 1000 \in Nat
    BY ThroughputAssumption, Quotient
  <2>4. Sample(sum, e) = IF e < 0 THEN [num |-> -((sum \div 1000) * 8), den |-> -e]
                         ELSE [num |-> (sum \div 1000) * 8, den |-> e]
    BY DEF Sample
  <2>5. PICK kb \in Int : kb = (sum \div 1000) * 8
    BY <2>3
  <2>6. CASE e < 0
    <3>1. new = [num |-> -kb, den |-> -e] /\ -kb \in Int /\ -e \in Nat
      BY <2>2, <2>4, <2>5, <2>6
    <3> QED
      BY <3>1
  <2>7. CASE e >= 0
    <3>1. new = [num |-> kb, den |-> e] /\ e \in Nat
      BY <2>2, <2>4, <2>5, <2>7
    <3> QED
      BY <2>5, <3>1
  <2> QED
    BY <2>6, <2>7
<1>7. /\ thru_l[i] \in Thruput /\ thru_l[i].avg_put \in ints
      /\ seen[i] \in [lo : Int, hi : Int, hosts : SUBSET Host]
  BY <1>1, <1>2 DEF ThruTyped, Thruput
<1> HIDE DEF i, new
<1>8. /\ Values(new) \subseteq Int /\ IsFiniteSet(Values(new)) /\ Values(new) # {}
      /\ ToInt(num, den) \in ints
  BY <1>6, ValuesSound
<1>9. all \subseteq Int /\ IsFiniteSet(all) /\ all # {}
  <2>1. IsFiniteSet({}) /\ IsFiniteSet({seen[i].lo, seen[i].hi})
    <3>1. IsFiniteSet({seen[i].lo} \cup {seen[i].hi}) /\ {seen[i].lo} \cup {seen[i].hi} = {seen[i].lo, seen[i].hi}
      BY FS_Singleton, FS_Union
    <3> QED
      BY <3>1, FS_EmptySet
  <2>2. IsFiniteSet(old)
    BY <2>1
  <2>3. old \subseteq Int
    BY <1>7
  <2> HIDE DEF old
  <2> QED
    BY <1>8, <2>2, <2>3, FS_Union
<1> DEFINE lo == Least(all)
           hi == Greatest(all)
<1>10. lo \in Int /\ hi \in Int /\ \A v \in all : lo <= v /\ v <= hi
  <2> HIDE DEF all
  <2> QED
    BY <1>9, BoundsExist
<1>11. thru_l[i].avg_put = 0 \/ (lo <= thru_l[i].avg_put /\ thru_l[i].avg_put <= hi)
  <2>1. CASE seen[i].hosts = {}
    BY <1>1, <1>2, <2>1 DEF FedByOwn
  <2>2. CASE seen[i].hosts # {}
    <3>1. seen[i].lo <= thru_l[i].avg_put /\ thru_l[i].avg_put <= seen[i].hi
      BY <1>1, <1>2, <2>2 DEF AvgWithinSamples
    <3>2. seen[i].lo \in all /\ seen[i].hi \in all
      BY <2>2
    <3> HIDE DEF all, lo, hi
    <3>3. lo <= seen[i].lo /\ seen[i].hi <= hi
      BY <1>10, <3>2
    <3>4. PICK a \in Int, x \in Int, y \in Int :
             a = thru_l[i].avg_put /\ x = seen[i].lo /\ y = seen[i].hi
      BY <1>5, <1>7
    <3>5. lo <= a /\ a <= hi
      BY <1>10, <3>1, <3>3, <3>4
    <3> QED
      BY <3>4, <3>5
  <2> QED
    BY <2>1, <2>2
<1>12. avg \in ints /\ lo <= avg /\ avg <= hi
  <2>1. \A v \in Values([num |-> num, den |-> den]) : lo <= v /\ v <= hi
    BY <1>6, <1>10
  <2> HIDE DEF lo, hi
  <2> QED
    BY <1>6, <1>7, <1>10, <1>11, <2>1, AverageWithin
<1> HIDE DEF avg, all, lo, hi
<1>13. was = [lo |-> lo, hi |-> hi, hosts |-> seen[i].hosts \cup {HostOf[k[1]]}]
  BY DEF lo, hi
<1> HIDE DEF was
<1>14. /\ thru_l'[i] = [thru_l[i] EXCEPT !.avg_put = avg] /\ seen'[i] = was
       /\ \A j \in Slots : j # i => thru_l'[j] = thru_l[j] /\ seen'[j] = seen[j]
  BY <1>1, <1>2, <1>3 DEF ThruTyped
<1>15. /\ thru_l'[i] \in Thruput /\ thru_l'[i] # NULL /\ thru_l'[i].avg_put = avg
       /\ thru_l'[i].clit_addr = thru_l[i].clit_addr /\ thru_l'[i].serv_addr = thru_l[i].serv_addr
  BY <1>5, <1>7, <1>12, <1>14 DEF Thruput
<1>16. was \in [lo : Int, hi : Int, hosts : SUBSET Host] /\ was.lo = lo /\ was.hi = hi
       /\ was.hosts = seen[i].hosts \cup {HostOf[k[1]]}
  BY <1>5, <1>7, <1>10, <1>13
<1>17. \A j \in Slots : /\ thru_l'[j] # NULL <=> thru_l[j] # NULL
                        /\ thru_l[j] # NULL => /\ thru_l'[j].clit_addr = thru_l[j].clit_addr
                                               /\ thru_l'[j].serv_addr = thru_l[j].serv_addr
  BY <1>2, <1>14, <1>15
<1>18. ThruTyped'
  <2>1. thru_l' \in [Slots -> {NULL} \cup Thruput]
    BY <1>1, <1>2, <1>3, <1>14, <1>15 DEF ThruTyped
  <2>2. seen' \in [Slots -> [lo : Int, hi : Int, hosts : SUBSET Host]]
    BY <1>1, <1>3, <1>16 DEF ThruTyped
  <2> QED
    BY <1>1, <1>3, <1>17, <2>1, <2>2 DEF ThruTyped
<1>19. AvgWithinSamples' /\ UniquePairs'
  <2>1. AvgWithinSamples'
    <3>1. lo <= thru_l'[i].avg_put /\ thru_l'[i].avg_put <= hi /\ seen'[i].lo = lo /\ seen'[i].hi = hi
      BY <1>12, <1>14, <1>15, <1>16
    <3> QED
      BY <1>1, <1>14, <3>1 DEF AvgWithinSamples
  <2> QED
    BY <1>1, <1>17, <2>1 DEF UniquePairs
<1>20. /\ ConnsTyped' /\ ThreadTyped' /\ cli_size' = cli_size
       /\ \A c \in Client : addr'[c] \in {addr[c], NULL}
       /\ \A j \in Conns : conns'[j] # NULL => conns[j] # NULL /\ addr'[j[1]] = addr[j[1]]
  <2>1. CASE taken
    <3>1. /\ conns' = [conns EXCEPT ![k] = conn] /\ pending' = [pending EXCEPT ![k] = Tail(pending[k])]
          /\ UNCHANGED <<addr, cli_size, asked, faults>>
      BY <1>1, <2>1 DEF Fragment, ConnsTyped, i, new
    <3>2. conn \in Conn /\ conn # NULL
      <4>1. ToInt(new.num, new.den) \in ints /\ now \in Int
        BY <1>1, <1>6, <1>8 DEF ThreadTyped
      <4>2. \A x \in Conn, e \in Int, t \in ints : [x EXCEPT !.end = e, !.t_put = t] \in Conn
        BY DEF Conn
      <4>3. conn \in Conn
        BY <1>4, <4>1, <4>2, Zenon
      <4> QED
        BY <1>5, <4>3
    <3> HIDE DEF conn
    <3>3. conns' \in [Conns -> {NULL} \cup Conn] /\ \A j \in Conns : conns'[j] # NULL <=> conns[j] # NULL
      BY <1>1, <1>3, <3>1, <3>2 DEF ConnsTyped
    <3>4. pending' \in [Conns -> Seq(Sent)] /\ \A j \in Conns : pending'[j] # <<>> => pending[j] # <<>>
      <4>1. Tail(pending[k]) \in Seq(Sent)
        BY <1>1, <1>3 DEF ConnsTyped
      <4> QED
        BY <1>1, <1>3, <3>1, <4>1 DEF ConnsTyped
    <3>5. ConnsTyped'
      BY <1>1, <3>1, <3>3, <3>4 DEF ConnsTyped
    <3>6. ThreadTyped'
      BY <1>1, <1>3, <3>1 DEF ThreadTyped, threadVars
    <3> QED
      BY <3>1, <3>3, <3>5, <3>6
  <2>2. CASE ~ taken
    <3>1. Fails /\ Close(k)
      BY <2>2 DEF Fragment
    <3>2. ThreadTyped'
      BY <1>1, <1>3, <3>1, CloseSafe DEF ThreadTyped, Fails, threadVars
    <3> QED
      BY <1>1, <3>1, <3>2, CloseSafe
  <2> QED
    BY <2>1, <2>2
<1>21. PICK h : NoAddrOf(h)
  BY <1>1 DEF FirstOnly
<1>22. HostOf[k[1]] = addr[k[1]] \/ (addr[k[1]] = NoAddr /\ HostOf[k[1]] = h)
  BY <1>1, <1>4, <1>21 DEF FedByOwn, NoAddrOf
<1>23. FedByOwn'
  <2>1. \A j \in Slots : thru_l'[j] = NULL => seen'[j].hosts = {}
    BY <1>1, <1>14, <1>15, <1>17 DEF FedByOwn
  <2>2. \A j \in Slots : thru_l'[j] # NULL =>
           /\ seen'[j].hosts = {} => thru_l'[j].avg_put = 0
           /\ thru_l'[j].clit_addr # NoAddr => seen'[j].hosts \subseteq {thru_l'[j].clit_addr}
    <3>1. /\ seen'[i].hosts # {}
          /\ thru_l'[i].clit_addr # NoAddr => seen'[i].hosts \subseteq {thru_l'[i].clit_addr}
      BY <1>1, <1>2, <1>14, <1>15, <1>16, <1>22 DEF FedByOwn
    <3> QED
      BY <1>1, <1>14, <1>17, <3>1 DEF FedByOwn
  <2>3. \A c \in Client : addr'[c] \in {NULL, NoAddr, HostOf[c]}
    BY <1>1, <1>20 DEF FedByOwn
  <2> QED
    BY <2>1, <2>2, <2>3 DEF FedByOwn
<1>24. FirstOnly'
  <2>1. NULL # NoAddr
    BY <1>5
  <2>2. \A c \in Client : addr'[c] = NoAddr => HostOf[c] = h
    BY <1>20, <1>21, <2>1 DEF NoAddrOf
  <2>3. \A j \in Slots : thru_l'[j] # NULL /\ thru_l'[j].clit_addr = NoAddr => seen'[j].hosts \subseteq {h}
    <3>1. thru_l'[i].clit_addr = NoAddr => seen'[i].hosts \subseteq {h}
      BY <1>2, <1>5, <1>14, <1>15, <1>16, <1>21, <1>22, ThroughputAssumption DEF NoAddrOf
    <3> QED
      BY <1>14, <1>17, <1>21, <3>1 DEF NoAddrOf
  <2>4. NoAddrOf(h)'
    BY <2>2, <2>3 DEF NoAddrOf
  <2>5. cli_size' # 0
    BY <1>1, <1>2, <1>20 DEF FirstOnly
  <2> QED
    BY <2>4, <2>5 DEF FirstOnly
<1>25. ConnsEntered'
  <2>1. \A j \in Conns : conns'[j] # NULL => conns[j] # NULL /\ OfPair(j)' = OfPair(j)
    BY <1>17, <1>20 DEF OfPair
  <2>2. (Full' <=> Full) /\ pc' # "crashed"
    BY <1>3, <1>17 DEF Full, threadVars
  <2> QED
    BY <1>1, <2>1, <2>2 DEF ConnsEntered
<1> QED
  BY <1>18, <1>19, <1>20, <1>23, <1>24, <1>25 DEF ThroughputInv, ThroughputTypeOK

\* The process follows an index of -1 only when the table is full.
LEMMA FailSteps ==
    ASSUME ThroughputInv,
           (\E s \in Server : ForwardFails(s)) \/ (\E k \in Conns : AnswerFails(k))
    PROVE  ThroughputInv'
<1>1. ThruTyped /\ ConnsTyped /\ ThreadTyped /\ ConnsEntered
  BY DEF ThroughputInv, ThroughputTypeOK
<1>2. /\ pc' = "crashed"
      /\ UNCHANGED <<now, ticks, connVars, thruVars, bitrates, pending>>
  BY DEF ForwardFails, AnswerFails
<1>3. ConnsTyped' /\ ThreadTyped'
  BY <1>1, <1>2 DEF ConnsTyped, ThreadTyped, connVars
<1>4. ASSUME NEW s \in Server, ForwardFails(s)
      PROVE  Full
  <2>1. Given(addr[hand.clit], s) = 0
    BY <1>4 DEF ForwardFails
  <2>2. FreeSlot = 0
    BY <2>1 DEF Given
  <2> QED
    BY <2>2, FreeSlotSound
<1>5. ASSUME NEW k \in Conns, AnswerFails(k)
      PROVE  Full
  <2>1. conns[k] # NULL /\ Entry(k) = 0
    BY <1>1, <1>5 DEF AnswerFails, ConnsTyped
  <2>2. OfPair(k) = {}
    BY <1>1, <2>1, LookupSound DEF Entry, OfPair
  <2> QED
    BY <1>1, <2>1, <2>2 DEF ConnsEntered
<1> QED
  BY <1>2, <1>3, <1>4, <1>5, Calm DEF connVars

(* Theorems *)

LEMMA InitInv ==
    ASSUME ThroughputInit
    PROVE  ThroughputInv
<1>1. ThruTyped /\ AvgWithinSamples /\ UniquePairs
  BY ThroughputAssumption DEF ThroughputInit, ThruTyped, AvgWithinSamples, UniquePairs
<1>2. ConnsTyped
  BY DEF ThroughputInit, ConnsTyped
<1>3. ThreadTyped
  BY DEF ThroughputInit, ThreadTyped
<1>4. FedByOwn
  BY DEF ThroughputInit, FedByOwn
<1>5. FirstOnly
  <2>1. NoAddrOf(0)
    BY ThroughputAssumption DEF ThroughputInit, NoAddrOf
  <2> QED
    BY <2>1 DEF ThroughputInit, FirstOnly
<1>6. ConnsEntered
  BY DEF ThroughputInit, ConnsEntered
<1> QED
  BY <1>1, <1>2, <1>3, <1>4, <1>5, <1>6 DEF ThroughputInv, ThroughputTypeOK

LEMMA NextInv ==
    ASSUME ThroughputInv, [ThroughputNext]_throughputVars
    PROVE  ThroughputInv'
<1>1. CASE UNCHANGED throughputVars
  <2>1. ConnsTyped' /\ ThreadTyped'
    BY <1>1 DEF throughputVars, connVars, threadVars, ThroughputInv, ThroughputTypeOK, ConnsTyped, ThreadTyped
  <2> QED
    BY <1>1, <2>1, Calm DEF throughputVars, connVars, threadVars, ThroughputInv, ConnsEntered
<1>2. CASE ThroughputNext
  BY <1>2, QuietSteps, AcceptStep, ForwardStep, FragmentStep, FailSteps DEF ThroughputNext
<1> QED
  BY <1>1, <1>2

\* The invariant the theorems below are parts of.
THEOREM ThroughputInvariant == ThroughputSpec => []ThroughputInv
<1>1. ThroughputInit => ThroughputInv
  BY InitInv
<1>2. ThroughputInv /\ [ThroughputNext]_throughputVars => ThroughputInv'
  BY NextInv
<1> QED
  BY <1>1, <1>2, PTL DEF ThroughputSpec

\* The table, the conns and the requests of the measuring proxy keep their types;
\* what is waited for belongs to an open conn.
THEOREM ThroughputTypeCorrect == ThroughputSpec => []ThroughputTypeOK
<1>1. ThroughputInv => ThroughputTypeOK
  BY DEF ThroughputInv
<1> QED
  BY <1>1, ThroughputInvariant, PTL

\* Whatever the weight of a sample, the width of an int and the clock, an estimate
\* lies between the least and the greatest of its samples (update_thruput).
THEOREM EstimatesWithinSamples == ThroughputSpec => []AvgWithinSamples
<1>1. ThroughputInv => AvgWithinSamples
  BY DEF ThroughputInv
<1> QED
  BY <1>1, ThroughputInvariant, PTL

\* With any number of clients, servers and entries, an entry is that of one pair of
\* addresses and one host; an index of -1 is followed only when the table is full.
THEOREM EntriesAlwaysSound == ThroughputSpec => []EntriesSound
<1>1. ASSUME ThroughputInv
      PROVE  EntriesSound
  <2>1. UniquePairs /\ FedByOwn /\ ThruTyped
    BY <1>1 DEF ThroughputInv, ThroughputTypeOK
  <2>2. PICK h : NoAddrOf(h)
    BY <1>1 DEF ThroughputInv, FirstOnly
  <2>3. ASSUME NEW i \in Slots
        PROVE  Cardinality(seen[i].hosts) <= 1
    <3>1. \E x : seen[i].hosts \subseteq {x}
      <4>1. CASE thru_l[i] = NULL
        BY <2>1, <4>1 DEF FedByOwn
      <4>2. CASE thru_l[i] # NULL
        BY <2>1, <2>2, <4>2 DEF FedByOwn, NoAddrOf
      <4> QED
        BY <4>1, <4>2
    <3>2. PICK x : seen[i].hosts = {} \/ seen[i].hosts = {x}
      BY <3>1
    <3>3. Cardinality({}) = 0 /\ Cardinality({x}) = 1
      BY FS_EmptySet, FS_Singleton
    <3> QED
      BY <3>2, <3>3
  <2>4. pc = "crashed" => Full
    BY <1>1 DEF ThroughputInv, ConnsEntered
  <2> QED
    BY <2>1, <2>3, <2>4 DEF EntriesSound, UniquePairs, Full
<1> QED
  BY <1>1, ThroughputInvariant, PTL

\* The loop over bitrates finds the highest one that fits in a list of any length.
THEOREM RatesAlwaysRight == ThroughputSpec => RightRate
<1> DEFINE A == \A k \in Conns :
        Len(pending'[k]) > Len(pending[k]) /\ Last(pending'[k]).kind = "frag" =>
            Last(pending'[k]).rate = (IF Fitting(k) # {} THEN Greatest(Fitting(k))
                                      ELSE Least(Range(bitrates) \cup {100}))
<1>1. ASSUME ThroughputInv, [ThroughputNext]_throughputVars, NEW j \in Conns,
             Len(pending'[j]) > Len(pending[j]), Last(pending'[j]).kind = "frag"
      PROVE  Last(pending'[j]).rate = (IF Fitting(j) # {} THEN Greatest(Fitting(j))
                                       ELSE Least(Range(bitrates) \cup {100}))
  <2>1. ThruTyped /\ ConnsTyped /\ ThreadTyped
    BY <1>1 DEF ThroughputInv, ThroughputTypeOK
  <2>2. pending[j] \in Seq(Sent) /\ Len(pending[j]) \in Nat /\ pending'[j] # pending[j]
    BY <1>1, <2>1 DEF ConnsTyped
  <2>3. ASSUME NEW k \in Conns, pending' = [pending EXCEPT ![k] = <<>>]
        PROVE  FALSE
    BY <1>1, <2>1, <2>2, <2>3 DEF ConnsTyped
  <2>4. ASSUME NEW k \in Conns, pending[k] # <<>>, pending' = [pending EXCEPT ![k] = Tail(pending[k])]
        PROVE  FALSE
    <3>1. j = k /\ pending'[j] = Tail(pending[j])
      BY <2>1, <2>2, <2>4 DEF ConnsTyped
    <3>2. Len(Tail(pending[j])) = Len(pending[j]) - 1
      BY <2>2, <2>4, <3>1
    <3> QED
      BY <1>1, <2>2, <3>1, <3>2
  <2>5. ASSUME NEW k \in Conns, Listed(k)
        PROVE  FALSE
    <3>1. PICK r : pending' = [pending EXCEPT ![k] = Append(Tail(pending[k]), r)]
      BY <2>1, <2>5 DEF Listed, ConnsTyped
    <3>2. j = k /\ pending'[j] = Append(Tail(pending[j]), r) /\ pending[j] # <<>>
      BY <2>1, <2>2, <2>5, <3>1 DEF ConnsTyped, Listed
    <3>3. Tail(pending[j]) \in Seq(Sent) /\ Len(Tail(pending[j])) = Len(pending[j]) - 1
      BY <2>2, <3>2
    <3>4. Len(Append(Tail(pending[j]), r)) = Len(Tail(pending[j])) + 1
      BY <3>3
    <3> QED
      BY <1>1, <2>2, <3>2, <3>3, <3>4
  <2>6. \E s \in Server : Forward(s)
    <3>1. ASSUME NEW s \in Server, Rejected(s)
          PROVE  FALSE
      <4>1. <<hand.clit, s>> \in Conns
        BY <2>1, <3>1 DEF Rejected, ThreadTyped, Request, Conns
      <4>2. pending' = [pending EXCEPT ![<<hand.clit, s>>] = <<>>]
        BY <3>1 DEF Rejected, Close
      <4> QED
        BY <2>3, <4>1, <4>2
    <3>2. ASSUME NEW k \in Conns, Plain(k)
          PROVE  FALSE
      <4>1. pending[k] # <<>> /\ pending' = [pending EXCEPT ![k] = Tail(pending[k])]
        BY <2>1, <3>2 DEF Plain, Settled, ConnsTyped
      <4> QED
        BY <2>4, <4>1
    <3>3. ASSUME NEW k \in Conns, Dropped(k)
          PROVE  FALSE
      BY <2>3, <3>3 DEF Dropped, Close
    <3>4. ASSUME NEW k \in Conns, NEW sum \in Sizes, NEW taken \in BOOLEAN, Fragment(k, sum, taken)
          PROVE  FALSE
      <4>1. pending[k] # <<>> /\ (\/ pending' = [pending EXCEPT ![k] = Tail(pending[k])]
                                  \/ pending' = [pending EXCEPT ![k] = <<>>])
        BY <2>1, <3>4 DEF Fragment, Close, ConnsTyped
      <4> QED
        BY <2>3, <2>4, <4>1
    <3>5. ASSUME pending' = pending
          PROVE  FALSE
      BY <2>2, <3>5
    <3>6. ~ UNCHANGED throughputVars
      BY <3>5 DEF throughputVars
    <3>7. /\ ~ Tick /\ ~ Refused /\ \A c \in Client : ~ Accept(c)
          /\ \A c \in Client, kind \in {"list", "frag"} : ~ BeginRequest(c, kind)
          /\ \A s \in Server : ~ ForwardFails(s)
          /\ \A k \in Conns : ~ AnswerFails(k)
      BY <3>5 DEF Tick, Refused, Accept, BeginRequest, ForwardFails, AnswerFails
    <3> QED
      BY <1>1, <2>5, <3>1, <3>2, <3>3, <3>4, <3>6, <3>7 DEF ThroughputNext
  <2>7. PICK s \in Server : Forward(s)
    BY <2>6
  <2> DEFINE k == <<hand.clit, s>>
             i == get_thru_by_addrs(addr[hand.clit], s)
             avg == IF i = 0 THEN 0 ELSE thru_l[i].avg_put
             rate == IF hand.kind = "frag" THEN Choice(avg) ELSE Current(k).cur_bitrate
             sent == [kind |-> hand.kind, file |-> hand.file, at |-> hand.at, rate |-> rate]
  <2>8. k \in Conns /\ pending' = [pending EXCEPT ![k] = Append(pending[k], sent)]
    <3>1. k \in Conns
      BY <2>1, <2>7 DEF Forward, ThreadTyped, Request, Conns
    <3> QED
      BY <2>1, <2>7, <3>1 DEF Forward, ConnsTyped
  <2>9. j = k /\ pending'[j] = Append(pending[j], sent)
    BY <2>1, <2>2, <2>8 DEF ConnsTyped
  <2>10. Last(pending'[j]) = sent
    <3> HIDE DEF sent
    <3> QED
      BY <2>2, <2>9 DEF Last
  <2>11. Last(pending'[j]).rate = Choice(avg)
    <3>1. hand.kind = "frag"
      <4>1. sent.kind = hand.kind
        OBVIOUS
      <4> HIDE DEF sent
      <4> QED
        BY <1>1, <2>10, <4>1
    <3>2. rate = Choice(avg) /\ sent.rate = rate
      BY <3>1
    <3> HIDE DEF sent, rate, avg
    <3> QED
      BY <2>10, <3>2
  <2>12. j[1] = hand.clit /\ j[2] = s
    BY <2>9
  <2>13. /\ i = 0 <=> OfPair(j) = {}
         /\ i # 0 => i \in OfPair(j) /\ i = Least(OfPair(j))
    BY <2>1, <2>12, LookupSound DEF OfPair
  <2>14. avg = Estimate(j)
    BY <2>13 DEF Estimate
  <2>15. avg \in Int
    <3>1. i # 0 => thru_l[i] \in Thruput
      BY <2>1, <2>13 DEF ThruTyped, OfPair
    <3> QED
      BY <3>1, ThroughputAssumption DEF Thruput, ints
  <2>16. PICK a \in Int : a = avg
    BY <2>15
  <2>17. Choice(a) = IF Fitting(j) # {} THEN Greatest(Fitting(j)) ELSE Least(Range(bitrates) \cup {100})
    BY <2>1, <2>14, <2>16, ChoiceMeans DEF Fitting, ThreadTyped
  <2> QED
    BY <2>11, <2>16, <2>17
<1>2. ThroughputInv /\ [ThroughputNext]_throughputVars => A
  BY <1>1
<1>3. ThroughputInv /\ [ThroughputNext]_throughputVars => [A]_throughputVars
  BY <1>2
<1> QED
  BY <1>3, ThroughputInvariant, PTL DEF ThroughputSpec, RightRate

(* The log *)

\* The fields c of a conn are those of the request that came last of p, the
\* manifests that the proxy has asked for itself apart.
Own(p, c) ==
    \A m \in 1 .. Len(p) :
        p[m].kind # "nolist" /\ (\A j \in m + 1 .. Len(p) : p[j].kind = "nolist") =>
            c.start = p[m].at /\ c.cur_file = p[m].file /\ c.cur_bitrate = p[m].rate

LatestOwn == \A k \in Conns : Own(pending[k], conns[k])

LEMMA OwnTail ==
    ASSUME NEW S, NEW p \in Seq(S), NEW c, p # <<>>, Own(p, c)
    PROVE  Own(Tail(p), c)
<1>1. Len(p) \in Nat /\ Len(Tail(p)) = Len(p) - 1 /\ \A m \in 1 .. Len(Tail(p)) : Tail(p)[m] = p[m + 1]
  OBVIOUS
<1>2. PICK q : q = Tail(p)
  OBVIOUS
<1>3. SUFFICES ASSUME NEW m \in 1 .. Len(q), q[m].kind # "nolist",
                      \A j \in m + 1 .. Len(q) : q[j].kind = "nolist"
               PROVE  c.start = q[m].at /\ c.cur_file = q[m].file /\ c.cur_bitrate = q[m].rate
  BY <1>2 DEF Own
<1>4. m + 1 \in 1 .. Len(p) /\ q[m] = p[m + 1]
  BY <1>1, <1>2
<1>5. ASSUME NEW j \in (m + 1) + 1 .. Len(p)
      PROVE  p[j].kind = "nolist"
  <2>1. j - 1 \in m + 1 .. Len(q) /\ q[j - 1] = p[j]
    BY <1>1, <1>2
  <2> QED
    BY <1>3, <2>1
<1> QED
  BY <1>3, <1>4, <1>5 DEF Own

\* Another request is appended: it is one of the proxy's own, or that of the conn.
LEMMA OwnAppend ==
    ASSUME NEW S, NEW p \in Seq(S), NEW c, NEW r,
           \/ r.kind = "nolist" /\ Own(p, c)
           \/ r.kind # "nolist" /\ c.start = r.at /\ c.cur_file = r.file /\ c.cur_bitrate = r.rate
    PROVE  Own(Append(p, r), c)
<1>1. PICK q : q = Append(p, r)
  OBVIOUS
<1>2. /\ Len(p) \in Nat /\ Len(q) = Len(p) + 1 /\ q[Len(q)] = r
      /\ \A m \in 1 .. Len(p) : q[m] = p[m]
  BY <1>1
<1>3. SUFFICES ASSUME NEW m \in 1 .. Len(q), q[m].kind # "nolist",
                      \A j \in m + 1 .. Len(q) : q[j].kind = "nolist"
               PROVE  c.start = q[m].at /\ c.cur_file = q[m].file /\ c.cur_bitrate = q[m].rate
  BY <1>1 DEF Own
<1>4. CASE r.kind = "nolist"
  <2>1. m \in 1 .. Len(p) /\ q[m] = p[m]
    <3>1. m # Len(q)
      BY <1>2, <1>3, <1>4
    <3> QED
      BY <1>2, <3>1
  <2>2. ASSUME NEW j \in m + 1 .. Len(p)
        PROVE  p[j].kind = "nolist"
    BY <1>2, <1>3, <2>1
  <2> QED
    BY <1>3, <1>4, <2>1, <2>2 DEF Own
<1>5. CASE r.kind # "nolist"
  <2>1. m = Len(q)
    <3>1. m # Len(q) => Len(q) \in m + 1 .. Len(q)
      BY <1>2
    <3> QED
      BY <1>2, <1>3, <1>5, <3>1
  <2> QED
    BY <1>2, <1>5, <2>1
<1> QED
  BY <1>4, <1>5

\* What Own looks at.
LEMMA OwnSame ==
    ASSUME NEW p, NEW c, NEW d, Own(p, c),
           d.start = c.start, d.cur_file = c.cur_file, d.cur_bitrate = c.cur_bitrate
    PROVE  Own(p, d)
BY DEF Own

LEMMA OwnStep ==
    ASSUME ThroughputInv, LatestOwn, [ThroughputNext]_throughputVars
    PROVE  LatestOwn'
<1>1. ConnsTyped /\ ThreadTyped
  BY DEF ThroughputInv, ThroughputTypeOK
<1>2. ASSUME NEW k \in Conns,
             \A j \in Conns : j # k => pending'[j] = pending[j] /\ conns'[j] = conns[j],
             Own(pending'[k], conns'[k])
      PROVE  LatestOwn'
  BY <1>2 DEF LatestOwn
<1>3. ASSUME NEW k \in Conns, Close(k)
      PROVE  LatestOwn'
  <2>1. Own(<<>>, conns'[k])
    BY DEF Own
  <2>2. pending'[k] = <<>> /\ \A j \in Conns : j # k => pending'[j] = pending[j] /\ conns'[j] = conns[j]
    BY <1>1, <1>3 DEF Close, ConnsTyped
  <2> QED
    BY <1>2, <2>1, <2>2
<1>4. ASSUME UNCHANGED <<pending, conns>>
      PROVE  LatestOwn'
  BY <1>4 DEF LatestOwn
<1>5. ASSUME NEW k \in Conns, pending[k] # <<>>, NEW e, NEW t,
             pending' = [pending EXCEPT ![k] = Tail(pending[k])],
             conns' = [conns EXCEPT ![k] = [conns[k] EXCEPT !.end = e, !.t_put = t]]
      PROVE  LatestOwn'
  <2>1. Own(Tail(pending[k]), conns[k])
    BY <1>1, <1>5, OwnTail DEF ConnsTyped, LatestOwn
  <2>2. PICK d : d = [conns[k] EXCEPT !.end = e, !.t_put = t]
    OBVIOUS
  <2>3. conns[k] \in Conn
    BY <1>1, <1>5 DEF ConnsTyped
  <2>4. d.start = conns[k].start /\ d.cur_file = conns[k].cur_file /\ d.cur_bitrate = conns[k].cur_bitrate
    BY <2>2, <2>3 DEF Conn
  <2>5. Own(Tail(pending[k]), d)
    BY <2>1, <2>4, OwnSame
  <2>6. conns'[k] = d /\ pending'[k] = Tail(pending[k])
    BY <1>1, <1>5, <2>2 DEF ConnsTyped
  <2>7. \A j \in Conns : j # k => pending'[j] = pending[j] /\ conns'[j] = conns[j]
    BY <1>1, <1>5 DEF ConnsTyped
  <2> QED
    BY <1>2, <2>5, <2>6, <2>7
<1>6. ASSUME NEW s \in Server, Rejected(s)
      PROVE  LatestOwn'
  <2>1. <<hand.clit, s>> \in Conns
    BY <1>1, <1>6 DEF Rejected, ThreadTyped, Request, Conns
  <2> QED
    BY <1>3, <1>6, <2>1 DEF Rejected
<1>7. ASSUME NEW k \in Conns, Listed(k)
      PROVE  LatestOwn'
  <2>1. PICK r : r = [Head(pending[k]) EXCEPT !.kind = "nolist"]
    OBVIOUS
  <2>2. /\ pending[k] \in Seq(Sent) /\ pending[k] # <<>> /\ Tail(pending[k]) \in Seq(Sent)
        /\ pending' = [pending EXCEPT ![k] = Append(Tail(pending[k]), r)] /\ conns' = conns
    BY <1>1, <1>7, <2>1 DEF Listed, ConnsTyped, connVars
  <2>3. r.kind = "nolist"
    <3>1. Head(pending[k]) \in Sent
      BY <2>2
    <3> QED
      BY <2>1, <3>1 DEF Sent
  <2>4. Own(Tail(pending[k]), conns[k])
    BY <2>2, OwnTail DEF LatestOwn
  <2>5. Own(Append(Tail(pending[k]), r), conns[k])
    BY <2>2, <2>3, <2>4, OwnAppend
  <2>6. pending'[k] = Append(Tail(pending[k]), r) /\ \A j \in Conns : j # k => pending'[j] = pending[j]
    BY <1>1, <2>2 DEF ConnsTyped
  <2> QED
    BY <1>2, <2>2, <2>5, <2>6
<1>8. ASSUME NEW k \in Conns, Plain(k)
      PROVE  LatestOwn'
  <2>1. PICK c \in Conn : c = conns[k]
    BY <1>1, <1>8 DEF Plain, ConnsTyped
  <2>2. [c EXCEPT !.end = now] = [c EXCEPT !.end = now, !.t_put = c.t_put]
    BY <2>1 DEF Conn
  <2>3. /\ pending[k] # <<>> /\ pending' = [pending EXCEPT ![k] = Tail(pending[k])]
        /\ conns' = [conns EXCEPT ![k] = [c EXCEPT !.end = now]]
    BY <1>1, <1>8, <2>1 DEF Plain, Settled, ConnsTyped
  <2>4. PICK t : t = c.t_put
    OBVIOUS
  <2>5. [c EXCEPT !.end = now] = [conns[k] EXCEPT !.end = now, !.t_put = t]
    BY <2>1, <2>2, <2>4
  <2>6. conns' = [conns EXCEPT ![k] = [conns[k] EXCEPT !.end = now, !.t_put = t]]
    BY <2>3, <2>5
  <2> QED
    BY <1>5, <2>3, <2>6, Zenon
<1>9. ASSUME NEW k \in Conns, NEW sum \in Sizes, NEW taken \in BOOLEAN, Fragment(k, sum, taken)
      PROVE  LatestOwn'
  <2>1. CASE taken
    <3>1. PICK t : /\ pending[k] # <<>> /\ pending' = [pending EXCEPT ![k] = Tail(pending[k])]
                   /\ conns' = [conns EXCEPT ![k] = [conns[k] EXCEPT !.end = now, !.t_put = t]]
      BY <1>1, <1>9, <2>1 DEF Fragment, ConnsTyped
    <3> QED
      BY <1>5, <3>1
  <2>2. CASE ~ taken
    BY <1>3, <1>9, <2>2 DEF Fragment
  <2> QED
    BY <2>1, <2>2
<1>10. ASSUME NEW s \in Server, Forward(s)
       PROVE  LatestOwn'
  <2> DEFINE k == <<hand.clit, s>>
  <2>1. k \in Conns /\ hand \in Request
    BY <1>1, <1>10 DEF Forward, ThreadTyped, Request, Conns
  <2>2. PICK rate : /\ conns' = [conns EXCEPT ![k] = Updated(k, rate)]
                    /\ pending' = [pending EXCEPT ![k] = Append(@,
                          [kind |-> hand.kind, file |-> hand.file, at |-> hand.at, rate |-> rate])]
    BY <1>10 DEF Forward
  <2>3. PICK r : r = [kind |-> hand.kind, file |-> hand.file, at |-> hand.at, rate |-> rate]
    OBVIOUS
  <2>4. PICK c : c = Updated(k, rate)
    OBVIOUS
  <2>5. Current(k) \in Conn
    BY <1>1, <2>1, ThroughputAssumption DEF Current, NewConn, Conn, ConnsTyped, ints
  <2>6. c.start = hand.at /\ c.cur_file = hand.file /\ c.cur_bitrate = rate
    BY <2>4, <2>5 DEF Updated, Started, Conn
  <2>7. r.kind # "nolist" /\ r.at = hand.at /\ r.file = hand.file /\ r.rate = rate
    BY <2>1, <2>3 DEF Request
  <2>8. pending[k] \in Seq(Sent)
    BY <1>1, <2>1 DEF ConnsTyped
  <2>9. Own(Append(pending[k], r), c)
    BY <2>6, <2>7, <2>8, OwnAppend
  <2>10. /\ pending'[k] = Append(pending[k], r) /\ conns'[k] = c
         /\ \A j \in Conns : j # k => pending'[j] = pending[j] /\ conns'[j] = conns[j]
    BY <1>1, <2>1, <2>2, <2>3, <2>4 DEF ConnsTyped
  <2>11. PICK q \in Conns : q = k
    BY <2>1
  <2> HIDE DEF k
  <2> QED
    BY <1>2, <2>9, <2>10, <2>11
<1>11. UNCHANGED throughputVars \/ Tick \/ Refused \/ (\E c \in Client : Accept(c)) =>
          UNCHANGED <<pending, conns>>
  BY DEF throughputVars, connVars, Tick, Refused, Accept
<1>12. (\E c \in Client, kind \in {"list", "frag"} : BeginRequest(c, kind)) => UNCHANGED <<pending, conns>>
  BY DEF BeginRequest
<1>13. (\E s \in Server : ForwardFails(s)) \/ (\E k \in Conns : AnswerFails(k)) => UNCHANGED <<pending, conns>>
  BY DEF ForwardFails, AnswerFails, connVars
<1>14. ASSUME NEW k \in Conns, Dropped(k)
       PROVE  LatestOwn'
  BY <1>3, <1>14 DEF Dropped
<1> QED
  BY <1>4, <1>6, <1>7, <1>8, <1>9, <1>10, <1>11, <1>12, <1>13, <1>14 DEF ThroughputNext

\* The line of a fragment is that of its own request while the browser has not asked
\* for more on the conn, whatever has been asked for on others.
THEOREM LogAlwaysOwn == ThroughputSpec => LogOwn
<1> DEFINE A == \A k \in Conns :
        LET r    == Head(pending[k])
            last == \A j \in 2 .. Len(pending[k]) : pending[k][j].kind = "nolist"
        IN  logged' # NULL /\ logged'.conn = k /\ r.kind = "frag" /\ last =>
            /\ logged'.file = r.file /\ logged'.rate = r.rate
            /\ logged'.secs = now - r.at
            /\ \E i \in OfPair(k) : logged'.avg_put = thru_l'[i].avg_put
<1>1. ThroughputInit => LatestOwn
  BY DEF ThroughputInit, LatestOwn, Own
<1>2. ThroughputInv /\ LatestOwn /\ [ThroughputNext]_throughputVars => LatestOwn'
  BY OwnStep
<1>3. ASSUME ThroughputInv, LatestOwn, ThroughputNext, NEW k \in Conns,
             logged' # NULL, logged'.conn = k, Head(pending[k]).kind = "frag",
             \A j \in 2 .. Len(pending[k]) : pending[k][j].kind = "nolist"
      PROVE  /\ logged'.file = Head(pending[k]).file /\ logged'.rate = Head(pending[k]).rate
             /\ logged'.secs = now - Head(pending[k]).at
             /\ \E i \in OfPair(k) : logged'.avg_put = thru_l'[i].avg_put
  <2>1. ThruTyped /\ ConnsTyped
    BY <1>3 DEF ThroughputInv, ThroughputTypeOK
  <2>2. \E q \in Conns, sum \in Sizes, taken \in BOOLEAN : Fragment(q, sum, taken)
    <3>1. ASSUME NEW q \in Conns, Listed(q)
          PROVE  FALSE
      <4>1. Head(pending[q]).kind = "list" /\ logged'.conn = q
        BY <3>1 DEF Listed, Line
      <4> QED
        BY <1>3, <4>1
    <3>2. \A s \in Server : ~ Rejected(s) /\ ~ ForwardFails(s) /\ ~ Forward(s)
      BY <1>3 DEF Rejected, ForwardFails, Forward
    <3>3. \A q \in Conns : ~ AnswerFails(q) /\ ~ Plain(q) /\ ~ Dropped(q)
      BY <1>3 DEF AnswerFails, Plain, Dropped
    <3>4. ~ Tick /\ ~ Refused /\ \A c \in Client : ~ Accept(c)
      BY <1>3 DEF Tick, Refused, Accept
    <3>5. \A c \in Client, kind \in {"list", "frag"} : ~ BeginRequest(c, kind)
      BY <1>3 DEF BeginRequest
    <3> QED
      BY <1>3, <3>1, <3>2, <3>3, <3>4, <3>5 DEF ThroughputNext
  <2>3. PICK q \in Conns, sum \in Sizes, taken \in BOOLEAN : Fragment(q, sum, taken)
    BY <2>2
  <2> DEFINE i == Entry(q)
             avg == Average(Sample(sum, now - conns[q].start), thru_l[i].avg_put)
  <2>4. PICK t : /\ logged' = Line(q, [conns[q] EXCEPT !.end = now, !.t_put = t], avg)
                 /\ i # 0 /\ thru_l' = [thru_l EXCEPT ![i].avg_put = avg]
                 /\ pending[q] # <<>>
    BY <2>3 DEF Fragment
  <2>5. PICK d : d = [conns[q] EXCEPT !.end = now, !.t_put = t]
    OBVIOUS
  <2>6. conns[q] \in Conn
    BY <2>1, <2>4 DEF ConnsTyped
  <2>7. /\ d.end = now /\ d.start = conns[q].start
        /\ d.cur_file = conns[q].cur_file /\ d.cur_bitrate = conns[q].cur_bitrate
    BY <2>5, <2>6 DEF Conn
  <2>8. /\ q = k /\ logged'.file = conns[k].cur_file /\ logged'.rate = conns[k].cur_bitrate
        /\ logged'.secs = now - conns[k].start /\ logged'.avg_put = avg
    <3> HIDE DEF avg
    <3>1. logged' = Line(q, d, avg)
      BY <2>4, <2>5
    <3>2. /\ logged'.conn = q /\ logged'.file = d.cur_file /\ logged'.rate = d.cur_bitrate
          /\ logged'.secs = d.end - d.start /\ logged'.avg_put = avg
      BY <3>1 DEF Line
    <3> QED
      BY <1>3, <2>7, <3>2
  <2>9. i \in OfPair(k) /\ thru_l'[i].avg_put = avg
    <3>1. i \in OfPair(k)
      <4>1. Entry(k) # 0 => Entry(k) \in OfPair(k)
        BY <2>1, LookupSound DEF Entry, OfPair
      <4>2. q = k /\ i # 0
        BY <2>4, <2>8
      <4> QED
        BY <4>1, <4>2
    <3>2. i \in Slots /\ thru_l[i] \in Thruput
      <4>1. PICK x : x = i
        OBVIOUS
      <4>2. x \in Slots /\ thru_l[x] # NULL
        BY <3>1, <4>1 DEF OfPair
      <4> QED
        BY <2>1, <4>1, <4>2 DEF ThruTyped
    <3>3. PICK a, x : a = avg /\ x = i
      OBVIOUS
    <3>4. thru_l' = [thru_l EXCEPT ![x].avg_put = a]
      BY <2>4, <3>3, Zenon
    <3> HIDE DEF i, avg
    <3>5. thru_l'[x] = [thru_l[x] EXCEPT !.avg_put = a]
      BY <2>1, <3>2, <3>3, <3>4 DEF ThruTyped
    <3>6. thru_l'[x].avg_put = a
      BY <3>2, <3>3, <3>5 DEF Thruput
    <3> QED
      BY <3>1, <3>3, <3>6
  <2>10. PICK p : p = pending[k]
    OBVIOUS
  <2>11. p \in Seq(Sent) /\ p # <<>> /\ Own(p, conns[k])
    BY <1>3, <2>1, <2>4, <2>8, <2>10 DEF ConnsTyped, LatestOwn
  <2>12. 1 \in 1 .. Len(p) /\ Head(p) = p[1]
    BY <2>11
  <2>13. conns[k].start = p[1].at /\ conns[k].cur_file = p[1].file /\ conns[k].cur_bitrate = p[1].rate
    BY <1>3, <2>10, <2>11, <2>12 DEF Own
  <2> QED
    BY <2>8, <2>9, <2>10, <2>12, <2>13
<1>4. ThroughputInv /\ LatestOwn /\ [ThroughputNext]_throughputVars => [A]_throughputVars
  BY <1>3
<1> QED
  BY <1>1, <1>2, <1>4, ThroughputInvariant, PTL DEF ThroughputSpec, LogOwn
=============================================================================
