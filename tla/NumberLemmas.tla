---------------------------- MODULE NumberLemmas ----------------------------
(***************************************************************************)
(* Facts about numbers and finite sets that the proofs rest on: order and  *)
(* products, and quotients, for the estimates of the proxy; least and      *)
(* greatest elements, for its tables and bitrates and the search of Ospf.  *)
(***************************************************************************)
EXTENDS Integers, FiniteSets, FiniteSetTheorems, TLAPS

(* Products and quotients *)

\* Multiplying by what is not negative keeps an order.
LEMMA Product ==
    ASSUME NEW a \in Int, NEW b \in Int, NEW c \in Int, a <= b, c >= 0
    PROVE  a * c <= b * c /\ c * a <= c * b
<1>1. (b - a) * c >= 0
  BY SMT
<1>2. (b - a) * c = b * c - a * c
  BY SMT
<1>3. a * c = c * a /\ b * c = c * b
  BY SMT
<1> QED
  BY <1>1, <1>2, <1>3, SMT

\* What \div means.
LEMMA Quotient ==
    ASSUME NEW x \in Nat, NEW y \in Nat \ {0}
    PROVE  /\ x \div y \in Nat
           /\ (x \div y) * y <= x /\ x < (x \div y) * y + y
<1>1. x = y * (x \div y) + (x % y) /\ 0 <= x % y /\ x % y < y
  BY SMT
<1> QED
  BY <1>1, SMT

\* Of two quotients the larger is not cut below the smaller (none is negative).
LEMMA QuotientOrder ==
    ASSUME NEW a \in Nat, NEW b \in Nat \ {0}, NEW c \in Nat, NEW d \in Nat \ {0},
           a * d <= c * b
    PROVE  a \div b <= c \div d
<1> DEFINE p == a \div b
           q == c \div d
<1>1. p \in Nat /\ p * b <= a
  BY Quotient
<1>2. q \in Nat /\ c < q * d + d
  BY Quotient
<1> HIDE DEF p, q
<1>3. SUFFICES ASSUME q + 1 <= p PROVE FALSE
  BY <1>1, <1>2, SMT DEF p, q
<1>4. (q + 1) * b * d <= p * b * d
  <2>1. (q + 1) * b <= p * b
    BY <1>1, <1>2, <1>3, Product
  <2> QED
    BY <2>1, <1>1, <1>2, Product
<1>5. p * b * d <= a * d
  BY <1>1, Product
<1>6. c * b < (q * d + d) * b
  <2>1. (c + 1) * b <= (q * d + d) * b
    BY <1>2, Product
  <2>2. (c + 1) * b = c * b + b
    BY SMT
  <2> QED
    BY <2>1, <2>2, <1>2, SMT
<1>7. (q * d + d) * b = (q + 1) * b * d
  BY <1>2, SMT
<1> QED
  BY <1>1, <1>2, <1>4, <1>5, <1>6, <1>7, SMT

(* Least and greatest elements *)

\* Each set of finite sets has one with no other below it.
LEMMA SmallestSet ==
    ASSUME NEW I, I # {}, \A T \in I : IsFiniteSet(T)
    PROVE  \E T \in I : \A U \in I : U \subseteq T => U = T
<1> DEFINE S == UNION I
           R == StrictSubsetOrdering(S)
<1>1. I \subseteq FiniteSubsetsOf(S)
  BY DEF FiniteSubsetsOf
<1>2. IsWellFoundedOn(R, FiniteSubsetsOf(S))
  BY FS_StrictSubsetOrderingWellFounded
<1>3. \E T \in I : \A U \in I : <<U, T>> \notin R
  <2> HIDE DEF R
  <2> QED
    BY <1>1, <1>2, WFMin
<1> QED
  BY <1>3 DEF StrictSubsetOrdering

\* The principle of the least number.
LEMMA LeastNumber ==
    ASSUME NEW T, T \subseteq Nat, T # {}
    PROVE  \E x \in T : \A y \in T : x <= y
<1> DEFINE I == {0 .. t : t \in T}
<1>1. I # {} /\ \A U \in I : IsFiniteSet(U)
  <2>1. \A t \in T : IsFiniteSet(0 .. t)
    BY FS_Interval
  <2> QED
    BY <2>1
<1>2. PICK U \in I : \A V \in I : V \subseteq U => V = U
  <2> HIDE DEF I
  <2> QED
    BY <1>1, SmallestSet
<1>3. PICK x \in T : U = 0 .. x
  OBVIOUS
<1>4. ASSUME NEW y \in T, y < x
      PROVE  FALSE
  <2>1. 0 .. y \subseteq 0 .. x /\ x \in 0 .. x /\ x \notin 0 .. y
    BY <1>4
  <2>2. 0 .. y \in I
    OBVIOUS
  <2> QED
    BY <1>2, <1>3, <2>1, <2>2
<1> QED
  BY <1>4

\* A finite set of integers has a least and a greatest element.
LEMMA Extremes ==
    ASSUME NEW S, S \subseteq Int, S # {}, IsFiniteSet(S)
    PROVE  /\ \E x \in S : \A y \in S : x <= y
           /\ \E x \in S : \A y \in S : y <= x
<1> DEFINE Bounded(T) == /\ \E x \in T : \A y \in T : x <= y
                        /\ \E x \in T : \A y \in T : y <= x
           I == {T \in SUBSET S : T # {} /\ ~ Bounded(T)}
<1>1. SUFFICES I = {}
  <2>1. S \in I \/ Bounded(S)
    OBVIOUS
  <2> QED
    BY <2>1, <1>1
<1>2. SUFFICES ASSUME I # {}
               PROVE  FALSE
  OBVIOUS
<1>3. \A T \in I : IsFiniteSet(T)
  BY FS_Subset
<1>4. PICK T \in I : \A U \in I : U \subseteq T => U = T
  <2> HIDE DEF I
  <2> QED
    BY <1>2, <1>3, SmallestSet
<1>5. PICK e \in T : TRUE
  OBVIOUS
<1>6. CASE T = {e}
  <2>1. e \in Int
    BY <1>4, <1>5
  <2>2. Bounded(T)
    BY <1>6, <2>1
  <2> QED
    BY <2>2, <1>4
<1>7. CASE T # {e}
  <2>1. T \ {e} # {} /\ T \ {e} \subseteq T /\ T \ {e} # T
    BY <1>5, <1>7
  <2>2. Bounded(T \ {e})
    BY <2>1, <1>4
  <2>3. PICK x \in T \ {e} : \A y \in T \ {e} : x <= y
    BY <2>2
  <2>4. PICK z \in T \ {e} : \A y \in T \ {e} : y <= z
    BY <2>2
  <2>5. T \subseteq Int
    BY <1>4
  <2>6. \E l \in T : \A y \in T : l <= y
    <3>1. CASE e <= x
      BY <3>1, <2>3, <2>5
    <3>2. CASE x <= e
      BY <3>2, <2>3, <2>5
    <3> QED
      BY <3>1, <3>2, <2>5
  <2>7. \E g \in T : \A y \in T : y <= g
    <3>1. CASE z <= e
      BY <3>1, <2>4, <2>5
    <3>2. CASE e <= z
      BY <3>2, <2>4, <2>5
    <3> QED
      BY <3>1, <3>2, <2>5
  <2> QED
    BY <2>6, <2>7, <1>4
<1> QED
  BY <1>6, <1>7
=============================================================================
