-------------------------- MODULE ArithmeticLemmas --------------------------
(***************************************************************************)
(* What several proofs need to know of numbers.  Of remainders: the queues *)
(* mask counters that only grow into an array of fixed size, and handles   *)
(* are packed into words.  Of sets of numbers: a loop over a table takes   *)
(* the first entry that fits.  Of recursive functions on numbers: a loop   *)
(* does a step for each value of its counter.                              *)
(***************************************************************************)
EXTENDS Integers, WellFoundedInduction, TLAPS

(* Division with remainder, as the provers know it. *)
LEMMA DivMod ==
    ASSUME NEW i \in Int, NEW s \in Nat \ {0}
    PROVE  /\ i % s \in 0 .. s - 1
           /\ i \div s \in Int
           /\ i = s * (i \div s) + (i % s)
  OBVIOUS

(* The only multiple of s strictly between -s and s is 0. *)
LEMMA SmallMultiple ==
    ASSUME NEW q \in Int, NEW s \in Nat \ {0}, s * q < s, s * q > 0 - s
    PROVE  q = 0
<1>1. q >= 1 => s * q >= s
  OBVIOUS
<1>2. q <= -1 => s * q <= 0 - s
  OBVIOUS
<1> QED BY <1>1, <1>2

(* The remainder is determined by what it stands for. *)
LEMMA ModUnique ==
    ASSUME NEW s \in Nat \ {0}, NEW q \in Int, NEW r \in 0 .. s - 1
    PROVE  (s * q + r) % s = r
<1> DEFINE i == s * q + r
<1>1. i \in Int
  OBVIOUS
<1>2. /\ i % s \in 0 .. s - 1
      /\ i \div s \in Int
      /\ i = s * (i \div s) + (i % s)
  BY <1>1, DivMod
<1>3. s * (q - (i \div s)) = (i % s) - r
  BY <1>2
<1>4. q - (i \div s) = 0
  BY <1>2, <1>3, SmallMultiple
<1> QED BY <1>2, <1>4

(* Adding a multiple of s does not change the remainder. *)
LEMMA ModPlusMultiple ==
    ASSUME NEW s \in Nat \ {0}, NEW i \in Int, NEW k \in Int
    PROVE  (i + s * k) % s = i % s
<1> DEFINE q == i \div s
           r == i % s
<1>1. q \in Int /\ r \in 0 .. s - 1 /\ i = s * q + r
  BY DivMod
<1>2. i + s * k = s * (q + k) + r
  BY <1>1
<1>3. q + k \in Int
  BY <1>1
<1> HIDE DEF q, r
<1>4. (s * (q + k) + r) % s = r
  BY <1>1, <1>3, ModUnique
<1> QED BY <1>2, <1>4 DEF r

(* Two numbers less than s apart with the same remainder are equal. *)
LEMMA ModInjective ==
    ASSUME NEW s \in Nat \ {0}, NEW i \in Int, NEW j \in Int,
           i - j < s, j - i < s, i % s = j % s
    PROVE  i = j
<1>1. /\ i \div s \in Int /\ i = s * (i \div s) + (i % s)
      /\ j \div s \in Int /\ j = s * (j \div s) + (j % s)
  BY DivMod
<1>2. s * ((i \div s) - (j \div s)) = i - j
  BY <1>1
<1>3. (i \div s) - (j \div s) = 0
  BY <1>1, <1>2, SmallMultiple
<1> QED BY <1>1, <1>3

(* The remainder of a sum, when the second number is at most s: the ring   *)
(* is gone around once at most.                                            *)
LEMMA ModOfSum ==
    ASSUME NEW s \in Nat \ {0}, NEW i \in Int, NEW k \in 0 .. s
    PROVE  /\ (i % s) + k < s => (i + k) % s = (i % s) + k
           /\ (i % s) + k >= s => (i + k) % s = (i % s) + k - s
<1> DEFINE q == i \div s
           r == i % s
<1>1. q \in Int /\ r \in 0 .. s - 1 /\ i = s * q + r
  BY DivMod
<1> HIDE DEF q, r
<1>2. ASSUME r + k < s PROVE (i + k) % s = r + k
  <2>1. i + k = s * q + (r + k) /\ r + k \in 0 .. s - 1
    BY <1>1, <1>2
  <2>2. (s * q + (r + k)) % s = r + k
    BY <1>1, <2>1, ModUnique
  <2> QED BY <2>1, <2>2
<1>3. ASSUME r + k >= s PROVE (i + k) % s = r + k - s
  <2>1. i + k = s * (q + 1) + (r + k - s) /\ r + k - s \in 0 .. s - 1 /\ q + 1 \in Int
    BY <1>1, <1>3
  <2>2. (s * (q + 1) + (r + k - s)) % s = r + k - s
    BY <2>1, ModUnique
  <2> QED BY <2>1, <2>2
<1> QED BY <1>2, <1>3 DEF r

(* The quotient is determined in the same way. *)
LEMMA DivUnique ==
    ASSUME NEW s \in Nat \ {0}, NEW q \in Int, NEW r \in 0 .. s - 1
    PROVE  (s * q + r) \div s = q
<1> DEFINE i == s * q + r
<1>1. i \in Int
  OBVIOUS
<1>2. /\ i % s = r
      /\ i \div s \in Int
      /\ i = s * (i \div s) + (i % s)
  BY <1>1, DivMod, ModUnique
<1>3. s * (q - (i \div s)) = 0
  BY <1>2
<1>4. q - (i \div s) = 0
  BY <1>2, <1>3, SmallMultiple
<1> QED BY <1>2, <1>4

(* A set of natural numbers has a least element, unless it is empty. *)
LEMMA LeastNatural ==
    ASSUME NEW T, T \subseteq Nat, T # {}
    PROVE  \E x \in T : \A y \in T : x <= y
<1> DEFINE R == OpToRel(<, Nat)
<1>1. IsWellFoundedOn(R, Nat)
  BY NatLessThanWellFounded
<1>2. \A a, b \in Nat : a < b => <<a, b>> \in R
  BY DEF OpToRel
<1> HIDE DEF R
<1>3. PICK x \in T : \A y \in T : ~ (<<y, x>> \in R)
  BY <1>1, WFMin
<1>4. ASSUME NEW y \in T PROVE x <= y
  <2>1. x \in Nat /\ y \in Nat /\ ~ (y < x)
    BY <1>2, <1>3
  <2> QED BY <2>1
<1> QED BY <1>4

(* A function on 0 .. num that goes from its first value from step to step *)
Recurs(f, a, step, num) ==
    f[0] = a /\ \A n \in 1 .. num : f[n] = step[n][f[n - 1]]

(* There is one for every first value and every step. *)
LEMMA Recursion ==
    ASSUME NEW S, NEW a \in S, NEW step \in [Nat -> [S -> S]], NEW num \in Nat
    PROVE  \E f \in [0 .. num -> S] : Recurs(f, a, step, num)
<1> USE DEF Recurs
<1> DEFINE Good(m, f) == Recurs(f, a, step, m)
           Bad == {m \in Nat : ~ \E f \in [0 .. m -> S] : Good(m, f)}
<1> SUFFICES ASSUME Bad # {} PROVE FALSE
  OBVIOUS
<1>1. PICK m \in Bad : \A k \in Bad : m <= k
  BY LeastNatural
<1>2. CASE m = 0
  <2> DEFINE f == [n \in 0 .. 0 |-> a]
  <2>1. f \in [0 .. m -> S]
    BY <1>2
  <2>2. f[0] = a /\ 1 .. m = {}
    BY <1>2
  <2>3. Good(m, f)
    BY <2>2
  <2> HIDE DEF f, Good
  <2> QED BY <1>1, <2>1, <2>3
<1>3. CASE m > 0
  <2>1. m - 1 \in Nat /\ m - 1 \notin Bad
    <3>1. m \in Nat /\ \A k \in Bad : m <= k
      BY <1>1
    <3> HIDE DEF Bad
    <3> QED BY <1>3, <3>1
  <2>2. PICK f \in [0 .. m - 1 -> S] : Good(m - 1, f)
    BY <2>1
  <2> DEFINE h == [n \in 0 .. m |-> IF n = m THEN step[m][f[m - 1]] ELSE f[n]]
  <2>3. m \in Nat /\ m - 1 \in 0 .. m - 1
    BY <1>3
  <2>4. step[m][f[m - 1]] \in S
    BY <2>2, <2>3
  <2>5. h \in [0 .. m -> S]
    BY <2>2, <2>4, <2>3
  <2>6. h[0] = a
    BY <1>3, <2>2, <2>3
  <2>7. ASSUME NEW n \in 1 .. m PROVE h[n] = step[n][h[n - 1]]
    <3>1. n - 1 \in 0 .. m /\ n - 1 # m /\ n \in 0 .. m
      BY <2>3
    <3>2. h[n - 1] = f[n - 1]
      BY <3>1
    <3>3. CASE n = m
      BY <3>1, <3>2, <3>3
    <3>4. CASE n # m
      <4>1. n \in 1 .. m - 1
        BY <3>4, <2>3
      <4> QED BY <4>1, <3>1, <3>2, <2>2, <3>4
    <3> QED BY <3>3, <3>4
  <2>8. Good(m, h)
    BY <2>6, <2>7
  <2> HIDE DEF h, Good
  <2> QED BY <1>1, <2>5, <2>8
<1>4. m \in Nat
  BY <1>1
<1> HIDE DEF Bad
<1> QED BY <1>2, <1>3, <1>4

(* Induction over 0 .. num: a set that has 0 and, with each number, the    *)
(* next one, has them all.                                                 *)
LEMMA CountingUp ==
    ASSUME NEW num \in Nat, NEW T, 0 \in T,
           \A n \in 1 .. num : n - 1 \in T => n \in T
    PROVE  \A n \in 0 .. num : n \in T
<1> DEFINE Bad == {n \in 0 .. num : n \notin T}
<1> SUFFICES ASSUME Bad # {} PROVE FALSE
  OBVIOUS
<1>0. Bad \subseteq Nat
  OBVIOUS
<1>1. PICK m \in Bad : \A k \in Bad : m <= k
  <2> HIDE DEF Bad
  <2> QED BY <1>0, LeastNatural
<1>2. m \in 1 .. num /\ m - 1 \in 0 .. num /\ m - 1 \notin Bad
  BY <1>1
<1> QED BY <1>1, <1>2
=============================================================================
