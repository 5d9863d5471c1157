-------------------------- MODULE ContainerProofs --------------------------
(***************************************************************************)
(* Proofs about the two containers and the allocator.                      *)
(*                                                                         *)
(* HashMap, for any keys, any hash function and pools of any size: the     *)
(* probe of a pool whose size is a power of two visits all its slots,      *)
(* every key in the pool is where its probe finds it, and the map          *)
(* implements RefMap.  GapBuffer, for memory of any size, any texts and    *)
(* any byte strings that are none, and counts of any size: the gap never   *)
(* comes to lie inside a symbol.  Buddy, for memory of any size and any    *)
(* smallest and largest block: the held and the free blocks tile the       *)
(* pages, and buddy_malloc fails only when no block of the size is free.   *)
(*                                                                         *)
(* The loops of hash_map.c and gap_buffer.c are recursive functions in the *)
(* models.  What such a function is for every count follows from two       *)
(* lemmas of ArithmeticLemmas: that it exists (Recursion), and what holds  *)
(* of all its values (CountingUp).                                         *)
(***************************************************************************)
EXTENDS HashMap, GapBuffer, Buddy, ArithmeticLemmas, FunctionTheorems, FiniteSetTheorems,
        SequenceTheorems, TLAPS
-----------------------------------------------------------------------------
(* Powers of two, as numbers without an odd divisor but 1 *)

LEMMA Multiple ==
    ASSUME NEW s \in Nat \ {0}, NEW c \in Int
    PROVE  (s * c) % s = 0
<1>1. 0 \in 0 .. s - 1
  OBVIOUS
<1>2. (s * c + 0) % s = 0
  BY <1>1, ModUnique
<1>3. s * c + 0 = s * c
  OBVIOUS
<1> QED BY <1>2, <1>3

(* Half of a power of two is one. *)
LEMMA Half ==
    ASSUME NEW n \in Nat, n > 1, is_pow2(n)
    PROVE  \E h \in Nat \ {0} : n = 2 * h /\ is_pow2(h)
<1>1. n % n = 0
  BY Multiple, n * 1 = n
<1>2. n % 2 = 0
  BY <1>1 DEF is_pow2
<1>3. PICK h \in Nat \ {0} : n = 2 * h
  BY <1>2
<1>4. ASSUME NEW d \in 2 .. h, h % d = 0 PROVE d % 2 = 0
  <2>1. PICK c \in Int : h = d * c
    <3>1. h = d * (h \div d) + (h % d) /\ h \div d \in Int
      BY DivMod
    <3> QED BY <1>4, <3>1
  <2>2. n = d * (2 * c)
    BY <1>3, <2>1
  <2>3. n % d = 0
    BY <2>2, Multiple
  <2>4. d \in 2 .. n
    BY <1>3
  <2> QED BY <2>3, <2>4 DEF is_pow2
<1> QED BY <1>3, <1>4 DEF is_pow2

(* An odd number times another is even only if the other is. *)
LEMMA OddFactor ==
    ASSUME NEW e \in Int, NEW c \in Int, NEW m \in Int, (2 * e + 1) * c = 2 * m
    PROVE  \E b \in Int : c = 2 * b
<1>1. c = 2 * (m - e * c)
  OBVIOUS
<1>2. m - e * c \in Int
  OBVIOUS
<1> QED BY <1>1, <1>2

(* An odd number times an odd number is odd. *)
LEMMA OddProduct ==
    ASSUME NEW x \in Int, NEW y \in Int
    PROVE  (2 * x + 1) * (2 * y + 1) = 2 * (2 * (x * y) + x + y) + 1
  OBVIOUS

LEMMA NotOddAndEven ==
    ASSUME NEW x \in Int, NEW y \in Int
    PROVE  2 * x + 1 # 2 * y
  OBVIOUS

LEMMA Double ==
    ASSUME NEW h \in Nat \ {0}, is_pow2(h)
    PROVE  is_pow2(2 * h)
<1> SUFFICES ASSUME NEW d \in 2 .. 2 * h, (2 * h) % d = 0, d % 2 # 0 PROVE FALSE
  BY DEF is_pow2
<1>1. PICK c \in Int : 2 * h = d * c
  <2>1. 2 * h = d * ((2 * h) \div d) + ((2 * h) % d) /\ (2 * h) \div d \in Int
    BY DivMod
  <2> QED BY <2>1
<1>2. PICK e \in Int : d = 2 * e + 1
  OBVIOUS
<1>3. (2 * e + 1) * c = 2 * h
  BY <1>1, <1>2
<1>4. PICK b \in Int : c = 2 * b
  BY <1>3, OddFactor
<1>5. h = d * b
  <2>1. PICK y \in Int : y = d * b
    OBVIOUS
  <2>2. d * (2 * b) = 2 * (d * b)
    OBVIOUS
  <2>3. 2 * h = 2 * y
    BY <1>1, <1>4, <2>1, <2>2
  <2> QED BY <2>1, <2>3
<1>6. h % d = 0
  <2>1. d \in Nat \ {0}
    OBVIOUS
  <2>2. (d * b) % d = 0
    BY <2>1, Multiple
  <2> QED BY <1>5, <2>2
<1>7. b >= 1
  <2>1. b <= 0 => d * b <= 0
    OBVIOUS
  <2> QED BY <1>5, <2>1
<1>8. d <= h
  <2>1. b >= 1 => d * b >= d
    OBVIOUS
  <2> QED BY <1>5, <1>7, <2>1
<1>9. d \in 2 .. h
  BY <1>8
<1> QED BY <1>6, <1>9 DEF is_pow2
-----------------------------------------------------------------------------
(* The step i * 5 + 1.  After m steps from x it is at x + d[m] * (4*x + 1) *)
(* where d[m] is where it is after m steps from 0.                         *)
IsSteps(d, num) ==
    /\ d \in [0 .. num -> Nat]
    /\ d[0] = 0
    /\ \A n \in 1 .. num : d[n] = 5 * d[n - 1] + 1

LEMMA StepsExist ==
    ASSUME NEW num \in Nat
    PROVE  \E d : IsSteps(d, num)
<1> DEFINE step == [n \in Nat |-> [x \in Nat |-> 5 * x + 1]]
<1>1. step \in [Nat -> [Nat -> Nat]]
  OBVIOUS
<1>2. PICK d \in [0 .. num -> Nat] : Recurs(d, 0, step, num)
  <2> HIDE DEF step
  <2> QED BY <1>1, Recursion
<1>3. ASSUME NEW n \in 1 .. num PROVE d[n] = 5 * d[n - 1] + 1
  <2>1. d[n] = step[n][d[n - 1]]
    BY <1>2 DEF Recurs
  <2>2. n \in Nat /\ d[n - 1] \in Nat
    OBVIOUS
  <2> QED BY <2>1, <2>2
<1> HIDE DEF step
<1> QED BY <1>2, <1>3 DEF IsSteps, Recurs

LEMMA StepsAdd ==
    ASSUME NEW num \in Nat, NEW d, IsSteps(d, num), NEW s \in 0 .. num
    PROVE  \A t \in 0 .. num - s : d[s + t] = 4 * (d[s] * d[t]) + d[s] + d[t]
<1> DEFINE T == {t \in 0 .. num - s : d[s + t] = 4 * (d[s] * d[t]) + d[s] + d[t]}
<1>0. d \in [0 .. num -> Nat] /\ d[0] = 0 /\ num - s \in Nat /\ d[s] \in Nat
  BY DEF IsSteps
<1>1. 0 \in T
  <2>1. s + 0 = s /\ 4 * (d[s] * 0) + d[s] + 0 = d[s]
    BY <1>0
  <2> QED BY <1>0, <2>1
<1>2. ASSUME NEW t \in 1 .. num - s, t - 1 \in T PROVE t \in T
  <2>1. PICK a \in Nat, b \in Nat, c \in Nat : a = d[s] /\ b = d[t - 1] /\ c = d[s + (t - 1)]
    <3>1. t - 1 \in 0 .. num /\ s + (t - 1) \in 0 .. num
      BY <1>0
    <3> QED BY <1>0, <3>1
  <2>2. c = 4 * (a * b) + a + b
    BY <1>2, <2>1
  <2>3. d[t] = 5 * b + 1
    <3>1. t \in 1 .. num
      BY <1>0
    <3> QED BY <2>1, <3>1 DEF IsSteps
  <2>4. d[s + t] = 5 * c + 1
    <3>1. s + t \in 1 .. num /\ (s + t) - 1 = s + (t - 1)
      BY <1>0
    <3>2. d[s + t] = 5 * d[(s + t) - 1] + 1
      BY <3>1 DEF IsSteps
    <3> QED BY <2>1, <3>1, <3>2
  <2>5. 4 * (a * (5 * b + 1)) + a + (5 * b + 1) = 5 * (4 * (a * b) + a + b) + 1
    OBVIOUS
  <2>6. d[s + t] = 4 * (d[s] * d[t]) + d[s] + d[t]
    BY <2>1, <2>2, <2>3, <2>4, <2>5
  <2> QED BY <2>6
<1>3. \A t \in 0 .. num - s : t \in T
  <2> HIDE DEF T
  <2> QED BY <1>0, <1>1, <1>2, CountingUp
<1> QED BY <1>3

(* Every second value is even. *)
BothEven(n, a) == \E e, c \in Nat : n = 2 * e /\ a = 2 * c
BothOdd(n, a) == \E e, c \in Nat : n = 2 * e + 1 /\ a = 2 * c + 1

LEMMA StepsParity ==
    ASSUME NEW num \in Nat, NEW d, IsSteps(d, num), NEW m \in 0 .. num
    PROVE  BothEven(m, d[m]) \/ BothOdd(m, d[m])
<1> DEFINE Even(n) == BothEven(n, d[n])
           Odd(n) == BothOdd(n, d[n])
           T == {n \in 0 .. num : Even(n) \/ Odd(n)}
<1> USE DEF BothEven, BothOdd
<1>1. 0 \in T
  <2>1. 0 = 2 * 0 /\ d[0] = 2 * 0 /\ 0 \in Nat /\ 0 \in 0 .. num
    BY DEF IsSteps
  <2> QED BY <2>1
<1>2. ASSUME NEW n \in 1 .. num, n - 1 \in T PROVE n \in T
  <2>1. d[n] = 5 * d[n - 1] + 1
    BY DEF IsSteps
  <2>2. CASE Even(n - 1)
    <3>1. PICK e \in Nat, c \in Nat : n - 1 = 2 * e /\ d[n - 1] = 2 * c
      BY <2>2
    <3>2. n = 2 * e + 1 /\ d[n] = 2 * (5 * c) + 1 /\ 5 * c \in Nat
      BY <2>1, <3>1
    <3>3. Odd(n)
      BY <3>2
    <3> QED BY <3>3
  <2>3. CASE Odd(n - 1)
    <3>1. PICK e \in Nat, c \in Nat : n - 1 = 2 * e + 1 /\ d[n - 1] = 2 * c + 1
      BY <2>3
    <3>2. n = 2 * (e + 1) /\ d[n] = 2 * (5 * c + 3) /\ 5 * c + 3 \in Nat /\ e + 1 \in Nat
      BY <2>1, <3>1
    <3>3. Even(n)
      BY <3>2
    <3> QED BY <3>3
  <2> HIDE DEF Even, Odd
  <2> QED BY <1>2, <2>2, <2>3
<1>3. m \in T
  <2> HIDE DEF T
  <2>1. \A n \in 0 .. num : n \in T
    BY <1>1, <1>2, CountingUp
  <2> QED BY <2>1
<1> QED BY <1>3

(* A power of two divides d[m], or an odd multiple of it, only if it       *)
(* divides m.                                                              *)
OnlyMultiples(n, d, num) ==
    \A m \in 0 .. num, r \in Nat, c \in Int :
        d[m] * (2 * r + 1) = n * c => \E e \in Nat : m = n * e

LEMMA Period ==
    ASSUME NEW num \in Nat, NEW d, IsSteps(d, num), NEW n \in Nat \ {0}, is_pow2(n)
    PROVE  OnlyMultiples(n, d, num)
<1> DEFINE Bad == {x \in Nat \ {0} : is_pow2(x) /\ ~OnlyMultiples(x, d, num)}
<1> SUFFICES ASSUME Bad # {} PROVE FALSE
  OBVIOUS
<1>1. PICK p \in Bad : \A x \in Bad : p <= x
  <2>1. Bad \subseteq Nat
    OBVIOUS
  <2> HIDE DEF Bad
  <2> QED BY <2>1, LeastNatural
<1>2. p \in Nat \ {0} /\ is_pow2(p) /\ ~OnlyMultiples(p, d, num)
  BY <1>1
<1>3. CASE p = 1
  <2>1. \A m \in 0 .. num : m \in Nat /\ m = 1 * m
    OBVIOUS
  <2>2. OnlyMultiples(1, d, num)
    BY <2>1 DEF OnlyMultiples
  <2> QED BY <1>2, <1>3, <2>2
<1>4. CASE p > 1
  <2>1. PICK h \in Nat \ {0} : p = 2 * h /\ is_pow2(h)
    BY <1>2, <1>4, Half
  <2>2. h < p
    BY <2>1
  <2>3. OnlyMultiples(h, d, num)
    <3>1. h \notin Bad
      <4> HIDE DEF Bad
      <4> QED BY <1>1, <1>2, <2>2
    <3> QED BY <2>1, <3>1
  <2>4. ASSUME NEW m \in 0 .. num, NEW r \in Nat, NEW c \in Int, d[m] * (2 * r + 1) = p * c
        PROVE  \E e \in Nat : m = p * e
    <3>1. BothEven(m, d[m]) \/ BothOdd(m, d[m])
      <4> HIDE DEF Bad
      <4> QED BY StepsParity, Zenon
    <3>2. CASE BothOdd(m, d[m])
      <4>1. PICK e \in Nat, b \in Nat : m = 2 * e + 1 /\ d[m] = 2 * b + 1
        BY <3>2 DEF BothOdd
      <4>2. (2 * b + 1) * (2 * r + 1) = (2 * h) * c
        BY <2>1, <2>4, <4>1
      <4>3. (2 * b + 1) * (2 * r + 1) = 2 * (2 * (b * r) + b + r) + 1
        BY OddProduct
      <4>4. (2 * h) * c = 2 * (h * c)
        OBVIOUS
      <4>5. 2 * (b * r) + b + r \in Int /\ h * c \in Int
        OBVIOUS
      <4>6. 2 * (2 * (b * r) + b + r) + 1 = 2 * (h * c)
        BY <4>2, <4>3, <4>4
      <4> QED BY <4>5, <4>6, NotOddAndEven
    <3>3. CASE BothEven(m, d[m])
      <4>1. PICK e \in Nat : m = 2 * e
        BY <3>3 DEF BothEven
      <4>2. e \in 0 .. num /\ e \in 0 .. num - e /\ e + e = m
        BY <4>1
      <4>3. PICK b \in Nat : b = d[e]
        BY <4>2 DEF IsSteps
      <4>4. d[m] = 4 * (b * b) + b + b
        BY <4>2, <4>3, StepsAdd
      <4> DEFINE q == (2 * b + 1) * (2 * r + 1)
      <4>5. d[m] * (2 * r + 1) = 2 * (b * q)
        <5>1. 4 * (b * b) + b + b = 2 * (b * (2 * b + 1))
          OBVIOUS
        <5>2. (2 * (b * (2 * b + 1))) * (2 * r + 1) = 2 * (b * ((2 * b + 1) * (2 * r + 1)))
          OBVIOUS
        <5> QED BY <4>4, <5>1, <5>2
      <4>6. p * c = 2 * (h * c)
        BY <2>1
      <4>7. b * q = h * c
        <5>1. PICK x \in Int, y \in Int : x = b * q /\ y = h * c
          OBVIOUS
        <5>2. 2 * x = 2 * y
          BY <2>4, <4>5, <4>6, <5>1
        <5> QED BY <5>1, <5>2
      <4>8. PICK s \in Nat : q = 2 * s + 1
        <5>1. q = 2 * (2 * (b * r) + b + r) + 1
          BY OddProduct
        <5>2. 2 * (b * r) + b + r \in Nat
          OBVIOUS
        <5> QED BY <5>1, <5>2
      <4> HIDE DEF q
      <4>9. PICK f \in Nat : e = h * f
        <5>1. d[e] * (2 * s + 1) = h * c
          BY <4>3, <4>7, <4>8
        <5> QED BY <2>3, <4>2, <5>1 DEF OnlyMultiples
      <4>10. m = p * f
        BY <2>1, <4>1, <4>9
      <4> QED BY <4>10
    <3> QED BY <3>1, <3>2, <3>3
  <2>5. OnlyMultiples(p, d, num)
    BY <2>4 DEF OnlyMultiples
  <2> QED BY <1>2, <2>5
<1> QED BY <1>2, <1>3, <1>4
-----------------------------------------------------------------------------
(* A walk over the slots of a pool of n slots with that step *)
IsWalk(f, n) ==
    /\ f \in [0 .. n -> 0 .. n - 1]
    /\ \A t \in 1 .. n : f[t] = (5 * f[t - 1] + 1) % n

(* Where the walk is after t steps, up to multiples of n *)
IsAt(f, n, d, t) == \E c \in Int : f[t] = f[0] + d[t] * (4 * f[0] + 1) + n * c

LEMMA WalkType ==
    ASSUME NEW n \in Nat \ {0}, NEW f, IsWalk(f, n)
    PROVE  \A t \in 0 .. n : f[t] \in 0 .. n - 1
<1>1. f \in [0 .. n -> 0 .. n - 1]
  BY DEF IsWalk
<1> QED BY <1>1

LEMMA WalkAt ==
    ASSUME NEW n \in Nat \ {0}, NEW f, IsWalk(f, n), NEW d, IsSteps(d, n)
    PROVE  \A t \in 0 .. n : IsAt(f, n, d, t)
<1> DEFINE T == {t \in 0 .. n : IsAt(f, n, d, t)}
<1>0. PICK x \in Nat : x = f[0] /\ x \in 0 .. n - 1
  BY DEF IsWalk
<1>1. 0 \in T
  <2>1. d[0] = 0
    BY DEF IsSteps
  <2>2. x = x + 0 * (4 * x + 1) + n * 0
    OBVIOUS
  <2>3. IsAt(f, n, d, 0)
    <3>1. f[0] = f[0] + d[0] * (4 * f[0] + 1) + n * 0
      BY <1>0, <2>1, <2>2
    <3>2. 0 \in Int
      OBVIOUS
    <3> QED BY <3>1, <3>2 DEF IsAt
  <2> QED BY <2>3
<1>2. ASSUME NEW t \in 1 .. n, t - 1 \in T PROVE t \in T
  <2>1. PICK c \in Int : f[t - 1] = f[0] + d[t - 1] * (4 * f[0] + 1) + n * c
    BY <1>2 DEF IsAt
  <2>2. PICK y \in Nat, b \in Nat : y = f[t - 1] /\ b = d[t - 1]
    <3>1. t - 1 \in 0 .. n
      OBVIOUS
    <3>2. f[t - 1] \in Nat
      BY <3>1, WalkType
    <3>3. d[t - 1] \in Nat
      BY <3>1 DEF IsSteps
    <3> QED BY <3>2, <3>3
  <2>3. y = x + b * (4 * x + 1) + n * c
    BY <1>0, <2>1, <2>2
  <2>4. d[t] = 5 * b + 1
    BY <2>2 DEF IsSteps
  <2>5. f[t] = (5 * y + 1) % n
    BY <2>2 DEF IsWalk
  <2>6. PICK q \in Int : 5 * y + 1 = n * q + f[t] /\ f[t] \in Int
    <3>1. PICK z \in Int : z = 5 * y + 1
      OBVIOUS
    <3>2. z = n * (z \div n) + (z % n) /\ z \div n \in Int /\ z % n \in 0 .. n - 1
      BY DivMod
    <3>3. f[t] = z % n
      BY <2>5, <3>1
    <3>4. 5 * y + 1 = n * (z \div n) + f[t] /\ f[t] \in Int
      BY <3>1, <3>2, <3>3
    <3> QED BY <3>2, <3>4
  <2>7. 5 * y + 1 = x + (5 * b + 1) * (4 * x + 1) + n * (5 * c)
    <3>1. 5 * (x + b * (4 * x + 1) + n * c) + 1 = x + (5 * b + 1) * (4 * x + 1) + n * (5 * c)
      OBVIOUS
    <3> QED BY <2>3, <3>1
  <2>8. PICK z \in Int : z = x + (5 * b + 1) * (4 * x + 1)
    OBVIOUS
  <2>9. f[t] = z + n * (5 * c - q)
    <3>1. f[t] = z + n * (5 * c) - n * q
      BY <2>6, <2>7, <2>8
    <3>2. n * (5 * c) - n * q = n * (5 * c - q)
      OBVIOUS
    <3> QED BY <3>1, <3>2
  <2>10. 5 * c - q \in Int
    OBVIOUS
  <2>11. IsAt(f, n, d, t)
    BY <1>0, <2>4, <2>8, <2>9, <2>10 DEF IsAt
  <2> QED BY <2>11
<1>3. \A t \in 0 .. n : t \in T
  <2> HIDE DEF T
  <2> QED BY <1>1, <1>2, CountingUp
<1> QED BY <1>3

(* In a pool whose size is a power of two it comes back to a slot only     *)
(* after it has been to all of them.                                       *)
LEMMA NoReturn ==
    ASSUME NEW n \in Nat \ {0}, is_pow2(n), NEW f, IsWalk(f, n),
           NEW s \in 0 .. n - 1, NEW t \in 0 .. n - 1, s < t
    PROVE  f[s] # f[t]
<1> SUFFICES ASSUME f[s] = f[t] PROVE FALSE
  OBVIOUS
<1>1. PICK d : IsSteps(d, n)
  BY StepsExist
<1>2. PICK x \in Nat : x = f[0]
  BY DEF IsWalk
<1> DEFINE m == t - s
<1>3. m \in 0 .. n /\ s \in 0 .. n /\ t \in 0 .. n /\ m \in 0 .. n - s /\ s + m = t
      /\ m > 0 /\ m < n /\ m \in Nat
  OBVIOUS
<1>4. PICK a \in Nat, b \in Nat : a = d[s] /\ b = d[m]
  BY <1>1, <1>3 DEF IsSteps
<1>5. d[t] = 4 * (a * b) + a + b
  <2> HIDE DEF m
  <2>1. d[s + m] = 4 * (d[s] * d[m]) + d[s] + d[m]
    BY <1>1, <1>3, StepsAdd
  <2> QED BY <1>3, <1>4, <2>1
<1>6. PICK c \in Int : f[s] = x + a * (4 * x + 1) + n * c
  BY <1>1, <1>2, <1>3, <1>4, WalkAt DEF IsAt
<1>7. PICK e \in Int : f[t] = x + (4 * (a * b) + a + b) * (4 * x + 1) + n * e
  <2>1. IsAt(f, n, d, t)
    BY <1>1, <1>3, WalkAt
  <2>2. PICK e \in Int : f[t] = x + d[t] * (4 * x + 1) + n * e
    BY <1>2, <2>1 DEF IsAt
  <2> QED BY <1>5, <2>2
<1> HIDE DEF m
<1>8. x + a * (4 * x + 1) + n * c = x + (4 * (a * b) + a + b) * (4 * x + 1) + n * e
  BY <1>6, <1>7
<1>9. b * ((4 * a + 1) * (4 * x + 1)) = n * (c - e)
  <2>1. (4 * (a * b) + a + b) * (4 * x + 1) = b * ((4 * a + 1) * (4 * x + 1)) + a * (4 * x + 1)
    OBVIOUS
  <2>2. PICK u \in Int, v \in Int, w \in Int, z \in Int :
            u = b * ((4 * a + 1) * (4 * x + 1)) /\ v = a * (4 * x + 1) /\ w = n * c /\ z = n * e
    OBVIOUS
  <2>3. x + v + w = x + (u + v) + z
    BY <1>8, <2>1, <2>2
  <2>4. n * (c - e) = n * c - n * e
    OBVIOUS
  <2>5. u = w - z
    BY <2>3
  <2> QED BY <2>2, <2>4, <2>5
<1>10. PICK r \in Nat : (4 * a + 1) * (4 * x + 1) = 2 * r + 1
  <2>1. (4 * a + 1) * (4 * x + 1) = 2 * (8 * (a * x) + 2 * a + 2 * x) + 1
    OBVIOUS
  <2>2. 8 * (a * x) + 2 * a + 2 * x \in Nat
    OBVIOUS
  <2> QED BY <2>1, <2>2
<1>11. d[m] * (2 * r + 1) = n * (c - e) /\ c - e \in Int
  BY <1>4, <1>9, <1>10
<1>12. PICK g \in Nat : m = n * g
  <2>1. OnlyMultiples(n, d, n)
    BY <1>1, Period
  <2> QED BY <1>3, <1>11, <2>1 DEF OnlyMultiples
<1>13. g = 0
  BY <1>3, <1>12, SmallMultiple
<1> QED BY <1>3, <1>12, <1>13

(* So it goes through all slots. *)
LEMMA WalkCovers ==
    ASSUME NEW n \in Nat \ {0}, is_pow2(n), NEW f, IsWalk(f, n), NEW i \in 0 .. n - 1
    PROVE  \E t \in 0 .. n - 1 : f[t] = i
<1> SUFFICES ASSUME \A t \in 0 .. n - 1 : f[t] # i PROVE FALSE
  OBVIOUS
<1> DEFINE S == 0 .. n - 1
           T == S \ {i}
           g == [t \in S |-> f[t]]
<1>1. IsFiniteSet(S) /\ Cardinality(S) = n
  BY FS_Interval
<1>2. IsFiniteSet(T) /\ Cardinality(T) = n - 1
  <2>1. i \in S
    OBVIOUS
  <2> HIDE DEF S
  <2> QED BY <1>1, <2>1, FS_RemoveElement
<1>3. g \in [S -> T]
  <2>1. \A t \in S : f[t] \in S /\ f[t] # i
    BY WalkType
  <2> HIDE DEF S
  <2> QED BY <2>1
<1>4. PICK s \in S, t \in S : s # t /\ g[s] = g[t]
  <2> HIDE DEF S, T, g
  <2> QED BY <1>1, <1>2, <1>3, FS_PigeonHole
<1>5. f[s] = f[t] /\ (s < t \/ t < s)
  BY <1>4
<1> QED BY <1>5, NoReturn
-----------------------------------------------------------------------------
(* The path of a probe *)
LEMMA SizeIs ==
    ASSUME NEW n \in Nat \ {0}, NEW p, DOMAIN p = 0 .. n - 1
    PROVE  Size(p) = n
<1>1. Cardinality(0 .. n - 1) = n
  BY FS_Interval
<1> QED BY <1>1 DEF Size

LEMMA PertType ==
    ASSUME NEW k \in Keys, NEW j \in Nat
    PROVE  Pert(k, j) \in Nat /\ (j >= PertSteps => Pert(k, j) = 0)
<1>1. CASE j < PertSteps
  <2>1. Hash[k] \in Nat /\ 32 ^ j \in Nat \ {0} /\ PertSteps \in Nat
    BY <1>1, MapAssumption
  <2>2. \A a \in Nat, b \in Nat \ {0} : a \div b \in Nat
    OBVIOUS
  <2>3. Hash[k] \div (32 ^ j) \in Nat
    BY <2>1, <2>2
  <2> QED BY <1>1, <2>1, <2>3 DEF Pert
<1>2. CASE ~ (j < PertSteps)
  BY <1>2 DEF Pert
<1> QED BY <1>1, <1>2

IsPath(f, n, k) ==
    /\ f \in [0 .. PertSteps + n -> 0 .. n - 1]
    /\ \A j \in 1 .. PertSteps + n : f[j] = (f[j - 1] * 5 + Pert(k, j) + 1) % n

LEMMA PathIs ==
    ASSUME NEW n \in Nat \ {0}, NEW p, DOMAIN p = 0 .. n - 1, NEW k \in Keys
    PROVE  IsPath(Path(p, k), n, k)
<1> DEFINE S == 0 .. n - 1
           last == PertSteps + n
           a == Hash[k] % n
           Body(f) == [j \in 0 .. last |->
                          IF j = 0 THEN a ELSE (f[j - 1] * 5 + Pert(k, j) + 1) % n]
           step == [j \in Nat |-> [x \in S |-> (x * 5 + Pert(k, j) + 1) % n]]
<1>1. PertSteps \in Nat /\ last \in Nat /\ Hash[k] \in Nat
  BY MapAssumption
<1>2. Path(p, k) = CHOOSE f : f = Body(f)
  <2>1. Size(p) = n
    BY SizeIs
  <2> QED BY <2>1, Zenon DEF Path
<1>3. a \in S
  <2>1. Hash[k] \in Int
    BY <1>1
  <2> QED BY <2>1, DivMod
<1>4. \A x \in S, j \in Nat : (x * 5 + Pert(k, j) + 1) % n \in S
  <2> SUFFICES ASSUME NEW x \in S, NEW j \in Nat PROVE (x * 5 + Pert(k, j) + 1) % n \in S
    OBVIOUS
  <2>1. Pert(k, j) \in Nat
    BY PertType
  <2>2. x * 5 + Pert(k, j) + 1 \in Int
    BY <2>1
  <2> QED BY <2>2, DivMod
<1>5. step \in [Nat -> [S -> S]]
  <2> HIDE DEF S
  <2> QED BY <1>4
<1>6. PICK f \in [0 .. last -> S] : Recurs(f, a, step, last)
  <2> HIDE DEF S, step, last, a
  <2> QED BY <1>1, <1>3, <1>5, Recursion, Zenon
<1>7. ASSUME NEW j \in 1 .. last PROVE f[j] = (f[j - 1] * 5 + Pert(k, j) + 1) % n
  <2>1. j \in Nat /\ f[j - 1] \in S
    <3> HIDE DEF S
    <3>1. j \in Nat /\ j - 1 \in 0 .. last
      BY <1>1
    <3> QED BY <3>1
  <2>2. f[j] = step[j][f[j - 1]]
    BY <1>6 DEF Recurs
  <2> HIDE DEF S
  <2> QED BY <2>1, <2>2
<1>8. f = Body(f)
  <2>1. f[0] = a
    BY <1>6 DEF Recurs
  <2> HIDE DEF S, a, step
  <2>2. \A j \in 0 .. last : j = 0 \/ j \in 1 .. last
    BY <1>1
  <2>3. \A j \in 0 .. last : f[j] = Body(f)[j]
    BY <1>7, <2>1, <2>2
  <2> HIDE DEF last
  <2> QED BY <2>3
<1> DEFINE g == Path(p, k)
<1>9. g = Body(g)
  <2> HIDE DEF Body
  <2> QED BY <1>2, <1>8, Zenon
<1> HIDE DEF g
<1>10. \A j \in 1 .. last : g[j] = (g[j - 1] * 5 + Pert(k, j) + 1) % n
  <2> SUFFICES ASSUME NEW j \in 1 .. last PROVE g[j] = (g[j - 1] * 5 + Pert(k, j) + 1) % n
    OBVIOUS
  <2>1. j \in 0 .. last /\ j # 0
    BY <1>1
  <2>2. g[j] = Body(g)[j]
    BY <1>9
  <2> HIDE DEF last
  <2> QED BY <2>1, <2>2
<1>11. g[0] = a
  <2>1. 0 \in 0 .. last
    BY <1>1
  <2>2. g[0] = Body(g)[0]
    BY <1>9
  <2> HIDE DEF last
  <2> QED BY <2>1, <2>2
<1> DEFINE T == {j \in 0 .. last : g[j] \in S}
<1>12. 0 \in T
  BY <1>1, <1>3, <1>11
<1>13. ASSUME NEW j \in 1 .. last, j - 1 \in T PROVE j \in T
  <2>1. j \in Nat /\ j \in 0 .. last /\ g[j - 1] \in S
    BY <1>1, <1>13
  <2> HIDE DEF S, last
  <2> QED BY <1>4, <1>10, <2>1
<1>14. \A j \in 0 .. last : j \in T
  <2> HIDE DEF T, last
  <2> QED BY <1>1, <1>12, <1>13, CountingUp
<1>15. g \in [0 .. last -> S]
  <2>1. g = [j \in 0 .. last |-> g[j]]
    <3> HIDE DEF S, a, last
    <3> QED BY <1>9
  <2> HIDE DEF S, last
  <2> QED BY <1>14, <2>1
<1>16. IsPath(g, n, k)
  BY <1>10, <1>15 DEF IsPath
<1> QED BY <1>16 DEF g

(* Once nothing is left of the hash, the probe walks through the pool, so  *)
(* that a probe sees every slot of a pool whose size is a power of two.    *)
LEMMA PathCovers ==
    ASSUME NEW n \in Nat \ {0}, is_pow2(n), NEW k \in Keys, NEW f, IsPath(f, n, k),
           NEW i \in 0 .. n - 1
    PROVE  \E j \in 0 .. PertSteps + n : f[j] = i
<1> DEFINE g == [t \in 0 .. n |-> f[PertSteps + t]]
<1>0. PertSteps \in Nat
  BY MapAssumption
<1>1. \A t \in 0 .. n : PertSteps + t \in 0 .. PertSteps + n
  BY <1>0
<1>2. f \in [0 .. PertSteps + n -> 0 .. n - 1]
  BY DEF IsPath
<1>3. g \in [0 .. n -> 0 .. n - 1]
  BY <1>1, <1>2
<1>4. ASSUME NEW t \in 1 .. n PROVE g[t] = (5 * g[t - 1] + 1) % n
  <2>1. PertSteps + t \in 1 .. PertSteps + n /\ (PertSteps + t) - 1 = PertSteps + (t - 1)
        /\ PertSteps + t \in Nat /\ PertSteps + t >= PertSteps /\ t \in 0 .. n /\ t - 1 \in 0 .. n
    BY <1>0
  <2>2. Pert(k, PertSteps + t) = 0
    BY <2>1, PertType
  <2>3. f[PertSteps + t] = (f[(PertSteps + t) - 1] * 5 + Pert(k, PertSteps + t) + 1) % n
    BY <2>1 DEF IsPath
  <2>4. PICK x \in Nat : x = f[PertSteps + (t - 1)]
    BY <1>1, <1>2, <2>1
  <2>5. f[PertSteps + t] = (x * 5 + 0 + 1) % n
    BY <2>1, <2>2, <2>3, <2>4
  <2>6. x * 5 + 0 + 1 = 5 * x + 1
    OBVIOUS
  <2>7. g[t] = f[PertSteps + t] /\ g[t - 1] = x
    BY <2>1, <2>4
  <2> HIDE DEF g
  <2> QED BY <2>5, <2>6, <2>7
<1>5. IsWalk(g, n)
  BY <1>3, <1>4 DEF IsWalk
<1>6. PICK t \in 0 .. n - 1 : g[t] = i
  <2> HIDE DEF g
  <2> QED BY <1>5, WalkCovers
<1> QED BY <1>1, <1>6
-----------------------------------------------------------------------------
(* Where a probe stops *)
Items == {Unused, Deleted} \cup {Item("used", k, v) : k \in Keys, v \in Values}

Pools(n) == [0 .. n - 1 -> Items]

LEMMA ItemFacts ==
    ASSUME NEW it \in Items
    PROVE  /\ it.state \in {"unused", "deleted", "used"}
           /\ it.state = "unused" => it.value = 0
           /\ it.state = "used" => it.key \in Keys /\ it.value \in Values
  BY DEF Items, Item, Unused, Deleted

Way(n, k) == Path(EmptyPool(n), k)

LEMMA WayIs ==
    ASSUME NEW n \in Nat \ {0}, NEW k \in Keys
    PROVE  /\ IsPath(Way(n, k), n, k)
           /\ \A p \in Pools(n) : Path(p, k) = Way(n, k)
<1>1. DOMAIN EmptyPool(n) = 0 .. n - 1
  BY DEF EmptyPool
<1>2. IsPath(Way(n, k), n, k)
  BY <1>1, PathIs DEF Way
<1>3. ASSUME NEW p \in Pools(n) PROVE Path(p, k) = Way(n, k)
  <2>1. DOMAIN p = 0 .. n - 1
    BY DEF Pools
  <2>2. Size(p) = Size(EmptyPool(n))
    BY <1>1, <2>1 DEF Size
  <2> QED BY <2>2, Zenon DEF Path, Way
<1> QED BY <1>2, <1>3

LEMMA WayType ==
    ASSUME NEW n \in Nat \ {0}, NEW k \in Keys
    PROVE  /\ DOMAIN Way(n, k) = 0 .. PertSteps + n
           /\ \A j \in 0 .. PertSteps + n : Way(n, k)[j] \in 0 .. n - 1
<1>1. Way(n, k) \in [0 .. PertSteps + n -> 0 .. n - 1]
  BY WayIs DEF IsPath
<1> QED BY <1>1

PathEnds(it, k) == it.state = "unused" \/ (it.state = "used" /\ it.key = k)

(* The probe for k stops at its place j. *)
FirstAt(p, n, k, j) ==
    /\ j \in 0 .. PertSteps + n
    /\ PathEnds(p[Way(n, k)[j]], k)
    /\ \A m \in 0 .. j - 1 : ~PathEnds(p[Way(n, k)[m]], k)

LEMMA FirstUnique ==
    ASSUME NEW n \in Nat, NEW p, NEW k, NEW i, NEW j, FirstAt(p, n, k, i), FirstAt(p, n, k, j)
    PROVE  i = j
<1>1. i \in Int /\ j \in Int /\ i >= 0 /\ j >= 0
  BY MapAssumption DEF FirstAt
<1>2. ~ (i \in 0 .. j - 1) /\ ~ (j \in 0 .. i - 1)
  BY DEF FirstAt
<1> QED BY <1>1, <1>2

LEMMA StopsAre ==
    ASSUME NEW n \in Nat \ {0}, NEW p \in Pools(n), NEW k \in Keys
    PROVE  Stops(p, k) = {j \in 0 .. PertSteps + n : PathEnds(p[Way(n, k)[j]], k)}
<1>1. Path(p, k) = Way(n, k)
  BY WayIs
<1>2. DOMAIN Way(n, k) = 0 .. PertSteps + n
  BY WayType
<1> QED BY <1>1, <1>2, Zenon DEF Stops, PathEnds

LEMMA FoundAt ==
    ASSUME NEW n \in Nat \ {0}, NEW p \in Pools(n), NEW k \in Keys, NEW j, FirstAt(p, n, k, j)
    PROVE  ~Endless(p, k) /\ Found(p, k) = Way(n, k)[j]
<1> DEFINE S == Stops(p, k)
<1>1. j \in S
  BY StopsAre DEF FirstAt
<1>2. S \subseteq Nat
  BY StopsAre, MapAssumption
<1>3. ASSUME NEW y \in S PROVE j <= y
  <2>1. y \in 0 .. PertSteps + n /\ PathEnds(p[Way(n, k)[y]], k)
    BY StopsAre
  <2>2. ~ (y \in 0 .. j - 1)
    BY <2>1 DEF FirstAt
  <2> HIDE DEF S
  <2> QED BY <1>1, <1>2, <2>2
<1>4. Min(S) = j
  <2> HIDE DEF S
  <2>1. \A x \in S : (\A y \in S : x <= y) => x = j
    <3> SUFFICES ASSUME NEW x \in S, \A y \in S : x <= y PROVE x = j
      OBVIOUS
    <3>1. x <= j /\ j <= x /\ x \in Nat /\ j \in Nat
      BY <1>1, <1>2, <1>3
    <3> QED BY <3>1
  <2> QED BY <1>1, <1>3, <2>1 DEF Min
<1>5. Path(p, k) = Way(n, k)
  BY WayIs
<1> QED BY <1>1, <1>4, <1>5 DEF Endless, Found

LEMMA NotEndless ==
    ASSUME NEW n \in Nat \ {0}, NEW p \in Pools(n), NEW k \in Keys, ~Endless(p, k)
    PROVE  \E j : FirstAt(p, n, k, j)
<1> DEFINE S == Stops(p, k)
<1>1. S \subseteq Nat /\ S # {}
  BY StopsAre, MapAssumption DEF Endless
<1>2. PICK j \in S : \A y \in S : j <= y
  <2> HIDE DEF S
  <2> QED BY <1>1, LeastNatural
<1>3. j \in 0 .. PertSteps + n /\ PathEnds(p[Way(n, k)[j]], k)
  BY <1>2, StopsAre
<1>4. ASSUME NEW m \in 0 .. j - 1, PathEnds(p[Way(n, k)[m]], k) PROVE FALSE
  <2>1. m \in 0 .. PertSteps + n
    BY <1>3, MapAssumption
  <2>2. m \in S
    BY <1>4, <2>1, StopsAre
  <2>3. j <= m
    BY <1>2, <2>2
  <2> HIDE DEF S
  <2> QED BY <1>3, <2>3
<1> QED BY <1>3, <1>4 DEF FirstAt

(* A probe that never stops has seen the whole pool. *)
LEMMA EndlessFull ==
    ASSUME NEW n \in Nat \ {0}, is_pow2(n), NEW p \in Pools(n), NEW k \in Keys, Endless(p, k),
           NEW i \in 0 .. n - 1
    PROVE  p[i].state # "unused"
<1>1. PICK j \in 0 .. PertSteps + n : Way(n, k)[j] = i
  BY WayIs, PathCovers
<1>2. j \notin Stops(p, k)
  BY DEF Endless
<1> QED BY <1>1, <1>2, StopsAre DEF PathEnds

(* Where a new item goes *)
LEMMA FreeAt ==
    ASSUME NEW n \in Nat \ {0}, NEW p \in Pools(n), NEW k \in Keys, NEW j,
           FirstAt(p, n, k, j), p[Way(n, k)[j]].state # "used"
    PROVE  \E f \in 0 .. j : /\ InsertIndex(p, k) = Way(n, k)[f]
                             /\ p[Way(n, k)[f]].state # "used"
                             /\ \A m \in 0 .. f - 1 : p[Way(n, k)[m]].state = "used"
<1> DEFINE S == {m \in 0 .. PertSteps + n : p[Way(n, k)[m]].state # "used"}
<1>1. j \in S /\ S \subseteq Nat
  BY MapAssumption DEF FirstAt
<1>2. PICK f \in S : \A y \in S : f <= y
  <2> HIDE DEF S
  <2> QED BY <1>1, LeastNatural
<1>3. Min(S) = f
  <2> HIDE DEF S
  <2>1. \A x \in S : (\A y \in S : x <= y) => x = f
    <3> SUFFICES ASSUME NEW x \in S, \A y \in S : x <= y PROVE x = f
      OBVIOUS
    <3>1. x <= f /\ f <= x /\ x \in Nat /\ f \in Nat
      BY <1>1, <1>2
    <3> QED BY <3>1
  <2> QED BY <1>2, <2>1 DEF Min
<1>4. InsertIndex(p, k) = Way(n, k)[f]
  <2>1. Path(p, k) = Way(n, k)
    BY WayIs
  <2>2. DOMAIN Way(n, k) = 0 .. PertSteps + n
    BY WayType
  <2> QED BY <1>3, <2>1, <2>2, Zenon DEF InsertIndex
<1>5. f \in 0 .. j
  <2> HIDE DEF S
  <2> QED BY <1>1, <1>2
<1>6. ASSUME NEW m \in 0 .. f - 1, p[Way(n, k)[m]].state # "used" PROVE FALSE
  <2>1. f \in 0 .. PertSteps + n
    BY <1>2
  <2>2. m \in 0 .. PertSteps + n
    BY <2>1, MapAssumption
  <2>3. m \in S
    BY <1>6, <2>2
  <2> HIDE DEF S
  <2> QED BY <1>1, <1>2, <2>3
<1> QED BY <1>2, <1>4, <1>5, <1>6
-----------------------------------------------------------------------------
(* A pool in which every key is where its probe finds it *)
Occupied(p) == {i \in DOMAIN p : p[i].state = "used"}

InPlace(p, n, i) == \E j : FirstAt(p, n, p[i].key, j) /\ Way(n, p[i].key)[j] = i

Sound(p, n) == p \in Pools(n) /\ \A i \in Occupied(p) : InPlace(p, n, i)

(* The place of the probe for a key of the pool is that of its item. *)
LEMMA InPlaceFirst ==
    ASSUME NEW n \in Nat \ {0}, NEW p, Sound(p, n), NEW i \in Occupied(p), NEW j,
           FirstAt(p, n, p[i].key, j)
    PROVE  Way(n, p[i].key)[j] = i
<1>1. PICK m : FirstAt(p, n, p[i].key, m) /\ Way(n, p[i].key)[m] = i
  BY DEF Sound, InPlace
<1>2. m = j
  BY <1>1, FirstUnique
<1> QED BY <1>1, <1>2

LEMMA OneSlotPerKey ==
    ASSUME NEW n \in Nat \ {0}, NEW p, Sound(p, n), NEW i \in Occupied(p), NEW h \in Occupied(p),
           p[i].key = p[h].key
    PROVE  i = h
<1>1. PICK j : FirstAt(p, n, p[h].key, j) /\ Way(n, p[h].key)[j] = h
  BY DEF Sound, InPlace
<1> QED BY <1>1, InPlaceFirst

LEMMA OccupiedFinite ==
    ASSUME NEW n \in Nat \ {0}, NEW p \in Pools(n)
    PROVE  /\ IsFiniteSet(Occupied(p))
           /\ Cardinality(Occupied(p)) \in Nat
           /\ Occupied(p) \subseteq 0 .. n - 1
           /\ \A i \in Occupied(p) : p[i] \in Items /\ p[i].key \in Keys /\ p[i].value \in Values
<1>1. Occupied(p) \subseteq 0 .. n - 1
  BY DEF Occupied, Pools
<1>2. IsFiniteSet(0 .. n - 1)
  BY FS_Interval
<1>3. IsFiniteSet(Occupied(p))
  BY <1>1, <1>2, FS_Subset
<1>4. ASSUME NEW i \in Occupied(p) PROVE p[i] \in Items /\ p[i].state = "used"
  BY DEF Occupied, Pools
<1> QED BY <1>1, <1>3, <1>4, ItemFacts, FS_CardinalityType

(* Insertion of a key that is not in the pool: q is p with a new item at x *)
AddedAt(p, q, n, k, v, x) ==
    /\ Sound(q, n)
    /\ x \in 0 .. n - 1
    /\ x \notin Occupied(p)
    /\ Occupied(q) = Occupied(p) \cup {x}
    /\ q[x] = Item("used", k, v)
    /\ \A i \in 0 .. n - 1 : i # x => q[i] = p[i]
    /\ \A i \in Occupied(p) : p[i].key # k

LEMMA InsertFresh ==
    ASSUME NEW n \in Nat \ {0}, NEW p, Sound(p, n), NEW k \in Keys, NEW v \in Values,
           NEW j, FirstAt(p, n, k, j), p[Way(n, k)[j]].state # "used",
           NEW x, x = InsertIndex(p, k), NEW q, q = [p EXCEPT ![x] = Item("used", k, v)]
    PROVE  AddedAt(p, q, n, k, v, x)
<1>0. p \in Pools(n) /\ DOMAIN p = 0 .. n - 1
  BY DEF Sound, Pools
<1>1. PICK f \in 0 .. j : /\ x = Way(n, k)[f]
                         /\ p[Way(n, k)[f]].state # "used"
                         /\ \A m \in 0 .. f - 1 : p[Way(n, k)[m]].state = "used"
  BY <1>0, FreeAt
<1>2. j \in 0 .. PertSteps + n /\ PertSteps \in Nat
  BY MapAssumption DEF FirstAt
<1>3. f \in 0 .. PertSteps + n
  BY <1>2
<1>4. x \in 0 .. n - 1 /\ x \notin Occupied(p)
  BY <1>1, <1>3, WayType DEF Occupied
<1>5. q[x] = Item("used", k, v) /\ \A i \in 0 .. n - 1 : i # x => q[i] = p[i]
  BY <1>0, <1>4
<1>6. Item("used", k, v) \in Items
  BY DEF Items
<1>7. q \in Pools(n)
  BY <1>0, <1>4, <1>6 DEF Pools
<1>8. q[x].state = "used" /\ q[x].key = k
  BY <1>5 DEF Item
<1>9. Occupied(q) = Occupied(p) \cup {x}
  <2>1. DOMAIN q = 0 .. n - 1
    BY <1>7 DEF Pools
  <2> QED BY <1>0, <1>4, <1>5, <1>8, <2>1 DEF Occupied
<1>10. ASSUME NEW i \in Occupied(p), p[i].key = k PROVE FALSE
  <2>1. FirstAt(p, n, p[i].key, j)
    BY <1>10
  <2>2. Way(n, p[i].key)[j] = i
    BY <2>1, InPlaceFirst
  <2> QED BY <1>10, <2>2 DEF Occupied
<1>11. InPlace(q, n, x)
  <2>1. \A m \in 0 .. f - 1 : m \in 0 .. PertSteps + n /\ m \in 0 .. j - 1
    BY <1>2
  <2>2. ASSUME NEW m \in 0 .. f - 1 PROVE ~PathEnds(q[Way(n, k)[m]], k)
    <3>1. ~PathEnds(p[Way(n, k)[m]], k) /\ Way(n, k)[m] \in 0 .. n - 1
      BY <2>1, WayType DEF FirstAt
    <3>2. Way(n, k)[m] # x
      BY <1>1
    <3> QED BY <1>5, <3>1, <3>2
  <2>3. PathEnds(q[Way(n, k)[f]], k)
    BY <1>1, <1>8 DEF PathEnds
  <2>4. FirstAt(q, n, k, f)
    BY <1>3, <2>2, <2>3 DEF FirstAt
  <2> QED BY <1>1, <1>8, <2>4 DEF InPlace
<1>12. ASSUME NEW i \in Occupied(p) PROVE InPlace(q, n, i)
  <2>1. i # x /\ i \in 0 .. n - 1 /\ q[i] = p[i] /\ p[i].key \in Keys /\ p[i].key # k
    BY <1>0, <1>4, <1>5, <1>10, OccupiedFinite
  <2>2. PICK c \in Keys : c = p[i].key
    BY <2>1
  <2>3. PICK m : FirstAt(p, n, c, m) /\ Way(n, c)[m] = i
    BY <2>2 DEF Sound, InPlace
  <2>4. m \in 0 .. PertSteps + n
    BY <2>3 DEF FirstAt
  <2>5. ASSUME NEW l \in 0 .. m - 1 PROVE ~PathEnds(q[Way(n, c)[l]], c)
    <3>1. l \in 0 .. PertSteps + n
      BY <1>2, <2>4
    <3>2. ~PathEnds(p[Way(n, c)[l]], c) /\ Way(n, c)[l] \in 0 .. n - 1
      BY <2>3, <3>1, WayType DEF FirstAt
    <3>3. CASE Way(n, c)[l] = x
      BY <1>8, <2>1, <2>2, <3>3 DEF PathEnds
    <3>4. CASE Way(n, c)[l] # x
      BY <1>5, <3>2, <3>4
    <3> QED BY <3>3, <3>4
  <2>6. PathEnds(q[Way(n, c)[m]], c)
    BY <2>1, <2>3 DEF FirstAt
  <2>7. FirstAt(q, n, c, m)
    BY <2>4, <2>5, <2>6 DEF FirstAt
  <2> QED BY <2>1, <2>2, <2>3, <2>7 DEF InPlace
<1>13. Sound(q, n)
  BY <1>7, <1>9, <1>11, <1>12 DEF Sound
<1> QED BY <1>4, <1>5, <1>9, <1>10, <1>13 DEF AddedAt

(* Another value for a key in the pool *)
ReplacedAt(p, q, n, v, x) ==
    /\ Sound(q, n)
    /\ Occupied(q) = Occupied(p)
    /\ q[x].key = p[x].key /\ q[x].value = v /\ q[x].state = "used"
    /\ \A i \in 0 .. n - 1 : i # x => q[i] = p[i]

LEMMA InsertOver ==
    ASSUME NEW n \in Nat \ {0}, NEW p, Sound(p, n), NEW v \in Values,
           NEW x \in Occupied(p), NEW q, q = [p EXCEPT ![x].value = v]
    PROVE  ReplacedAt(p, q, n, v, x)
<1>0. p \in Pools(n) /\ DOMAIN p = 0 .. n - 1
  BY DEF Sound, Pools
<1>1. x \in 0 .. n - 1 /\ p[x] \in Items /\ p[x].state = "used" /\ p[x].key \in Keys
  BY <1>0, OccupiedFinite DEF Occupied
<1>2. p[x] = Item("used", p[x].key, p[x].value)
  BY <1>1 DEF Items, Item, Unused, Deleted
<1>3. q[x] = [p[x] EXCEPT !.value = v] /\ \A i \in 0 .. n - 1 : i # x => q[i] = p[i]
  BY <1>0, <1>1
<1>4. q[x] = Item("used", p[x].key, v)
  BY <1>2, <1>3 DEF Item
<1>5. q[x] \in Items
  BY <1>1, <1>4 DEF Items
<1>6. q \in Pools(n)
  <2>1. q = [i \in 0 .. n - 1 |-> q[i]]
    BY <1>0
  <2>2. \A i \in 0 .. n - 1 : q[i] \in Items
    BY <1>0, <1>3, <1>5 DEF Pools
  <2> QED BY <2>1, <2>2 DEF Pools
<1>7. \A i \in 0 .. n - 1 : q[i].state = p[i].state /\ q[i].key = p[i].key
  BY <1>1, <1>3, <1>4 DEF Item
<1>8. DOMAIN q = 0 .. n - 1
  BY <1>6 DEF Pools
<1>9. Occupied(q) = Occupied(p)
  BY <1>0, <1>7, <1>8 DEF Occupied
<1>10. ASSUME NEW i \in Occupied(p) PROVE InPlace(q, n, i)
  <2>1. i \in 0 .. n - 1 /\ p[i].key \in Keys /\ q[i].key = p[i].key
    BY <1>0, <1>7, OccupiedFinite
  <2>2. PICK c \in Keys : c = p[i].key
    BY <2>1
  <2>3. PICK m : FirstAt(p, n, c, m) /\ Way(n, c)[m] = i
    BY <2>2 DEF Sound, InPlace
  <2>4. m \in 0 .. PertSteps + n
    BY <2>3 DEF FirstAt
  <2>5. \A l \in 0 .. PertSteps + n : PathEnds(q[Way(n, c)[l]], c) = PathEnds(p[Way(n, c)[l]], c)
    BY <1>7, WayType DEF PathEnds
  <2>6. \A l \in 0 .. m - 1 : l \in 0 .. PertSteps + n
    BY <2>4, MapAssumption
  <2>7. FirstAt(q, n, c, m)
    BY <2>3, <2>4, <2>5, <2>6 DEF FirstAt
  <2> QED BY <2>1, <2>2, <2>3, <2>7 DEF InPlace
<1>11. Sound(q, n)
  BY <1>6, <1>9, <1>10 DEF Sound
<1>12. q[x].key = p[x].key /\ q[x].value = v /\ q[x].state = "used"
  BY <1>4 DEF Item
<1> QED BY <1>3, <1>9, <1>11, <1>12 DEF ReplacedAt

(* Removal of a key of the pool *)
LEMMA RemoveItem ==
    ASSUME NEW n \in Nat \ {0}, NEW p, Sound(p, n), NEW x \in Occupied(p),
           NEW q, q = [p EXCEPT ![x] = Deleted]
    PROVE  Sound(q, n) /\ Occupied(q) = Occupied(p) \ {x}
<1>0. p \in Pools(n) /\ DOMAIN p = 0 .. n - 1
  BY DEF Sound, Pools
<1>1. x \in 0 .. n - 1
  BY <1>0, OccupiedFinite
<1>2. q[x] = Deleted /\ \A i \in 0 .. n - 1 : i # x => q[i] = p[i]
  BY <1>0, <1>1
<1>3. q \in Pools(n)
  BY <1>0, <1>1 DEF Pools, Items
<1>4. DOMAIN q = 0 .. n - 1
  BY <1>3 DEF Pools
<1>5. q[x].state = "deleted"
  BY <1>2 DEF Deleted, Item
<1>6. Occupied(q) = Occupied(p) \ {x}
  BY <1>0, <1>1, <1>2, <1>4, <1>5 DEF Occupied
<1>7. ASSUME NEW i \in Occupied(p), i # x PROVE InPlace(q, n, i)
  <2>1. i \in 0 .. n - 1 /\ p[i].key \in Keys /\ q[i] = p[i]
    BY <1>0, <1>2, <1>7, OccupiedFinite
  <2>2. PICK c \in Keys : c = p[i].key
    BY <2>1
  <2>3. PICK m : FirstAt(p, n, c, m) /\ Way(n, c)[m] = i
    BY <2>2 DEF Sound, InPlace
  <2>4. m \in 0 .. PertSteps + n
    BY <2>3 DEF FirstAt
  <2>5. ASSUME NEW l \in 0 .. m - 1 PROVE ~PathEnds(q[Way(n, c)[l]], c)
    <3>1. l \in 0 .. PertSteps + n
      BY <2>4, MapAssumption
    <3>2. ~PathEnds(p[Way(n, c)[l]], c) /\ Way(n, c)[l] \in 0 .. n - 1
      BY <2>3, <3>1, WayType DEF FirstAt
    <3>3. CASE Way(n, c)[l] = x
      BY <1>5, <3>3 DEF PathEnds
    <3>4. CASE Way(n, c)[l] # x
      BY <1>2, <3>2, <3>4
    <3> QED BY <3>3, <3>4
  <2>6. PathEnds(q[Way(n, c)[m]], c)
    BY <2>1, <2>3 DEF FirstAt
  <2>7. FirstAt(q, n, c, m)
    BY <2>4, <2>5, <2>6 DEF FirstAt
  <2> QED BY <2>1, <2>2, <2>3, <2>7 DEF InPlace
<1> QED BY <1>3, <1>6, <1>7 DEF Sound
-----------------------------------------------------------------------------
(* What a pool holds *)
Holds(p, k, v) == \E i \in Occupied(p) : p[i].key = k /\ p[i].value = v

NoHoles(p) == \A i \in DOMAIN p : p[i].state # "deleted"

Counted(m, n) ==
    /\ m \in [pool : Pools(n), used : Nat]
    /\ Sound(m.pool, n)
    /\ m.used = Cardinality(Occupied(m.pool))

(* The pool q holds what p holds, but v for the key k. *)
Puts(p, q, k, v) ==
    \A c \in Keys, w \in Values :
        Holds(q, c, w) <=> (c = k /\ w = v) \/ (c # k /\ Holds(p, c, w))

LEMMA InsertedFacts ==
    ASSUME NEW n \in Nat \ {0}, NEW m, Counted(m, n), NEW k \in Keys, NEW v \in Values,
           ~Endless(m.pool, k), NEW r, r = Inserted(m, k, v)
    PROVE  /\ Counted(r, n)
           /\ Puts(m.pool, r.pool, k, v)
           /\ r.used <= m.used + 1
           /\ NoHoles(m.pool) => NoHoles(r.pool)
<1>0. PICK p \in Pools(n), u \in Nat : p = m.pool /\ u = m.used /\ m = [pool |-> p, used |-> u]
  BY DEF Counted
<1>1. Sound(p, n) /\ u = Cardinality(Occupied(p)) /\ DOMAIN p = 0 .. n - 1
  BY <1>0 DEF Counted, Pools
<1>2. PICK j : FirstAt(p, n, k, j)
  BY <1>0, NotEndless
<1> DEFINE x == Found(p, k)
<1>3. x = Way(n, k)[j] /\ x \in 0 .. n - 1 /\ PathEnds(p[x], k)
  BY <1>2, FoundAt, WayType DEF FirstAt
<1> HIDE DEF x
<1>4. CASE p[x].state = "used"
  <2>0. PICK q : q = [p EXCEPT ![x].value = v]
    OBVIOUS
  <2>1. r = [pool |-> q, used |-> u]
    BY <1>0, <1>4, <2>0 DEF Inserted, x
  <2>2. x \in Occupied(p) /\ p[x].key = k
    BY <1>1, <1>3, <1>4 DEF Occupied, PathEnds
  <2>3. /\ Sound(q, n) /\ Occupied(q) = Occupied(p)
        /\ q[x].key = k /\ q[x].value = v /\ q[x].state = "used"
        /\ \A i \in 0 .. n - 1 : i # x => q[i] = p[i]
    <3>1. ReplacedAt(p, q, n, v, x)
      BY <1>1, <2>0, <2>2, InsertOver
    <3> QED BY <2>2, <3>1 DEF ReplacedAt
  <2>4. Counted(r, n)
    BY <1>1, <2>1, <2>3 DEF Counted, Sound
  <2>5. Occupied(p) \subseteq 0 .. n - 1
    BY OccupiedFinite
  <2>6. \A i \in Occupied(p) : p[i].key = k => i = x
    BY <1>1, <2>2, OneSlotPerKey
  <2>7. ASSUME NEW c \in Keys, NEW w \in Values
        PROVE  Holds(q, c, w) <=> (c = k /\ w = v) \/ (c # k /\ Holds(p, c, w))
    <3>1. CASE c = k
      BY <2>2, <2>3, <2>5, <2>6, <3>1 DEF Holds
    <3>2. CASE c # k
      BY <2>2, <2>3, <2>5, <3>2 DEF Holds
    <3> QED BY <3>1, <3>2
  <2>8. Puts(p, q, k, v)
    BY <2>7 DEF Puts
  <2>9. DOMAIN q = 0 .. n - 1
    BY <2>3 DEF Sound, Pools
  <2>10. NoHoles(p) => NoHoles(q)
    BY <1>1, <2>3, <2>9 DEF NoHoles
  <2>11. r.pool = q /\ r.used = u
    BY <2>1
  <2>12. u <= u + 1
    OBVIOUS
  <2> QED BY <1>0, <2>4, <2>8, <2>10, <2>11, <2>12
<1>5. CASE p[x].state # "used"
  <2>0. PICK y, q : y = InsertIndex(p, k) /\ q = [p EXCEPT ![y] = Item("used", k, v)]
    OBVIOUS
  <2>1. r = [pool |-> q, used |-> u + 1]
    BY <1>0, <1>5, <2>0 DEF Inserted, x
  <2>2. /\ Sound(q, n) /\ y \in 0 .. n - 1 /\ y \notin Occupied(p)
        /\ Occupied(q) = Occupied(p) \cup {y}
        /\ q[y] = Item("used", k, v)
        /\ \A i \in 0 .. n - 1 : i # y => q[i] = p[i]
        /\ \A i \in Occupied(p) : p[i].key # k
    <3>1. p[Way(n, k)[j]].state # "used"
      BY <1>3, <1>5
    <3>2. AddedAt(p, q, n, k, v, y)
      BY <1>1, <1>2, <2>0, <3>1, InsertFresh
    <3> QED BY <3>2 DEF AddedAt
  <2>3. Cardinality(Occupied(q)) = u + 1
    BY <1>1, <2>2, OccupiedFinite, FS_AddElement
  <2>4. r.pool = q /\ r.used = u + 1
    BY <2>1
  <2>5. Counted(r, n)
    <3>1. q \in Pools(n) /\ u + 1 \in Nat
      BY <2>2 DEF Sound
    <3> QED BY <2>1, <2>2, <2>3, <2>4, <3>1 DEF Counted
  <2>6. Occupied(p) \subseteq 0 .. n - 1
    BY OccupiedFinite
  <2>7. q[y].key = k /\ q[y].value = v /\ q[y].state = "used"
    BY <2>2 DEF Item
  <2>8. ASSUME NEW c \in Keys, NEW w \in Values
        PROVE  Holds(q, c, w) <=> (c = k /\ w = v) \/ (c # k /\ Holds(p, c, w))
    <3>1. \A i \in Occupied(p) : q[i] = p[i]
      BY <2>2, <2>6
    <3>2. CASE c = k
      BY <2>2, <2>7, <3>1, <3>2 DEF Holds
    <3>3. CASE c # k
      BY <2>2, <2>7, <3>1, <3>3 DEF Holds
    <3> QED BY <3>2, <3>3
  <2>9. Puts(p, q, k, v)
    BY <2>8 DEF Puts
  <2>10. DOMAIN q = 0 .. n - 1
    BY <2>2 DEF Sound, Pools
  <2>11. NoHoles(p) => NoHoles(q)
    BY <1>1, <2>2, <2>7, <2>10 DEF NoHoles
  <2>12. u + 1 <= u + 1
    OBVIOUS
  <2> QED BY <1>0, <2>4, <2>5, <2>9, <2>11, <2>12
<1> QED BY <1>4, <1>5

LEMMA EmptyHoldsNothing ==
    ASSUME NEW n \in Nat \ {0}
    PROVE  /\ Counted([pool |-> EmptyPool(n), used |-> 0], n)
           /\ Occupied(EmptyPool(n)) = {}
           /\ NoHoles(EmptyPool(n))
<1>1. EmptyPool(n) \in Pools(n)
  BY DEF EmptyPool, Pools, Items
<1>2. \A i \in DOMAIN EmptyPool(n) : EmptyPool(n)[i].state = "unused"
  BY DEF EmptyPool, Unused, Item
<1>3. Occupied(EmptyPool(n)) = {}
  BY <1>2 DEF Occupied
<1>4. Sound(EmptyPool(n), n)
  BY <1>1, <1>3 DEF Sound
<1>5. Cardinality(Occupied(EmptyPool(n))) = 0
  BY <1>3, FS_EmptySet
<1>6. NoHoles(EmptyPool(n))
  BY <1>2 DEF NoHoles
<1> HIDE DEF EmptyPool
<1> QED BY <1>1, <1>3, <1>4, <1>5, <1>6 DEF Counted
-----------------------------------------------------------------------------
(* The size of a pool *)
LEMMA NextSame ==
    ASSUME NEW n \in Nat \ {0}, is_pow2(n)
    PROVE  next_pow2(n) = n
<1> DEFINE Least(p) == is_pow2(p) /\ \A q \in n .. p - 1 : ~is_pow2(q)
<1>1. n \in n .. 2 * n /\ Least(n)
  OBVIOUS
<1>2. ASSUME NEW p \in n .. 2 * n, Least(p) PROVE p = n
  <2>1. ~ (n \in n .. p - 1)
    BY <1>2
  <2> QED BY <2>1
<1>3. next_pow2(n) = CHOOSE p \in n .. 2 * n : Least(p)
  BY DEF next_pow2
<1> HIDE DEF Least
<1> QED BY <1>1, <1>2, <1>3

LEMMA NextIs ==
    ASSUME NEW n \in Nat \ {0}
    PROVE  next_pow2(n) \in Nat \ {0} /\ is_pow2(next_pow2(n))
<1> DEFINE Below == {b \in Nat \ {0} : b <= n /\ is_pow2(b)}
           Gaps == {n - b : b \in Below}
           Above == {q \in n .. 2 * n : is_pow2(q)}
           Least(p) == is_pow2(p) /\ \A q \in n .. p - 1 : ~is_pow2(q)
<1>1. 1 \in Below
  BY DEF is_pow2
<1>2. Gaps \subseteq Nat /\ Gaps # {}
  BY <1>1
<1>3. PICK g \in Gaps : \A y \in Gaps : g <= y
  <2> HIDE DEF Gaps
  <2> QED BY <1>2, LeastNatural
<1>4. PICK b \in Below : g = n - b
  OBVIOUS
<1>5. b \in Nat \ {0} /\ b <= n /\ is_pow2(b)
  BY <1>4
<1>6. is_pow2(2 * b) /\ 2 * b \in Nat \ {0}
  BY <1>5, Double
<1>7. 2 * b > n
  <2> SUFFICES ASSUME 2 * b <= n PROVE FALSE
    BY <1>6
  <2>1. 2 * b \in Below
    BY <1>6
  <2>2. n - 2 * b \in Gaps
    BY <2>1
  <2>3. n - b <= n - 2 * b
    BY <1>3, <1>4, <2>2
  <2> QED BY <1>5, <2>3
<1>8. 2 * b \in Above
  BY <1>5, <1>6, <1>7
<1>9. Above \subseteq Nat
  OBVIOUS
<1>10. PICK p \in Above : \A y \in Above : p <= y
  <2> HIDE DEF Above
  <2> QED BY <1>8, <1>9, LeastNatural
<1>11. p \in n .. 2 * n /\ Least(p)
  <2>1. ASSUME NEW q \in n .. p - 1, is_pow2(q) PROVE FALSE
    <3>1. p \in n .. 2 * n
      BY <1>10
    <3>2. q \in Above
      BY <2>1, <3>1
    <3>3. p <= q
      BY <1>10, <3>2
    <3> HIDE DEF Above
    <3> QED BY <3>1, <3>3
  <2> QED BY <1>10, <2>1
<1>12. next_pow2(n) = CHOOSE x \in n .. 2 * n : Least(x)
  BY DEF next_pow2
<1>13. next_pow2(n) \in n .. 2 * n /\ Least(next_pow2(n))
  <2> HIDE DEF Least
  <2> QED BY <1>11, <1>12
<1> QED BY <1>13
-----------------------------------------------------------------------------
(* The move to a larger pool *)
Prefix(p, j, c, w) == \E i \in Occupied(p) : i < j /\ p[i].key = c /\ p[i].value = w

(* m holds the items of the first j slots of p. *)
Moved(p, j, m, n) ==
    /\ Counted(m, n)
    /\ NoHoles(m.pool)
    /\ m.used <= j
    /\ \A c \in Keys, w \in Values : Holds(m.pool, c, w) <=> Prefix(p, j, c, w)

Move(p, j, m) ==
    IF p[j - 1].state = "used" THEN Inserted(m, p[j - 1].key, p[j - 1].value) ELSE m

(* A pool without DELETED slots that is not full has an UNUSED one. *)
LEMMA RoomLeft ==
    ASSUME NEW n \in Nat \ {0}, is_pow2(n), NEW m, Counted(m, n), NoHoles(m.pool), m.used < n,
           NEW k \in Keys
    PROVE  ~Endless(m.pool, k)
<1> SUFFICES ASSUME Endless(m.pool, k) PROVE FALSE
  OBVIOUS
<1>1. PICK p \in Pools(n) : p = m.pool
  BY DEF Counted
<1>2. DOMAIN p = 0 .. n - 1
  BY DEF Pools
<1>3. ASSUME NEW i \in 0 .. n - 1 PROVE i \in Occupied(p)
  <2>1. p[i] \in Items /\ p[i].state # "unused" /\ p[i].state # "deleted"
    BY <1>1, <1>2, EndlessFull DEF Pools, NoHoles
  <2> QED BY <1>2, <2>1, ItemFacts DEF Occupied
<1>4. Occupied(p) = 0 .. n - 1
  BY <1>3, OccupiedFinite
<1>5. Cardinality(0 .. n - 1) = n
  BY FS_Interval
<1>6. m.used = n
  BY <1>1, <1>4, <1>5 DEF Counted
<1> QED BY <1>6

LEMMA MoveOne ==
    ASSUME NEW n \in Nat \ {0}, NEW p, Sound(p, n), is_pow2(2 * n), NEW j \in 1 .. n,
           NEW m, Moved(p, j - 1, m, 2 * n)
    PROVE  Moved(p, j, Move(p, j, m), 2 * n)
<1>0. 2 * n \in Nat \ {0} /\ j - 1 \in 0 .. n - 1 /\ DOMAIN p = 0 .. n - 1 /\ p \in Pools(n)
  BY DEF Sound, Pools
<1>1. Occupied(p) \subseteq 0 .. n - 1
  BY <1>0, OccupiedFinite
<1>2. m.used \in Nat /\ m.used <= j - 1 /\ Counted(m, 2 * n) /\ NoHoles(m.pool)
  BY DEF Moved, Counted
<1>3. CASE p[j - 1].state = "used"
  <2>1. j - 1 \in Occupied(p)
    BY <1>0, <1>3 DEF Occupied
  <2>2. PICK k \in Keys, v \in Values : k = p[j - 1].key /\ v = p[j - 1].value
    BY <1>0, <2>1, OccupiedFinite
  <2>3. PICK r : r = Inserted(m, k, v)
    OBVIOUS
  <2>4. m.used < 2 * n
    BY <1>2
  <2>5. ~Endless(m.pool, k)
    BY <1>0, <1>2, <2>4, RoomLeft
  <2>6. /\ Counted(r, 2 * n)
        /\ Puts(m.pool, r.pool, k, v)
        /\ r.used <= m.used + 1
        /\ NoHoles(r.pool)
    BY <1>0, <1>2, <2>3, <2>5, InsertedFacts
  <2>7. r.used <= j
    <3>1. r.used \in Nat
      BY <2>6 DEF Counted
    <3> QED BY <1>2, <2>6, <3>1
  <2>8. ASSUME NEW c \in Keys, NEW w \in Values
        PROVE  Holds(r.pool, c, w) <=> Prefix(p, j, c, w)
    <3>1. Holds(m.pool, c, w) <=> Prefix(p, j - 1, c, w)
      BY DEF Moved
    <3>2. Holds(r.pool, c, w) <=> (c = k /\ w = v) \/ (c # k /\ Holds(m.pool, c, w))
      BY <2>6 DEF Puts
    <3>3. CASE c = k
      <4>1. \A i \in Occupied(p) : p[i].key = k => i = j - 1
        BY <2>1, <2>2, OneSlotPerKey
      <4>2. Prefix(p, j, c, w) => w = v
        BY <2>2, <3>3, <4>1 DEF Prefix
      <4>3. w = v => Prefix(p, j, c, w)
        <5>1. j - 1 < j
          OBVIOUS
        <5> QED BY <2>1, <2>2, <3>3, <5>1 DEF Prefix
      <4> QED BY <3>2, <3>3, <4>2, <4>3
    <3>4. CASE c # k
      <4>1. \A i \in Occupied(p) : p[i].key = c => (i < j <=> i < j - 1)
        BY <1>0, <1>1, <2>2, <3>4
      <4>2. Prefix(p, j, c, w) <=> Prefix(p, j - 1, c, w)
        BY <4>1 DEF Prefix
      <4> QED BY <3>1, <3>2, <3>4, <4>2
    <3> QED BY <3>3, <3>4
  <2>9. Move(p, j, m) = r
    BY <1>3, <2>2, <2>3 DEF Move
  <2> QED BY <2>6, <2>7, <2>8, <2>9 DEF Moved
<1>4. CASE p[j - 1].state # "used"
  <2>1. Move(p, j, m) = m
    BY <1>4 DEF Move
  <2>2. j - 1 \notin Occupied(p)
    BY <1>4 DEF Occupied
  <2>3. \A i \in Occupied(p) : i < j <=> i < j - 1
    BY <1>0, <1>1, <2>2
  <2>4. \A c \in Keys, w \in Values : Prefix(p, j, c, w) <=> Prefix(p, j - 1, c, w)
    BY <2>3 DEF Prefix
  <2>5. m.used <= j
    BY <1>2
  <2> QED BY <2>1, <2>4, <2>5 DEF Moved
<1> QED BY <1>3, <1>4

LEMMA MoveNone ==
    ASSUME NEW n \in Nat \ {0}, NEW p \in Pools(n)
    PROVE  Moved(p, 0, [pool |-> EmptyPool(2 * n), used |-> 0], 2 * n)
<1>1. 2 * n \in Nat \ {0}
  OBVIOUS
<1>2. /\ Counted([pool |-> EmptyPool(2 * n), used |-> 0], 2 * n)
      /\ Occupied(EmptyPool(2 * n)) = {}
      /\ NoHoles(EmptyPool(2 * n))
  BY <1>1, EmptyHoldsNothing
<1>3. \A i \in Occupied(p) : ~ (i < 0)
  BY OccupiedFinite
<1>4. \A c \in Keys, w \in Values : ~Holds(EmptyPool(2 * n), c, w) /\ ~Prefix(p, 0, c, w)
  BY <1>2, <1>3 DEF Holds, Prefix
<1> HIDE DEF EmptyPool
<1> QED BY <1>2, <1>4 DEF Moved

LEMMA MoveAll ==
    ASSUME NEW n \in Nat \ {0}, NEW p, Sound(p, n), is_pow2(2 * n), NEW f,
           f[0] = [pool |-> EmptyPool(2 * n), used |-> 0],
           \A j \in 1 .. n : Moved(p, j - 1, f[j - 1], 2 * n) => f[j] = Move(p, j, f[j - 1])
    PROVE  \A j \in 0 .. n : Moved(p, j, f[j], 2 * n)
<1> DEFINE T == {j \in 0 .. n : Moved(p, j, f[j], 2 * n)}
<1>1. 0 \in T
  <2>1. p \in Pools(n)
    BY DEF Sound
  <2> QED BY <2>1, MoveNone
<1>2. ASSUME NEW j \in 1 .. n, j - 1 \in T PROVE j \in T
  <2>1. Moved(p, j - 1, f[j - 1], 2 * n)
    BY <1>2
  <2>2. Moved(p, j, Move(p, j, f[j - 1]), 2 * n)
    BY <2>1, MoveOne
  <2> QED BY <2>1, <2>2
<1>3. n \in Nat
  OBVIOUS
<1> HIDE DEF T
<1>4. \A j \in 0 .. n : j \in T
  BY <1>1, <1>2, <1>3, CountingUp
<1> QED BY <1>4 DEF T

(* The new pool of resize holds what the old one does, and has room. *)
LEMMA Resized ==
    ASSUME NEW n \in Nat \ {0}, Sound(pool, n), is_pow2(n)
    PROVE  Moved(pool, n, resize(2 * Size(pool)), 2 * n)
<1> DEFINE a == [pool |-> EmptyPool(2 * n), used |-> 0]
           Body(f) == [i \in 0 .. n |->
                          IF i = 0 THEN a
                          ELSE IF pool[i - 1].state = "used"
                               THEN Inserted(f[i - 1], pool[i - 1].key, pool[i - 1].value)
                               ELSE f[i - 1]]
           R == CHOOSE f : f = Body(f)
           S == [pool : Pools(2 * n), used : Nat]
           step == [j \in Nat |-> [x \in S |-> IF Move(pool, j, x) \in S THEN Move(pool, j, x) ELSE x]]
<1>0. is_pow2(2 * n) /\ 2 * n \in Nat \ {0} /\ n \in Nat
  BY Double
<1>1. Size(pool) = n
  BY SizeIs DEF Sound, Pools
<1>2. next_pow2(2 * n) = 2 * n
  BY <1>0, NextSame
<1>3. resize(2 * Size(pool)) = R[n]
  BY <1>1, <1>2, Zenon DEF resize
<1>4. a \in S
  BY <1>0, EmptyHoldsNothing DEF Counted
<1>5. step \in [Nat -> [S -> S]]
  <2> HIDE DEF S
  <2> QED OBVIOUS
<1>6. PICK f \in [0 .. n -> S] : Recurs(f, a, step, n)
  <2> HIDE DEF S, step, a
  <2> QED BY <1>0, <1>4, <1>5, Recursion, Zenon
<1>7. f[0] = a
  BY <1>6 DEF Recurs
<1>8. ASSUME NEW j \in 1 .. n, Moved(pool, j - 1, f[j - 1], 2 * n)
      PROVE  f[j] = Move(pool, j, f[j - 1])
  <2>1. j \in Nat /\ j - 1 \in 0 .. n
    OBVIOUS
  <2>2. f[j] = step[j][f[j - 1]]
    BY <1>6 DEF Recurs
  <2>3. f[j - 1] \in S
    <3> HIDE DEF S
    <3> QED BY <2>1
  <2>4. Moved(pool, j, Move(pool, j, f[j - 1]), 2 * n)
    BY <1>0, <1>8, MoveOne
  <2>5. Move(pool, j, f[j - 1]) \in S
    BY <2>4 DEF Moved, Counted
  <2> HIDE DEF S
  <2> QED BY <2>1, <2>2, <2>3, <2>5
<1>9. \A j \in 0 .. n : Moved(pool, j, f[j], 2 * n)
  BY <1>0, <1>7, <1>8, MoveAll
<1>10. f = Body(f)
  <2> HIDE DEF S, a, step
  <2>1. ASSUME NEW j \in 0 .. n PROVE f[j] = Body(f)[j]
    <3>1. CASE j = 0
      BY <1>7, <3>1
    <3>2. CASE j # 0
      <4>1. j \in 1 .. n /\ j - 1 \in 0 .. n
        BY <3>2
      <4>2. f[j] = Move(pool, j, f[j - 1])
        BY <1>8, <1>9, <4>1
      <4> QED BY <3>2, <4>2 DEF Move
    <3> QED BY <3>1, <3>2
  <2> QED BY <2>1
<1>11. R = Body(R)
  <2> HIDE DEF Body
  <2> QED BY <1>10, Zenon
<1>12. R[0] = a
  <2> HIDE DEF R, a
  <2>1. R[0] = Body(R)[0]
    BY <1>11
  <2> QED BY <1>0, <2>1
<1>13. ASSUME NEW j \in 1 .. n PROVE R[j] = Move(pool, j, R[j - 1])
  <2> HIDE DEF R, a
  <2>1. R[j] = Body(R)[j]
    BY <1>11
  <2>2. j \in 0 .. n /\ j # 0
    OBVIOUS
  <2> QED BY <2>1, <2>2 DEF Move
<1> HIDE DEF R
<1>14. \A j \in 0 .. n : Moved(pool, j, R[j], 2 * n)
  BY <1>0, <1>12, <1>13, MoveAll
<1>15. n \in 0 .. n
  OBVIOUS
<1> QED BY <1>3, <1>14, <1>15
-----------------------------------------------------------------------------
(* The map that a pool stands for *)
MapOf(p) ==
    [k \in Keys |-> IF \E i \in Occupied(p) : p[i].key = k
                    THEN p[CHOOSE i \in Occupied(p) : p[i].key = k].value
                    ELSE 0]

LEMMA MapOfHeld ==
    ASSUME NEW n \in Nat \ {0}, NEW p, Sound(p, n), NEW k \in Keys, NEW v, Holds(p, k, v)
    PROVE  MapOf(p)[k] = v
<1>1. PICK i \in Occupied(p) : p[i].key = k /\ p[i].value = v
  BY DEF Holds
<1> DEFINE h == CHOOSE x \in Occupied(p) : p[x].key = k
<1>2. h \in Occupied(p) /\ p[h].key = k
  BY <1>1
<1>3. MapOf(p)[k] = p[h].value
  BY <1>1 DEF MapOf
<1> HIDE DEF h
<1>4. h = i
  BY <1>1, <1>2, OneSlotPerKey
<1> QED BY <1>1, <1>3, <1>4

LEMMA MapOfMissing ==
    ASSUME NEW n \in Nat \ {0}, NEW p, Sound(p, n), NEW k \in Keys,
           \A v \in Values : ~Holds(p, k, v)
    PROVE  MapOf(p)[k] = 0
<1>1. ASSUME NEW i \in Occupied(p), p[i].key = k PROVE FALSE
  <2>1. p[i].value \in Values
    BY OccupiedFinite DEF Sound
  <2> QED BY <1>1, <2>1 DEF Holds
<1> QED BY <1>1 DEF MapOf

(* Pools that hold the same stand for the same map. *)
LEMMA MapOfSame ==
    ASSUME NEW n \in Nat \ {0}, NEW h \in Nat \ {0}, NEW p, Sound(p, n), NEW q, Sound(q, h),
           NEW k \in Keys, \A v \in Values : Holds(p, k, v) <=> Holds(q, k, v)
    PROVE  MapOf(p)[k] = MapOf(q)[k]
<1>1. CASE \E v \in Values : Holds(p, k, v)
  <2>1. PICK v \in Values : Holds(p, k, v) /\ Holds(q, k, v)
    BY <1>1
  <2>2. MapOf(p)[k] = v
    BY <2>1, MapOfHeld
  <2>3. MapOf(q)[k] = v
    BY <2>1, MapOfHeld
  <2> QED BY <2>2, <2>3
<1>2. CASE \A v \in Values : ~Holds(p, k, v)
  <2>1. MapOf(p)[k] = 0
    BY <1>2, MapOfMissing
  <2>2. MapOf(q)[k] = 0
    BY <1>2, MapOfMissing
  <2> QED BY <2>1, <2>2
<1> QED BY <1>1, <1>2

(* An insertion changes the map at its key. *)
LEMMA MapOfPuts ==
    ASSUME NEW n \in Nat \ {0}, NEW h \in Nat \ {0}, NEW p, Sound(p, n), NEW q, Sound(q, h),
           NEW k \in Keys, NEW v \in Values, Puts(p, q, k, v)
    PROVE  MapOf(q) = [MapOf(p) EXCEPT ![k] = v]
<1>1. MapOf(q)[k] = v
  <2>1. Holds(q, k, v)
    BY DEF Puts
  <2> QED BY <2>1, MapOfHeld
<1>2. ASSUME NEW c \in Keys, c # k PROVE MapOf(q)[c] = MapOf(p)[c]
  <2>1. \A w \in Values : Holds(p, c, w) <=> Holds(q, c, w)
    BY <1>2 DEF Puts
  <2> QED BY <2>1, MapOfSame
<1>3. DOMAIN MapOf(p) = Keys /\ DOMAIN MapOf(q) = Keys
      /\ MapOf(p) = [c \in Keys |-> MapOf(p)[c]] /\ MapOf(q) = [c \in Keys |-> MapOf(q)[c]]
  BY DEF MapOf
<1> HIDE DEF MapOf
<1> QED BY <1>1, <1>2, <1>3

(* What a probe finds is the value of the map. *)
LEMMA MapOfFound ==
    ASSUME NEW n \in Nat \ {0}, NEW p, Sound(p, n), NEW k \in Keys, ~Endless(p, k)
    PROVE  /\ Found(p, k) \in 0 .. n - 1
           /\ MapOf(p)[k] = p[Found(p, k)].value
           /\ p[Found(p, k)].state = "used" =>
                  Found(p, k) \in Occupied(p) /\ p[Found(p, k)].key = k
           /\ p[Found(p, k)].state # "used" =>
                  p[Found(p, k)].value = 0 /\ \A i \in Occupied(p) : p[i].key # k
<1>0. p \in Pools(n) /\ DOMAIN p = 0 .. n - 1
  BY DEF Sound, Pools
<1>1. PICK j : FirstAt(p, n, k, j)
  BY <1>0, NotEndless
<1>2. PICK x : x = Found(p, k) /\ x = Way(n, k)[j] /\ x \in 0 .. n - 1 /\ PathEnds(p[x], k)
  BY <1>0, <1>1, FoundAt, WayType DEF FirstAt
<1>3. p[x] \in Items
  BY <1>0, <1>2 DEF Pools
<1>4. CASE p[x].state = "used"
  <2>1. x \in Occupied(p) /\ p[x].key = k
    BY <1>0, <1>2, <1>4 DEF Occupied, PathEnds
  <2>2. Holds(p, k, p[x].value)
    BY <2>1 DEF Holds
  <2>3. MapOf(p)[k] = p[x].value
    BY <2>2, MapOfHeld
  <2> QED BY <1>2, <1>4, <2>1, <2>3
<1>5. CASE p[x].state # "used"
  <2>1. p[x].value = 0
    BY <1>2, <1>3, <1>5, ItemFacts DEF PathEnds
  <2>2. ASSUME NEW i \in Occupied(p), p[i].key = k PROVE FALSE
    <3>1. PICK m : FirstAt(p, n, p[i].key, m) /\ Way(n, p[i].key)[m] = i
      BY DEF Sound, InPlace
    <3>2. m = j
      BY <1>1, <2>2, <3>1, FirstUnique
    <3>3. x = i
      BY <1>2, <2>2, <3>1, <3>2
    <3> QED BY <1>5, <3>3 DEF Occupied
  <2>3. \A v \in Values : ~Holds(p, k, v)
    BY <2>2 DEF Holds
  <2>4. MapOf(p)[k] = 0
    BY <2>3, MapOfMissing
  <2> QED BY <1>2, <1>5, <2>1, <2>2, <2>4
<1> QED BY <1>4, <1>5

(* A pool without one of the items stands for the map without its key. *)
LEMMA MapOfWithout ==
    ASSUME NEW n \in Nat \ {0}, NEW p, Sound(p, n), NEW x \in Occupied(p), NEW q, Sound(q, n),
           Occupied(q) = Occupied(p) \ {x}, \A i \in Occupied(q) : q[i] = p[i]
    PROVE  MapOf(q) = [MapOf(p) EXCEPT ![p[x].key] = 0]
<1>0. Sound(q, n) /\ Occupied(q) = Occupied(p) \ {x}
  OBVIOUS
<1>1. p \in Pools(n)
  BY DEF Sound
<1>2. \A i \in Occupied(q) : q[i] = p[i]
  OBVIOUS
<1>3. PICK k \in Keys : k = p[x].key
  BY <1>1, OccupiedFinite
<1>4. MapOf(q)[k] = 0
  <2>1. \A i \in Occupied(q) : q[i].key # k
    BY <1>0, <1>2, <1>3, OneSlotPerKey
  <2>2. \A v \in Values : ~Holds(q, k, v)
    BY <2>1 DEF Holds
  <2> QED BY <1>0, <2>2, MapOfMissing
<1>5. ASSUME NEW c \in Keys, c # k PROVE MapOf(q)[c] = MapOf(p)[c]
  <2>1. \A w \in Values : Holds(p, c, w) <=> Holds(q, c, w)
    BY <1>0, <1>2, <1>3, <1>5 DEF Holds
  <2>2. MapOf(p)[c] = MapOf(q)[c]
    BY <2>1, MapOfSame
  <2> QED BY <2>2
<1>6. DOMAIN MapOf(p) = Keys /\ DOMAIN MapOf(q) = Keys
      /\ MapOf(p) = [c \in Keys |-> MapOf(p)[c]] /\ MapOf(q) = [c \in Keys |-> MapOf(q)[c]]
  BY DEF MapOf
<1> HIDE DEF MapOf
<1> QED BY <1>3, <1>4, <1>5, <1>6

(* The map has as many keys as slots are USED. *)
LEMMA MapOfCount ==
    ASSUME NEW n \in Nat \ {0}, NEW p, Sound(p, n)
    PROVE  Cardinality({k \in Keys : MapOf(p)[k] # 0}) = Cardinality(Occupied(p))
<1> DEFINE S == Occupied(p)
           T == {k \in Keys : MapOf(p)[k] # 0}
           f == [i \in S |-> p[i].key]
<1>0. /\ IsFiniteSet(S)
      /\ \A i \in S : p[i].key \in Keys /\ p[i].value \in Values
  BY OccupiedFinite DEF Sound
<1>1. \A i \in S : p[i].key \in T
  <2> SUFFICES ASSUME NEW i \in S PROVE p[i].key \in T
    OBVIOUS
  <2>1. Holds(p, p[i].key, p[i].value)
    BY DEF Holds
  <2>2. MapOf(p)[p[i].key] = p[i].value
    BY <1>0, <2>1, MapOfHeld
  <2>3. p[i].value # 0
    BY <1>0, MapAssumption
  <2> QED BY <1>0, <2>2, <2>3
<1>2. \A k \in T : \E i \in S : p[i].key = k
  BY DEF MapOf
<1>3. \A i, h \in S : p[i].key = p[h].key => i = h
  BY OneSlotPerKey
<1> HIDE DEF S, T
<1>4. f \in [S -> T]
  BY <1>1
<1>5. f \in Injection(S, T)
  BY <1>3, <1>4 DEF Injection, IsInjective
<1>6. f \in Surjection(S, T)
  BY <1>2, <1>4 DEF Surjection
<1>7. ExistsBijection(S, T)
  BY <1>5, <1>6 DEF ExistsBijection, Bijection
<1>8. Cardinality(T) = Cardinality(S)
  BY <1>0, <1>7, FS_Bijection
<1> QED BY <1>8 DEF S, T
-----------------------------------------------------------------------------
(* The invariant *)
PoolInv ==
    \E n \in Nat \ {0} : is_pow2(n) /\ Counted([pool |-> pool, used |-> used], n)

(* Why a call hangs *)
HangInv ==
    hung => \/ should_resize /\ ~recursive
            \/ \A i \in DOMAIN pool : pool[i].state # "unused"

Inv == PoolInv /\ HangInv /\ hung \in BOOLEAN

(* A step on the map that the pool stands for *)
MapStep ==
    \/ \E k \in Keys :
          \/ \E v \in Values : MapOf(pool') = [MapOf(pool) EXCEPT ![k] = v] /\ ret' = 0
          \/ /\ MapOf(pool') = [MapOf(pool) EXCEPT ![k] = 0]
             /\ ret' = IF MapOf(pool)[k] # 0 THEN 1 ELSE 0
          \/ MapOf(pool') = MapOf(pool) /\ ret' = MapOf(pool)[k]
    \/ /\ MapOf(pool') = MapOf(pool)
       /\ ret' = Cardinality({k \in Keys : MapOf(pool)[k] # 0})

StepOk == Inv' /\ (MapStep \/ (pool' = pool /\ ret' = ret))

LEMMA PoolInvFacts ==
    ASSUME NEW n, Counted([pool |-> pool, used |-> used], n)
    PROVE  Sound(pool, n) /\ pool \in Pools(n) /\ used = Cardinality(Occupied(pool)) /\ used \in Nat
  BY DEF Counted

LEMMA InitInv ==
    ASSUME Init
    PROVE  Inv /\ MapOf(pool) = [k \in Keys |-> 0] /\ ret = 0
<1>1. PICK n \in Nat \ {0} : n = next_pow2(MinSize) /\ is_pow2(n)
  BY NextIs, MapAssumption
<1>2. /\ Counted([pool |-> EmptyPool(n), used |-> 0], n)
      /\ Occupied(EmptyPool(n)) = {}
  BY EmptyHoldsNothing
<1>3. pool = EmptyPool(n) /\ used = 0 /\ ret = 0 /\ hung = FALSE
  BY <1>1 DEF Init
<1>4. PoolInv
  BY <1>1, <1>2, <1>3 DEF PoolInv
<1>5. MapOf(pool) = [k \in Keys |-> 0]
  BY <1>2, <1>3 DEF MapOf
<1> QED BY <1>3, <1>4, <1>5 DEF Inv, HangInv

LEMMA HangOk ==
    ASSUME Inv, Hang, HangInv'
    PROVE  StepOk
<1>1. pool' = pool /\ used' = used /\ ret' = ret /\ hung' = TRUE
  BY DEF Hang
<1>2. PoolInv'
  BY <1>1 DEF Inv, PoolInv
<1> QED BY <1>1, <1>2 DEF StepOk, Inv

(* A probe that never stops, in the pool as it is *)
LEMMA EndlessHang ==
    ASSUME Inv, Hang, NEW k \in Keys, Endless(pool, k)
    PROVE  StepOk
<1>1. PICK n \in Nat \ {0} : is_pow2(n) /\ Counted([pool |-> pool, used |-> used], n)
  BY DEF Inv, PoolInv
<1>2. pool \in Pools(n) /\ DOMAIN pool = 0 .. n - 1
  BY <1>1, PoolInvFacts DEF Pools
<1>3. \A i \in DOMAIN pool : pool[i].state # "unused"
  BY <1>1, <1>2, EndlessFull
<1>4. HangInv'
  BY <1>3 DEF Hang, HangInv
<1> QED BY <1>4, HangOk

LEMMA InsertOk ==
    ASSUME Inv, NEW k \in Keys, NEW v \in Values, hashmap_insert(k, v)
    PROVE  StepOk
<1>0. ~hung
  BY DEF hashmap_insert
<1>1. PICK n \in Nat \ {0} : is_pow2(n) /\ Counted([pool |-> pool, used |-> used], n)
  BY DEF Inv, PoolInv
<1>2. Sound(pool, n)
  BY <1>1, PoolInvFacts
<1>3. CASE should_resize /\ ~recursive
  <2>1. Hang
    BY <1>3 DEF hashmap_insert
  <2>2. HangInv'
    BY <1>3, <2>1 DEF Hang, HangInv, should_resize
  <2> QED BY <2>1, <2>2, HangOk
<1>4. CASE ~ (should_resize /\ ~recursive)
  <2> DEFINE m == IF should_resize THEN resize(2 * Size(pool))
                                   ELSE [pool |-> pool, used |-> used]
             r == Inserted(m, k, v)
  <2>1. \/ Endless(m.pool, k) /\ Hang
        \/ ~Endless(m.pool, k) /\ pool' = r.pool /\ used' = r.used /\ ret' = 0 /\ hung' = hung
    BY <1>4 DEF hashmap_insert
  <2>2. CASE should_resize
    <3>1. Moved(pool, n, m, 2 * n)
      BY <1>1, <1>2, <2>2, Resized
    <3> HIDE DEF m
    <3>2. 2 * n \in Nat \ {0} /\ is_pow2(2 * n)
      BY <1>1, Double
    <3>3. m.used < 2 * n
      <4>1. m.used \in Nat /\ m.used <= n
        BY <3>1 DEF Moved, Counted
      <4> QED BY <4>1
    <3>4. ~Endless(m.pool, k)
      BY <3>1, <3>2, <3>3, RoomLeft DEF Moved
    <3>5. Counted(r, 2 * n) /\ Puts(m.pool, r.pool, k, v)
      BY <3>1, <3>2, <3>4, InsertedFacts DEF Moved
    <3>6. \A c \in Keys, w \in Values : Holds(m.pool, c, w) <=> Holds(pool, c, w)
      <4>1. \A i \in Occupied(pool) : i < n
        BY <1>1, PoolInvFacts, OccupiedFinite
      <4>2. \A c \in Keys, w \in Values : Prefix(pool, n, c, w) <=> Holds(pool, c, w)
        BY <4>1 DEF Prefix, Holds
      <4> QED BY <3>1, <4>2 DEF Moved
    <3>7. Puts(pool, r.pool, k, v)
      BY <3>5, <3>6 DEF Puts
    <3>8. r = [pool |-> r.pool, used |-> r.used] /\ Sound(r.pool, 2 * n)
      BY <3>5 DEF Counted
    <3> HIDE DEF r
    <3>9. pool' = r.pool /\ used' = r.used /\ ret' = 0 /\ hung' = hung
      BY <2>1, <3>4
    <3>10. MapOf(pool') = [MapOf(pool) EXCEPT ![k] = v]
      BY <1>2, <3>2, <3>7, <3>8, <3>9, MapOfPuts
    <3>11. PoolInv'
      BY <3>2, <3>5, <3>8, <3>9 DEF PoolInv
    <3> QED BY <1>0, <3>9, <3>10, <3>11 DEF StepOk, MapStep, Inv, HangInv
  <2>3. CASE ~should_resize
    <3>1. m = [pool |-> pool, used |-> used] /\ m.pool = pool
      BY <2>3
    <3> HIDE DEF m
    <3>2. CASE Endless(pool, k)
      BY <2>1, <3>1, <3>2, EndlessHang
    <3>3. CASE ~Endless(pool, k)
      <4>1. Counted(r, n) /\ Puts(pool, r.pool, k, v)
        BY <1>1, <3>1, <3>3, InsertedFacts
      <4>2. r = [pool |-> r.pool, used |-> r.used] /\ Sound(r.pool, n)
        BY <4>1 DEF Counted
      <4> HIDE DEF r
      <4>3. pool' = r.pool /\ used' = r.used /\ ret' = 0 /\ hung' = hung
        BY <2>1, <3>1, <3>3
      <4>4. MapOf(pool') = [MapOf(pool) EXCEPT ![k] = v]
        BY <1>2, <4>1, <4>2, <4>3, MapOfPuts
      <4>5. PoolInv'
        BY <1>1, <4>1, <4>2, <4>3 DEF PoolInv
      <4> QED BY <1>0, <4>3, <4>4, <4>5 DEF StepOk, MapStep, Inv, HangInv
    <3> QED BY <3>2, <3>3
  <2> QED BY <2>2, <2>3
<1> QED BY <1>3, <1>4

LEMMA RemoveOk ==
    ASSUME Inv, NEW k \in Keys, hashmap_remove(k)
    PROVE  StepOk
<1>0. ~hung
  BY DEF hashmap_remove
<1>1. PICK n \in Nat \ {0} : is_pow2(n) /\ Counted([pool |-> pool, used |-> used], n)
  BY DEF Inv, PoolInv
<1>2. Sound(pool, n) /\ used = Cardinality(Occupied(pool)) /\ used \in Nat /\ pool \in Pools(n)
  BY <1>1, PoolInvFacts
<1>3. CASE Endless(pool, k)
  <2>1. Hang
    BY <1>3 DEF hashmap_remove
  <2> QED BY <1>3, <2>1, EndlessHang
<1>4. CASE ~Endless(pool, k)
  <2>1. PICK i : i = Found(pool, k)
    OBVIOUS
  <2>2. /\ \/ /\ pool[i].state = "used"
              /\ pool' = [pool EXCEPT ![i] = Deleted]
              /\ used' = used - 1
              /\ ret' = 1
           \/ /\ pool[i].state # "used"
              /\ ret' = 0
              /\ UNCHANGED <<pool, used>>
        /\ hung' = hung
    BY <1>4, <2>1 DEF hashmap_remove
  <2>3. /\ MapOf(pool)[k] = pool[i].value
        /\ pool[i].state = "used" => i \in Occupied(pool) /\ pool[i].key = k
        /\ pool[i].state # "used" => pool[i].value = 0
    BY <1>2, <1>4, <2>1, MapOfFound
  <2>4. CASE pool[i].state = "used"
    <3>1. i \in Occupied(pool) /\ pool[i].key = k /\ pool' = [pool EXCEPT ![i] = Deleted]
          /\ used' = used - 1 /\ ret' = 1
      BY <2>2, <2>3, <2>4
    <3>2. Sound(pool', n) /\ Occupied(pool') = Occupied(pool) \ {i}
      BY <1>2, <3>1, RemoveItem
    <3>3. Cardinality(Occupied(pool')) = used'
      <4>1. IsFiniteSet(Occupied(pool))
        BY <1>2, OccupiedFinite
      <4> QED BY <1>2, <3>1, <3>2, <4>1, FS_RemoveElement
    <3>4. pool' \in Pools(n)
      BY <3>2 DEF Sound
    <3>5. used' \in Nat
      BY <3>3, <3>4, OccupiedFinite
    <3>6. PoolInv'
      BY <1>1, <3>2, <3>3, <3>4, <3>5 DEF PoolInv, Counted
    <3>7. MapOf(pool') = [MapOf(pool) EXCEPT ![k] = 0]
      <4>1. pool[i].key = k /\ i \in Occupied(pool)
        BY <3>1
      <4>2. \A h \in Occupied(pool') : pool'[h] = pool[h]
        BY <3>1, <3>2 DEF Occupied
      <4>3. MapOf(pool') = [MapOf(pool) EXCEPT ![pool[i].key] = 0]
        BY <1>2, <3>2, <4>1, <4>2, MapOfWithout
      <4> QED BY <4>1, <4>3
    <3>8. MapOf(pool)[k] # 0
      BY <1>2, <2>3, <3>1, OccupiedFinite, MapAssumption
    <3>9. ret' = IF MapOf(pool)[k] # 0 THEN 1 ELSE 0
      BY <3>1, <3>8
    <3> QED BY <1>0, <2>2, <3>6, <3>7, <3>9 DEF StepOk, MapStep, Inv, HangInv
  <2>5. CASE pool[i].state # "used"
    <3>1. ret' = 0 /\ pool' = pool /\ used' = used /\ MapOf(pool)[k] = 0
      BY <2>2, <2>3, <2>5
    <3>2. [MapOf(pool) EXCEPT ![k] = 0] = MapOf(pool)
      <4>1. MapOf(pool) = [c \in Keys |-> MapOf(pool)[c]]
        BY DEF MapOf
      <4> QED BY <3>1, <4>1
    <3>3. PoolInv'
      BY <1>1, <3>1 DEF PoolInv
    <3>4. MapOf(pool') = [MapOf(pool) EXCEPT ![k] = 0] /\ ret' = IF MapOf(pool)[k] # 0 THEN 1 ELSE 0
      BY <3>1, <3>2
    <3> QED BY <1>0, <2>2, <3>3, <3>4 DEF StepOk, MapStep, Inv, HangInv
  <2> QED BY <2>4, <2>5
<1> QED BY <1>3, <1>4

LEMMA SelectOk ==
    ASSUME Inv, NEW k \in Keys, hashmap_select(k)
    PROVE  StepOk
<1>0. ~hung
  BY DEF hashmap_select
<1>1. PICK n \in Nat \ {0} : is_pow2(n) /\ Counted([pool |-> pool, used |-> used], n)
  BY DEF Inv, PoolInv
<1>2. Sound(pool, n)
  BY <1>1, PoolInvFacts
<1>3. CASE Endless(pool, k)
  <2>1. Hang
    BY <1>3 DEF hashmap_select
  <2> QED BY <1>3, <2>1, EndlessHang
<1>4. CASE ~Endless(pool, k)
  <2>1. ret' = pool[Found(pool, k)].value /\ pool' = pool /\ used' = used /\ hung' = hung
    BY <1>4 DEF hashmap_select
  <2>2. MapOf(pool)[k] = pool[Found(pool, k)].value
    BY <1>2, <1>4, MapOfFound
  <2>3. PoolInv'
    BY <1>1, <2>1 DEF PoolInv
  <2>4. MapOf(pool') = MapOf(pool) /\ ret' = MapOf(pool)[k]
    BY <2>1, <2>2
  <2> QED BY <1>0, <2>1, <2>3, <2>4 DEF StepOk, MapStep, Inv, HangInv
<1> QED BY <1>3, <1>4

LEMMA CountOk ==
    ASSUME Inv, hashmap_count
    PROVE  StepOk
<1>1. PICK n \in Nat \ {0} : is_pow2(n) /\ Counted([pool |-> pool, used |-> used], n)
  BY DEF Inv, PoolInv
<1>2. ~hung /\ ret' = used /\ pool' = pool /\ used' = used /\ hung' = hung
  BY DEF hashmap_count
<1>3. ret' = Cardinality({k \in Keys : MapOf(pool)[k] # 0})
  BY <1>1, <1>2, PoolInvFacts, MapOfCount
<1>4. PoolInv' /\ MapOf(pool') = MapOf(pool)
  BY <1>1, <1>2 DEF PoolInv
<1> QED BY <1>2, <1>3, <1>4 DEF StepOk, MapStep, Inv, HangInv

LEMMA StayOk ==
    ASSUME Inv, UNCHANGED vars
    PROVE  StepOk
  BY DEF vars, StepOk, Inv, PoolInv, HangInv, should_resize

LEMMA NextOk ==
    ASSUME Inv, [Next]_vars
    PROVE  StepOk
<1>1. CASE Next
  BY <1>1, InsertOk, RemoveOk, SelectOk, CountOk, StayOk DEF Next, Blocked
<1>2. CASE UNCHANGED vars
  BY <1>2, StayOk
<1> QED BY <1>1, <1>2

LEMMA InvReachable ==
    ASSUME Inv
    PROVE  KeysReachable
<1>1. PICK n \in Nat \ {0} : is_pow2(n) /\ Counted([pool |-> pool, used |-> used], n)
  BY DEF Inv, PoolInv
<1>2. Sound(pool, n) /\ used = Cardinality(Occupied(pool)) /\ pool \in Pools(n)
  BY <1>1, PoolInvFacts
<1>3. UsedSlots = Occupied(pool)
  BY DEF UsedSlots, Occupied
<1>4. ASSUME NEW i \in Occupied(pool)
      PROVE  ~Endless(pool, pool[i].key) /\ Found(pool, pool[i].key) = i
  <2>1. PICK j : FirstAt(pool, n, pool[i].key, j) /\ Way(n, pool[i].key)[j] = i
    BY <1>2 DEF Sound, InPlace
  <2>2. pool[i].key \in Keys
    BY <1>2, OccupiedFinite
  <2> QED BY <1>2, <2>1, <2>2, FoundAt
<1> QED BY <1>2, <1>3, <1>4 DEF KeysReachable, Inv, HangInv

LEMMA Invariant == Spec => []Inv
<1>1. Init => Inv
  BY InitInv
<1>2. Inv /\ [Next]_vars => Inv'
  BY NextOk DEF StepOk
<1> QED BY <1>1, <1>2, PTL DEF Spec

(* KeysReachable: in every state of the hash map, for any keys, any hash   *)
(* function and pools of any size, each key of the pool is where the probe *)
(* of hashmap_select finds it, map->used counts the items, and a call      *)
(* hangs only when it resizes with a mutex that is not recursive or when   *)
(* the pool has no UNUSED slot.                                            *)
THEOREM KeysAreReachable == Spec => []KeysReachable
<1>1. Inv => KeysReachable
  BY InvReachable
<1> QED BY <1>1, Invariant, PTL

(* ImplementsRefMap: every call of the hash map that returns gives what    *)
(* the same call of hash_map_ref.c gives, resizes and removals included.   *)
THEOREM MapRefinement == Spec => ImplementsRefMap
<1>0. Contents = MapOf(pool) /\ Contents' = MapOf(pool')
  BY DEF Contents, MapOf, UsedSlots, Occupied
<1>1. Init => Ref!Init
  BY <1>0, InitInv DEF Ref!Init
<1>2. Inv /\ [Next]_vars => [Ref!Next]_(Ref!vars)
  <2> SUFFICES ASSUME Inv, [Next]_vars PROVE [Ref!Next]_(Ref!vars)
    OBVIOUS
  <2>1. StepOk
    BY NextOk
  <2>2. CASE MapStep
    <3>1. ASSUME NEW k \in Keys, NEW v \in Values,
                 MapOf(pool') = [MapOf(pool) EXCEPT ![k] = v] /\ ret' = 0
          PROVE  Ref!Next
      <4>1. Ref!hashmapref_insert(k, v)
        BY <1>0, <3>1, Zenon DEF Ref!hashmapref_insert
      <4> QED BY <4>1, Zenon DEF Ref!Next
    <3>2. ASSUME NEW k \in Keys, MapOf(pool') = [MapOf(pool) EXCEPT ![k] = 0],
                 ret' = IF MapOf(pool)[k] # 0 THEN 1 ELSE 0
          PROVE  Ref!Next
      <4>1. Ref!hashmapref_remove(k)
        BY <1>0, <3>2, Zenon DEF Ref!hashmapref_remove
      <4> QED BY <4>1, Zenon DEF Ref!Next
    <3>3. ASSUME NEW k \in Keys, MapOf(pool') = MapOf(pool) /\ ret' = MapOf(pool)[k]
          PROVE  Ref!Next
      <4>1. Ref!hashmapref_select(k)
        BY <1>0, <3>3, Zenon DEF Ref!hashmapref_select
      <4> QED BY <4>1, Zenon DEF Ref!Next
    <3>4. ASSUME MapOf(pool') = MapOf(pool), ret' = Cardinality({k \in Keys : MapOf(pool)[k] # 0})
          PROVE  Ref!Next
      <4>1. Ref!hashmapref_count
        <5>1. {k \in Keys : Contents[k] # 0} = {k \in Keys : MapOf(pool)[k] # 0}
          BY <1>0
        <5>2. ret' = Cardinality({k \in Keys : Contents[k] # 0})
          BY <3>4, <5>1, Zenon
        <5>3. Contents' = Contents
          BY <1>0, <3>4, Zenon
        <5> QED BY <5>2, <5>3, Zenon DEF Ref!hashmapref_count, Cardinality, Ref!Cardinality
      <4> QED BY <4>1, Zenon DEF Ref!Next
    <3> QED BY <2>2, <3>1, <3>2, <3>3, <3>4 DEF MapStep
  <2>3. CASE pool' = pool /\ ret' = ret
    BY <1>0, <2>3 DEF Ref!vars
  <2> QED BY <2>1, <2>2, <2>3 DEF StepOk
<1> QED BY <1>1, <1>2, Invariant, PTL DEF Spec, ImplementsRefMap, Ref!Spec
-----------------------------------------------------------------------------
(* Where a symbol starts, and where the one that starts at b ends *)
Starts(data, b) == ~isSymbolAuxiliaryByte(data[b])
Ends(data, b) == b + getSymbolLengthFromFirstByte(data[b])

(* The bytes first .. last - 1 are whole symbols: the first one starts a   *)
(* symbol, and where one starts, its auxiliary bytes follow and then the   *)
(* next symbol or the end.                                                 *)
SymbolAt(data, b, last) ==
    /\ Ends(data, b) <= last
    /\ \A j \in b + 1 .. Ends(data, b) - 1 : ~Starts(data, j)
    /\ Ends(data, b) < last => Starts(data, Ends(data, b))

Whole(data, first, last) ==
    /\ first < last => Starts(data, first)
    /\ \A b \in first .. last - 1 : Starts(data, b) => SymbolAt(data, b, last)

(* A place between two symbols *)
Boundary(data, first, last, p) ==
    /\ p \in first .. last
    /\ p < last => Starts(data, p)

LEMMA SymbolLengths ==
    ASSUME NEW b \in 0 .. 255
    PROVE  getSymbolLengthFromFirstByte(b) \in 1 .. 4
  BY DEF getSymbolLengthFromFirstByte

LEMMA SymbolEnds ==
    ASSUME NEW data, NEW b \in Int, data[b] \in 0 .. 255
    PROVE  Ends(data, b) \in b + 1 .. b + 4
<1> DEFINE n == getSymbolLengthFromFirstByte(data[b])
<1>1. n \in 1 .. 4
  BY SymbolLengths
<1> HIDE DEF n
<1>2. b + n \in b + 1 .. b + 4
  BY <1>1
<1> QED BY <1>2 DEF Ends, n

(* The text before and after a place between two symbols *)
LEMMA WholeSplit ==
    ASSUME NEW data, NEW first \in Int, NEW last \in Int, NEW p \in Int,
           \A b \in first .. last - 1 : data[b] \in 0 .. 255,
           Whole(data, first, last), Boundary(data, first, last, p)
    PROVE  Whole(data, first, p) /\ Whole(data, p, last)
<1>1. p \in first .. last /\ (p < last => Starts(data, p))
  BY DEF Boundary
<1>2. ASSUME NEW b \in first .. p - 1, Starts(data, b)
      PROVE  SymbolAt(data, b, p)
  <2>1. b \in first .. last - 1
    BY <1>1
  <2>2. SymbolAt(data, b, last) /\ Ends(data, b) \in b + 1 .. b + 4
    BY <1>2, <2>1, SymbolEnds DEF Whole
  <2>3. Ends(data, b) <= p
    <3> SUFFICES ASSUME Ends(data, b) > p PROVE FALSE
      BY <2>2
    <3>1. p \in b + 1 .. Ends(data, b) - 1 /\ p < last
      BY <2>1, <2>2 DEF SymbolAt
    <3> QED BY <1>1, <2>2, <3>1 DEF SymbolAt
  <2> QED BY <1>1, <2>1, <2>2, <2>3 DEF SymbolAt
<1>3. ASSUME NEW b \in p .. last - 1, Starts(data, b)
      PROVE  SymbolAt(data, b, last)
  <2>1. b \in first .. last - 1
    BY <1>1
  <2> QED BY <1>3, <2>1 DEF Whole
<1>4. first < p => Starts(data, first)
  BY <1>1 DEF Whole
<1> QED BY <1>1, <1>2, <1>3, <1>4 DEF Whole

(* Two texts that follow one another *)
LEMMA WholeJoin ==
    ASSUME NEW data, NEW first \in Int, NEW p \in Int, NEW last \in Int,
           first <= p, p <= last,
           \A b \in first .. last - 1 : data[b] \in 0 .. 255,
           Whole(data, first, p), Whole(data, p, last)
    PROVE  Whole(data, first, last)
<1>1. ASSUME NEW b \in first .. last - 1, Starts(data, b)
      PROVE  SymbolAt(data, b, last)
  <2>1. Ends(data, b) \in b + 1 .. b + 4
    BY SymbolEnds
  <2>2. CASE b < p
    <3>1. b \in first .. p - 1
      BY <2>2
    <3>2. SymbolAt(data, b, p)
      BY <1>1, <3>1 DEF Whole
    <3>3. p < last => Starts(data, p)
      BY DEF Whole
    <3> QED BY <2>1, <3>2, <3>3 DEF SymbolAt
  <2>3. CASE b >= p
    <3>1. b \in p .. last - 1
      BY <2>3
    <3> QED BY <1>1, <3>1 DEF Whole
  <2> QED BY <2>2, <2>3
<1>2. first < last => Starts(data, first)
  BY DEF Whole
<1> QED BY <1>1, <1>2 DEF Whole

(* The same bytes at another place *)
LEMMA WholeCopy ==
    ASSUME NEW data, NEW first \in Int, NEW last \in Int, first <= last,
           NEW copy, NEW to \in Int, NEW end \in Int, end - to = last - first,
           \A b \in first .. last - 1 : data[b] \in 0 .. 255,
           \A b \in to .. end - 1 : copy[b] = data[b - to + first],
           Whole(data, first, last)
    PROVE  Whole(copy, to, end)
<1>1. ASSUME NEW b \in to .. end - 1
      PROVE  /\ b - to + first \in first .. last - 1
             /\ Starts(copy, b) <=> Starts(data, b - to + first)
             /\ Ends(copy, b) = Ends(data, b - to + first) + to - first
             /\ Ends(copy, b) \in b + 1 .. b + 4
  <2>1. b - to + first \in first .. last - 1
    OBVIOUS
  <2>2. copy[b] = data[b - to + first] /\ data[b - to + first] \in 0 .. 255
    BY <2>1
  <2>3. Starts(copy, b) <=> Starts(data, b - to + first)
    BY <2>2 DEF Starts
  <2> DEFINE n == getSymbolLengthFromFirstByte(copy[b])
  <2>4. n \in 1 .. 4 /\ getSymbolLengthFromFirstByte(data[b - to + first]) = n
    BY <2>2, SymbolLengths
  <2>5. Ends(copy, b) = b + n /\ Ends(data, b - to + first) = b - to + first + n
    BY <2>4 DEF Ends
  <2> HIDE DEF n
  <2> QED BY <2>1, <2>3, <2>4, <2>5
<1>2. ASSUME NEW b \in to .. end - 1, Starts(copy, b)
      PROVE  SymbolAt(copy, b, end)
  <2> DEFINE a == b - to + first
             e == Ends(copy, b)
             ea == Ends(data, a)
  <2>1. a \in first .. last - 1 /\ Starts(data, a) /\ e = ea + to - first /\ e \in b + 1 .. b + 4
    BY <1>1, <1>2
  <2>2. SymbolAt(data, a, last)
    BY <2>1 DEF Whole
  <2>3. ea \in Int
    BY <2>1, SymbolEnds
  <2>4. ea <= last /\ (\A j \in a + 1 .. ea - 1 : ~Starts(data, j)) /\ (ea < last => Starts(data, ea))
    BY <2>2 DEF SymbolAt
  <2> HIDE DEF e, ea
  <2>5. e <= end
    BY <2>1, <2>3, <2>4
  <2>6. ASSUME NEW j \in b + 1 .. e - 1 PROVE ~Starts(copy, j)
    <3>1. j \in to .. end - 1 /\ j - to + first \in a + 1 .. ea - 1
      BY <2>1, <2>3, <2>5
    <3> QED BY <1>1, <2>4, <3>1
  <2>7. ASSUME e < end PROVE Starts(copy, e)
    <3>1. e \in to .. end - 1 /\ e - to + first = ea /\ ea < last
      BY <2>1, <2>3, <2>7
    <3> QED BY <1>1, <2>4, <3>1
  <2> QED BY <2>5, <2>6, <2>7 DEF SymbolAt, e
<1>3. to < end => Starts(copy, to)
  <2> SUFFICES ASSUME to < end PROVE Starts(copy, to)
    OBVIOUS
  <2>1. to \in to .. end - 1 /\ to - to + first = first /\ first < last
    OBVIOUS
  <2>2. Starts(copy, to) <=> Starts(data, first)
    BY <1>1, <2>1
  <2> QED BY <2>1, <2>2 DEF Whole
<1> QED BY <1>2, <1>3 DEF Whole
-----------------------------------------------------------------------------
(* The largest of a set of numbers with a bound *)
LEMMA Largest ==
    ASSUME NEW T, T \subseteq Int, T # {}, NEW m \in Int, \A t \in T : t <= m
    PROVE  Max(T) \in T /\ \A t \in T : t <= Max(T)
<1> DEFINE D == {m - t : t \in T}
<1>1. D \subseteq Nat /\ D # {}
  <2>1. ASSUME NEW t \in T PROVE m - t \in Nat
    <3>1. t \in Int /\ t <= m
      OBVIOUS
    <3> QED BY <3>1
  <2> QED BY <2>1
<1> HIDE DEF D
<1>2. PICK d \in D : \A e \in D : d <= e
  BY <1>1, LeastNatural
<1>3. PICK t \in T : d = m - t
  BY <1>2 DEF D
<1>4. ASSUME NEW u \in T PROVE t >= u
  <2>1. m - u \in D
    BY DEF D
  <2>2. d <= m - u
    BY <1>2, <2>1
  <2> QED BY <1>3, <2>2
<1>5. \E x \in T : \A y \in T : x >= y
  BY <1>4
<1>6. Max(T) \in T /\ \A y \in T : Max(T) >= y
  BY <1>5 DEF Max
<1> QED BY <1>6

(* One turn of the loop of getPrecedingSymbol *)
Before(data, x) ==
    IF x <= 0 THEN x
    ELSE Max({-1} \cup {j \in 0 .. x - 1 : ~isSymbolAuxiliaryByte(data[j])})

LEMMA BeforeType ==
    ASSUME NEW data, NEW x \in Int
    PROVE  Before(data, x) \in Int
<1> DEFINE T == {-1} \cup {j \in 0 .. x - 1 : ~isSymbolAuxiliaryByte(data[j])}
<1>1. ASSUME x > 0 PROVE Max(T) \in T
  <2>1. T \subseteq Int /\ T # {} /\ \A t \in T : t <= x
    BY <1>1
  <2> HIDE DEF T
  <2> QED BY <2>1, Largest
<1>2. T \subseteq Int
  OBVIOUS
<1> QED BY <1>1, <1>2 DEF Before

LEMMA BeforeBoundary ==
    ASSUME NEW data, NEW last \in Int, NEW x, Whole(data, 0, last), Boundary(data, 0, last, x)
    PROVE  Boundary(data, 0, last, Before(data, x))
<1>1. x \in 0 .. last
  BY DEF Boundary
<1>2. CASE x = 0
  BY <1>2 DEF Before
<1>3. CASE x > 0
  <2> DEFINE T == {-1} \cup {j \in 0 .. x - 1 : ~isSymbolAuxiliaryByte(data[j])}
  <2>1. 0 \in T
    BY <1>1, <1>3 DEF Whole, Starts
  <2>2. T \subseteq Int /\ \A t \in T : t <= x
    BY <1>1, <1>3
  <2> HIDE DEF T
  <2>3. Max(T) \in T /\ 0 <= Max(T)
    <3>1. x \in Int /\ T # {}
      BY <1>1, <2>1
    <3> QED BY <2>1, <2>2, <3>1, Largest, Zenon
  <2>4. Max(T) \in 0 .. x - 1 /\ ~isSymbolAuxiliaryByte(data[Max(T)])
    BY <2>3 DEF T
  <2>5. Before(data, x) = Max(T)
    BY <1>1, <1>3 DEF Before, T
  <2> QED BY <1>1, <2>4, <2>5 DEF Boundary, Starts
<1> QED BY <1>1, <1>2, <1>3

(* getPrecedingSymbol stops between two symbols, and its assert holds. *)
LEMMA PrecedingBoundary ==
    ASSUME NEW g, NEW num \in Nat, g.gap_offset \in Nat, Whole(g.data, 0, g.gap_offset)
    PROVE  Boundary(g.data, 0, g.gap_offset, getPrecedingSymbol(g, num))
<1> DEFINE o == g.gap_offset
           next(i) == [n \in 0 .. num |-> IF n = 0 THEN o ELSE Before(g.data, i[n - 1])]
           step == [n \in Nat |-> [x \in Int |-> Before(g.data, x)]]
<1>1. \E i : i = next(i)
  <2>1. step \in [Nat -> [Int -> Int]]
    BY BeforeType
  <2>2. o \in Int
    OBVIOUS
  <2>3. PICK f \in [0 .. num -> Int] : Recurs(f, o, step, num)
    <3> HIDE DEF step, o
    <3> QED BY <2>1, <2>2, Recursion, Zenon
  <2>4. ASSUME NEW n \in 0 .. num PROVE f[n] = IF n = 0 THEN o ELSE Before(g.data, f[n - 1])
    <3>1. CASE n = 0
      BY <2>3, <3>1 DEF Recurs
    <3>2. CASE n # 0
      <4>1. n \in 1 .. num /\ n \in Nat /\ n - 1 \in 0 .. num
        BY <3>2
      <4>2. f[n - 1] \in Int
        BY <4>1
      <4> QED BY <2>3, <3>2, <4>1, <4>2 DEF Recurs
    <3> QED BY <3>1, <3>2
  <2>5. f = next(f)
    BY <2>4
  <2> QED BY <2>5
<1>2. ASSUME NEW i, i = next(i) PROVE Boundary(g.data, 0, o, i[num])
  <2> DEFINE T == {n \in 0 .. num : Boundary(g.data, 0, o, i[n])}
  <2>1. 0 \in T
    <3>1. i[0] = o
      BY <1>2
    <3> QED BY <3>1 DEF Boundary
  <2>2. ASSUME NEW n \in 1 .. num, n - 1 \in T PROVE n \in T
    <3>1. i[n] = Before(g.data, i[n - 1])
      BY <1>2
    <3> QED BY <2>2, <3>1, BeforeBoundary
  <2>3. num \in T
    <3> HIDE DEF T
    <3>1. \A n \in 0 .. num : n \in T
      BY <2>1, <2>2, CountingUp
    <3> QED BY <3>1
  <2> QED BY <2>3
<1>3. getPrecedingSymbol(g, num) = (CHOOSE i : i = next(i))[num]
  BY Zenon DEF getPrecedingSymbol, Before
<1> QED BY <1>1, <1>2, <1>3, Zenon

(* One turn of the loop of getFollowingSymbol *)
After(g, x) == IF x >= g.total THEN x ELSE x + getSymbolLengthFromFirstByte(g.data[x])

LEMMA AfterBoundary ==
    ASSUME NEW g, NEW first \in Int, g.total \in Int, NEW x,
           \A b \in first .. g.total - 1 : g.data[b] \in 0 .. 255,
           Whole(g.data, first, g.total), Boundary(g.data, first, g.total, x)
    PROVE  Boundary(g.data, first, g.total, After(g, x))
<1>1. x \in first .. g.total
  BY DEF Boundary
<1>2. CASE x = g.total
  BY <1>2 DEF After
<1>3. CASE x < g.total
  <2>1. x \in first .. g.total - 1 /\ Starts(g.data, x)
    BY <1>1, <1>3 DEF Boundary
  <2>2. SymbolAt(g.data, x, g.total) /\ Ends(g.data, x) \in x + 1 .. x + 4
    <3>1. x \in Int /\ g.data[x] \in 0 .. 255
      BY <2>1
    <3>2. Ends(g.data, x) \in x + 1 .. x + 4
      BY <3>1, SymbolEnds
    <3> QED BY <2>1, <3>2 DEF Whole
  <2>3. After(g, x) = Ends(g.data, x)
    BY <1>1, <1>3 DEF After, Ends
  <2> QED BY <1>1, <2>2, <2>3 DEF SymbolAt, Boundary
<1> QED BY <1>1, <1>2, <1>3

(* getFollowingSymbol stops between two symbols. *)
LEMMA FollowingBoundary ==
    ASSUME NEW g, NEW num \in Nat,
           g.gap_offset \in Nat, g.gap_length \in Nat, g.total \in Nat,
           g.gap_offset + g.gap_length <= g.total,
           \A b \in g.gap_offset + g.gap_length .. g.total - 1 : g.data[b] \in 0 .. 255,
           Whole(g.data, g.gap_offset + g.gap_length, g.total)
    PROVE  Boundary(g.data, g.gap_offset + g.gap_length, g.total, getFollowingSymbol(g, num))
<1> DEFINE a == g.gap_offset + g.gap_length
           S == {x \in a .. g.total : Boundary(g.data, a, g.total, x)}
           next(i) == [n \in 0 .. num |-> IF n = 0 THEN a ELSE After(g, i[n - 1])]
           step == [n \in Nat |-> [x \in S |-> After(g, x)]]
<1>1. a \in S
  BY DEF Boundary, Whole
<1>2. ASSUME NEW x \in S PROVE After(g, x) \in S
  <2>1. Boundary(g.data, a, g.total, x) /\ a \in Int /\ g.total \in Int
    OBVIOUS
  <2>2. Boundary(g.data, a, g.total, After(g, x))
    <3> HIDE DEF a
    <3> QED BY <2>1, AfterBoundary DEF a
  <2> QED BY <2>2 DEF Boundary
<1>3. \E i : i = next(i)
  <2>1. step \in [Nat -> [S -> S]]
    BY <1>2
  <2>2. PICK f \in [0 .. num -> S] : Recurs(f, a, step, num)
    <3> HIDE DEF step, a, S
    <3> QED BY <1>1, <2>1, Recursion, Zenon
  <2>3. ASSUME NEW n \in 0 .. num
        PROVE  f[n] = IF n = 0 THEN a ELSE After(g, f[n - 1])
    <3>1. CASE n = 0
      BY <2>2, <3>1 DEF Recurs
    <3>2. CASE n # 0
      <4>1. n \in 1 .. num /\ n \in Nat /\ n - 1 \in 0 .. num
        BY <3>2
      <4>2. f[n - 1] \in S
        BY <4>1
      <4>3. step[n][f[n - 1]] = After(g, f[n - 1])
        <5> HIDE DEF S
        <5> QED BY <4>1, <4>2
      <4> HIDE DEF step
      <4> QED BY <2>2, <3>2, <4>1, <4>3 DEF Recurs
    <3> QED BY <3>1, <3>2
  <2>4. f = next(f)
    <3> HIDE DEF a, S
    <3> QED BY <2>3
  <2> QED BY <2>4
<1>4. ASSUME NEW i, i = next(i) PROVE i[num] \in S
  <2> DEFINE T == {n \in 0 .. num : i[n] \in S}
  <2>1. 0 \in T
    <3>1. i[0] = a
      BY <1>4
    <3> QED BY <1>1, <3>1
  <2>2. ASSUME NEW n \in 1 .. num, n - 1 \in T PROVE n \in T
    <3>1. i[n] = After(g, i[n - 1])
      BY <1>4
    <3>2. i[n - 1] \in S
      BY <2>2
    <3>3. i[n] \in S
      <4> HIDE DEF S
      <4> QED BY <1>2, <3>1, <3>2
    <3> QED BY <3>3
  <2>3. num \in T
    <3> HIDE DEF T
    <3>1. \A n \in 0 .. num : n \in T
      BY <2>1, <2>2, CountingUp
    <3> QED BY <3>1
  <2> QED BY <2>3
<1>5. getFollowingSymbol(g, num) = (CHOOSE i : i = next(i))[num]
  BY Zenon DEF getFollowingSymbol, After
<1>6. getFollowingSymbol(g, num) \in S
  <2> HIDE DEF S, next
  <2> QED BY <1>3, <1>4, <1>5, Zenon
<1> QED BY <1>6

(* One turn of the loop of GapBuffer_moveAbsolute *)
Jump(g, x) ==
    IF x >= g.total THEN x
    ELSE LET next == x + getSymbolLengthFromFirstByte(g.data[x])
         IN  IF next = g.gap_offset THEN next + g.gap_length ELSE next

(* It stops between two symbols, before the gap or behind it. *)
Places(g) ==
    {x \in 0 .. g.gap_offset - 1 : Starts(g.data, x)}
    \cup {x \in g.gap_offset + g.gap_length .. g.total :
             Boundary(g.data, g.gap_offset + g.gap_length, g.total, x)}

LEMMA AbsoluteBoundary ==
    ASSUME NEW g, NEW num \in Nat,
           g.gap_offset \in Nat, g.gap_length \in Nat, g.total \in Nat,
           g.gap_offset + g.gap_length <= g.total,
           \A b \in 0 .. g.total - 1 : g.data[b] \in 0 .. 255,
           Whole(g.data, 0, g.gap_offset),
           Whole(g.data, g.gap_offset + g.gap_length, g.total)
    PROVE  AbsolutePosition(g, num) \in Places(g)
<1> DEFINE a == IF g.gap_offset > 0 THEN 0 ELSE g.gap_length
           S == Places(g)
           next(i) == [n \in 0 .. num |-> IF n = 0 THEN a ELSE Jump(g, i[n - 1])]
           step == [n \in Nat |-> [x \in S |-> Jump(g, x)]]
<1>1. a \in S
  BY DEF Boundary, Whole, Places
<1>2. ASSUME NEW x \in S PROVE Jump(g, x) \in S
  <2> DEFINE o == g.gap_offset
             r == g.gap_offset + g.gap_length
             e == Ends(g.data, x)
  <2>1. CASE x \in 0 .. o - 1 /\ Starts(g.data, x)
    <3>1. SymbolAt(g.data, x, o) /\ e \in x + 1 .. x + 4
      <4>1. x \in Int /\ g.data[x] \in 0 .. 255
        BY <2>1
      <4>2. Ends(g.data, x) \in x + 1 .. x + 4
        BY <4>1, SymbolEnds
      <4> QED BY <2>1, <4>2 DEF Whole
    <3>2. e <= o /\ (e < o => Starts(g.data, e))
      BY <3>1 DEF SymbolAt
    <3>3. x < g.total
      BY <2>1
    <3>4. Jump(g, x) = IF e = o THEN e + g.gap_length ELSE e
      BY <2>1, <3>3 DEF Jump, Ends
    <3>5. CASE e = o
      <4>1. Jump(g, x) = r
        BY <3>4, <3>5
      <4>2. r \in r .. g.total /\ Boundary(g.data, r, g.total, r)
        BY DEF Whole, Boundary
      <4> QED BY <4>1, <4>2 DEF Places
    <3>6. CASE e < o
      <4>1. e \in 0 .. o - 1 /\ Starts(g.data, e) /\ Jump(g, x) = e
        BY <2>1, <3>1, <3>2, <3>4, <3>6
      <4> HIDE DEF e
      <4> QED BY <4>1 DEF Places
    <3> HIDE DEF e
    <3> QED BY <3>1, <3>2, <3>5, <3>6, <2>1
  <2>2. CASE x \in r .. g.total /\ Boundary(g.data, r, g.total, x)
    <3>1. r \in Int /\ g.total \in Int /\ \A b \in r .. g.total - 1 : g.data[b] \in 0 .. 255
      OBVIOUS
    <3>2. Boundary(g.data, r, g.total, After(g, x))
      <4> HIDE DEF r
      <4> QED BY <2>2, <3>1, AfterBoundary DEF r
    <3>3. Jump(g, x) = After(g, x)
      <4>1. CASE x = g.total
        BY <4>1 DEF Jump, After
      <4>2. CASE x < g.total
        <5>1. e \in x + 1 .. x + 4
          <6>1. x \in Int /\ g.data[x] \in 0 .. 255
            BY <2>2, <4>2
          <6> QED BY <6>1, SymbolEnds
        <5>2. e # o
          <6> HIDE DEF e
          <6> QED BY <2>2, <5>1
        <5> QED BY <2>2, <4>2, <5>2 DEF Jump, After, Ends
      <4> QED BY <2>2, <4>1, <4>2
    <3> QED BY <3>2, <3>3 DEF Places, Boundary
  <2> QED BY <2>1, <2>2 DEF Places
<1>3. \E i : i = next(i)
  <2>1. step \in [Nat -> [S -> S]]
    BY <1>2
  <2>2. PICK f \in [0 .. num -> S] : Recurs(f, a, step, num)
    <3> HIDE DEF step, a, S
    <3> QED BY <1>1, <2>1, Recursion, Zenon
  <2>3. ASSUME NEW n \in 0 .. num
        PROVE  f[n] = IF n = 0 THEN a ELSE Jump(g, f[n - 1])
    <3>1. CASE n = 0
      BY <2>2, <3>1 DEF Recurs
    <3>2. CASE n # 0
      <4>1. n \in 1 .. num /\ n \in Nat /\ n - 1 \in 0 .. num
        BY <3>2
      <4>2. f[n - 1] \in S
        BY <4>1
      <4>3. step[n][f[n - 1]] = Jump(g, f[n - 1])
        <5> HIDE DEF S
        <5> QED BY <4>1, <4>2
      <4> HIDE DEF step
      <4> QED BY <2>2, <3>2, <4>1, <4>3 DEF Recurs
    <3> QED BY <3>1, <3>2
  <2>4. f = next(f)
    <3> HIDE DEF a, S
    <3> QED BY <2>3
  <2> QED BY <2>4
<1>4. ASSUME NEW i, i = next(i) PROVE i[num] \in S
  <2> DEFINE T == {n \in 0 .. num : i[n] \in S}
  <2>1. 0 \in T
    <3>1. i[0] = a
      BY <1>4
    <3> QED BY <1>1, <3>1
  <2>2. ASSUME NEW n \in 1 .. num, n - 1 \in T PROVE n \in T
    <3>1. i[n] = Jump(g, i[n - 1])
      BY <1>4
    <3>2. i[n - 1] \in S
      BY <2>2
    <3>3. i[n] \in S
      <4> HIDE DEF S
      <4> QED BY <1>2, <3>1, <3>2
    <3> QED BY <3>3
  <2>3. num \in T
    <3> HIDE DEF T
    <3>1. \A n \in 0 .. num : n \in T
      BY <2>1, <2>2, CountingUp
    <3> QED BY <3>1
  <2> QED BY <2>3
<1>5. AbsolutePosition(g, num) = (CHOOSE i : i = next(i))[num]
  BY Zenon DEF AbsolutePosition, Jump
<1> QED BY <1>3, <1>4, <1>5, Zenon
-----------------------------------------------------------------------------
LEMMA AuxiliaryBytes ==
    ASSUME NEW b \in 0 .. 255
    PROVE  isSymbolAuxiliaryByte(b) <=> b \in 128 .. 191
  BY DEF isSymbolAuxiliaryByte

(* What getSymbolRune accepts is a whole symbol, and as long as            *)
(* getSymbolLengthFromFirstByte says.                                      *)
LEMMA RuneIsSymbol ==
    ASSUME NEW str, NEW first \in 0 .. 255, SymbolFrom(first, str).n > 0
    PROVE  /\ SymbolFrom(first, str).n = getSymbolLengthFromFirstByte(first)
           /\ SymbolFrom(first, str).n \in 1 .. 4
           /\ ~isSymbolAuxiliaryByte(first)
           /\ \E least, most : Symbol(str, SymbolFrom(first, str).n, least, most)
<1> DEFINE n == SymbolFrom(first, str).n
<1>1. n = IF first < 128 THEN IF Symbol(str, 1, 0, 127) THEN 1 ELSE -1
          ELSE IF first < 192 THEN -1
          ELSE IF first < 224 THEN IF Symbol(str, 2, 128, 2047) THEN 2 ELSE -1
          ELSE IF first < 240 THEN IF Symbol(str, 3, 2048, 65535) THEN 3 ELSE -1
          ELSE IF Symbol(str, 4, 65536, MaxRune) THEN 4 ELSE -1
  BY DEF SymbolFrom, Invalid
<1>2. n > 0
  OBVIOUS
<1>3. isSymbolAuxiliaryByte(first) <=> first \in 128 .. 191
  BY AuxiliaryBytes
<1> HIDE DEF n
<1>4. n = getSymbolLengthFromFirstByte(first) /\ n \in 1 .. 4 /\ ~(first \in 128 .. 191)
  BY <1>1, <1>2 DEF getSymbolLengthFromFirstByte
<1>5. \E least, most : Symbol(str, n, least, most)
  BY <1>1, <1>2
<1> QED BY <1>3, <1>4, <1>5 DEF n

(* The length of the symbol that isValidUTF8 finds at offset i *)
SymbolLen(str, i) == getSymbolRune(SubSeq(str, i + 1, Len(str))).n

(* A string of len bytes, as the callers of isValidUTF8 have it *)
IsBytes(str, len) == str \in Seq(0 .. 255) /\ len = Len(str)

LEMMA Suffix ==
    ASSUME NEW S, NEW str \in Seq(S), NEW i \in 0 .. Len(str) - 1
    PROVE  LET t == SubSeq(str, i + 1, Len(str))
           IN  /\ Len(t) = Len(str) - i
               /\ \A k \in 1 .. Len(str) - i : t[k] = str[i + k]
               /\ t # <<>>
               /\ t[1] \in S
<1> DEFINE t == SubSeq(str, i + 1, Len(str))
<1>1. Len(str) \in Nat /\ i + 1 \in 1 .. Len(str) /\ i + 1 \in DOMAIN str
  OBVIOUS
<1>2. Len(t) = Len(str) - i
  BY <1>1
<1>3. \A k \in 1 .. Len(str) - i : t[k] = str[i + k]
  BY <1>1
<1>4. t # <<>>
  <2>1. Len(str) - i # 0
    BY <1>1
  <2>2. Len(<<>>) = 0
    OBVIOUS
  <2> HIDE DEF t
  <2> QED BY <1>2, <2>1, <2>2, Zenon
<1>5. 1 \in 1 .. Len(str) - i /\ str[i + 1] \in S
  BY <1>1
<1> QED BY <1>2, <1>3, <1>4, <1>5

(* In terms of the bytes of str: byte k of a C string is str[k + 1]. *)
LEMMA SymbolInside ==
    ASSUME NEW str, NEW len \in Nat, IsBytes(str, len),
           NEW i \in 0 .. len - 1, SymbolLen(str, i) > 0
    PROVE  /\ SymbolLen(str, i) = getSymbolLengthFromFirstByte(str[i + 1])
           /\ SymbolLen(str, i) \in 1 .. len - i
           /\ ~isSymbolAuxiliaryByte(str[i + 1])
           /\ \A j \in i + 2 .. i + SymbolLen(str, i) : isSymbolAuxiliaryByte(str[j])
<1> DEFINE t == SubSeq(str, i + 1, Len(str))
           first == t[1]
           n == SymbolLen(str, i)
           lent == Len(t)
<1>0. str \in Seq(0 .. 255) /\ len = Len(str)
  BY DEF IsBytes
<1>1. lent = len - i /\ \A k \in 1 .. len - i : t[k] = str[i + k]
  BY <1>0, Suffix, Zenon
<1>2. t # <<>> /\ first \in 0 .. 255
  BY <1>0, Suffix, Zenon
<1>3. n = SymbolFrom(first, t).n
  BY <1>2, Zenon DEF SymbolLen, getSymbolRune
<1>4. /\ n = getSymbolLengthFromFirstByte(first)
      /\ n \in 1 .. 4
      /\ ~isSymbolAuxiliaryByte(first)
      /\ \E least, most : Symbol(t, n, least, most)
  <2> HIDE DEF t, first, n
  <2>1. SymbolFrom(first, t).n > 0
    BY <1>3 DEF n
  <2> QED BY <1>2, <1>3, <2>1, RuneIsSymbol
<1>5. lent >= n /\ \A k \in 2 .. n : isSymbolAuxiliaryByte(t[k])
  <2> HIDE DEF t, n, first
  <2> QED BY <1>4, Zenon DEF Symbol, lent
<1> HIDE DEF t, n, lent, first
<1>6. first = str[i + 1]
  BY <1>1 DEF first
<1>7. ASSUME NEW j \in i + 2 .. i + n PROVE isSymbolAuxiliaryByte(str[j])
  <2>1. j - i \in 2 .. n /\ j - i \in 1 .. len - i /\ i + (j - i) = j
    BY <1>1, <1>4, <1>5
  <2>2. t[j - i] = str[j]
    BY <1>1, <2>1
  <2> QED BY <1>5, <2>1, <2>2
<1>8. n \in 1 .. len - i
  BY <1>1, <1>4, <1>5
<1> QED BY <1>4, <1>6, <1>7, <1>8 DEF n

(* The loop of isValidUTF8 goes from symbol to symbol to the end. *)
LEMMA ValidChain ==
    ASSUME NEW str, NEW len \in Nat, IsBytes(str, len), isValidUTF8(str)
    PROVE  \E valid : /\ valid[0]
                      /\ \A i \in 0 .. len - 1 :
                            valid[i] => SymbolLen(str, i) > 0 /\ valid[i + SymbolLen(str, i)]
<1> DEFINE next(valid) == [i \in 0 .. len |->
                             i < len => SymbolLen(str, i) > 0 /\ valid[i + SymbolLen(str, i)]]
           Closed(B) == \A b \in B : b < len =>
                           SymbolLen(str, b) > 0 /\ b + SymbolLen(str, b) \in B
           v == [i \in 0 .. len |-> \E B \in SUBSET (0 .. len) : i \in B /\ Closed(B)]
<1>1. len \in Nat
  OBVIOUS
<1>2. ASSUME NEW i \in 0 .. len
      PROVE  v[i] = (i < len => SymbolLen(str, i) > 0 /\ v[i + SymbolLen(str, i)])
  <2> DEFINE n == SymbolLen(str, i)
  <2>1. ASSUME i < len, n > 0 PROVE i + n \in 0 .. len
    <3>1. n \in 1 .. len - i
      BY <1>1, <2>1, SymbolInside
    <3> HIDE DEF n
    <3> QED BY <1>1, <3>1
  <2>2. ASSUME v[i], i < len PROVE n > 0 /\ v[i + n]
    <3>1. PICK B \in SUBSET (0 .. len) : i \in B /\ Closed(B)
      BY <2>2
    <3>2. n > 0 /\ i + n \in B
      BY <2>2, <3>1
    <3> HIDE DEF n, Closed
    <3> QED BY <3>1, <3>2
  <2>3. ASSUME i < len => n > 0 /\ v[i + n] PROVE v[i]
    <3>1. CASE i = len
      <4>1. {i} \in SUBSET (0 .. len) /\ i \in {i} /\ Closed({i})
        BY <1>1, <3>1
      <4> HIDE DEF Closed
      <4> QED BY <4>1
    <3>2. CASE i < len
      <4>1. PICK B \in SUBSET (0 .. len) : i + n \in B /\ Closed(B)
        <5>1. i + n \in 0 .. len /\ v[i + n]
          BY <2>1, <2>3, <3>2
        <5> HIDE DEF n, Closed
        <5> QED BY <5>1
      <4>2. Closed(B \cup {i})
        BY <2>3, <3>2, <4>1
      <4>3. B \cup {i} \in SUBSET (0 .. len) /\ i \in B \cup {i}
        OBVIOUS
      <4> HIDE DEF Closed
      <4> QED BY <4>2, <4>3
    <3> QED BY <1>1, <3>1, <3>2
  <2>4. v[i] \in BOOLEAN
    <3> HIDE DEF Closed
    <3> QED OBVIOUS
  <2>5. (i < len => n > 0 /\ v[i + n]) \in BOOLEAN
    OBVIOUS
  <2> HIDE DEF n, v
  <2> QED BY <2>2, <2>3, <2>4, <2>5 DEF n
<1>3. v = next(v)
  <2> HIDE DEF Closed
  <2>1. v = [i \in 0 .. len |-> v[i]]
    OBVIOUS
  <2> HIDE DEF v
  <2> QED BY <1>2, <2>1
<1>4. \E valid : valid = next(valid)
  <2> HIDE DEF v
  <2> QED BY <1>3
<1>5. isValidUTF8(str) = (CHOOSE valid : valid = next(valid))[0]
  <2>1. len = Len(str)
    BY DEF IsBytes
  <2> QED BY <2>1, Zenon DEF isValidUTF8, SymbolLen
<1>6. PICK valid : valid = next(valid) /\ valid[0]
  BY <1>4, <1>5, Zenon
<1>7. ASSUME NEW i \in 0 .. len - 1, valid[i]
      PROVE  SymbolLen(str, i) > 0 /\ valid[i + SymbolLen(str, i)]
  <2>1. i \in 0 .. len /\ i < len
    BY <1>1
  <2>2. valid[i] = (i < len => SymbolLen(str, i) > 0 /\ valid[i + SymbolLen(str, i)])
    BY <1>6, <2>1
  <2> QED BY <1>7, <2>1, <2>2
<1> QED BY <1>6, <1>7

(* What isValidUTF8 accepts is whole symbols. *)
LEMMA ValidIsWhole ==
    ASSUME NEW str, NEW len \in Nat, IsBytes(str, len), isValidUTF8(str)
    PROVE  Whole(str, 1, len + 1)
<1>1. PICK valid : /\ valid[0]
                   /\ \A i \in 0 .. len - 1 :
                         valid[i] => SymbolLen(str, i) > 0 /\ valid[i + SymbolLen(str, i)]
  BY ValidChain
<1>2. ASSUME NEW i \in 0 .. len - 1, valid[i]
      PROVE  /\ Starts(str, i + 1)
             /\ Ends(str, i + 1) \in i + 2 .. len + 1
             /\ \A j \in i + 2 .. Ends(str, i + 1) - 1 : ~Starts(str, j)
             /\ valid[Ends(str, i + 1) - 1]
  <2> DEFINE n == SymbolLen(str, i)
  <2>1. n > 0 /\ valid[i + n]
    BY <1>1, <1>2
  <2>2. /\ n = getSymbolLengthFromFirstByte(str[i + 1])
        /\ n \in 1 .. len - i
        /\ ~isSymbolAuxiliaryByte(str[i + 1])
        /\ \A j \in i + 2 .. i + n : isSymbolAuxiliaryByte(str[j])
    BY <2>1, SymbolInside
  <2> HIDE DEF n
  <2>3. Ends(str, i + 1) = i + 1 + n
    BY <2>2 DEF Ends
  <2>4. Ends(str, i + 1) \in i + 2 .. len + 1 /\ Ends(str, i + 1) - 1 = i + n
    BY <2>2, <2>3
  <2>5. \A j \in i + 2 .. Ends(str, i + 1) - 1 : ~Starts(str, j)
    BY <2>2, <2>4, Zenon DEF Starts
  <2>6. Starts(str, i + 1)
    BY <2>2, Zenon DEF Starts
  <2> QED BY <2>1, <2>4, <2>5, <2>6, Zenon
<1> DEFINE At(p) == \E c \in 0 .. len - 1 : valid[c] /\ c <= p /\ p + 1 < Ends(str, c + 1)
           T == {p \in Nat : p < len => At(p)}
<1>3. \A p \in 0 .. len : p \in T
  <2>1. 0 \in T
    <3> SUFFICES ASSUME 0 < len PROVE At(0)
      OBVIOUS
    <3>1. 0 \in 0 .. len - 1 /\ valid[0]
      BY <1>1
    <3>2. Ends(str, 0 + 1) \in 0 + 2 .. len + 1
      BY <1>2, <3>1
    <3> QED BY <3>1, <3>2
  <2>2. ASSUME NEW p \in 1 .. len, p - 1 \in T PROVE p \in T
    <3> SUFFICES ASSUME p < len PROVE At(p)
      OBVIOUS
    <3>1. PICK c \in 0 .. len - 1 : valid[c] /\ c <= p - 1 /\ p - 1 + 1 < Ends(str, c + 1)
      BY <2>2
    <3> DEFINE e == Ends(str, c + 1)
    <3>2. e \in c + 2 .. len + 1 /\ valid[e - 1]
      BY <1>2, <3>1
    <3> HIDE DEF e
    <3>3. p < e
      BY <3>1 DEF e
    <3>4. CASE p + 1 < e
      <4>1. c <= p
        BY <3>1
      <4> QED BY <3>1, <3>4, <4>1 DEF e
    <3>5. CASE p + 1 = e
      <4>1. p \in 0 .. len - 1 /\ valid[p]
        <5>1. e - 1 = p
          BY <3>5
        <5> QED BY <3>2, <5>1
      <4>2. Ends(str, p + 1) \in p + 2 .. len + 1
        BY <1>2, <4>1
      <4>3. p + 1 < Ends(str, p + 1) /\ p <= p
        BY <4>2
      <4> QED BY <4>1, <4>3
    <3> QED BY <3>2, <3>3, <3>4, <3>5
  <2> HIDE DEF T
  <2> QED BY <2>1, <2>2, CountingUp
<1>4. ASSUME NEW b \in 1 .. len, Starts(str, b) PROVE valid[b - 1]
  <2>1. At(b - 1)
    <3>1. b - 1 \in 0 .. len /\ b - 1 < len
      OBVIOUS
    <3> QED BY <1>3, <3>1
  <2>2. PICK c \in 0 .. len - 1 : valid[c] /\ c <= b - 1 /\ b - 1 + 1 < Ends(str, c + 1)
    BY <2>1
  <2>3. CASE c = b - 1
    BY <2>2, <2>3
  <2>4. CASE c < b - 1
    <3>1. Ends(str, c + 1) \in Int /\ \A j \in c + 2 .. Ends(str, c + 1) - 1 : ~Starts(str, j)
      BY <1>2, <2>2
    <3>2. b \in c + 2 .. Ends(str, c + 1) - 1
      BY <2>2, <2>4, <3>1
    <3> QED BY <1>4, <3>1, <3>2
  <2> QED BY <2>2, <2>3, <2>4
<1>5. ASSUME NEW b \in 1 .. len, Starts(str, b) PROVE SymbolAt(str, b, len + 1)
  <2> DEFINE i == b - 1
             e == Ends(str, b)
  <2>1. i \in 0 .. len - 1 /\ i + 1 = b /\ i + 2 = b + 1
    OBVIOUS
  <2>2. valid[i]
    BY <1>4, <1>5
  <2>3. /\ e \in b + 1 .. len + 1
        /\ \A j \in b + 1 .. e - 1 : ~Starts(str, j)
        /\ valid[e - 1]
    <3> HIDE DEF i
    <3> QED BY <1>2, <2>1, <2>2
  <2> HIDE DEF e
  <2>4. ASSUME e < len + 1 PROVE Starts(str, e)
    <3>1. e - 1 \in 0 .. len - 1 /\ e - 1 + 1 = e
      BY <2>3, <2>4
    <3>2. Starts(str, e - 1 + 1)
      BY <1>2, <2>3, <3>1
    <3> QED BY <3>1, <3>2
  <2>5. e <= len + 1
    BY <2>3
  <2> QED BY <2>3, <2>4, <2>5, Zenon DEF SymbolAt, e
<1>6. 1 < len + 1 => Starts(str, 1)
  <2> SUFFICES ASSUME 1 < len + 1 PROVE Starts(str, 1)
    OBVIOUS
  <2>1. 0 \in 0 .. len - 1 /\ 0 + 1 = 1
    OBVIOUS
  <2>2. Starts(str, 0 + 1)
    BY <1>1, <1>2, <2>1
  <2> QED BY <2>1, <2>2
<1>7. \A b \in 1 .. len + 1 - 1 : Starts(str, b) => SymbolAt(str, b, len + 1)
  <2>1. len + 1 - 1 = len
    OBVIOUS
  <2> QED BY <1>5, <2>1
<1> QED BY <1>6, <1>7 DEF Whole
-----------------------------------------------------------------------------
LEMMA RuneUnits ==
    ASSUME NEW rune \in Runes
    PROVE  rune \in Nat /\ rune \div 262144 \in 0 .. 4
<1>1. rune \in Nat /\ rune <= MaxRune
  <2>1. MaxRune \in Nat
    BY SMT DEF MaxRune
  <2> QED BY <2>1, SMT DEF Runes
<1>2. ASSUME NEW s \in Nat \ {0}
      PROVE  \E q \in Int : q = rune \div s /\ rune >= s * q /\ rune < s * q + s
  <2> DEFINE q == rune \div s
             r == rune % s
  <2>1. q \in Int /\ r \in 0 .. s - 1 /\ rune = s * q + r
    BY <1>1, DivMod
  <2> HIDE DEF q, r
  <2>2. rune >= s * q /\ rune < s * q + s
    BY <2>1, SMT
  <2> QED BY <2>1, <2>2 DEF q
<1>3. PICK q \in Int : q = rune \div 262144 /\ rune >= 262144 * q /\ rune < 262144 * q + 262144
  <2>1. 262144 \in Nat \ {0}
    BY SMT
  <2> QED BY <1>2, <2>1, SMT
<1>4. q \in 0 .. 4
  BY <1>1, <1>3, SMT DEF MaxRune
<1> QED BY <1>1, <1>3, <1>4, SMT

LEMMA EncodeBytes ==
    ASSUME NEW rune \in Runes
    PROVE  Encode(rune) \in Seq(0 .. 255)
<1>1. rune \in Nat
  BY RuneUnits
<1> DEFINE tail(unit) == 128 + ((rune \div unit) % 64)
           t1 == tail(1)
           t2 == tail(64)
           t3 == tail(4096)
           h2 == 192 + (rune \div 64)
           h3 == 224 + (rune \div 4096)
           h4 == 240 + (rune \div 262144)
<1>2. t1 \in 0 .. 255 /\ t2 \in 0 .. 255 /\ t3 \in 0 .. 255
  <2>1. ASSUME NEW unit \in Nat \ {0} PROVE tail(unit) \in 0 .. 255
    <3> DEFINE q == rune \div unit
    <3>1. q \in Int
      BY <1>1, DivMod
    <3> HIDE DEF q
    <3>2. q % 64 \in 0 .. 64 - 1
      BY <3>1, DivMod
    <3> QED BY <3>2 DEF q
  <2> HIDE DEF tail
  <2> QED BY <2>1, SMT DEF t1, t2, t3
<1>3. \/ Encode(rune) = <<rune>> /\ rune \in 0 .. 255
      \/ Encode(rune) = <<h2, t1>> /\ h2 \in 0 .. 255
      \/ Encode(rune) = <<h3, t2, t1>> /\ h3 \in 0 .. 255
      \/ Encode(rune) = <<h4, t3, t2, t1>> /\ h4 \in 0 .. 255
  <2>1. CASE rune < 128
    <3>1. Encode(rune) = <<rune>>
      BY <1>1, <2>1, SMT DEF Encode
    <3> QED BY <1>1, <2>1, <3>1, SMT
  <2>2. CASE rune >= 128 /\ rune < 2048
    <3>1. Encode(rune) = <<h2, t1>>
      BY <1>1, <2>2, SMT DEF Encode
    <3>2. h2 \in 0 .. 255
      BY <1>1, <2>2, SMT
    <3> QED BY <3>1, <3>2
  <2>3. CASE rune >= 2048 /\ rune < 65536
    <3>1. Encode(rune) = <<h3, t2, t1>>
      BY <1>1, <2>3, SMT DEF Encode
    <3>2. h3 \in 0 .. 255
      BY <1>1, <2>3, SMT
    <3> QED BY <3>1, <3>2, SMT
  <2>4. CASE rune >= 65536
    <3>1. Encode(rune) = <<h4, t3, t2, t1>>
      BY <1>1, <2>4, SMT DEF Encode
    <3>2. h4 \in 0 .. 255
      <4>1. rune \div 262144 \in 0 .. 4
        BY RuneUnits
      <4> QED BY <4>1
    <3> QED BY <3>1, <3>2, SMT
  <2>5. rune < 128 \/ (rune >= 128 /\ rune < 2048) \/ (rune >= 2048 /\ rune < 65536) \/ rune >= 65536
    BY <1>1, SMT
  <2> HIDE DEF h2, h3, h4, t1, t2, t3
  <2> QED BY <2>1, <2>2, <2>3, <2>4, <2>5, SMT
<1>4. \A S : /\ \A a \in S : <<a>> \in Seq(S)
             /\ \A a, b \in S : <<a, b>> \in Seq(S)
             /\ \A a, b, c \in S : <<a, b, c>> \in Seq(S)
             /\ \A a, b, c, d \in S : <<a, b, c, d>> \in Seq(S)
  BY SMT
<1> DEFINE Byte == 0 .. 255
<1>5. \/ Encode(rune) = <<rune>> /\ rune \in Byte
      \/ Encode(rune) = <<h2, t1>> /\ h2 \in Byte
      \/ Encode(rune) = <<h3, t2, t1>> /\ h3 \in Byte
      \/ Encode(rune) = <<h4, t3, t2, t1>> /\ h4 \in Byte
  BY <1>3
<1>6. t1 \in Byte /\ t2 \in Byte /\ t3 \in Byte
  BY <1>2
<1> HIDE DEF h2, h3, h4, t1, t2, t3, Byte
<1>7. Encode(rune) \in Seq(Byte)
  <2>1. CASE Encode(rune) = <<rune>> /\ rune \in Byte
    BY <1>4, <2>1, Zenon
  <2>2. CASE Encode(rune) = <<h2, t1>> /\ h2 \in Byte
    BY <1>4, <1>6, <2>2, Zenon
  <2>3. CASE Encode(rune) = <<h3, t2, t1>> /\ h3 \in Byte
    BY <1>4, <1>6, <2>3, Zenon
  <2>4. CASE Encode(rune) = <<h4, t3, t2, t1>> /\ h4 \in Byte
    BY <1>4, <1>6, <2>4, Zenon
  <2> QED BY <1>5, <2>1, <2>2, <2>3, <2>4, Zenon
<1> QED BY <1>7 DEF Byte

LEMMA FlattenType ==
    ASSUME NEW S, NEW seqs \in Seq(Seq(S))
    PROVE  FlattenSeq(seqs) \in Seq(S)
<1> DEFINE len == Len(seqs)
<1>1. len \in Nat /\ \A n \in 1 .. len : seqs[n] \in Seq(S)
  BY ElementOfSeq
<1>2. CASE len = 0
  <2>1. seqs = <<>>
    BY <1>2
  <2>2. FlattenSeq(seqs) = <<>>
    BY <1>2, <2>1, Zenon DEF FlattenSeq
  <2> QED BY <2>2, EmptySeq
<1>3. CASE len # 0
  <2> DEFINE next(f) == [i \in 1 .. len |-> IF i = 1 THEN seqs[i] ELSE f[i - 1] \o seqs[i]]
             step == [n \in Nat |-> [x \in Seq(S) |-> IF n < len THEN x \o seqs[n + 1] ELSE x]]
  <2>1. step \in [Nat -> [Seq(S) -> Seq(S)]]
    <3>1. ASSUME NEW n \in Nat, NEW x \in Seq(S), n < len PROVE x \o seqs[n + 1] \in Seq(S)
      <4>1. seqs[n + 1] \in Seq(S)
        BY <1>1, <3>1
      <4> QED BY <4>1
    <3> HIDE DEF len
    <3> QED BY <3>1
  <2>2. len - 1 \in Nat /\ seqs[1] \in Seq(S)
    BY <1>1, <1>3
  <2>3. PICK g \in [0 .. len - 1 -> Seq(S)] : Recurs(g, seqs[1], step, len - 1)
    <3> HIDE DEF step, len
    <3> QED BY <2>1, <2>2, Recursion, Zenon
  <2> DEFINE f == [i \in 1 .. len |-> g[i - 1]]
  <2> HIDE DEF len
  <2>4. ASSUME NEW i \in 1 .. len
        PROVE  f[i] = IF i = 1 THEN seqs[i] ELSE f[i - 1] \o seqs[i]
    <3>1. CASE i = 1
      BY <2>3, <3>1 DEF Recurs
    <3>2. CASE i # 1
      <4>1. i - 1 \in 1 .. len - 1 /\ i - 1 - 1 \in 0 .. len - 1 /\ i - 1 < len /\ i - 1 + 1 = i
            /\ i - 1 \in 1 .. len /\ i - 1 \in Nat
        BY <1>1, <3>2
      <4>2. g[i - 1] = step[i - 1][g[i - 1 - 1]] /\ g[i - 1 - 1] \in Seq(S)
        BY <2>3, <4>1 DEF Recurs
      <4>3. step[i - 1][g[i - 1 - 1]] = g[i - 1 - 1] \o seqs[i - 1 + 1]
        BY <4>1, <4>2
      <4>4. f[i - 1] = g[i - 1 - 1] /\ f[i] = g[i - 1]
        BY <4>1
      <4> HIDE DEF f, step
      <4> QED BY <3>2, <4>1, <4>2, <4>3, <4>4
    <3> QED BY <3>1, <3>2
  <2>5. f = next(f)
    BY <2>4
  <2>6. \E h : h = next(h)
    BY <2>5
  <2>7. ASSUME NEW h, h = next(h) PROVE h[len] \in Seq(S)
    <3> DEFINE T == {n \in 0 .. len - 1 : h[n + 1] \in Seq(S)}
    <3>1. 0 \in T
      <4>1. h[1] = seqs[1]
        BY <1>1, <2>2, <2>7
      <4> QED BY <2>2, <4>1
    <3>2. ASSUME NEW n \in 1 .. len - 1, n - 1 \in T PROVE n \in T
      <4>1. n + 1 \in 1 .. len /\ n + 1 # 1 /\ n - 1 + 1 = n /\ n \in 0 .. len - 1
        BY <1>1
      <4>2. h[n + 1] = h[n] \o seqs[n + 1]
        <5>1. \A i \in 1 .. len : i # 1 => h[i] = h[i - 1] \o seqs[i]
          BY <2>7
        <5> HIDE DEF next
        <5> DEFINE m == n + 1
        <5>2. m \in 1 .. len /\ m # 1
          BY <4>1
        <5> HIDE DEF m
        <5>3. h[m] = h[m - 1] \o seqs[m]
          BY <5>1, <5>2
        <5>4. m - 1 = n
          BY DEF m
        <5> QED BY <5>3, <5>4, Zenon DEF m
      <4>3. h[n] \in Seq(S) /\ seqs[n + 1] \in Seq(S)
        BY <1>1, <3>2, <4>1
      <4>4. h[n + 1] \in Seq(S)
        BY <4>2, <4>3
      <4> QED BY <4>1, <4>4
    <3>3. len - 1 \in T
      <4> HIDE DEF T
      <4>1. \A n \in 0 .. len - 1 : n \in T
        BY <2>2, <3>1, <3>2, CountingUp
      <4> QED BY <2>2, <4>1
    <3>4. len - 1 + 1 = len
      BY <1>1
    <3> QED BY <3>3, <3>4
  <2>8. FlattenSeq(seqs) = (CHOOSE h : h = next(h))[len]
    BY <1>3, Zenon DEF FlattenSeq, len
  <2> QED BY <2>6, <2>7, <2>8, Zenon
<1> QED BY <1>2, <1>3

(* The callers insert strings of bytes. *)
LEMMA StringBytes ==
    ASSUME NEW str \in Strings
    PROVE  str \in Seq(0 .. 255)
<1>1. CASE str \in NotUtf8
  BY <1>1, GapAssumption
<1>2. ASSUME NEW runes \in Texts PROVE EncodeAll(runes) \in Seq(0 .. 255)
  <2>1. runes \in Seq(Runes)
    BY GapAssumption
  <2>2. \A i \in DOMAIN runes : Encode(runes[i]) \in Seq(0 .. 255)
    BY <2>1, EncodeBytes
  <2>3. DOMAIN runes = 1 .. Len(runes) /\ Len(runes) \in Nat
    BY <2>1, LenProperties
  <2> DEFINE e == [i \in DOMAIN runes |-> Encode(runes[i])]
             S == Seq(0 .. 255)
  <2>4. e \in [1 .. Len(runes) -> S]
    <3> HIDE DEF S
    <3>1. \A i \in 1 .. Len(runes) : Encode(runes[i]) \in S
      BY <2>2, <2>3 DEF S
    <3> QED BY <2>3, <3>1, Zenon
  <2>5. e \in Seq(S)
    <3>1. \A n \in Nat : \A X : [1 .. n -> X] \subseteq Seq(X)
      BY SMT
    <3> HIDE DEF e, S
    <3> QED BY <2>3, <2>4, <3>1, Zenon
  <2> QED BY <2>5, FlattenType, Zenon DEF EncodeAll
<1> QED BY <1>1, <1>2, Zenon DEF Strings
-----------------------------------------------------------------------------
(* A buffer whose gap lies inside the array and between two symbols, with  *)
(* whole symbols on both sides                                             *)
BufferOK(g) ==
    /\ g.total \in Nat /\ g.gap_offset \in Nat /\ g.gap_length \in Nat
    /\ g.gap_offset + g.gap_length <= g.total
    /\ g.data \in [0 .. g.total - 1 -> 0 .. 255]
    /\ Whole(g.data, 0, g.gap_offset)
    /\ Whole(g.data, g.gap_offset + g.gap_length, g.total)

LEMMA MadeBuffer ==
    ASSUME NEW total \in Nat, NEW offset \in Nat, NEW length \in Nat, offset + length <= total,
           NEW data \in [0 .. total - 1 -> 0 .. 255],
           Whole(data, 0, offset), Whole(data, offset + length, total)
    PROVE  BufferOK(Buffer(total, offset, length, data))
<1> DEFINE g == Buffer(total, offset, length, data)
<1>1. g.total = total /\ g.gap_offset = offset /\ g.gap_length = length /\ g.data = data
  BY DEF Buffer
<1> HIDE DEF g
<1>2. BufferOK(g)
  BY <1>1 DEF BufferOK
<1> QED BY <1>2 DEF g

LEMMA EmptyWhole ==
    ASSUME NEW data, NEW p \in Int
    PROVE  Whole(data, p, p)
<1>1. p .. p - 1 = {} /\ ~(p < p)
  OBVIOUS
<1> QED BY <1>1, Zenon DEF Whole

LEMMA CreatedOK ==
    ASSUME NEW capacity \in Nat
    PROVE  /\ BufferOK(Created(capacity))
           /\ Created(capacity).total = capacity
           /\ Created(capacity).gap_offset = 0
           /\ Created(capacity).gap_length = capacity
<1> DEFINE d == [i \in 0 .. capacity - 1 |-> 0]
<1>1. d \in [0 .. capacity - 1 -> 0 .. 255]
  OBVIOUS
<1> HIDE DEF d
<1>2. Whole(d, 0, 0) /\ Whole(d, 0 + capacity, capacity)
  <2>1. 0 + capacity = capacity /\ capacity \in Int
    OBVIOUS
  <2> QED BY <2>1, EmptyWhole
<1>3. 0 \in Nat /\ 0 + capacity <= capacity
  OBVIOUS
<1>4. BufferOK(Buffer(capacity, 0, capacity, d))
  BY <1>1, <1>2, <1>3, MadeBuffer
<1>5. Created(capacity) = Buffer(capacity, 0, capacity, d)
  BY DEF Created, d
<1> QED BY <1>4, <1>5 DEF Buffer

(* What memcpy leaves in the array: the string, and the rest as it was *)
Pasted(copy, n, data, at, str, len) ==
    /\ copy \in [0 .. n - 1 -> 0 .. 255]
    /\ \A i \in at .. at + len - 1 : copy[i] = str[i - at + 1]
    /\ \A i \in 0 .. n - 1 : i < at \/ i >= at + len => copy[i] = data[i]

LEMMA WrittenBytes ==
    ASSUME NEW n \in Nat, NEW data \in [0 .. n - 1 -> 0 .. 255],
           NEW str, NEW len \in Nat, IsBytes(str, len),
           NEW at \in Nat, at + len <= n
    PROVE  Pasted(Written(data, at, str), n, data, at, str, len)
<1>1. DOMAIN str = 1 .. len /\ \A k \in 1 .. len : str[k] \in 0 .. 255
  <2>1. str \in Seq(0 .. 255) /\ len = Len(str)
    BY DEF IsBytes
  <2> QED BY <2>1, LenProperties, ElementOfSeq, Zenon
<1>2. DOMAIN data = 0 .. n - 1
  OBVIOUS
<1> DEFINE w == [i \in 0 .. n - 1 |-> IF i - at + 1 \in 1 .. len THEN str[i - at + 1] ELSE data[i]]
<1>3. Written(data, at, str) = w
  BY <1>1, <1>2, Zenon DEF Written
<1>4. ASSUME NEW i \in 0 .. n - 1
      PROVE  (IF i - at + 1 \in 1 .. len THEN str[i - at + 1] ELSE data[i]) \in 0 .. 255
  <2>1. data[i] \in 0 .. 255
    OBVIOUS
  <2> QED BY <1>1, <2>1
<1>5. w \in [0 .. n - 1 -> 0 .. 255]
  BY <1>4
<1>6. ASSUME NEW i \in at .. at + len - 1 PROVE w[i] = str[i - at + 1]
  <2>1. i \in 0 .. n - 1 /\ i - at + 1 \in 1 .. len
    OBVIOUS
  <2> QED BY <2>1
<1>7. ASSUME NEW i \in 0 .. n - 1, i < at \/ i >= at + len PROVE w[i] = data[i]
  <2>1. ~(i - at + 1 \in 1 .. len)
    BY <1>7
  <2> QED BY <2>1
<1> HIDE DEF w
<1>8. Pasted(w, n, data, at, str, len)
  BY <1>5, <1>6, <1>7 DEF Pasted
<1> QED BY <1>3, <1>8

(* The bytes between two places of the array, as a string *)
LEMMA SliceBytes ==
    ASSUME NEW g, NEW first \in Nat, NEW last \in Nat, first <= last,
           \A b \in first .. last - 1 : g.data[b] \in 0 .. 255
    PROVE  /\ IsBytes(Slice(g, first, last), last - first)
           /\ \A i \in 1 .. last - first : Slice(g, first, last)[i] = g.data[first + i - 1]
<1> DEFINE n == last - first
           t == [i \in 1 .. n |-> g.data[first + i - 1]]
<1>1. n \in Nat
  OBVIOUS
<1>2. ASSUME NEW i \in 1 .. n PROVE g.data[first + i - 1] \in 0 .. 255
  <2>1. first + i - 1 \in first .. last - 1
    OBVIOUS
  <2> QED BY <2>1
<1>3. Slice(g, first, last) = t
  BY DEF Slice
<1> HIDE DEF n
<1>4. t \in [1 .. n -> 0 .. 255]
  BY <1>2
<1>5. \A m \in Nat : \A X, f : f \in [1 .. m -> X] => f \in Seq(X) /\ Len(f) = m
  BY SMT
<1>6. t \in Seq(0 .. 255) /\ Len(t) = n
  <2> HIDE DEF t
  <2> QED BY <1>1, <1>4, <1>5, Zenon
<1>7. IsBytes(t, n)
  BY <1>6, Zenon DEF IsBytes
<1>8. \A i \in 1 .. n : t[i] = g.data[first + i - 1]
  OBVIOUS
<1> HIDE DEF t
<1> QED BY <1>3, <1>7, <1>8 DEF n

LEMMA SliceWhole ==
    ASSUME NEW g, NEW first \in Nat, NEW last \in Nat, first <= last,
           \A b \in first .. last - 1 : g.data[b] \in 0 .. 255,
           Whole(g.data, first, last)
    PROVE  Whole(Slice(g, first, last), 1, last - first + 1)
<1> DEFINE t == Slice(g, first, last)
           end == last - first + 1
<1>1. \A i \in 1 .. last - first : t[i] = g.data[first + i - 1]
  BY SliceBytes
<1>2. ASSUME NEW b \in 1 .. end - 1 PROVE t[b] = g.data[b - 1 + first]
  <2>1. b \in 1 .. last - first /\ first + b - 1 = b - 1 + first
    OBVIOUS
  <2> HIDE DEF t
  <2> QED BY <1>1, <2>1
<1>3. first \in Int /\ last \in Int /\ end \in Int /\ end - 1 = last - first /\ 1 \in Int
  OBVIOUS
<1> HIDE DEF t, end
<1>4. Whole(t, 1, end)
  BY <1>2, <1>3, WholeCopy
<1> QED BY <1>4 DEF t, end

(* The copied string is whole symbols, and so is what lies beside it. *)
LEMMA WrittenWhole ==
    ASSUME NEW n \in Nat, NEW data \in [0 .. n - 1 -> 0 .. 255],
           NEW str, NEW len \in Nat, IsBytes(str, len), Whole(str, 1, len + 1),
           NEW at \in Nat, at + len <= n
    PROVE  /\ Whole(Written(data, at, str), at, at + len)
           /\ \A first, last \in 0 .. n :
                 /\ first <= last
                 /\ last <= at \/ first >= at + len
                 /\ Whole(data, first, last)
                 => Whole(Written(data, at, str), first, last)
<1> DEFINE w == Written(data, at, str)
<1>1. /\ \A i \in at .. at + len - 1 : w[i] = str[i - at + 1]
      /\ \A i \in 0 .. n - 1 : i < at \/ i >= at + len => w[i] = data[i]
  <2>1. Pasted(w, n, data, at, str, len)
    BY WrittenBytes
  <2> HIDE DEF w
  <2> QED BY <2>1 DEF Pasted
<1>2. \A k \in 1 .. len + 1 - 1 : str[k] \in 0 .. 255
  <2>1. str \in Seq(0 .. 255) /\ len = Len(str)
    BY DEF IsBytes
  <2>2. \A k \in 1 .. len : str[k] \in 0 .. 255
    BY <2>1, ElementOfSeq, Zenon
  <2>3. len + 1 - 1 = len
    OBVIOUS
  <2> HIDE DEF w
  <2> QED BY <2>2, <2>3, Zenon
<1> HIDE DEF w
<1>3. Whole(w, at, at + len)
  <2>1. 1 <= len + 1 /\ len + 1 \in Int /\ at \in Int /\ at + len \in Int
        /\ (at + len) - at = (len + 1) - 1 /\ 1 \in Int
    OBVIOUS
  <2> QED BY <1>1, <1>2, <2>1, WholeCopy
<1>4. ASSUME NEW first \in 0 .. n, NEW last \in 0 .. n, first <= last,
             last <= at \/ first >= at + len, Whole(data, first, last)
      PROVE  Whole(w, first, last)
  <2>1. \A b \in first .. last - 1 : data[b] \in 0 .. 255 /\ w[b] = data[b - first + first]
    <3> SUFFICES ASSUME NEW b \in first .. last - 1
                 PROVE  data[b] \in 0 .. 255 /\ w[b] = data[b - first + first]
      OBVIOUS
    <3>1. b \in 0 .. n - 1 /\ (b < at \/ b >= at + len) /\ b - first + first = b
      BY <1>4
    <3> QED BY <1>1, <3>1
  <2>2. first \in Int /\ last \in Int /\ last - first = last - first
    OBVIOUS
  <2> QED BY <1>4, <2>1, <2>2, WholeCopy
<1> QED BY <1>3, <1>4 DEF w

(* A string of whole symbols that fits is inserted before the cursor. *)
LEMMA InsertBefore ==
    ASSUME NEW g, BufferOK(g), NEW str, NEW len \in Nat, IsBytes(str, len),
           Whole(str, 1, len + 1), len <= g.gap_length
    PROVE  /\ BufferOK(insertBytesBeforeCursor(g, str))
           /\ insertBytesBeforeCursor(g, str).total = g.total
           /\ insertBytesBeforeCursor(g, str).gap_offset = g.gap_offset + len
           /\ insertBytesBeforeCursor(g, str).gap_length = g.gap_length - len
<1> DEFINE n == g.total
           o == g.gap_offset
           l == g.gap_length
           w == Written(g.data, o, str)
<1>1. insertBytesBeforeCursor(g, str) = Buffer(n, o + len, l - len, w)
  BY Zenon DEF insertBytesBeforeCursor, IsBytes
<1>2. /\ n \in Nat /\ o \in Nat /\ l \in Nat /\ o + l <= n
      /\ g.data \in [0 .. n - 1 -> 0 .. 255]
      /\ Whole(g.data, 0, o) /\ Whole(g.data, o + l, n)
  BY DEF BufferOK
<1> HIDE DEF n, o, l
<1>3. o + len <= n /\ 0 \in 0 .. n /\ o \in 0 .. n /\ o + l \in 0 .. n /\ n \in 0 .. n /\ 0 <= o
      /\ o <= o /\ o + l >= o + len /\ o + l <= n
  BY <1>2 DEF l
<1>4. /\ w \in [0 .. n - 1 -> 0 .. 255]
      /\ Whole(w, 0, o) /\ Whole(w, o, o + len) /\ Whole(w, o + l, n)
  <2>1. w \in [0 .. n - 1 -> 0 .. 255]
    BY <1>2, <1>3, WrittenBytes DEF Pasted
  <2>2. /\ Whole(w, o, o + len)
        /\ \A first, last \in 0 .. n :
              /\ first <= last
              /\ last <= o \/ first >= o + len
              /\ Whole(g.data, first, last)
              => Whole(w, first, last)
    BY <1>2, <1>3, WrittenWhole
  <2> HIDE DEF w
  <2> QED BY <1>2, <1>3, <2>1, <2>2
<1> HIDE DEF w
<1>5. Whole(w, 0, o + len)
  <2>1. \A b \in 0 .. (o + len) - 1 : w[b] \in 0 .. 255
    BY <1>2, <1>3, <1>4
  <2>2. 0 \in Int /\ o \in Int /\ o + len \in Int /\ 0 <= o /\ o <= o + len
    BY <1>2
  <2> QED BY <1>4, <2>1, <2>2, WholeJoin
<1>6. o + len \in Nat /\ l - len \in Nat /\ (o + len) + (l - len) = o + l
  BY <1>2 DEF l
<1>7. BufferOK(Buffer(n, o + len, l - len, w))
  BY <1>2, <1>3, <1>4, <1>5, <1>6, MadeBuffer
<1>8. \A a, b, c, d : /\ Buffer(a, b, c, d).total = a
                      /\ Buffer(a, b, c, d).gap_offset = b
                      /\ Buffer(a, b, c, d).gap_length = c
  BY DEF Buffer
<1> QED BY <1>1, <1>7, <1>8 DEF n, o, l

(* And after the cursor. *)
LEMMA InsertAfter ==
    ASSUME NEW g, BufferOK(g), NEW str, NEW len \in Nat, IsBytes(str, len),
           Whole(str, 1, len + 1), len <= g.gap_length
    PROVE  BufferOK(insertBytesAfterCursor(g, str))
<1> DEFINE n == g.total
           o == g.gap_offset
           l == g.gap_length
           at == o + l - len
           w == Written(g.data, at, str)
<1>1. insertBytesAfterCursor(g, str) = Buffer(n, o, l - len, w)
  BY Zenon DEF insertBytesAfterCursor, IsBytes
<1>2. /\ n \in Nat /\ o \in Nat /\ l \in Nat /\ o + l <= n
      /\ g.data \in [0 .. n - 1 -> 0 .. 255]
      /\ Whole(g.data, 0, o) /\ Whole(g.data, o + l, n)
  BY DEF BufferOK
<1> HIDE DEF n, o
<1>0. len <= l
  OBVIOUS
<1> HIDE DEF l
<1>3. /\ at \in Nat /\ at + len = o + l /\ at + len <= n /\ at <= n /\ o <= at
      /\ 0 \in 0 .. n /\ o \in 0 .. n /\ o + l \in 0 .. n /\ n \in 0 .. n /\ 0 <= o
      /\ o + l >= at + len /\ o + l <= n
      /\ l - len \in Nat /\ o + (l - len) = at
  BY <1>0, <1>2
<1> HIDE DEF at
<1>4. /\ w \in [0 .. n - 1 -> 0 .. 255]
      /\ Whole(w, 0, o) /\ Whole(w, at, at + len) /\ Whole(w, o + l, n)
  <2>1. w \in [0 .. n - 1 -> 0 .. 255]
    BY <1>2, <1>3, WrittenBytes DEF Pasted
  <2>2. /\ Whole(w, at, at + len)
        /\ \A first, last \in 0 .. n :
              /\ first <= last
              /\ last <= at \/ first >= at + len
              /\ Whole(g.data, first, last)
              => Whole(w, first, last)
    BY <1>2, <1>3, WrittenWhole
  <2> HIDE DEF w
  <2> QED BY <1>2, <1>3, <2>1, <2>2
<1> HIDE DEF w
<1>5. Whole(w, at, n)
  <2>1. \A b \in at .. n - 1 : w[b] \in 0 .. 255
    BY <1>2, <1>3, <1>4
  <2>2. at \in Int /\ at + len \in Int /\ n \in Int /\ at <= at + len /\ at + len <= n
    BY <1>2, <1>3
  <2>3. Whole(w, at + len, n)
    BY <1>3, <1>4
  <2> QED BY <1>4, <2>1, <2>2, <2>3, WholeJoin
<1>6. Whole(w, o + (l - len), n) /\ o + (l - len) <= n
  BY <1>3, <1>5
<1>7. BufferOK(Buffer(n, o, l - len, w))
  BY <1>2, <1>3, <1>4, <1>6, MadeBuffer
<1> QED BY <1>1, <1>7

(* The symbols from a place before the gap go behind it. *)
LEMMA MovedAfter ==
    ASSUME NEW g, BufferOK(g), NEW from, Boundary(g.data, 0, g.gap_offset, from)
    PROVE  BufferOK(Buffer(g.total, from, g.gap_length,
                           Written(g.data, from + g.gap_length, Slice(g, from, g.gap_offset))))
<1> DEFINE n == g.total
           o == g.gap_offset
           l == g.gap_length
           d == g.data
           at == from + l
           len == o - from
           str == Slice(g, from, o)
           w == Written(d, at, str)
<1>1. /\ n \in Nat /\ o \in Nat /\ l \in Nat /\ o + l <= n
      /\ d \in [0 .. n - 1 -> 0 .. 255]
      /\ Whole(d, 0, o) /\ Whole(d, o + l, n)
  BY DEF BufferOK
<1>2. Boundary(d, 0, o, from) /\ from \in 0 .. o
  BY DEF Boundary
<1>3. /\ IsBytes(str, len) /\ Whole(str, 1, len + 1)
      /\ Whole(d, 0, from)
  <2> HIDE DEF n, o, l, at, len, str, w
  <2>1. \A b \in 0 .. o - 1 : d[b] \in 0 .. 255
    <3> HIDE DEF d
    <3> QED BY <1>1
  <2>2. \A b \in from .. o - 1 : d[b] \in 0 .. 255
    BY <1>2, <2>1
  <2>3. 0 \in Int /\ o \in Int /\ from \in Int /\ from \in Nat /\ from <= o
    BY <1>1, <1>2
  <2>4. Whole(d, 0, from) /\ Whole(d, from, o)
    <3> HIDE DEF d
    <3> QED BY <1>1, <1>2, <2>1, <2>3, WholeSplit
  <2>5. IsBytes(str, len)
    BY <1>1, <2>2, <2>3, SliceBytes DEF str, len
  <2>6. Whole(str, 1, len + 1)
    BY <1>1, <2>2, <2>3, <2>4, SliceWhole DEF str, len
  <2> QED BY <2>4, <2>5, <2>6
<1> HIDE DEF n, o, l, d, str
<1>4. /\ at \in Nat /\ len \in Nat /\ at + len = o + l /\ at + len <= n /\ from <= at /\ at <= n
      /\ from \in Nat /\ 0 \in 0 .. n /\ from \in 0 .. n /\ o + l \in 0 .. n /\ n \in 0 .. n
      /\ 0 <= from /\ o + l >= at + len
  BY <1>1, <1>2
<1> HIDE DEF len, at
<1>5. /\ w \in [0 .. n - 1 -> 0 .. 255]
      /\ Whole(w, 0, from) /\ Whole(w, at, at + len) /\ Whole(w, at + len, n)
  <2>1. w \in [0 .. n - 1 -> 0 .. 255]
    BY <1>1, <1>3, <1>4, WrittenBytes DEF Pasted
  <2>2. /\ Whole(w, at, at + len)
        /\ \A first, last \in 0 .. n :
              /\ first <= last
              /\ last <= at \/ first >= at + len
              /\ Whole(d, first, last)
              => Whole(w, first, last)
    BY <1>1, <1>3, <1>4, WrittenWhole
  <2> HIDE DEF w
  <2> QED BY <1>1, <1>3, <1>4, <2>1, <2>2
<1> HIDE DEF w
<1>6. Whole(w, at, n)
  <2>1. \A b \in at .. n - 1 : w[b] \in 0 .. 255
    BY <1>1, <1>4, <1>5
  <2>2. at \in Int /\ at + len \in Int /\ n \in Int /\ at <= at + len
    BY <1>1, <1>4
  <2> QED BY <1>4, <1>5, <2>1, <2>2, WholeJoin
<1>7. Whole(w, from + l, n) /\ from + l <= n
  BY <1>4, <1>6 DEF at
<1>8. BufferOK(Buffer(n, from, l, w))
  BY <1>1, <1>4, <1>5, <1>7, MadeBuffer
<1> QED BY <1>8, Zenon DEF n, l, w, d, at, str, o

(* The symbols up to a place behind the gap go before it. *)
LEMMA MovedBefore ==
    ASSUME NEW g, BufferOK(g), NEW to,
           Boundary(g.data, g.gap_offset + g.gap_length, g.total, to)
    PROVE  LET from == g.gap_offset + g.gap_length
           IN  BufferOK(Buffer(g.total, g.gap_offset + (to - from), g.gap_length,
                               Written(g.data, g.gap_offset, Slice(g, from, to))))
<1> DEFINE n == g.total
           o == g.gap_offset
           l == g.gap_length
           d == g.data
           r == o + l
           len == to - r
           str == Slice(g, r, to)
           w == Written(d, o, str)
<1>1. /\ n \in Nat /\ o \in Nat /\ l \in Nat /\ r <= n
      /\ d \in [0 .. n - 1 -> 0 .. 255]
      /\ Whole(d, 0, o) /\ Whole(d, r, n)
  BY DEF BufferOK
<1>2. Boundary(d, r, n, to) /\ to \in r .. n
  BY DEF Boundary
<1>3. /\ IsBytes(str, len) /\ Whole(str, 1, len + 1)
      /\ Whole(d, to, n)
  <2>0. r \in Nat
    BY <1>1
  <2> HIDE DEF n, o, l, r, len, str, w
  <2>1. \A b \in r .. n - 1 : d[b] \in 0 .. 255
    <3> HIDE DEF d
    <3> QED BY <1>1, <2>0
  <2>2. \A b \in r .. to - 1 : d[b] \in 0 .. 255
    BY <1>1, <1>2, <2>0, <2>1
  <2>3. r \in Int /\ n \in Int /\ to \in Int /\ to \in Nat /\ r <= to
    BY <1>1, <1>2, <2>0
  <2>4. Whole(d, r, to) /\ Whole(d, to, n)
    <3> HIDE DEF d
    <3> QED BY <1>1, <1>2, <2>1, <2>3, WholeSplit
  <2>5. IsBytes(str, len)
    BY <2>0, <2>2, <2>3, SliceBytes DEF str, len
  <2>6. Whole(str, 1, len + 1)
    BY <2>0, <2>2, <2>3, <2>4, SliceWhole DEF str, len
  <2> QED BY <2>4, <2>5, <2>6
<1> HIDE DEF n, o, l, d, str
<1>4. /\ len \in Nat /\ o + len <= n /\ to >= o + len /\ (o + len) + l = to /\ to <= n
      /\ 0 \in 0 .. n /\ o \in 0 .. n /\ to \in 0 .. n /\ n \in 0 .. n /\ 0 <= o /\ o <= o
      /\ o + len \in Nat
  BY <1>1, <1>2
<1> HIDE DEF len, r
<1>5. /\ w \in [0 .. n - 1 -> 0 .. 255]
      /\ Whole(w, 0, o) /\ Whole(w, o, o + len) /\ Whole(w, to, n)
  <2>1. w \in [0 .. n - 1 -> 0 .. 255]
    BY <1>1, <1>3, <1>4, WrittenBytes DEF Pasted
  <2>2. /\ Whole(w, o, o + len)
        /\ \A first, last \in 0 .. n :
              /\ first <= last
              /\ last <= o \/ first >= o + len
              /\ Whole(d, first, last)
              => Whole(w, first, last)
    BY <1>1, <1>3, <1>4, WrittenWhole
  <2> HIDE DEF w
  <2> QED BY <1>1, <1>3, <1>4, <2>1, <2>2
<1> HIDE DEF w
<1>6. Whole(w, 0, o + len)
  <2>1. \A b \in 0 .. (o + len) - 1 : w[b] \in 0 .. 255
    BY <1>1, <1>4, <1>5
  <2>2. 0 \in Int /\ o \in Int /\ o + len \in Int /\ 0 <= o /\ o <= o + len
    BY <1>1, <1>4
  <2> QED BY <1>5, <2>1, <2>2, WholeJoin
<1>7. BufferOK(Buffer(n, o + len, l, w))
  BY <1>1, <1>4, <1>5, <1>6, MadeBuffer
<1> QED BY <1>7, Zenon DEF n, l, w, d, str, o, len, r
-----------------------------------------------------------------------------
(* The inductive invariant: the buffer keeps whole symbols on both sides   *)
(* of a gap inside the array, and no assert has failed.                    *)
GapInv == BufferOK(gap) /\ gapAbort = FALSE

LEMMA BecomesOK ==
    ASSUME GapInv, NEW g, BufferOK(g), Becomes(g)
    PROVE  GapInv'
  BY DEF GapInv, Becomes, BufferOK, Whole, SymbolAt, Starts, Ends

LEMMA Fields ==
    ASSUME BufferOK(gap)
    PROVE  /\ gap.total \in Nat /\ gap.gap_offset \in Nat /\ gap.gap_length \in Nat
           /\ gap.gap_offset + gap.gap_length <= gap.total
           /\ gap.data \in [0 .. gap.total - 1 -> 0 .. 255]
           /\ \A b \in 0 .. gap.gap_offset - 1 : gap.data[b] \in 0 .. 255
           /\ \A b \in gap.gap_offset + gap.gap_length .. gap.total - 1 : gap.data[b] \in 0 .. 255
           /\ Whole(gap.data, 0, gap.gap_offset)
           /\ Whole(gap.data, gap.gap_offset + gap.gap_length, gap.total)
<1>1. /\ gap.total \in Nat /\ gap.gap_offset \in Nat /\ gap.gap_length \in Nat
      /\ gap.gap_offset + gap.gap_length <= gap.total
      /\ gap.data \in [0 .. gap.total - 1 -> 0 .. 255]
      /\ Whole(gap.data, 0, gap.gap_offset)
      /\ Whole(gap.data, gap.gap_offset + gap.gap_length, gap.total)
  BY DEF BufferOK
<1> DEFINE d == gap.data
           n == gap.total
           o == gap.gap_offset
           l == gap.gap_length
<1> HIDE DEF d, n, o, l
<1>2. n \in Nat /\ o \in Nat /\ l \in Nat /\ o + l <= n /\ d \in [0 .. n - 1 -> 0 .. 255]
  BY <1>1 DEF d, n, o, l
<1>3. \A b \in 0 .. n - 1 : d[b] \in 0 .. 255
  BY <1>2
<1>4. /\ \A b \in 0 .. o - 1 : d[b] \in 0 .. 255
      /\ \A b \in o + l .. n - 1 : d[b] \in 0 .. 255
  BY <1>2, <1>3
<1> QED BY <1>1, <1>4, Zenon DEF d, n, o, l

(* A move to a place between two symbols fails no assert. *)
LEMMA MoveAfterOK ==
    ASSUME GapInv, NEW from, Boundary(gap.data, 0, gap.gap_offset, from),
           moveBytesAfterGap(gap.gap_offset - from)
    PROVE  GapInv'
<1>1. from \in 0 .. gap.gap_offset
  BY DEF Boundary
<1>2. BufferOK(gap)
  BY DEF GapInv
<1>3. /\ gap.gap_offset - from \in 0 .. gap.gap_offset /\ GapInside(gap)
      /\ gap.gap_offset - (gap.gap_offset - from) = from
  BY <1>1, <1>2, Fields DEF GapInside
<1> DEFINE g == Buffer(gap.total, from, gap.gap_length,
                       Written(gap.data, from + gap.gap_length, Slice(gap, from, gap.gap_offset)))
<1>4. Becomes(g)
  BY <1>3, Zenon DEF moveBytesAfterGap
<1>5. BufferOK(g)
  BY <1>2, MovedAfter
<1> HIDE DEF g
<1> QED BY <1>4, <1>5, BecomesOK

LEMMA MoveBeforeOK ==
    ASSUME GapInv, NEW to,
           Boundary(gap.data, gap.gap_offset + gap.gap_length, gap.total, to),
           moveBytesBeforeGap(to - gap.gap_offset - gap.gap_length)
    PROVE  GapInv'
<1> DEFINE from == gap.gap_offset + gap.gap_length
           num == to - gap.gap_offset - gap.gap_length
<1>1. to \in from .. gap.total
  BY DEF Boundary
<1>2. BufferOK(gap)
  BY DEF GapInv
<1>3. /\ num \in 0 .. gap.total - gap.gap_offset - gap.gap_length /\ GapInside(gap)
      /\ num = to - from /\ from + num = to
  <2> DEFINE n == gap.total
             o == gap.gap_offset
             l == gap.gap_length
  <2>1. n \in Nat /\ o \in Nat /\ l \in Nat /\ o + l <= n /\ to \in o + l .. n
    BY <1>1, <1>2, Fields
  <2> HIDE DEF n, o, l
  <2>2. /\ to - o - l \in 0 .. n - o - l /\ to - o - l = to - (o + l)
        /\ (o + l) + (to - o - l) = to /\ o <= n
    BY <2>1
  <2> QED BY <2>1, <2>2, Zenon DEF GapInside, n, o, l
<1> DEFINE g == Buffer(gap.total, gap.gap_offset + (to - from), gap.gap_length,
                       Written(gap.data, gap.gap_offset, Slice(gap, from, to)))
<1>4. Becomes(g)
  <2>1. moveBytesBeforeGap(num)
    OBVIOUS
  <2> HIDE DEF num
  <2> QED BY <1>3, <2>1, Zenon DEF moveBytesBeforeGap
<1>5. BufferOK(g)
  BY <1>2, MovedBefore, Zenon
<1> HIDE DEF g
<1> QED BY <1>4, <1>5, BecomesOK

(* The symbols behind the gap that the call passes become part of it. *)
LEMMA RemoveForwardsOK ==
    ASSUME GapInv, NEW num \in Nat, GapBuffer_removeForwards(num)
    PROVE  GapInv'
<1> DEFINE i == getFollowingSymbol(gap, num)
           r == gap.gap_offset + gap.gap_length
           g == Buffer(gap.total, gap.gap_offset, i - gap.gap_offset, gap.data)
<1>1. BufferOK(gap)
  BY DEF GapInv
<1>2. Boundary(gap.data, r, gap.total, i)
  BY <1>1, Fields, FollowingBoundary
<1>3. i \in r .. gap.total
  BY <1>2 DEF Boundary
<1>4. Whole(gap.data, i, gap.total)
  <2> HIDE DEF i
  <2>1. r \in Int /\ gap.total \in Int /\ i \in Int
    BY <1>1, <1>3, Fields
  <2> QED BY <1>1, <1>2, <2>1, Fields, WholeSplit
<1> HIDE DEF i
<1>5. i - gap.gap_offset \in Nat /\ gap.gap_offset + (i - gap.gap_offset) = i /\ i <= gap.total
  BY <1>1, <1>3, Fields
<1>6. BufferOK(g)
  <2>1. Whole(gap.data, gap.gap_offset + (i - gap.gap_offset), gap.total)
    BY <1>4, <1>5, Zenon
  <2>2. gap.gap_offset + (i - gap.gap_offset) <= gap.total
    BY <1>5, Zenon
  <2> QED BY <1>1, <1>5, <2>1, <2>2, Fields, MadeBuffer, Zenon
<1>7. Becomes(g)
  BY Zenon DEF GapBuffer_removeForwards, i
<1> HIDE DEF g
<1> QED BY <1>6, <1>7, BecomesOK

LEMMA RemoveBackwardsOK ==
    ASSUME GapInv, NEW num \in Nat, GapBuffer_removeBackwards(num)
    PROVE  GapInv'
<1> DEFINE i == getPrecedingSymbol(gap, num)
           g == Buffer(gap.total, i, gap.gap_length + (gap.gap_offset - i), gap.data)
<1>1. BufferOK(gap)
  BY DEF GapInv
<1>2. Boundary(gap.data, 0, gap.gap_offset, i)
  BY <1>1, Fields, PrecedingBoundary
<1>3. i \in 0 .. gap.gap_offset
  BY <1>2 DEF Boundary
<1>4. Whole(gap.data, 0, i)
  <2> HIDE DEF i
  <2>1. 0 \in Int /\ gap.gap_offset \in Int /\ i \in Int
    BY <1>1, <1>3, Fields
  <2> QED BY <1>1, <1>2, <2>1, Fields, WholeSplit
<1> HIDE DEF i
<1>5. /\ i \in Nat /\ gap.gap_length + (gap.gap_offset - i) \in Nat /\ ~(i < 0)
      /\ i + (gap.gap_length + (gap.gap_offset - i)) = gap.gap_offset + gap.gap_length
  BY <1>1, <1>3, Fields
<1>6. BufferOK(g)
  BY <1>1, <1>4, <1>5, Fields, MadeBuffer
<1>7. Becomes(g)
  BY <1>5, Zenon DEF GapBuffer_removeBackwards, i
<1> HIDE DEF g
<1> QED BY <1>6, <1>7, BecomesOK

LEMMA MoveRelativeOK ==
    ASSUME GapInv, NEW off \in Int, GapBuffer_moveRelative(off)
    PROVE  GapInv'
<1>1. BufferOK(gap)
  BY DEF GapInv
<1>2. CASE off < 0
  <2> DEFINE i == getPrecedingSymbol(gap, -off)
  <2>1. -off \in Nat
    BY <1>2
  <2>2. Boundary(gap.data, 0, gap.gap_offset, i)
    BY <1>1, <2>1, Fields, PrecedingBoundary
  <2>3. ~(i < 0)
    <3> HIDE DEF i
    <3> QED BY <1>1, <2>2, Fields DEF Boundary
  <2>4. moveBytesAfterGap(gap.gap_offset - i)
    BY <1>2, <2>3, Zenon DEF GapBuffer_moveRelative
  <2> HIDE DEF i
  <2> QED BY <2>2, <2>4, MoveAfterOK
<1>3. CASE ~(off < 0)
  <2> DEFINE i == getFollowingSymbol(gap, off)
  <2>1. off \in Nat
    BY <1>3
  <2>2. Boundary(gap.data, gap.gap_offset + gap.gap_length, gap.total, i)
    BY <1>1, <2>1, Fields, FollowingBoundary
  <2>3. moveBytesBeforeGap(i - gap.gap_offset - gap.gap_length)
    BY <1>3, Zenon DEF GapBuffer_moveRelative
  <2> HIDE DEF i
  <2> QED BY <2>2, <2>3, MoveBeforeOK
<1> QED BY <1>2, <1>3

LEMMA MoveAbsoluteOK ==
    ASSUME GapInv, NEW num \in Nat, GapBuffer_moveAbsolute(num)
    PROVE  GapInv'
<1> DEFINE i == AbsolutePosition(gap, num)
           o == gap.gap_offset
           r == gap.gap_offset + gap.gap_length
<1>1. BufferOK(gap)
  BY DEF GapInv
<1>2. i \in Places(gap)
  BY <1>1, Fields, AbsoluteBoundary
<1>3. IF i <= o THEN moveBytesAfterGap(o - i)
      ELSE moveBytesBeforeGap(i - gap.gap_offset - gap.gap_length)
  BY Zenon DEF GapBuffer_moveAbsolute
<1> HIDE DEF i
<1>4. CASE i <= o
  <2>1. Boundary(gap.data, 0, o, i)
    BY <1>1, <1>2, <1>4, Fields DEF Places, Boundary
  <2> QED BY <1>3, <1>4, <2>1, MoveAfterOK
<1>5. CASE ~(i <= o)
  <2>1. Boundary(gap.data, r, gap.total, i)
    BY <1>1, <1>2, <1>5, Fields DEF Places, Boundary
  <2> QED BY <1>3, <1>5, <2>1, MoveBeforeOK
<1> QED BY <1>4, <1>5

(* What isValidUTF8 lets in is whole symbols. *)
LEMMA InsertedOK ==
    ASSUME NEW g, BufferOK(g), NEW str \in Strings, isValidUTF8(str), Fits(g, str)
    PROVE  BufferOK(insertBytesBeforeCursor(g, str))
<1>1. PICK len \in Nat : IsBytes(str, len) /\ len = Len(str)
  <2>1. str \in Seq(0 .. 255)
    BY StringBytes
  <2>2. Len(str) \in Nat
    BY <2>1, LenProperties
  <2> QED BY <2>1, <2>2, Zenon DEF IsBytes
<1>2. Whole(str, 1, len + 1)
  BY <1>1, ValidIsWhole
<1>3. len <= g.gap_length
  <2>1. g.gap_length >= len
    BY <1>1, Zenon DEF Fits
  <2>2. g.gap_length \in Nat
    BY DEF BufferOK
  <2>3. \A l \in Nat : l >= len => len <= l
    OBVIOUS
  <2> QED BY <2>1, <2>2, <2>3, Zenon
<1> QED BY <1>1, <1>2, <1>3, InsertBefore, Zenon

(* The buffer that MaybeRelocate creates has room for the text and the     *)
(* string.                                                                 *)
LEMMA RelocateOK ==
    ASSUME GapInv, NEW str \in Strings, GapBuffer_insertStringMaybeRelocate(str)
    PROVE  GapInv'
<1> DEFINE total == getByteCount(gap) + Len(str)
           g == Created(total)
<1>1. BufferOK(gap)
  BY DEF GapInv
<1>2. getByteCount(gap) \in Nat
  BY <1>1, Fields DEF getByteCount
<1>3. Len(str) \in Nat
  BY StringBytes, LenProperties, Zenon
<1>4. total \in Nat /\ total >= Len(str)
  <2>1. \A a, b \in Nat : a + b \in Nat /\ a + b >= b
    OBVIOUS
  <2> QED BY <1>2, <1>3, <2>1, Zenon
<1> HIDE DEF total
<1>5. BufferOK(g) /\ g.gap_length = total
  BY <1>4, CreatedOK, Zenon
<1>6. Fits(g, str)
  BY <1>4, <1>5, Zenon DEF Fits
<1>7. isValidUTF8(str) /\ Becomes(insertBytesBeforeCursor(g, str))
  BY Zenon DEF GapBuffer_insertStringMaybeRelocate, total
<1> HIDE DEF g
<1>8. BufferOK(insertBytesBeforeCursor(g, str))
  BY <1>5, <1>6, <1>7, InsertedOK, Zenon
<1> QED BY <1>7, <1>8, BecomesOK

(* A clone that fits has the same symbols on both sides. *)
LEMMA CloneOK ==
    ASSUME GapInv, NEW capacity \in Nat, GapBuffer_cloneUsingMemory(capacity)
    PROVE  GapInv'
<1> DEFINE c == Created(capacity)
           left == getStringBeforeGap(gap)
           right == getStringAfterGap(gap)
           m == gap.gap_offset
           k == gap.total - (gap.gap_offset + gap.gap_length)
           before == insertBytesBeforeCursor(c, left)
<1>1. BufferOK(gap)
  BY DEF GapInv
<1>2. BufferOK(c) /\ c.gap_length = capacity
  BY CreatedOK, Zenon
<1>3. m \in Nat /\ IsBytes(left, m) /\ Whole(left, 1, m + 1)
  <2>1. 0 \in Nat /\ m \in Nat /\ 0 <= m /\ m - 0 = m
    BY <1>1, Fields
  <2>2. IsBytes(left, m - 0) /\ Whole(left, 1, m - 0 + 1)
    BY <1>1, <2>1, Fields, SliceBytes, SliceWhole DEF getStringBeforeGap
  <2> QED BY <2>1, <2>2
<1>4. k \in Nat /\ IsBytes(right, k) /\ Whole(right, 1, k + 1)
  <2> DEFINE r == gap.gap_offset + gap.gap_length
  <2>1. r \in Nat /\ gap.total \in Nat /\ r <= gap.total /\ gap.total - r \in Nat
    BY <1>1, Fields
  <2>2. IsBytes(right, gap.total - r) /\ Whole(right, 1, gap.total - r + 1)
    BY <1>1, <2>1, Fields, SliceBytes, SliceWhole DEF getStringAfterGap
  <2> QED BY <2>1, <2>2
<1>5. /\ Fits(c, left) /\ Fits(before, right)
      /\ Becomes(insertBytesAfterCursor(before, right))
  BY Zenon DEF GapBuffer_cloneUsingMemory
<1> HIDE DEF c, left, right, m, k
<1>6. ASSUME NEW g, BufferOK(g), NEW s, NEW len \in Nat, IsBytes(s, len), Fits(g, s)
      PROVE  len <= g.gap_length
  <2>1. g.gap_length >= len
    BY <1>6, Zenon DEF Fits, IsBytes
  <2>2. g.gap_length \in Nat
    BY <1>6 DEF BufferOK
  <2>3. \A l \in Nat : l >= len => len <= l
    OBVIOUS
  <2> QED BY <2>1, <2>2, <2>3, Zenon
<1>7. m <= c.gap_length
  BY <1>2, <1>3, <1>5, <1>6, Zenon
<1>8. BufferOK(before)
  BY <1>2, <1>3, <1>7, InsertBefore, Zenon
<1> HIDE DEF before
<1>9. k <= before.gap_length
  BY <1>4, <1>5, <1>6, <1>8, Zenon
<1>10. BufferOK(insertBytesAfterCursor(before, right))
  BY <1>4, <1>8, <1>9, InsertAfter, Zenon
<1> QED BY <1>5, <1>10, BecomesOK

LEMMA GapInitially == GapInit => GapInv
<1> SUFFICES ASSUME GapInit PROVE GapInv
  OBVIOUS
<1>1. PICK capacity \in Capacities : gap = Created(capacity)
  BY DEF GapInit
<1>2. capacity \in Nat
  BY GapAssumption
<1>3. BufferOK(gap)
  BY <1>1, <1>2, CreatedOK, Zenon
<1> QED BY <1>3 DEF GapInit, GapInv

(* The iterator and the refused calls leave the buffer alone. *)
LEMMA SameBuffer ==
    ASSUME GapInv, UNCHANGED <<gap, gapAbort>>
    PROVE  GapInv'
  BY DEF GapInv, BufferOK, Whole, SymbolAt, Starts, Ends

LEMMA GapStep == GapInv /\ [GapNext]_gapVars => GapInv'
<1> SUFFICES ASSUME GapInv, [GapNext]_gapVars PROVE GapInv'
  OBVIOUS
<1>1. ASSUME NEW str \in Strings, GapBuffer_insertString(str) PROVE GapInv'
  <2>1. BufferOK(insertBytesBeforeCursor(gap, str)) /\ Becomes(insertBytesBeforeCursor(gap, str))
    BY <1>1, InsertedOK, Zenon DEF GapBuffer_insertString, GapInv
  <2> QED BY <2>1, BecomesOK
<1>2. ASSUME NEW str \in Strings, InsertRefused(str) PROVE GapInv'
  BY <1>2, SameBuffer, Zenon DEF InsertRefused, gapVars
<1>3. ASSUME NEW str \in Strings, GapBuffer_insertStringMaybeRelocate(str) PROVE GapInv'
  BY <1>3, RelocateOK
<1>4. ASSUME NEW num \in 0 .. MaxNum,
             \/ GapBuffer_removeForwards(num)
             \/ GapBuffer_removeBackwards(num)
             \/ GapBuffer_moveAbsolute(num)
      PROVE  GapInv'
  <2>1. num \in Nat
    BY GapAssumption
  <2> QED BY <1>4, <2>1, RemoveForwardsOK, RemoveBackwardsOK, MoveAbsoluteOK, Zenon
<1>5. ASSUME NEW off \in -MaxNum .. MaxNum, GapBuffer_moveRelative(off) PROVE GapInv'
  <2>1. off \in Int
    BY GapAssumption
  <2> QED BY <1>5, <2>1, MoveRelativeOK, Zenon
<1>6. ASSUME NEW capacity \in Capacities, GapBuffer_cloneUsingMemory(capacity) PROVE GapInv'
  <2>1. capacity \in Nat
    BY GapAssumption
  <2> QED BY <1>6, <2>1, CloneOK, Zenon
<1>7. CASE GapBufferIter_init
  BY <1>7, SameBuffer DEF GapBufferIter_init
<1>8. CASE GapBufferIter_next
  BY <1>8, SameBuffer DEF GapBufferIter_next
<1>9. CASE GapBufferIter_free
  BY <1>9, SameBuffer DEF GapBufferIter_free
<1>10. CASE UNCHANGED gapVars
  BY <1>10, SameBuffer, Zenon DEF gapVars
<1> QED BY <1>1, <1>2, <1>3, <1>4, <1>5, <1>6, <1>7, <1>8, <1>9, <1>10, Zenon DEF GapNext

(* No assert of gap_buffer.c fails, whatever the callers insert and in     *)
(* memory of any size: what isValidUTF8 accepts is whole symbols, the      *)
(* searches backwards and forwards and the loop of GapBuffer_moveAbsolute  *)
(* stop between two symbols, and every edit keeps whole symbols on both    *)
(* sides of the gap.                                                       *)
THEOREM SymbolsWhole == GapSpec => []SymbolsStayWhole
<1>1. GapInv => SymbolsStayWhole
  BY DEF GapInv, SymbolsStayWhole
<1> QED BY <1>1, GapInitially, GapStep, PTL DEF GapSpec
-----------------------------------------------------------------------------
(* Buddy: the powers of two that are sizes of blocks *)

LEMMA PowerPositive == \A l \in 0 .. MaxLog2 : 2 ^ l \in Nat \ {0}
<1> DEFINE T == {l \in Nat : 2 ^ l \in Nat \ {0}}
<1>1. 0 \in T
  BY BuddyAssumption
<1>2. ASSUME NEW l \in 1 .. MaxLog2, l - 1 \in T PROVE l \in T
  <2>1. 2 ^ l = 2 * 2 ^ (l - 1) /\ 2 ^ (l - 1) \in Nat \ {0}
    BY <1>2, BuddyAssumption
  <2>2. 2 ^ l \in Nat \ {0}
    BY <2>1
  <2> QED BY <2>2, BuddyAssumption
<1>3. MaxLog2 \in Nat
  BY BuddyAssumption
<1> HIDE DEF T
<1>4. \A l \in 0 .. MaxLog2 : l \in T
  BY <1>1, <1>2, <1>3, CountingUp
<1> QED BY <1>4 DEF T

LEMMA PowerDoubles ==
    ASSUME NEW l \in 0 .. MaxLog2, l < MaxLog2
    PROVE  2 ^ (l + 1) = 2 * 2 ^ l
<1>1. l + 1 \in 1 .. MaxLog2 /\ (l + 1) - 1 = l
  BY BuddyAssumption
<1> QED BY <1>1, BuddyAssumption

(* A smaller power divides a larger one. *)
LEMMA PowerDivides ==
    ASSUME NEW l \in 0 .. MaxLog2, NEW m \in l .. MaxLog2
    PROVE  \E q \in Nat \ {0} : 2 ^ m = 2 ^ l * q
<1> DEFINE T == {k \in 0 .. MaxLog2 - l : \E q \in Nat \ {0} : 2 ^ (l + k) = 2 ^ l * q}
<1>0. MaxLog2 \in Nat /\ l \in Nat /\ MaxLog2 - l \in Nat /\ 2 ^ l \in Nat \ {0}
  BY BuddyAssumption, PowerPositive
<1>1. 0 \in T
  <2>1. l + 0 = l /\ 2 ^ l = 2 ^ l * 1 /\ 1 \in Nat \ {0} /\ 0 \in 0 .. MaxLog2 - l
    BY <1>0
  <2> QED BY <2>1
<1>2. ASSUME NEW k \in 1 .. MaxLog2 - l, k - 1 \in T PROVE k \in T
  <2>1. PICK q \in Nat \ {0} : 2 ^ (l + (k - 1)) = 2 ^ l * q
    BY <1>2
  <2>2. l + k \in 1 .. MaxLog2 /\ (l + k) - 1 = l + (k - 1) /\ k \in 0 .. MaxLog2 - l
    BY <1>0
  <2>3. 2 ^ (l + k) = 2 * (2 ^ l * q)
    BY <2>1, <2>2, BuddyAssumption
  <2>4. 2 * (2 ^ l * q) = 2 ^ l * (2 * q) /\ 2 * q \in Nat \ {0}
    BY <1>0
  <2> QED BY <2>2, <2>3, <2>4
<1> HIDE DEF T
<1>3. \A k \in 0 .. MaxLog2 - l : k \in T
  BY <1>0, <1>1, <1>2, CountingUp
<1>4. m - l \in 0 .. MaxLog2 - l /\ l + (m - l) = m
  BY <1>0
<1>5. m - l \in T
  BY <1>3, <1>4
<1> QED BY <1>4, <1>5 DEF T

LEMMA PowerGrows ==
    ASSUME NEW l \in 0 .. MaxLog2, NEW m \in 0 .. MaxLog2, l < m
    PROVE  2 * 2 ^ l <= 2 ^ m
<1>0. MaxLog2 \in Nat
  BY BuddyAssumption
<1>1. l + 1 \in 0 .. MaxLog2 /\ m \in l + 1 .. MaxLog2 /\ l < MaxLog2
  BY <1>0
<1>2. 2 ^ (l + 1) = 2 * 2 ^ l /\ 2 ^ l \in Nat \ {0}
  BY <1>1, PowerDoubles, PowerPositive
<1>3. PICK q \in Nat \ {0} : 2 ^ m = 2 ^ (l + 1) * q
  BY <1>1, PowerDivides
<1>4. ASSUME NEW a \in Nat PROVE a * q >= a
  OBVIOUS
<1>5. 2 * 2 ^ l \in Nat
  BY <1>2
<1> QED BY <1>2, <1>3, <1>4, <1>5

(* A page has 2^(MaxLog2 - l) blocks of 2^l bytes. *)
LEMMA PowerProduct ==
    ASSUME NEW l \in 0 .. MaxLog2
    PROVE  2 ^ l * 2 ^ (MaxLog2 - l) = MAX_BLOCK_SIZE
<1> DEFINE T == {k \in 0 .. MaxLog2 : 2 ^ k * 2 ^ (MaxLog2 - k) = MAX_BLOCK_SIZE}
<1>0. MaxLog2 \in Nat
  BY BuddyAssumption
<1>1. 0 \in T
  <2>1. MaxLog2 \in 0 .. MaxLog2 /\ MaxLog2 - 0 = MaxLog2 /\ 0 \in 0 .. MaxLog2
    BY <1>0
  <2>2. 2 ^ 0 = 1 /\ 2 ^ MaxLog2 \in Nat
    BY <2>1, BuddyAssumption, PowerPositive
  <2> QED BY <2>1, <2>2 DEF MAX_BLOCK_SIZE
<1>2. ASSUME NEW k \in 1 .. MaxLog2, k - 1 \in T PROVE k \in T
  <2>1. /\ MaxLog2 - (k - 1) \in 1 .. MaxLog2 /\ (MaxLog2 - (k - 1)) - 1 = MaxLog2 - k
        /\ k \in 0 .. MaxLog2 /\ k - 1 \in 0 .. MaxLog2 /\ MaxLog2 - k \in 0 .. MaxLog2
    BY <1>0
  <2>2. 2 ^ k = 2 * 2 ^ (k - 1) /\ 2 ^ (MaxLog2 - (k - 1)) = 2 * 2 ^ (MaxLog2 - k)
    BY <2>1, BuddyAssumption
  <2>3. 2 ^ (k - 1) \in Nat /\ 2 ^ (MaxLog2 - k) \in Nat
    BY <2>1, PowerPositive
  <2>4. 2 ^ (k - 1) * (2 * 2 ^ (MaxLog2 - k)) = MAX_BLOCK_SIZE
    BY <1>2, <2>2
  <2>5. ASSUME NEW a \in Nat, NEW b \in Nat PROVE (2 * a) * b = a * (2 * b)
    OBVIOUS
  <2> QED BY <2>1, <2>2, <2>3, <2>4, <2>5
<1> HIDE DEF T
<1>3. \A k \in 0 .. MaxLog2 : k \in T
  BY <1>0, <1>1, <1>2, CountingUp
<1> QED BY <1>3 DEF T
-----------------------------------------------------------------------------
(* Blocks *)

(* The blocks of n pages *)
BlocksOf(n) ==
    {b \in [ptr : 0 .. n * MAX_BLOCK_SIZE - 1, log : Logs] : b.ptr % 2 ^ b.log = 0}

(* A product is at least as large as its factor; and order is kept. *)
LEMMA FactorLess ==
    ASSUME NEW s \in Nat \ {0}, NEW i \in Int, NEW j \in Int, s * i < s * (j + 1)
    PROVE  i <= j
<1>1. i >= j + 1 => s * (i - (j + 1)) >= 0
  OBVIOUS
<1>2. s * (i - (j + 1)) = s * i - s * (j + 1)
  OBVIOUS
<1> QED BY <1>1, <1>2

LEMMA FactorMonotone ==
    ASSUME NEW s \in Nat, NEW i \in Int, NEW j \in Int, i <= j
    PROVE  s * i <= s * j
<1>1. s * (j - i) >= 0
  OBVIOUS
<1>2. s * (j - i) = s * j - s * i
  OBVIOUS
<1> QED BY <1>1, <1>2

LEMMA BlockLog ==
    ASSUME NEW l \in Logs
    PROVE  /\ l \in 0 .. MaxLog2 /\ l \in Nat /\ MaxLog2 \in Nat
           /\ 2 ^ l \in Nat \ {0} /\ MAX_BLOCK_SIZE \in Nat \ {0}
<1>1. l \in 0 .. MaxLog2 /\ MaxLog2 \in 0 .. MaxLog2 /\ MaxLog2 \in Nat /\ l \in Nat
  BY BuddyAssumption DEF Logs
<1> QED BY <1>1, PowerPositive DEF MAX_BLOCK_SIZE

(* A block starts at a multiple of its size and lies inside the pages. *)
LEMMA BlockShape ==
    ASSUME NEW n \in Nat, NEW b \in BlocksOf(n)
    PROVE  /\ b.ptr \in Nat /\ b.log \in Logs
           /\ \E k \in Nat : b.ptr = 2 ^ b.log * k
           /\ b.ptr + 2 ^ b.log <= n * MAX_BLOCK_SIZE
           /\ b = Block(b.ptr, b.log)
<1>1. /\ b.ptr \in 0 .. n * MAX_BLOCK_SIZE - 1 /\ b.log \in Logs /\ b.ptr % 2 ^ b.log = 0
      /\ b = Block(b.ptr, b.log)
  BY DEF BlocksOf, Block
<1> DEFINE s == 2 ^ b.log
           k == b.ptr \div s
<1>2. s \in Nat \ {0} /\ MAX_BLOCK_SIZE \in Nat \ {0} /\ b.log \in 0 .. MaxLog2
  BY <1>1, BlockLog
<1>3. b.ptr \in Int /\ b.ptr >= 0
  BY <1>1, <1>2
<1>4. k \in Int /\ b.ptr = s * k + (b.ptr % s)
  BY <1>2, <1>3, DivMod
<1> HIDE DEF s, k
<1>5. b.ptr = s * k
  BY <1>1, <1>2, <1>3, <1>4 DEF s
<1>6. k \in Nat
  <2>1. s * 0 < s * (k + 1)
    BY <1>2, <1>3, <1>4, <1>5
  <2>2. 0 <= k
    BY <1>2, <1>4, <2>1, FactorLess
  <2> QED BY <1>4, <2>2
<1>7. b.ptr + s <= n * MAX_BLOCK_SIZE
  <2>1. MaxLog2 \in b.log .. MaxLog2
    BY <1>2, BuddyAssumption
  <2>2. PICK q \in Nat \ {0} : MAX_BLOCK_SIZE = s * q
    BY <1>2, <2>1, PowerDivides DEF MAX_BLOCK_SIZE, s
  <2>3. n * MAX_BLOCK_SIZE = s * (n * q) /\ n * q \in Nat
    BY <1>2, <2>2
  <2>4. s * k < s * ((n * q - 1) + 1)
    BY <1>1, <1>2, <1>5, <2>3
  <2>5. k <= n * q - 1
    BY <1>2, <1>4, <2>3, <2>4, FactorLess
  <2>6. s * (k + 1) <= s * (n * q)
    BY <1>2, <1>4, <2>3, <2>5, FactorMonotone
  <2>7. s * (k + 1) = s * k + s
    BY <1>2, <1>4
  <2> QED BY <1>5, <2>3, <2>6, <2>7
<1> QED BY <1>1, <1>3, <1>5, <1>6, <1>7 DEF s

(* And every multiple of its size inside the pages is one. *)
LEMMA BlockMade ==
    ASSUME NEW n \in Nat, NEW l \in Logs, NEW k \in Nat, 
           2 ^ l * k < n * MAX_BLOCK_SIZE
    PROVE  Block(2 ^ l * k, l) \in BlocksOf(n)
<1>1. 2 ^ l \in Nat \ {0} /\ MAX_BLOCK_SIZE \in Nat
  BY BlockLog
<1>2. (2 ^ l * k + 0) % 2 ^ l = 0 /\ 2 ^ l * k + 0 = 2 ^ l * k
  BY <1>1, ModUnique
<1>3. 2 ^ l * k \in 0 .. n * MAX_BLOCK_SIZE - 1
  BY <1>1
<1> QED BY <1>2, <1>3 DEF BlocksOf, Block

(* Of two blocks that overlap one is inside the other. *)
LEMMA Nested ==
    ASSUME NEW n \in Nat, NEW b \in BlocksOf(n), NEW c \in BlocksOf(n), b.log <= c.log,
           Bytes(b) \cap Bytes(c) # {}
    PROVE  Bytes(b) \subseteq Bytes(c) /\ (b.log = c.log => b = c)
<1> DEFINE s == 2 ^ b.log
           t == 2 ^ c.log
<1>0. /\ b.ptr \in Nat /\ b.log \in Logs /\ c.ptr \in Nat /\ c.log \in Logs
      /\ b = Block(b.ptr, b.log) /\ c = Block(c.ptr, c.log)
  BY BlockShape
<1>1. /\ s \in Nat \ {0} /\ t \in Nat \ {0} 
      /\ b.log \in 0 .. MaxLog2 /\ c.log \in b.log .. MaxLog2
  BY <1>0, BlockLog
<1>2. PICK j \in Nat : b.ptr = s * j
  BY BlockShape
<1>3. PICK k \in Nat : c.ptr = t * k
  BY BlockShape
<1>4. PICK q \in Nat \ {0} : t = s * q
  BY <1>1, PowerDivides
<1>5. PICK x \in Bytes(b) : x \in Bytes(c)
  OBVIOUS
<1>6. x \in Int /\ b.ptr <= x /\ x < b.ptr + s /\ c.ptr <= x /\ x < c.ptr + t
  BY <1>0, <1>1, <1>5 DEF Bytes
<1> HIDE DEF s, t
<1>7. c.ptr = s * (q * k) /\ c.ptr + t = s * (q * k + q)
  BY <1>1, <1>3, <1>4
<1>8. q * k \in Nat /\ q * k + q \in Nat /\ b.ptr + s = s * (j + 1)
  BY <1>1, <1>2
<1>9. q * k <= j
  BY <1>1, <1>6, <1>7, <1>8, <1>0, FactorLess
<1>10. j <= q * k + q - 1
  <2>1. s * j < s * ((q * k + q - 1) + 1)
    BY <1>0, <1>2, <1>6, <1>7, <1>8, <1>1
  <2> QED BY <1>1, <1>8, <2>1, FactorLess
<1>11. c.ptr <= b.ptr
  BY <1>1, <1>2, <1>7, <1>8, <1>9, FactorMonotone
<1>12. b.ptr + s <= c.ptr + t
  <2>1. j + 1 <= q * k + q
    BY <1>8, <1>10
  <2> QED BY <1>1, <1>7, <1>8, <2>1, FactorMonotone
<1>13. Bytes(b) \subseteq Bytes(c)
  BY <1>0, <1>1, <1>11, <1>12 DEF Bytes, s, t
<1>14. ASSUME b.log = c.log PROVE b = c
  <2>1. s = t
    BY <1>14 DEF s, t
  <2>2. b.ptr = c.ptr
    BY <1>0, <1>1, <1>11, <1>12, <2>1
  <2> QED BY <1>0, <1>14, <2>2
<1> QED BY <1>13, <1>14

LEMMA BlockBytes ==
    ASSUME NEW n \in Nat, NEW b \in BlocksOf(n)
    PROVE  /\ b.ptr \in Bytes(b) /\ Bytes(b) \subseteq 0 .. n * MAX_BLOCK_SIZE - 1
           /\ \A x \in Int : x \in Bytes(b) <=> b.ptr <= x /\ x < b.ptr + 2 ^ b.log
<1>1. /\ b.ptr \in Nat /\ b.log \in Logs
      /\ b.ptr + 2 ^ b.log <= n * MAX_BLOCK_SIZE
  BY BlockShape
<1>2. 2 ^ b.log \in Nat \ {0} /\ MAX_BLOCK_SIZE \in Nat
  BY <1>1, BlockLog
<1> QED BY <1>1, <1>2 DEF Bytes

(* A block inside another one is not larger. *)
LEMMA InsideSmaller ==
    ASSUME NEW n \in Nat, NEW b \in BlocksOf(n), NEW c \in BlocksOf(n),
           Bytes(b) \subseteq Bytes(c)
    PROVE  b.log <= c.log
<1> SUFFICES ASSUME c.log < b.log PROVE FALSE
  BY BlockShape, BlockLog
<1>0. b.log \in Logs /\ c.log \in Logs /\ b.ptr \in Nat /\ c.ptr \in Nat
  BY BlockShape
<1>1. /\ b.log \in 0 .. MaxLog2 /\ c.log \in 0 .. MaxLog2
      /\ 2 ^ b.log \in Nat \ {0} /\ 2 ^ c.log \in Nat \ {0}
  BY <1>0, BlockLog
<1>2. 2 * 2 ^ c.log <= 2 ^ b.log
  BY <1>1, PowerGrows
<1>3. b.ptr \in Bytes(c) /\ b.ptr + 2 ^ b.log - 1 \in Bytes(c)
  BY <1>0, <1>1 DEF Bytes
<1>4. c.ptr <= b.ptr /\ b.ptr + 2 ^ b.log - 1 < c.ptr + 2 ^ c.log
  BY <1>0, <1>1, <1>3 DEF Bytes
<1> QED BY <1>0, <1>1, <1>2, <1>4

(* The two halves of a block *)
LEMMA Halves ==
    ASSUME NEW n \in Nat, NEW l \in Logs, l < MaxLog2, NEW k \in Nat,
           2 ^ (l + 1) * k < n * MAX_BLOCK_SIZE
    PROVE  LET p == Block(2 ^ (l + 1) * k, l + 1)
               lower == Block(p.ptr, l)
               upper == Block(p.ptr + 2 ^ l, l)
           IN  /\ p \in BlocksOf(n) /\ lower \in BlocksOf(n) /\ upper \in BlocksOf(n)
               /\ Bytes(p) = Bytes(lower) \cup Bytes(upper)
               /\ sibling_of(lower) = upper /\ sibling_of(upper) = lower
               /\ lower # upper
<1> DEFINE s == 2 ^ l
           t == 2 ^ (l + 1)
           p == Block(t * k, l + 1)
           lower == Block(t * k, l)
           upper == Block(t * k + s, l)
<1>0. l \in Nat /\ MaxLog2 \in Nat /\ l \in 0 .. MaxLog2 /\ l + 1 \in Logs
  BY BuddyAssumption DEF Logs
<1>1. s \in Nat \ {0} /\ t \in Nat \ {0} /\ t = 2 * s /\ MAX_BLOCK_SIZE \in Nat
  BY <1>0, BlockLog, PowerDoubles
<1>2. p \in BlocksOf(n)
  BY <1>0, BlockMade
<1>3. t * k + t <= n * MAX_BLOCK_SIZE
  <2>1. p.ptr = t * k /\ p.log = l + 1
    BY DEF Block
  <2> QED BY <1>2, <2>1, BlockShape
<1> HIDE DEF s, t
<1>4. /\ t * k = s * (2 * k) /\ t * k + s = s * (2 * k + 1) /\ 2 * k \in Nat /\ 2 * k + 1 \in Nat
      /\ t * k \in Nat /\ n * MAX_BLOCK_SIZE \in Nat
  BY <1>1
<1>5. lower \in BlocksOf(n)
  <2>1. s * (2 * k) < n * MAX_BLOCK_SIZE
    BY <1>1, <1>3, <1>4
  <2> QED BY <1>4, <2>1, BlockMade DEF s
<1>6. upper \in BlocksOf(n)
  <2>1. s * (2 * k + 1) < n * MAX_BLOCK_SIZE
    BY <1>1, <1>3, <1>4
  <2> QED BY <1>4, <2>1, BlockMade DEF s
<1>7. Bytes(p) = Bytes(lower) \cup Bytes(upper)
  <2>1. /\ Bytes(p) = t * k .. t * k + t - 1
        /\ Bytes(lower) = t * k .. t * k + s - 1
        /\ Bytes(upper) = t * k + s .. t * k + s + s - 1
    BY DEF Bytes, Block, s, t
  <2> QED BY <1>1, <1>4, <2>1
<1>8. (t * k) % t = 0
  <2>1. (t * k + 0) % t = 0 /\ t * k + 0 = t * k
    BY <1>1, <1>4, ModUnique
  <2> QED BY <2>1
<1>9. (t * k + s) % t = s
  <2>1. s \in 0 .. t - 1
    BY <1>1
  <2> QED BY <1>1, <2>1, ModUnique
<1>10. sibling_of(lower) = upper
  BY <1>8 DEF sibling_of, Block, s, t
<1>11. sibling_of(upper) = lower
  <2>1. t * k + s - s = t * k /\ s # 0
    BY <1>1, <1>4
  <2>2. upper.ptr = t * k + s /\ upper.log = l
    BY DEF Block
  <2> HIDE DEF upper
  <2>3. upper.ptr % 2 ^ (upper.log + 1) # 0
    BY <1>9, <2>1, <2>2 DEF t
  <2>4. upper.ptr - 2 ^ upper.log = t * k
    <3>1. 2 ^ upper.log = s
      BY <2>2 DEF s
    <3>2. upper.ptr - s = t * k
      BY <1>1, <1>4, <2>2
    <3> QED BY <3>1, <3>2
  <2> QED BY <2>2, <2>3, <2>4 DEF sibling_of
<1>12. lower # upper
  <2>1. lower.ptr = t * k /\ upper.ptr = t * k + s
    BY DEF Block
  <2> QED BY <1>1, <1>4, <2>1
<1>13. p.ptr = t * k
  BY DEF Block
<1> QED BY <1>2, <1>5, <1>6, <1>7, <1>10, <1>11, <1>12, <1>13 DEF s, t

(* The block that b and its sibling make up *)
Parent(b, p, n) ==
    LET s == sibling_of(b)
    IN  /\ p \in BlocksOf(n) /\ p.log = b.log + 1
        /\ s \in BlocksOf(n) /\ s.log = b.log /\ s # b /\ sibling_of(s) = b
        /\ Bytes(p) = Bytes(b) \cup Bytes(s)

LEMMA Siblings ==
    ASSUME NEW n \in Nat, NEW b \in BlocksOf(n), b.log < MaxLog2
    PROVE  \E p \in BlocksOf(n) : Parent(b, p, n)
<1> DEFINE l == b.log
           s == 2 ^ l
           t == 2 ^ (l + 1)
<1>0. b.ptr \in Nat /\ l \in Logs /\ b = Block(b.ptr, l) /\ b.ptr + s <= n * MAX_BLOCK_SIZE
  BY BlockShape
<1>1. l \in Nat /\ MaxLog2 \in Nat /\ l \in 0 .. MaxLog2 /\ l + 1 \in Logs
  <2>1. l < MaxLog2
    OBVIOUS
  <2> HIDE DEF l
  <2> QED BY <1>0, <2>1, BuddyAssumption DEF Logs
<1>2. s \in Nat \ {0} /\ t \in Nat \ {0} /\ t = 2 * s /\ MAX_BLOCK_SIZE \in Nat
  BY <1>0, <1>1, BlockLog, PowerDoubles
<1>3. PICK j \in Nat : b.ptr = s * j
  BY BlockShape
<1> DEFINE k == j \div 2
<1>4. k \in Nat /\ (j = 2 * k \/ j = 2 * k + 1)
  OBVIOUS
<1> HIDE DEF k, l, s, t
<1>5. t * k = s * (2 * k) /\ t * k \in Nat /\ s * (2 * k + 1) = s * (2 * k) + s
  BY <1>2, <1>4
<1>6. b.ptr = t * k \/ b.ptr = t * k + s
  BY <1>3, <1>4, <1>5
<1>7. t * k < n * MAX_BLOCK_SIZE
  BY <1>0, <1>2, <1>5, <1>6
<1> DEFINE p == Block(2 ^ (l + 1) * k, l + 1)
           lower == Block(p.ptr, l)
           upper == Block(p.ptr + 2 ^ l, l)
<1>8. /\ p \in BlocksOf(n) /\ lower \in BlocksOf(n) /\ upper \in BlocksOf(n)
      /\ Bytes(p) = Bytes(lower) \cup Bytes(upper)
      /\ sibling_of(lower) = upper /\ sibling_of(upper) = lower
      /\ lower # upper
  <2>1. l < MaxLog2
    BY DEF l
  <2> QED BY <1>0, <1>4, <1>7, <2>1, Halves DEF t
<1>9. p.ptr = t * k /\ p.log = l + 1 /\ lower.log = l /\ upper.log = l
  BY DEF Block, t
<1>10. b = lower \/ b = upper
  BY <1>0, <1>6, <1>9 DEF s
<1> HIDE DEF p, lower, upper
<1> QED BY <1>8, <1>9, <1>10 DEF Parent, l

(* The block of a larger size that b is inside of *)
LEMMA AncestorIs ==
    ASSUME NEW n \in Nat, NEW b \in BlocksOf(n), NEW l \in b.log .. MaxLog2
    PROVE  /\ Ancestor(b, l) \in BlocksOf(n) /\ Ancestor(b, l).log = l /\ l \in Logs
           /\ Bytes(b) \subseteq Bytes(Ancestor(b, l))
<1>0. /\ b.ptr \in Nat /\ b.log \in Logs /\ b.ptr + 2 ^ b.log <= n * MAX_BLOCK_SIZE
      /\ 2 ^ b.log \in Nat \ {0}
  BY BlockShape, BlockLog
<1>1. l \in Logs /\ b.log <= l /\ b.log \in Nat
  BY <1>0, BuddyAssumption DEF Logs
<1>2. 2 ^ l \in Nat \ {0} /\ MAX_BLOCK_SIZE \in Nat
  BY <1>1, BlockLog
<1> DEFINE t == 2 ^ l
           k == b.ptr \div t
           r == b.ptr % t
           a == Block(t * k, l)
<1>3. k \in Int /\ r \in 0 .. t - 1 /\ b.ptr = t * k + r
  <2>1. b.ptr \in Int /\ t \in Nat \ {0}
    BY <1>0, <1>2
  <2> HIDE DEF t
  <2> QED BY <2>1, DivMod
<1>4. Ancestor(b, l) = a
  <2>1. t \in Nat \ {0} /\ k \in Int
    BY <1>2, <1>3
  <2> HIDE DEF k, t
  <2>2. k * t = t * k
    BY <2>1
  <2> QED BY <2>2 DEF Ancestor, k, t
<1> HIDE DEF t, k, r
<1>5. k \in Nat
  <2>1. t * 0 < t * (k + 1)
    BY <1>0, <1>2, <1>3 DEF t
  <2>2. 0 <= k
    BY <1>2, <1>3, <2>1, FactorLess DEF t
  <2> QED BY <1>3, <2>2
<1>6. t * k < n * MAX_BLOCK_SIZE
  BY <1>0, <1>2, <1>3, <1>5 DEF t
<1>7. a \in BlocksOf(n) /\ a.log = l /\ a.ptr = t * k
  BY <1>1, <1>5, <1>6, BlockMade DEF t, Block
<1> HIDE DEF a
<1>8. b.ptr \in Bytes(a) /\ b.ptr \in Bytes(b)
  <2>1. a.ptr <= b.ptr /\ b.ptr < a.ptr + 2 ^ l /\ b.ptr \in Int
    BY <1>0, <1>2, <1>3, <1>5, <1>7 DEF t
  <2> QED BY <1>7, <2>1, BlockBytes
<1>9. Bytes(b) \subseteq Bytes(a)
  BY <1>1, <1>7, <1>8, Nested
<1> QED BY <1>1, <1>4, <1>7, <1>9

(* Merging a block goes one ancestor up. *)
LEMMA AncestorNext ==
    ASSUME NEW n \in Nat, NEW b \in BlocksOf(n), NEW l \in b.log .. MaxLog2, l < MaxLog2
    PROVE  Parent(Ancestor(b, l), Ancestor(b, l + 1), n)
<1> DEFINE a == Ancestor(b, l)
           c == Ancestor(b, l + 1)
<1>0. b.log \in Nat /\ MaxLog2 \in Nat /\ l + 1 \in b.log .. MaxLog2
  BY BlockShape, BlockLog
<1>1. /\ a \in BlocksOf(n) /\ a.log = l /\ Bytes(b) \subseteq Bytes(a)
      /\ c \in BlocksOf(n) /\ c.log = l + 1 /\ Bytes(b) \subseteq Bytes(c)
  BY <1>0, AncestorIs
<1> HIDE DEF a, c
<1>2. PICK p \in BlocksOf(n) : Parent(a, p, n)
  BY <1>1, Siblings
<1>3. b.ptr \in Bytes(b)
  BY BlockBytes
<1>4. b.ptr \in Bytes(p) /\ b.ptr \in Bytes(c) /\ p.log = l + 1
  BY <1>1, <1>2, <1>3 DEF Parent
<1>5. p = c
  <2>1. p.log <= c.log
    BY <1>0, <1>1, <1>4
  <2> QED BY <1>1, <1>4, <2>1, Nested
<1> QED BY <1>2, <1>5 DEF a, c

LEMMA AncestorFirst ==
    ASSUME NEW n \in Nat, NEW b \in BlocksOf(n)
    PROVE  Ancestor(b, b.log) = b
<1>0. b.log \in b.log .. MaxLog2 /\ b.log <= b.log
  BY BlockShape, BlockLog
<1>1. /\ Ancestor(b, b.log) \in BlocksOf(n) /\ Ancestor(b, b.log).log = b.log
      /\ Bytes(b) \subseteq Bytes(Ancestor(b, b.log)) /\ b.ptr \in Bytes(b)
  BY <1>0, AncestorIs, BlockBytes
<1> QED BY <1>0, <1>1, Nested
-----------------------------------------------------------------------------
Disjoint(all) == \A b, c \in all : b # c => Bytes(b) \cap Bytes(c) = {}

SameBytes(old, new) ==
    \A x : (\E b \in old : x \in Bytes(b)) <=> (\E b \in new : x \in Bytes(b))

(* Blocks that do not overlap and make up n pages *)
Covers(n, all) ==
    /\ all \subseteq BlocksOf(n) /\ Disjoint(all)
    /\ \A x \in 0 .. n * MAX_BLOCK_SIZE - 1 : \E b \in all : x \in Bytes(b)

(* The held blocks and the free blocks do. *)
Tiled(n, lv, fr) == lv \cap fr = {} /\ Covers(n, lv \cup fr)

(* Two free siblings are always merged. *)
Merged(fr) == \A b \in fr : b.log < MaxLog2 => sibling_of(b) \notin fr

(* A block with no held block inside, and inside no larger one of either   *)
(* kind, is free itself: the smallest free block inside it would have a    *)
(* free sibling otherwise.                                                 *)
LEMMA FreeWhole ==
    ASSUME NEW n \in Nat, NEW lv, NEW fr, Tiled(n, lv, fr), Merged(fr),
           NEW b \in BlocksOf(n),
           \A c \in lv : ~(Bytes(c) \subseteq Bytes(b)),
           \A c \in lv \cup fr : Bytes(b) \cap Bytes(c) # {} => c.log <= b.log
    PROVE  b \in fr
<1> DEFINE all == lv \cup fr
           In == {c \in all : Bytes(c) \subseteq Bytes(b)}
           Sizes == {c.log : c \in In}
<1>0. /\ all \subseteq BlocksOf(n)
      /\ \A c, d \in all : c # d => Bytes(c) \cap Bytes(d) = {}
      /\ \A x \in 0 .. n * MAX_BLOCK_SIZE - 1 : \E c \in all : x \in Bytes(c)
  BY DEF Tiled, Covers, Disjoint
<1>1. \A c \in In : c \in fr
  OBVIOUS
<1>2. ASSUME NEW x \in Bytes(b) PROVE \E c \in In : x \in Bytes(c)
  <2>1. x \in 0 .. n * MAX_BLOCK_SIZE - 1
    BY BlockBytes
  <2>2. PICK c \in all : x \in Bytes(c)
    BY <1>0, <2>1
  <2>3. c.log <= b.log
    BY <1>2, <2>2
  <2>4. Bytes(c) \subseteq Bytes(b)
    BY <1>0, <1>2, <2>2, <2>3, Nested
  <2> QED BY <2>2, <2>4
<1>3. In # {} /\ In \subseteq BlocksOf(n)
  BY <1>0, <1>2, BlockBytes
<1>4. Sizes # {} /\ Sizes \subseteq Nat
  <2>1. \A c \in In : c.log \in Nat
    BY <1>3, BlockShape, BlockLog
  <2> HIDE DEF In
  <2> QED BY <1>3, <2>1
<1>5. PICK l \in Sizes : \A m \in Sizes : l <= m
  <2> HIDE DEF Sizes
  <2> QED BY <1>4, LeastNatural
<1>6. PICK c \in In : c.log = l
  OBVIOUS
<1>7. \A d \in In : c.log <= d.log
  BY <1>5, <1>6
<1> HIDE DEF In, all, Sizes
<1>8. /\ c \in BlocksOf(n) /\ c \in fr /\ c \in all /\ Bytes(c) \subseteq Bytes(b)
      /\ c.log \in Nat /\ b.log \in Nat /\ MaxLog2 \in Nat /\ b.log <= MaxLog2
  <2>1. c \in BlocksOf(n) /\ c \in fr /\ c \in all /\ Bytes(c) \subseteq Bytes(b)
    BY <1>1, <1>3 DEF In
  <2>2. c.log \in Logs /\ b.log \in Logs
    BY <2>1, BlockShape
  <2> QED BY <2>1, <2>2, BlockLog
<1>9. c.log <= b.log
  BY <1>8, InsideSmaller
<1>10. CASE c.log = b.log
  <2>1. c.ptr \in Bytes(c)
    BY <1>8, BlockBytes
  <2>2. c = b
    BY <1>8, <1>9, <1>10, <2>1, Nested
  <2> QED BY <1>8, <2>2
<1>11. CASE c.log < b.log
  <2> DEFINE s == sibling_of(c)
  <2>1. PICK p \in BlocksOf(n) : Parent(c, p, n)
    BY <1>8, <1>11, Siblings
  <2>2. /\ p.log = c.log + 1 /\ s \in BlocksOf(n) /\ s.log = c.log
        /\ Bytes(p) = Bytes(c) \cup Bytes(s)
    BY <2>1 DEF Parent
  <2> HIDE DEF s
  <2>3. Bytes(p) \subseteq Bytes(b)
    <3>1. p.log <= b.log
      BY <1>8, <1>11, <2>2
    <3>2. c.ptr \in Bytes(p) \cap Bytes(b)
      BY <1>8, <2>2, BlockBytes
    <3> QED BY <2>1, <3>1, <3>2, Nested
  <2>4. s.ptr \in Bytes(s)
    BY <2>2, BlockBytes
  <2>5. PICK e \in In : s.ptr \in Bytes(e)
    BY <1>2, <2>2, <2>3, <2>4
  <2>6. e \in BlocksOf(n) /\ e \in fr /\ e \in all /\ c.log <= e.log /\ e.log \in Nat
    <3>1. e \in BlocksOf(n) /\ e \in fr /\ e \in all /\ c.log <= e.log
      BY <1>1, <1>3, <1>7, <2>5 DEF In
    <3> QED BY <3>1, BlockShape, BlockLog
  <2>7. CASE e.log = c.log
    <3>1. s.log <= e.log /\ s.log = e.log
      BY <1>8, <2>2, <2>7
    <3>2. e = s
      BY <2>2, <2>4, <2>5, <2>6, <3>1, Nested
    <3>3. c.log < MaxLog2
      BY <1>8, <1>11
    <3> QED BY <1>8, <2>6, <3>2, <3>3 DEF Merged, s
  <2>8. CASE e.log # c.log
    <3>1. p.log <= e.log
      BY <1>8, <2>2, <2>6, <2>8
    <3>2. Bytes(p) \subseteq Bytes(e)
      BY <2>1, <2>2, <2>4, <2>5, <2>6, <3>1, Nested
    <3>3. c.ptr \in Bytes(c) /\ c.ptr \in Bytes(e)
      BY <1>8, <2>2, <3>2, BlockBytes
    <3> QED BY <1>0, <1>8, <2>6, <2>8, <3>3
  <2> QED BY <2>7, <2>8
<1> QED BY <1>8, <1>9, <1>10, <1>11

(* Blocks are exchanged for others with the same bytes. *)
LEMMA Exchange ==
    ASSUME NEW n \in Nat, NEW all, Covers(n, all), NEW old \in SUBSET all,
           NEW new \in SUBSET BlocksOf(n), Disjoint(new), SameBytes(old, new)
    PROVE  Covers(n, (all \ old) \cup new) /\ (all \ old) \cap new = {}
<1>0. /\ all \subseteq BlocksOf(n)
      /\ \A b, c \in all : b # c => Bytes(b) \cap Bytes(c) = {}
      /\ \A x \in 0 .. n * MAX_BLOCK_SIZE - 1 : \E b \in all : x \in Bytes(b)
  BY DEF Covers, Disjoint
<1>1. ASSUME NEW b \in all \ old, NEW c \in new PROVE Bytes(b) \cap Bytes(c) = {}
  <2> SUFFICES ASSUME NEW x \in Bytes(b), x \in Bytes(c) PROVE FALSE
    OBVIOUS
  <2>1. PICK d \in old : x \in Bytes(d)
    BY DEF SameBytes
  <2> QED BY <1>0, <2>1
<1>2. (all \ old) \cap new = {}
  <2> SUFFICES ASSUME NEW b \in all \ old, b \in new PROVE FALSE
    OBVIOUS
  <2>1. b.ptr \in Bytes(b)
    BY <1>0, BlockBytes
  <2> QED BY <1>1, <2>1
<1>3. \A b, c \in (all \ old) \cup new : b # c => Bytes(b) \cap Bytes(c) = {}
  BY <1>0, <1>1 DEF Disjoint
<1>4. \A x \in 0 .. n * MAX_BLOCK_SIZE - 1 : \E b \in (all \ old) \cup new : x \in Bytes(b)
  BY <1>0 DEF SameBytes
<1> QED BY <1>0, <1>2, <1>3, <1>4 DEF Covers, Disjoint
-----------------------------------------------------------------------------
(* Splitting.  What is left of c when it was split down to 2^l bytes, and  *)
(* the half that was given away last.                                      *)
Lower(c, l) == Block(c.ptr, l)
Upper(c, l) == Block(c.ptr + 2 ^ l, l)

LEMMA SplitOnce ==
    ASSUME NEW n \in Nat, NEW c \in BlocksOf(n), NEW l \in Logs, l < c.log
    PROVE  /\ Lower(c, l) \in BlocksOf(n) /\ Upper(c, l) \in BlocksOf(n)
           /\ Bytes(Lower(c, l + 1)) = Bytes(Lower(c, l)) \cup Bytes(Upper(c, l))
           /\ sibling_of(Lower(c, l)) = Upper(c, l) /\ sibling_of(Upper(c, l)) = Lower(c, l)
<1>0. /\ c.ptr \in Nat /\ c.log \in Logs /\ c.ptr + 2 ^ c.log <= n * MAX_BLOCK_SIZE
      /\ 2 ^ c.log \in Nat \ {0} /\ MAX_BLOCK_SIZE \in Nat
  BY BlockShape, BlockLog
<1>1. /\ l \in Nat /\ l < MaxLog2 /\ l + 1 \in 0 .. MaxLog2 /\ l + 1 \in Logs
      /\ c.log \in l + 1 .. MaxLog2
  BY <1>0, BuddyAssumption DEF Logs
<1>2. PICK j \in Nat : c.ptr = 2 ^ c.log * j
  BY BlockShape
<1>3. PICK q \in Nat \ {0} : 2 ^ c.log = 2 ^ (l + 1) * q
  BY <1>1, PowerDivides
<1>4. 2 ^ (l + 1) \in Nat \ {0}
  BY <1>1, BlockLog
<1>5. PICK k \in Nat : c.ptr = 2 ^ (l + 1) * k
  <2>1. c.ptr = 2 ^ (l + 1) * (q * j) /\ q * j \in Nat
    BY <1>2, <1>3, <1>4
  <2> QED BY <2>1
<1>6. 2 ^ (l + 1) * k < n * MAX_BLOCK_SIZE
  BY <1>0, <1>5
<1> DEFINE p == Block(2 ^ (l + 1) * k, l + 1)
<1>7. p.ptr = c.ptr /\ p = Lower(c, l + 1)
  BY <1>5 DEF Block, Lower
<1>8. /\ Block(p.ptr, l) \in BlocksOf(n) /\ Block(p.ptr + 2 ^ l, l) \in BlocksOf(n)
      /\ Bytes(p) = Bytes(Block(p.ptr, l)) \cup Bytes(Block(p.ptr + 2 ^ l, l))
      /\ sibling_of(Block(p.ptr, l)) = Block(p.ptr + 2 ^ l, l)
      /\ sibling_of(Block(p.ptr + 2 ^ l, l)) = Block(p.ptr, l)
  BY <1>1, <1>6, Halves
<1> HIDE DEF p
<1> QED BY <1>7, <1>8 DEF Lower, Upper

LEMMA LowerIs ==
    ASSUME NEW n \in Nat, NEW c \in BlocksOf(n), NEW l \in Logs, l <= c.log
    PROVE  /\ Lower(c, l) \in BlocksOf(n) /\ Bytes(Lower(c, l)) \subseteq Bytes(c)
           /\ Lower(c, c.log) = c
<1>1. Lower(c, c.log) = c /\ c.log \in Logs /\ l \in Nat /\ c.log \in Nat
  BY BlockShape, BlockLog DEF Lower
<1>2. Lower(c, l) \in BlocksOf(n)
  BY <1>1, SplitOnce
<1>3. Lower(c, l).ptr = c.ptr /\ Lower(c, l).log = l
  BY DEF Lower, Block
<1>4. c.ptr \in Bytes(c) /\ c.ptr \in Bytes(Lower(c, l))
  BY <1>2, <1>3, BlockBytes
<1> QED BY <1>1, <1>2, <1>3, <1>4, Nested

LEMMA UpperBytes ==
    ASSUME NEW n \in Nat, NEW c \in BlocksOf(n), NEW l \in Logs, l < c.log
    PROVE  /\ Upper(c, l) \in BlocksOf(n) /\ Bytes(Upper(c, l)) \subseteq Bytes(c)
           /\ \A x \in Int : x \in Bytes(Upper(c, l)) <=>
                                 c.ptr + 2 ^ l <= x /\ x < c.ptr + 2 * 2 ^ l
<1>1. /\ c.ptr \in Nat /\ c.log \in Logs /\ 2 ^ l \in Nat \ {0} /\ l \in Nat /\ c.log \in Nat
      /\ MaxLog2 \in Nat /\ c.log \in 0 .. MaxLog2
  BY BlockShape, BlockLog
<1>2. l + 1 \in Logs /\ l + 1 <= c.log
  BY <1>1, BuddyAssumption DEF Logs
<1>3. Bytes(Lower(c, l + 1)) \subseteq Bytes(c)
  BY <1>2, LowerIs
<1>4. Upper(c, l) \in BlocksOf(n) /\ Bytes(Upper(c, l)) \subseteq Bytes(c)
  BY <1>3, SplitOnce
<1>5. Upper(c, l).ptr = c.ptr + 2 ^ l /\ Upper(c, l).log = l
  BY DEF Upper, Block
<1>6. \A x \in Int : x \in Bytes(Upper(c, l)) <=>
                         c.ptr + 2 ^ l <= x /\ x < (c.ptr + 2 ^ l) + 2 ^ l
  BY <1>4, <1>5, BlockBytes
<1>7. (c.ptr + 2 ^ l) + 2 ^ l = c.ptr + 2 * 2 ^ l
  BY <1>1
<1> QED BY <1>4, <1>6, <1>7

(* The halves and what is left have the bytes of c. *)
LEMMA SplitCovers ==
    ASSUME NEW n \in Nat, NEW c \in BlocksOf(n), NEW log \in Logs, log <= c.log, NEW x \in Bytes(c)
    PROVE  x \in Bytes(Lower(c, log)) \/ \E l \in log .. c.log - 1 : x \in Bytes(Upper(c, l))
<1>0. log \in Nat /\ c.log \in Nat /\ c.log \in Logs
  BY BlockShape, BlockLog
<1> DEFINE T == {l \in log .. c.log : x \in Bytes(Lower(c, l))}
<1>1. c.log \in T
  BY <1>0, LowerIs
<1>2. T \subseteq Nat
  BY <1>0
<1>3. PICK m \in T : \A l \in T : m <= l
  <2> HIDE DEF T
  <2> QED BY <1>1, <1>2, LeastNatural
<1>4. CASE m = log
  BY <1>3, <1>4
<1>5. CASE m # log
  <2>1. m - 1 \in log .. c.log - 1 /\ m - 1 \in log .. c.log /\ (m - 1) + 1 = m /\ m - 1 < m
    BY <1>0, <1>3, <1>5
  <2>2. m - 1 \in Logs /\ m - 1 < c.log
    BY <1>0, <2>1, BuddyAssumption DEF Logs
  <2>3. x \in Bytes(Lower(c, m - 1)) \cup Bytes(Upper(c, m - 1))
    BY <1>3, <2>1, <2>2, SplitOnce
  <2>4. m - 1 \notin T
    <3>1. m \in Nat /\ \A l \in T : m <= l
      BY <1>2, <1>3
    <3> HIDE DEF T
    <3> QED BY <2>1, <3>1
  <2>5. x \notin Bytes(Lower(c, m - 1))
    BY <2>1, <2>4
  <2> QED BY <2>1, <2>3, <2>5
<1> QED BY <1>4, <1>5

LEMMA SplitDisjoint ==
    ASSUME NEW n \in Nat, NEW c \in BlocksOf(n), NEW log \in Logs, log <= c.log,
           NEW l \in log .. c.log - 1
    PROVE  /\ Bytes(Upper(c, l)) \cap Bytes(Lower(c, log)) = {}
           /\ \A m \in log .. c.log - 1 : l < m => Bytes(Upper(c, l)) \cap Bytes(Upper(c, m)) = {}
<1>0. /\ log \in Nat /\ c.log \in Nat /\ c.log \in Logs /\ c.ptr \in Nat /\ MaxLog2 \in Nat
      /\ c.log \in 0 .. MaxLog2
  BY BlockShape, BlockLog
<1>1. \A m \in log .. c.log - 1 : m \in Logs /\ m < c.log
  BY <1>0, BuddyAssumption DEF Logs
<1>2. /\ l \in Logs /\ l < c.log /\ 2 ^ l \in Nat /\ 2 ^ log \in Nat
      /\ l \in 0 .. MaxLog2 /\ log \in 0 .. MaxLog2
  BY <1>0, <1>1, BlockLog
<1>3. 2 ^ log <= 2 ^ l
  <2>1. CASE l = log
    BY <1>2, <2>1
  <2>2. CASE log < l
    BY <1>2, <2>2, PowerGrows
  <2> QED BY <1>0, <2>1, <2>2
<1>4. ASSUME NEW x \in Bytes(Upper(c, l)), x \in Bytes(Lower(c, log)) PROVE FALSE
  <2>1. x \in Int
    <3>1. Upper(c, l) \in BlocksOf(n)
      BY <1>2, SplitOnce
    <3> QED BY <3>1, BlockBytes
  <2>2. c.ptr + 2 ^ l <= x
    BY <1>2, <1>4, <2>1, UpperBytes
  <2>3. x < c.ptr + 2 ^ log
    <3>1. /\ Lower(c, log) \in BlocksOf(n)
          /\ Lower(c, log).ptr = c.ptr /\ Lower(c, log).log = log
      BY LowerIs DEF Lower, Block
    <3> QED BY <1>4, <2>1, <3>1, BlockBytes
  <2> QED BY <1>0, <1>2, <1>3, <2>1, <2>2, <2>3
<1>5. ASSUME NEW m \in log .. c.log - 1, l < m, NEW x \in Bytes(Upper(c, l)), x \in Bytes(Upper(c, m))
      PROVE  FALSE
  <2>0. m \in Logs /\ m < c.log /\ 2 ^ m \in Nat /\ m \in 0 .. MaxLog2
    BY <1>1, BlockLog
  <2>1. x \in Int
    <3>1. Upper(c, l) \in BlocksOf(n)
      BY <1>2, SplitOnce
    <3> QED BY <1>5, <3>1, BlockBytes
  <2>2. x < c.ptr + 2 * 2 ^ l
    BY <1>2, <1>5, <2>1, UpperBytes
  <2>3. c.ptr + 2 ^ m <= x
    BY <1>5, <2>0, <2>1, UpperBytes
  <2>4. 2 * 2 ^ l <= 2 ^ m
    BY <1>2, <1>5, <2>0, PowerGrows
  <2> QED BY <1>0, <1>2, <2>0, <2>1, <2>2, <2>3, <2>4
<1> QED BY <1>4, <1>5

(* buddy_malloc: the free block c is split down to 2^log bytes. *)
LEMMA SplitTiled ==
    ASSUME NEW n \in Nat, NEW lv, NEW fr, Tiled(n, lv, fr), Merged(fr),
           NEW c \in fr, NEW log \in Logs, log <= c.log
    PROVE  LET uppers == {Upper(c, l) : l \in log .. c.log - 1}
           IN  /\ Tiled(n, lv \cup {Lower(c, log)}, (fr \ {c}) \cup uppers)
               /\ Merged((fr \ {c}) \cup uppers)
<1> DEFINE b == Lower(c, log)
           ups == {Upper(c, l) : l \in log .. c.log - 1}
           new == {b} \cup ups
           all == lv \cup fr
           free == (fr \ {c}) \cup ups
           old == {c}
<1>0. Covers(n, all) /\ lv \cap fr = {} /\ c \in BlocksOf(n)
  BY DEF Tiled, Covers, Disjoint
<1>1. log \in Nat /\ c.log \in Nat /\ c.log \in Logs
  BY <1>0, BlockShape, BlockLog
<1>2. \A l \in log .. c.log - 1 : l \in Logs /\ l < c.log /\ l \in Nat
  BY <1>1, BuddyAssumption DEF Logs
<1>3. b \in BlocksOf(n) /\ Bytes(b) \subseteq Bytes(c)
  BY <1>0, LowerIs
<1>4. \A l \in log .. c.log - 1 : /\ Upper(c, l) \in BlocksOf(n)
                                  /\ Bytes(Upper(c, l)) \subseteq Bytes(c)
  BY <1>0, <1>2, UpperBytes
<1>5. \A l \in log .. c.log - 1 : Bytes(Upper(c, l)) \cap Bytes(b) = {}
  BY <1>0, SplitDisjoint
<1>6. ASSUME NEW l \in log .. c.log - 1, NEW m \in log .. c.log - 1, l # m
      PROVE  Bytes(Upper(c, l)) \cap Bytes(Upper(c, m)) = {}
  <2>1. l < m \/ m < l
    BY <1>2, <1>6
  <2> QED BY <1>0, <2>1, SplitDisjoint
<1> HIDE DEF b
<1>7. new \in SUBSET BlocksOf(n)
  BY <1>3, <1>4
<1>8. Disjoint(new)
  BY <1>5, <1>6 DEF Disjoint
<1>9. SameBytes(old, new)
  <2>1. ASSUME NEW x \in Bytes(c) PROVE \E d \in new : x \in Bytes(d)
    BY <1>0, <2>1, SplitCovers DEF b
  <2>2. ASSUME NEW d \in new, NEW x \in Bytes(d) PROVE x \in Bytes(c)
    BY <1>3, <1>4, <2>2
  <2> HIDE DEF new
  <2> QED BY <2>1, <2>2 DEF SameBytes
<1>10. old \in SUBSET all
  OBVIOUS
<1>11. Covers(n, (all \ old) \cup new) /\ (all \ old) \cap new = {}
  <2> HIDE DEF new, all, old
  <2> QED BY <1>0, <1>7, <1>8, <1>9, <1>10, Exchange
<1>12. b \notin ups
  <2> SUFFICES ASSUME NEW l \in log .. c.log - 1, b = Upper(c, l) PROVE FALSE
    OBVIOUS
  <2>1. b.ptr \in Bytes(b)
    BY <1>3, BlockBytes
  <2> QED BY <1>5, <2>1
<1> HIDE DEF ups
<1>13. Tiled(n, lv \cup {b}, free)
  <2>1. (all \ old) \cup new = (lv \cup {b}) \cup free
    BY <1>0
  <2>2. (lv \cup {b}) \cap free = {}
    BY <1>0, <1>11, <1>12
  <2> HIDE DEF all, new, free, old
  <2> QED BY <1>11, <2>1, <2>2 DEF Tiled
<1>14. ASSUME NEW l \in log .. c.log - 1
       PROVE  sibling_of(Upper(c, l)) \notin free
  <2>1. /\ sibling_of(Upper(c, l)) = Lower(c, l) /\ Lower(c, l) \in BlocksOf(n)
        /\ l \in Logs /\ l <= c.log
    BY <1>0, <1>1, <1>2, SplitOnce
  <2>2. Lower(c, l).ptr = c.ptr /\ b.ptr = c.ptr
    BY DEF Lower, Block, b
  <2>3. c.ptr \in Bytes(Lower(c, l)) /\ c.ptr \in Bytes(b)
    BY <1>3, <2>1, <2>2, BlockBytes
  <2>4. ASSUME Lower(c, l) \in free PROVE FALSE
    <3>1. Lower(c, l) # b
      BY <1>13, <2>4 DEF Tiled
    <3>2. \A d, e \in (lv \cup {b}) \cup free : d # e => Bytes(d) \cap Bytes(e) = {}
      BY <1>13 DEF Tiled, Covers, Disjoint
    <3> QED BY <2>3, <2>4, <3>1, <3>2
  <2> QED BY <2>1, <2>4
<1>15. ASSUME NEW d \in free, d.log < MaxLog2, sibling_of(d) \in free PROVE FALSE
  <2>1. CASE d \in ups
    BY <1>14, <1>15, <2>1 DEF ups
  <2>2. CASE d \in fr /\ sibling_of(d) \in fr
    BY <1>15, <2>2 DEF Merged
  <2>3. CASE sibling_of(d) \in ups
    <3>1. d \in BlocksOf(n)
      BY <1>13 DEF Tiled, Covers, Disjoint
    <3>2. sibling_of(sibling_of(d)) = d
      BY <1>15, <3>1, Siblings DEF Parent
    <3> QED BY <1>14, <1>15, <2>3, <3>2 DEF ups
  <2> QED BY <1>15, <2>1, <2>2, <2>3
<1>16. Merged(free)
  BY <1>15 DEF Merged
<1> QED BY <1>13, <1>16 DEF b, ups
-----------------------------------------------------------------------------
(* Merging.  The siblings that a held block b is merged with on the way to *)
(* the size 2^to are free, ...                                             *)
Partner(b, l) == sibling_of(Ancestor(b, l))

LEMMA PartnerFree ==
    ASSUME NEW n \in Nat, NEW lv, NEW fr, Tiled(n, lv, fr), Merged(fr),
           NEW b \in lv, NEW l \in b.log .. MaxLog2, l < MaxLog2,
           \A c \in lv : ~(Bytes(c) \subseteq Bytes(Partner(b, l)))
    PROVE  Partner(b, l) \in fr
<1> DEFINE a == Ancestor(b, l)
           p == Ancestor(b, l + 1)
           s == sibling_of(a)
           all == lv \cup fr
<1>0. /\ b \in BlocksOf(n) /\ all \subseteq BlocksOf(n) /\ b \in all
      /\ \A c, d \in all : c # d => Bytes(c) \cap Bytes(d) = {}
  BY DEF Tiled, Covers, Disjoint
<1>1. /\ b.log \in Nat /\ MaxLog2 \in Nat /\ l \in Nat /\ l + 1 \in b.log .. MaxLog2
      /\ b.log <= l
  BY <1>0, BlockShape, BlockLog
<1>2. Parent(a, p, n) /\ a.log = l
  BY <1>0, AncestorNext, AncestorIs
<1>3. /\ p \in BlocksOf(n) /\ p.log = l + 1 /\ s \in BlocksOf(n) /\ s.log = l
      /\ Bytes(p) = Bytes(a) \cup Bytes(s)
  BY <1>2 DEF Parent
<1>4. Bytes(b) \subseteq Bytes(p)
  BY <1>0, <1>1, AncestorIs
<1> HIDE DEF a, p, s
<1>5. ASSUME NEW c \in all, Bytes(s) \cap Bytes(c) # {} PROVE c.log <= l
  <2> SUFFICES ASSUME l < c.log PROVE FALSE
    BY <1>0, <1>1, BlockShape, BlockLog
  <2>1. c \in BlocksOf(n) /\ c.log \in Nat
    BY <1>0, BlockShape, BlockLog
  <2>2. p.log <= c.log /\ Bytes(p) \cap Bytes(c) # {}
    BY <1>1, <1>3, <1>5, <2>1
  <2>3. Bytes(p) \subseteq Bytes(c)
    BY <1>3, <2>1, <2>2, Nested
  <2>4. b.ptr \in Bytes(b) /\ b.ptr \in Bytes(c)
    BY <1>0, <1>4, <2>3, BlockBytes
  <2>5. b # c
    BY <1>1, <2>1
  <2> QED BY <1>0, <2>4, <2>5
<1>6. \A c \in lv : ~(Bytes(c) \subseteq Bytes(s))
  BY DEF Partner, a, s
<1>7. s \in fr
  BY <1>3, <1>5, <1>6, FreeWhole
<1> QED BY <1>7 DEF Partner, a, s

(* ... and with b they make up its ancestor. *)
LEMMA MergeCovers ==
    ASSUME NEW n \in Nat, NEW b \in BlocksOf(n), NEW to \in b.log .. MaxLog2,
           NEW x \in Bytes(Ancestor(b, to))
    PROVE  x \in Bytes(b) \/ \E l \in b.log .. to - 1 : x \in Bytes(Partner(b, l))
<1>0. b.log \in Nat /\ MaxLog2 \in Nat
  BY BlockShape, BlockLog
<1> DEFINE T == {l \in b.log .. to : x \in Bytes(Ancestor(b, l))}
<1>1. to \in T
  BY <1>0
<1>2. T \subseteq Nat
  BY <1>0
<1>3. PICK m \in T : \A l \in T : m <= l
  <2> HIDE DEF T
  <2> QED BY <1>1, <1>2, LeastNatural
<1>4. CASE m = b.log
  <2>1. Ancestor(b, b.log) = b
    BY AncestorFirst
  <2> QED BY <1>3, <1>4, <2>1
<1>5. CASE m # b.log
  <2>1. /\ m - 1 \in b.log .. to - 1 /\ m - 1 \in b.log .. to /\ (m - 1) + 1 = m
        /\ m - 1 \in b.log .. MaxLog2 /\ m - 1 < MaxLog2
    BY <1>0, <1>3, <1>5
  <2>2. Parent(Ancestor(b, m - 1), Ancestor(b, (m - 1) + 1), n)
    BY <2>1, AncestorNext
  <2>3. x \in Bytes(Ancestor(b, m - 1)) \cup Bytes(Partner(b, m - 1))
    BY <1>3, <2>1, <2>2 DEF Parent, Partner
  <2>4. m - 1 \notin T
    <3>1. m \in Nat /\ \A l \in T : m <= l
      BY <1>2, <1>3
    <3> HIDE DEF T
    <3> QED BY <3>1
  <2> QED BY <2>1, <2>3, <2>4
<1> QED BY <1>4, <1>5

LEMMA MergeInside ==
    ASSUME NEW n \in Nat, NEW b \in BlocksOf(n), NEW to \in b.log .. MaxLog2,
           NEW l \in b.log .. to - 1
    PROVE  /\ Partner(b, l) \in BlocksOf(n) /\ Partner(b, l).log = l
           /\ Bytes(Partner(b, l)) \subseteq Bytes(Ancestor(b, to))
<1>0. b.log \in Nat /\ MaxLog2 \in Nat
  BY BlockShape, BlockLog
<1>1. /\ l \in b.log .. MaxLog2 /\ l < MaxLog2 /\ l + 1 \in b.log .. MaxLog2
      /\ l + 1 <= to
  BY <1>0
<1> DEFINE p == Ancestor(b, l + 1)
           a == Ancestor(b, to)
<1>2. Parent(Ancestor(b, l), p, n) /\ Ancestor(b, l).log = l
  BY <1>1, AncestorNext, AncestorIs
<1>3. /\ Partner(b, l) \in BlocksOf(n) /\ Partner(b, l).log = l
      /\ Bytes(Partner(b, l)) \subseteq Bytes(p)
  BY <1>2 DEF Parent, Partner
<1>4. /\ p \in BlocksOf(n) /\ p.log = l + 1 /\ Bytes(b) \subseteq Bytes(p)
      /\ a \in BlocksOf(n) /\ a.log = to /\ Bytes(b) \subseteq Bytes(a)
  BY <1>1, AncestorIs
<1>5. b.ptr \in Bytes(p) \cap Bytes(a)
  BY <1>4, BlockBytes
<1> HIDE DEF p, a
<1>6. Bytes(p) \subseteq Bytes(a)
  BY <1>1, <1>4, <1>5, Nested
<1> QED BY <1>3, <1>6 DEF p, a

(* The partners of b below 2^to bytes are free; the one of 2^to bytes, if *)
(* there is one, has a held block inside; the free blocks after the merge. *)
PartnersFree(b, to, fr) == \A l \in b.log .. to - 1 : Partner(b, l) \in fr
StopsAt(b, to, lv) == to < MaxLog2 => \E c \in lv : Bytes(c) \subseteq Bytes(Partner(b, to))
FreeMerged(b, to, fr) == (fr \ {Partner(b, l) : l \in b.log .. to - 1}) \cup {Ancestor(b, to)}

(* buddy_free: the block b is merged up to 2^to bytes. *)
LEMMA MergeTiled ==
    ASSUME NEW n \in Nat, NEW lv, NEW fr, Tiled(n, lv, fr), Merged(fr),
           NEW b \in lv, NEW to \in b.log .. MaxLog2,
           PartnersFree(b, to, fr), StopsAt(b, to, lv)
    PROVE  Tiled(n, lv \ {b}, FreeMerged(b, to, fr)) /\ Merged(FreeMerged(b, to, fr))
<1> USE DEF PartnersFree, StopsAt, FreeMerged
<1> DEFINE a == Ancestor(b, to)
           partners == {Partner(b, l) : l \in b.log .. to - 1}
           free == (fr \ partners) \cup {a}
           all == lv \cup fr
           old == {b} \cup partners
           new == {a}
<1>0. /\ Covers(n, all) /\ lv \cap fr = {} /\ b \in BlocksOf(n)
      /\ \A c, d \in all : c # d => Bytes(c) \cap Bytes(d) = {}
      /\ all \subseteq BlocksOf(n)
  BY DEF Tiled, Covers, Disjoint
<1>1. a \in BlocksOf(n) /\ a.log = to /\ Bytes(b) \subseteq Bytes(a)
  BY <1>0, AncestorIs
<1>2. \A l \in b.log .. to - 1 : Bytes(Partner(b, l)) \subseteq Bytes(a)
  BY <1>0, MergeInside
<1>3. SameBytes(old, new)
  <2>1. ASSUME NEW d \in old, NEW x \in Bytes(d) PROVE x \in Bytes(a)
    BY <1>1, <1>2, <2>1
  <2>2. ASSUME NEW x \in Bytes(a) PROVE \E d \in old : x \in Bytes(d)
    BY <1>0, <2>2, MergeCovers
  <2> HIDE DEF old, a
  <2> QED BY <2>1, <2>2 DEF SameBytes
<1>4. old \in SUBSET all /\ new \in SUBSET BlocksOf(n) /\ Disjoint(new)
  BY <1>1 DEF Disjoint
<1>5. Covers(n, (all \ old) \cup new) /\ (all \ old) \cap new = {}
  <2> HIDE DEF new, all, old
  <2> QED BY <1>0, <1>3, <1>4, Exchange
<1>6. partners \subseteq fr
  OBVIOUS
<1> HIDE DEF a, partners
<1>7. Tiled(n, lv \ {b}, free)
  <2>1. (all \ old) \cup new = (lv \ {b}) \cup free
    BY <1>0, <1>6
  <2>2. (lv \ {b}) \cap free = {}
    BY <1>0, <1>5, <1>6
  <2> HIDE DEF all, new, free, old
  <2> QED BY <1>5, <2>1, <2>2 DEF Tiled
<1>8. ASSUME to < MaxLog2 PROVE sibling_of(a) \notin fr /\ sibling_of(a) # a
  <2>1. PICK c \in lv : Bytes(c) \subseteq Bytes(Partner(b, to))
    BY <1>8
  <2>2. sibling_of(a) = Partner(b, to)
    BY DEF Partner, a
  <2>3. c.ptr \in Bytes(c) /\ c.ptr \in Bytes(sibling_of(a))
    BY <1>0, <2>1, <2>2, BlockBytes
  <2>4. sibling_of(a) \notin fr
    BY <1>0, <2>3
  <2>5. sibling_of(a) # a
    BY <1>1, <1>8, Siblings DEF Parent
  <2> QED BY <2>4, <2>5
<1>9. ASSUME NEW d \in free, d.log < MaxLog2, sibling_of(d) \in free PROVE FALSE
  <2>1. CASE d = a
    BY <1>1, <1>8, <1>9, <2>1
  <2>2. CASE d \in fr /\ sibling_of(d) \in fr
    BY <1>9, <2>2 DEF Merged
  <2>3. CASE d \in fr /\ sibling_of(d) = a
    <3>1. d \in BlocksOf(n)
      BY <1>0, <2>3
    <3>2. sibling_of(a) = d /\ a.log = d.log
      BY <1>9, <2>3, <3>1, Siblings DEF Parent
    <3> QED BY <1>1, <1>8, <1>9, <2>3, <3>2
  <2> QED BY <1>9, <2>1, <2>2, <2>3
<1>10. Merged(free)
  BY <1>9 DEF Merged
<1> QED BY <1>7, <1>10 DEF a, partners
-----------------------------------------------------------------------------
(* The bit of a block *)

LEMMA BitShape ==
    ASSUME NEW n \in Nat, NEW b \in BlocksOf(n)
    PROVE  LET h == 2 ^ (MaxLog2 - b.log)
           IN  \E j \in 0 .. h - 1 :
                  /\ b.ptr = MAX_BLOCK_SIZE * page_index(b.ptr) + 2 ^ b.log * j
                  /\ block_info_index(b) = h + j
                  /\ page_index(b.ptr) \in 0 .. n - 1
<1> DEFINE s == 2 ^ b.log
           h == 2 ^ (MaxLog2 - b.log)
           M == MAX_BLOCK_SIZE
           pg == b.ptr \div M
           r == b.ptr % M
<1>0. /\ b.ptr \in Nat /\ b.log \in Logs /\ b.log \in 0 .. MaxLog2 /\ MaxLog2 \in Nat
      /\ b.ptr + s <= n * M /\ s \in Nat \ {0} /\ M \in Nat \ {0}
  BY BlockShape, BlockLog
<1>1. MaxLog2 - b.log \in 0 .. MaxLog2
  BY <1>0
<1>2. h \in Nat \ {0} /\ s * h = M
  BY <1>0, <1>1, PowerPositive, PowerProduct
<1>3. PICK k \in Nat : b.ptr = s * k
  BY BlockShape
<1>4. page_index(b.ptr) = pg /\ block_info_index(b) = h + r \div s
  BY DEF page_index, block_info_index
<1> HIDE DEF s, h, M
<1>5. pg \in Int /\ r \in 0 .. M - 1 /\ b.ptr = M * pg + r
  <2>1. b.ptr \in Int
    BY <1>0
  <2> QED BY <1>0, <2>1, DivMod
<1> HIDE DEF pg, r
<1> DEFINE j == k - h * pg
<1>6. j \in Int /\ r = s * j
  <2>1. s * (h * pg) = M * pg /\ h * pg \in Int
    BY <1>0, <1>2, <1>5
  <2>2. s * (k - h * pg) = s * k - s * (h * pg)
    BY <1>0, <2>1
  <2>3. M * pg \in Int /\ s * k \in Int
    BY <1>0, <1>5
  <2> QED BY <1>3, <1>5, <2>1, <2>2, <2>3
<1> HIDE DEF j
<1>7. 0 <= j
  <2>1. s * 0 < s * (j + 1)
    BY <1>0, <1>5, <1>6
  <2> QED BY <1>0, <1>6, <2>1, FactorLess
<1>8. j <= h - 1
  <2>1. s * j < s * ((h - 1) + 1)
    BY <1>0, <1>2, <1>5, <1>6
  <2>2. h - 1 \in Int
    BY <1>2
  <2> QED BY <1>0, <1>6, <2>1, <2>2, FactorLess
<1>9. r \div s = j
  <2>1. 0 \in 0 .. s - 1
    BY <1>0
  <2>2. (s * j + 0) \div s = j
    BY <1>0, <1>6, <2>1, DivUnique
  <2> QED BY <1>0, <1>6, <2>2
<1>10. 0 <= pg
  <2>1. M * 0 < M * (pg + 1)
    BY <1>0, <1>5
  <2> QED BY <1>0, <1>5, <2>1, FactorLess
<1>11. pg <= n - 1
  <2>1. M * pg < M * ((n - 1) + 1)
    <3>1. M * ((n - 1) + 1) = n * M /\ M * pg \in Int
      BY <1>0, <1>5
    <3> QED BY <1>0, <1>5, <3>1
  <2>2. n - 1 \in Int
    OBVIOUS
  <2> QED BY <1>0, <1>5, <2>1, <2>2, FactorLess
<1>12. j \in 0 .. h - 1 /\ pg \in 0 .. n - 1
  BY <1>2, <1>5, <1>6, <1>7, <1>8, <1>10, <1>11
<1>13. b.ptr = M * page_index(b.ptr) + s * j /\ block_info_index(b) = h + j
  BY <1>4, <1>5, <1>6, <1>9
<1> QED BY <1>4, <1>12, <1>13 DEF s, h, M

(* A larger block has a smaller bit. *)
LEMMA BitOrder ==
    ASSUME NEW n \in Nat, NEW b \in BlocksOf(n), NEW c \in BlocksOf(n), b.log < c.log
    PROVE  block_info_index(b) # block_info_index(c)
<1> DEFINE h == 2 ^ (MaxLog2 - b.log)
           g == 2 ^ (MaxLog2 - c.log)
<1>0. b.log \in 0 .. MaxLog2 /\ c.log \in 0 .. MaxLog2 /\ MaxLog2 \in Nat
  BY BlockShape, BlockLog
<1>1. /\ MaxLog2 - b.log \in 0 .. MaxLog2 /\ MaxLog2 - c.log \in 0 .. MaxLog2
      /\ MaxLog2 - c.log < MaxLog2 - b.log
  BY <1>0
<1>2. 2 * g <= h /\ g \in Nat /\ h \in Nat
  BY <1>1, PowerGrows, PowerPositive
<1>3. PICK j \in 0 .. h - 1 : block_info_index(b) = h + j
  BY BitShape
<1>4. PICK k \in 0 .. g - 1 : block_info_index(c) = g + k
  BY BitShape
<1> HIDE DEF g, h
<1> QED BY <1>2, <1>3, <1>4

(* Two blocks of one page with the same bit are the same block. *)
LEMMA BitInjective ==
    ASSUME NEW n \in Nat, NEW b \in BlocksOf(n), NEW c \in BlocksOf(n),
           page_index(b.ptr) = page_index(c.ptr), block_info_index(b) = block_info_index(c)
    PROVE  b = c
<1>0. /\ b.log \in Nat /\ c.log \in Nat /\ b.ptr \in Nat /\ c.ptr \in Nat
      /\ b = Block(b.ptr, b.log) /\ c = Block(c.ptr, c.log) /\ b.log \in 0 .. MaxLog2
      /\ MaxLog2 \in Nat
  BY BlockShape, BlockLog
<1>1. b.log = c.log
  BY <1>0, BitOrder
<1> DEFINE h == 2 ^ (MaxLog2 - b.log)
<1>2. h \in Nat
  <2>1. MaxLog2 - b.log \in 0 .. MaxLog2
    BY <1>0
  <2> QED BY <2>1, PowerPositive
<1>3. PICK j \in 0 .. h - 1 :
         /\ b.ptr = MAX_BLOCK_SIZE * page_index(b.ptr) + 2 ^ b.log * j
         /\ block_info_index(b) = h + j
  BY BitShape
<1>4. PICK k \in 0 .. h - 1 :
         /\ c.ptr = MAX_BLOCK_SIZE * page_index(c.ptr) + 2 ^ b.log * k
         /\ block_info_index(c) = h + k
  BY <1>1, BitShape
<1> HIDE DEF h
<1>5. j = k
  <2>1. h + j = h + k
    BY <1>3, <1>4
  <2> QED BY <1>2, <2>1
<1>6. b.ptr = c.ptr
  BY <1>3, <1>4, <1>5
<1> QED BY <1>0, <1>1, <1>6
-----------------------------------------------------------------------------
(* The lists *)

(* A list of blocks of 2^l bytes, none of them twice *)
IsList(n, l, s) ==
    /\ s \in Seq(Nat) /\ IsInjective(s)
    /\ \A p \in ToSet(s) : Block(p, l) \in BlocksOf(n)

LEMMA ListTail ==
    ASSUME NEW n \in Nat, NEW l, NEW s, IsList(n, l, s), s # <<>>
    PROVE  IsList(n, l, Tail(s)) /\ ToSet(Tail(s)) = ToSet(s) \ {Head(s)} /\ Head(s) \in ToSet(s)
<1>0. s \in Seq(Nat) /\ IsInjective(s) /\ DOMAIN s = 1 .. Len(s) /\ Len(s) \in Nat
  BY DEF IsList
<1>1. /\ Tail(s) \in Seq(Nat) /\ Len(Tail(s)) = Len(s) - 1 /\ Head(s) = s[1]
      /\ \A i \in 1 .. Len(Tail(s)) : Tail(s)[i] = s[i + 1]
      /\ 1 <= Len(s)
  BY <1>0, HeadTailProperties
<1>2. DOMAIN Tail(s) = 1 .. Len(s) - 1
  BY <1>1
<1>3. IsInjective(Tail(s))
  BY <1>0, <1>1, <1>2 DEF IsInjective
<1>4. ToSet(Tail(s)) = ToSet(s) \ {Head(s)}
  <2>1. ASSUME NEW i \in 1 .. Len(s) - 1 PROVE Tail(s)[i] \in ToSet(s) \ {Head(s)}
    <3>1. i + 1 \in DOMAIN s /\ 1 \in DOMAIN s /\ i + 1 # 1 /\ Tail(s)[i] = s[i + 1]
      BY <1>0, <1>1
    <3> QED BY <1>0, <1>1, <3>1 DEF IsInjective, ToSet
  <2>2. ASSUME NEW i \in 1 .. Len(s), s[i] # Head(s) PROVE s[i] \in ToSet(Tail(s))
    <3>1. i - 1 \in 1 .. Len(s) - 1 /\ (i - 1) + 1 = i
      BY <1>0, <1>1, <2>2
    <3>2. Tail(s)[i - 1] = s[i]
      BY <1>1, <3>1
    <3> QED BY <1>2, <3>1, <3>2 DEF ToSet
  <2>3. ToSet(Tail(s)) \subseteq ToSet(s) \ {Head(s)}
    BY <1>2, <2>1 DEF ToSet
  <2>4. ToSet(s) \ {Head(s)} \subseteq ToSet(Tail(s))
    <3> SUFFICES ASSUME NEW p \in ToSet(s), p # Head(s) PROVE p \in ToSet(Tail(s))
      OBVIOUS
    <3>1. PICK i \in 1 .. Len(s) : p = s[i]
      BY <1>0 DEF ToSet
    <3> QED BY <2>2, <3>1
  <2> QED BY <2>3, <2>4
<1>5. Head(s) \in ToSet(s)
  BY <1>0, <1>1 DEF ToSet
<1> QED BY <1>1, <1>3, <1>4, <1>5 DEF IsList

LEMMA ListCons ==
    ASSUME NEW n \in Nat, NEW l, NEW s, IsList(n, l, s),
           NEW p \in Nat, p \notin ToSet(s), Block(p, l) \in BlocksOf(n)
    PROVE  IsList(n, l, <<p>> \o s) /\ ToSet(<<p>> \o s) = ToSet(s) \cup {p}
<1> DEFINE t == <<p>> \o s
<1>0. s \in Seq(Nat) /\ IsInjective(s) /\ DOMAIN s = 1 .. Len(s) /\ Len(s) \in Nat
  BY DEF IsList
<1>1. /\ t \in Seq(Nat) /\ Len(t) = Len(s) + 1
      /\ \A i \in 1 .. Len(s) + 1 : t[i] = IF i <= 1 THEN p ELSE s[i - 1]
  <2>1. <<p>> \in Seq(Nat) /\ Len(<<p>>) = 1 /\ <<p>>[1] = p
    OBVIOUS
  <2>2. /\ t \in Seq(Nat) /\ Len(t) = Len(<<p>>) + Len(s)
        /\ \A i \in 1 .. Len(<<p>>) + Len(s) :
              t[i] = IF i <= Len(<<p>>) THEN <<p>>[i] ELSE s[i - Len(<<p>>)]
    BY <1>0, <2>1, ConcatProperties
  <2> HIDE DEF t
  <2>3. 1 + Len(s) = Len(s) + 1
    BY <1>0
  <2>4. ASSUME NEW i \in 1 .. Len(s) + 1 PROVE t[i] = IF i <= 1 THEN p ELSE s[i - 1]
    <3>1. CASE i = 1
      BY <1>0, <2>1, <2>2, <2>3, <3>1
    <3>2. CASE i # 1
      BY <1>0, <2>1, <2>2, <2>3, <3>2
    <3> QED BY <3>1, <3>2
  <2> QED BY <1>0, <2>1, <2>2, <2>3, <2>4
<1> HIDE DEF t
<1>2. DOMAIN t = 1 .. Len(s) + 1 /\ t[1] = p /\ 1 \in DOMAIN t
  BY <1>0, <1>1
<1>3. \A i \in 1 .. Len(s) : t[i + 1] = s[i] /\ i + 1 \in DOMAIN t
  BY <1>0, <1>1, <1>2
<1>4. \A i \in DOMAIN t : i = 1 \/ (i - 1 \in 1 .. Len(s) /\ t[i] = s[i - 1])
  BY <1>0, <1>1, <1>2
<1>5. \A i \in 1 .. Len(s) : s[i] # p
  BY <1>0 DEF ToSet
<1>6. IsInjective(t)
  <2> SUFFICES ASSUME NEW i \in DOMAIN t, NEW j \in DOMAIN t, t[i] = t[j] PROVE i = j
    BY DEF IsInjective
  <2>1. CASE i = 1 \/ j = 1
    BY <1>2, <1>4, <1>5, <2>1
  <2>2. CASE i # 1 /\ j # 1
    <3>1. i - 1 = j - 1
      BY <1>0, <1>4, <2>2 DEF IsInjective
    <3> QED BY <1>0, <1>2, <3>1
  <2> QED BY <2>1, <2>2
<1>7. ToSet(t) = ToSet(s) \cup {p}
  <2>1. ToSet(t) \subseteq ToSet(s) \cup {p}
    BY <1>0, <1>2, <1>4 DEF ToSet
  <2>2. p \in ToSet(t)
    BY <1>2 DEF ToSet
  <2>3. ASSUME NEW x \in ToSet(s) PROVE x \in ToSet(t)
    <3>1. PICK i \in 1 .. Len(s) : x = s[i]
      BY <1>0 DEF ToSet
    <3> QED BY <1>3, <3>1 DEF ToSet
  <2> QED BY <2>1, <2>2, <2>3
<1>8. IsList(n, l, t)
  BY <1>1, <1>6, <1>7 DEF IsList
<1> QED BY <1>7, <1>8 DEF t

LEMMA ListRemove ==
    ASSUME NEW n \in Nat, NEW l, NEW s, IsList(n, l, s), NEW p \in ToSet(s)
    PROVE  IsList(n, l, RemoveFirst(s, p)) /\ ToSet(RemoveFirst(s, p)) = ToSet(s) \ {p}
<1>0. s \in Seq(Nat) /\ IsInjective(s) /\ DOMAIN s = 1 .. Len(s) /\ Len(s) \in Nat
  BY DEF IsList
<1>1. PICK k \in 1 .. Len(s) : s[k] = p
  BY <1>0 DEF ToSet
<1>2. {i \in 1 .. Len(s) : s[i] = p} = {k}
  BY <1>0, <1>1 DEF IsInjective
<1>3. Min({k}) = k
  BY <1>0 DEF Min
<1>4. RemoveFirst(s, p) = RemoveAt(s, k)
  BY <1>1, <1>2, <1>3 DEF RemoveFirst, SelectInSeq
<1> DEFINE u == SubSeq(s, 1, k - 1)
           v == SubSeq(s, k + 1, Len(s))
           t == u \o v
           At(i) == IF i < k THEN i ELSE i + 1
<1>5. t = RemoveAt(s, k)
  BY DEF RemoveAt
<1>6. /\ u \in Seq(Nat) /\ Len(u) = k - 1 /\ \A i \in 1 .. k - 1 : u[i] = s[i]
      /\ v \in Seq(Nat) /\ Len(v) = Len(s) - k /\ \A i \in 1 .. Len(s) - k : v[i] = s[k + i]
  <2>1. u \in Seq(Nat) /\ Len(u) = k - 1 /\ \A i \in 1 .. k - 1 : u[i] = s[i]
    BY <1>0
  <2>2. /\ k + 1 \in 1 .. Len(s) + 1 /\ Len(s) \in k .. Len(s) /\ Len(s) - (k + 1) + 1 = Len(s) - k
        /\ (k + 1) - 1 = k
    BY <1>0
  <2>3. v \in Seq(Nat) /\ Len(v) = Len(s) - k
    <3>1. k + 1 \in Int /\ Len(s) \in Int /\ \A i \in k + 1 .. Len(s) : s[i] \in Nat
      BY <1>0
    <3>2. v \in Seq(Nat) /\ Len(v) = IF k + 1 <= Len(s) THEN Len(s) - (k + 1) + 1 ELSE 0
      BY <3>1, SubSeqProperties
    <3>3. ASSUME NEW m \in Nat, NEW i \in 1 .. m
          PROVE  (IF i + 1 <= m THEN m - (i + 1) + 1 ELSE 0) = m - i
      OBVIOUS
    <3> HIDE DEF v
    <3> QED BY <1>0, <3>2, <3>3
  <2>4. ASSUME NEW i \in 1 .. Len(s) - k PROVE v[i] = s[k + i]
    <3>1. v[i] = s[(k + 1) + i - 1]
      BY <1>0, <2>2, SubSeqProperties
    <3>2. (k + 1) + i - 1 = k + i
      BY <1>0
    <3> QED BY <3>1, <3>2
  <2> QED BY <2>1, <2>3, <2>4
<1> HIDE DEF u, v
<1>7. t \in Seq(Nat) /\ Len(t) = Len(s) - 1 /\ \A i \in 1 .. Len(s) - 1 : t[i] = s[At(i)]
  <2>1. /\ t \in Seq(Nat) /\ Len(t) = Len(u) + Len(v)
        /\ \A i \in 1 .. Len(u) + Len(v) : t[i] = IF i <= Len(u) THEN u[i] ELSE v[i - Len(u)]
    BY <1>6, ConcatProperties
  <2>2. Len(u) + Len(v) = Len(s) - 1
    BY <1>0, <1>6
  <2> HIDE DEF t
  <2>3. ASSUME NEW i \in 1 .. Len(s) - 1 PROVE t[i] = s[At(i)]
    <3>1. CASE i < k
      <4>1. i \in 1 .. k - 1 /\ i <= Len(u)
        BY <1>0, <1>6, <3>1
      <4> QED BY <1>6, <2>1, <2>2, <3>1, <4>1
    <3>2. CASE ~(i < k)
      <4>0. Len(u) = k - 1 /\ k \in 1 .. Len(s) /\ Len(s) \in Nat
        BY <1>0, <1>6
      <4>1. i - Len(u) \in 1 .. Len(s) - k /\ ~(i <= Len(u)) /\ k + (i - Len(u)) = i + 1
        BY <3>2, <4>0
      <4>2. t[i] = v[i - Len(u)]
        BY <2>1, <2>2, <4>1
      <4> QED BY <1>6, <3>2, <4>1, <4>2
    <3> QED BY <3>1, <3>2
  <2> QED BY <2>1, <2>2, <2>3
<1> HIDE DEF t
<1>8. DOMAIN t = 1 .. Len(s) - 1
  BY <1>0, <1>7
<1>9. \A i \in 1 .. Len(s) - 1 : At(i) \in 1 .. Len(s) /\ At(i) # k
  BY <1>0
<1>10. \A i, j \in 1 .. Len(s) - 1 : At(i) = At(j) => i = j
  BY <1>0
<1>11. ASSUME NEW j \in 1 .. Len(s), j # k PROVE \E i \in 1 .. Len(s) - 1 : At(i) = j
  <2>1. CASE j < k
    <3>1. j \in 1 .. Len(s) - 1 /\ At(j) = j
      BY <1>0, <2>1
    <3> QED BY <3>1
  <2>2. CASE j > k
    <3>1. j - 1 \in 1 .. Len(s) - 1 /\ At(j - 1) = j
      BY <1>0, <2>2
    <3> QED BY <3>1
  <2> QED BY <1>0, <1>11, <2>1, <2>2
<1> HIDE DEF At
<1>12. IsInjective(t)
  <2> SUFFICES ASSUME NEW i \in 1 .. Len(s) - 1, NEW j \in 1 .. Len(s) - 1, t[i] = t[j]
               PROVE  i = j
    BY <1>8 DEF IsInjective
  <2>1. At(i) \in DOMAIN s /\ At(j) \in DOMAIN s /\ s[At(i)] = s[At(j)]
    BY <1>0, <1>7, <1>9
  <2>2. At(i) = At(j)
    BY <1>0, <2>1 DEF IsInjective
  <2> QED BY <1>10, <2>2
<1>13. ToSet(t) \subseteq ToSet(s) \ {p}
  <2>1. ASSUME NEW i \in 1 .. Len(s) - 1 PROVE t[i] \in ToSet(s) /\ t[i] # p
    BY <1>0, <1>1, <1>7, <1>9 DEF IsInjective, ToSet
  <2> QED BY <1>8, <2>1 DEF ToSet
<1>14. ToSet(s) \ {p} \subseteq ToSet(t)
  <2> SUFFICES ASSUME NEW x \in ToSet(s), x # p PROVE x \in ToSet(t)
    OBVIOUS
  <2>1. PICK j \in 1 .. Len(s) : x = s[j]
    BY <1>0 DEF ToSet
  <2>2. PICK i \in 1 .. Len(s) - 1 : At(i) = j
    BY <1>1, <1>11, <2>1
  <2> QED BY <1>7, <1>8, <2>1, <2>2 DEF ToSet
<1>15. ToSet(t) = ToSet(s) \ {p}
  BY <1>13, <1>14
<1>16. IsList(n, l, t)
  BY <1>7, <1>12, <1>15 DEF IsList
<1> QED BY <1>4, <1>5, <1>15, <1>16

(* The free blocks of n pages, as the lists ls have them *)
FreeOf(n, ls) == {b \in BlocksOf(n) : b.ptr \in ToSet(ls[b.log])}

AreLists(n, ls) == DOMAIN ls = Logs /\ \A l \in Logs : IsList(n, l, ls[l])

(* The bits of the trees tr are those of the blocks lv. *)
BitsFor(n, tr, lv) ==
    /\ DOMAIN tr = 0 .. n - 1
    /\ \A b \in BlocksOf(n) : block_info_index(b) \in tr[page_index(b.ptr)] <=> b \in lv

(* The lists, the bits and the blocks that callers hold agree. *)
Agree(n, ls, tr, lv) ==
    /\ AreLists(n, ls)
    /\ Tiled(n, lv, FreeOf(n, ls)) /\ Merged(FreeOf(n, ls))
    /\ BitsFor(n, tr, lv)

LEMMA InFree ==
    ASSUME NEW n \in Nat, NEW ls, AreLists(n, ls), NEW l \in Logs, NEW p \in ToSet(ls[l])
    PROVE  Block(p, l) \in FreeOf(n, ls)
<1>1. Block(p, l) \in BlocksOf(n)
  BY DEF AreLists, IsList
<1>2. Block(p, l).ptr = p /\ Block(p, l).log = l
  BY DEF Block
<1> QED BY <1>1, <1>2 DEF FreeOf

LEMMA FreeIn ==
    ASSUME NEW n \in Nat, NEW ls, NEW b \in FreeOf(n, ls)
    PROVE  b \in BlocksOf(n) /\ b.log \in Logs /\ b.ptr \in ToSet(ls[b.log])
BY BlockShape DEF FreeOf

(* Setting and clearing the bit of a block *)
LEMMA BitSet ==
    ASSUME NEW n \in Nat, NEW tr, NEW lv, BitsFor(n, tr, lv), NEW b \in BlocksOf(n)
    PROVE  BitsFor(n, [tr EXCEPT ![page_index(b.ptr)] = @ \cup {block_info_index(b)}],
                   lv \cup {b})
<1> DEFINE pg == page_index(b.ptr)
           ix == block_info_index(b)
           tr2 == [tr EXCEPT ![pg] = @ \cup {ix}]
<1>1. pg \in 0 .. n - 1 /\ DOMAIN tr = 0 .. n - 1
  BY BitShape DEF BitsFor
<1>2. ASSUME NEW c \in BlocksOf(n)
      PROVE  block_info_index(c) \in tr2[page_index(c.ptr)] <=> c \in lv \cup {b}
  <2>1. page_index(c.ptr) \in 0 .. n - 1
    BY BitShape
  <2>2. block_info_index(c) \in tr[page_index(c.ptr)] <=> c \in lv
    BY DEF BitsFor
  <2>3. page_index(c.ptr) = pg /\ block_info_index(c) = ix => c = b
    BY BitInjective
  <2> HIDE DEF pg, ix
  <2>4. CASE c = b
    BY <1>1, <2>4 DEF pg, ix
  <2>5. CASE c # b
    BY <1>1, <2>1, <2>2, <2>3, <2>5
  <2> QED BY <2>4, <2>5
<1> QED BY <1>1, <1>2 DEF BitsFor

LEMMA BitClear ==
    ASSUME NEW n \in Nat, NEW tr, NEW lv, BitsFor(n, tr, lv), NEW b \in BlocksOf(n)
    PROVE  BitsFor(n, [tr EXCEPT ![page_index(b.ptr)] = @ \ {block_info_index(b)}],
                   lv \ {b})
<1> DEFINE pg == page_index(b.ptr)
           ix == block_info_index(b)
           tr2 == [tr EXCEPT ![pg] = @ \ {ix}]
<1>1. pg \in 0 .. n - 1 /\ DOMAIN tr = 0 .. n - 1
  BY BitShape DEF BitsFor
<1>2. ASSUME NEW c \in BlocksOf(n)
      PROVE  block_info_index(c) \in tr2[page_index(c.ptr)] <=> c \in lv \ {b}
  <2>1. page_index(c.ptr) \in 0 .. n - 1
    BY BitShape
  <2>2. block_info_index(c) \in tr[page_index(c.ptr)] <=> c \in lv
    BY DEF BitsFor
  <2>3. page_index(c.ptr) = pg /\ block_info_index(c) = ix => c = b
    BY BitInjective
  <2> HIDE DEF pg, ix
  <2>4. CASE c = b
    BY <1>1, <2>4 DEF pg, ix
  <2>5. CASE c # b
    BY <1>1, <2>1, <2>2, <2>3, <2>5
  <2> QED BY <2>4, <2>5
<1> QED BY <1>1, <1>2 DEF BitsFor
-----------------------------------------------------------------------------
(* buddy_malloc on lists: as in the model *)
SplitLists(ls, log, from) ==
    LET b == Block(Head(ls[from]), log)
    IN  [l \in Logs |->
            CASE l = from -> Tail(ls[l])
              [] l \in log .. from - 1 -> <<sibling_of(Block(b.ptr, l)).ptr>> \o ls[l]
              [] OTHER -> ls[l]]

LEMMA MallocLists ==
    ASSUME NEW n \in Nat, NEW ls, AreLists(n, ls),
           NEW log \in Logs, NEW from \in log .. MaxLog2, ls[from] # <<>>,
           \A l \in log .. from - 1 : ls[l] = <<>>
    PROVE  LET c == Block(Head(ls[from]), from)
           IN  /\ c \in FreeOf(n, ls) /\ AreLists(n, SplitLists(ls, log, from))
               /\ FreeOf(n, SplitLists(ls, log, from)) =
                     (FreeOf(n, ls) \ {c}) \cup {Upper(c, l) : l \in log .. from - 1}
<1> DEFINE c == Block(Head(ls[from]), from)
           b == Block(Head(ls[from]), log)
           ls2 == SplitLists(ls, log, from)
           ups == {Upper(c, l) : l \in log .. from - 1}
<1>0. log \in Nat /\ MaxLog2 \in Nat /\ from \in Logs /\ from \in Nat /\ log <= from
  BY BlockLog, BuddyAssumption DEF Logs
<1>1. \A l \in log .. from - 1 : l \in Logs /\ l < from /\ l \in Nat
  BY <1>0, BuddyAssumption DEF Logs
<1>2. \A l \in Logs : IsList(n, l, ls[l])
  BY DEF AreLists
<1>3. /\ Head(ls[from]) \in ToSet(ls[from]) /\ IsList(n, from, Tail(ls[from]))
      /\ ToSet(Tail(ls[from])) = ToSet(ls[from]) \ {Head(ls[from])}
  BY <1>0, <1>2, ListTail
<1>4. c \in FreeOf(n, ls)
  BY <1>0, <1>3, InFree
<1>5. c.ptr = Head(ls[from]) /\ c.log = from /\ b.ptr = c.ptr /\ c \in BlocksOf(n)
  BY <1>4, FreeIn DEF Block
<1>6. /\ DOMAIN ls2 = Logs
      /\ ls2[from] = Tail(ls[from])
      /\ \A l \in log .. from - 1 : ls2[l] = <<sibling_of(Block(b.ptr, l)).ptr>> \o ls[l]
      /\ \A l \in Logs : l # from /\ l \notin log .. from - 1 => ls2[l] = ls[l]
  BY <1>0, <1>1 DEF SplitLists
<1> HIDE DEF c, b, ls2
<1>7. ASSUME NEW l \in log .. from - 1
      PROVE  /\ IsList(n, l, ls2[l]) /\ ToSet(ls2[l]) = {Upper(c, l).ptr}
             /\ Upper(c, l) \in BlocksOf(n) /\ Upper(c, l).log = l
  <2>1. l \in Logs /\ l < c.log
    BY <1>1, <1>5
  <2>2. Upper(c, l) \in BlocksOf(n) /\ sibling_of(Lower(c, l)) = Upper(c, l)
    BY <1>5, <2>1, SplitOnce
  <2>3. /\ Block(b.ptr, l) = Lower(c, l) /\ Upper(c, l).log = l
        /\ Block(Upper(c, l).ptr, l) = Upper(c, l)
    BY <1>5 DEF Lower, Upper, Block
  <2>4. ls2[l] = <<Upper(c, l).ptr>> \o ls[l] /\ ls[l] = <<>>
    BY <1>6, <2>2, <2>3
  <2>5. ToSet(<<>>) = {}
    BY DEF ToSet
  <2>6. Upper(c, l).ptr \in Nat
    BY <2>2, BlockShape
  <2>7. Upper(c, l).ptr \notin ToSet(ls[l]) /\ Block(Upper(c, l).ptr, l) \in BlocksOf(n)
    BY <2>2, <2>3, <2>4, <2>5
  <2>8. IsList(n, l, <<Upper(c, l).ptr>> \o ls[l])
        /\ ToSet(<<Upper(c, l).ptr>> \o ls[l]) = ToSet(ls[l]) \cup {Upper(c, l).ptr}
    BY <1>2, <2>1, <2>6, <2>7, ListCons
  <2>9. ToSet(ls[l]) = {}
    BY <2>4, <2>5
  <2> QED BY <2>2, <2>3, <2>4, <2>8, <2>9
<1>8. AreLists(n, ls2)
  <2>1. ASSUME NEW l \in Logs PROVE IsList(n, l, ls2[l])
    <3>1. CASE l = from
      BY <1>3, <1>6, <3>1
    <3>2. CASE l \in log .. from - 1
      BY <1>7, <3>2
    <3>3. CASE l # from /\ l \notin log .. from - 1
      BY <1>2, <1>6, <3>3
    <3> QED BY <3>1, <3>2, <3>3
  <2> QED BY <1>6, <2>1 DEF AreLists
<1>9. ASSUME NEW d \in BlocksOf(n)
      PROVE  d \in FreeOf(n, ls2) <=> d \in (FreeOf(n, ls) \ {c}) \cup ups
  <2>0. d.log \in Logs /\ d = Block(d.ptr, d.log)
    BY BlockShape
  <2>1. CASE d.log = from
    <3>1. d \notin ups
      BY <1>1, <1>7, <2>1
    <3>2. d = c <=> d.ptr = Head(ls[from])
      BY <1>5, <2>0, <2>1 DEF c
    <3>3. d \in FreeOf(n, ls2) <=> d.ptr \in ToSet(ls[from]) \ {Head(ls[from])}
      BY <1>3, <1>6, <2>1 DEF FreeOf
    <3>4. d \in FreeOf(n, ls) <=> d.ptr \in ToSet(ls[from])
      BY <2>1 DEF FreeOf
    <3> HIDE DEF ups
    <3> QED BY <3>1, <3>2, <3>3, <3>4
  <2>2. CASE d.log \in log .. from - 1
    <3>1. d \in FreeOf(n, ls2) <=> d.ptr = Upper(c, d.log).ptr
      BY <1>7, <2>2 DEF FreeOf
    <3>2. d.ptr = Upper(c, d.log).ptr <=> d = Upper(c, d.log)
      BY <2>0 DEF Upper, Block
    <3>3. d \in ups <=> d = Upper(c, d.log)
      BY <1>7, <2>2
    <3>4. d \notin FreeOf(n, ls)
      <4>1. ls[d.log] = <<>> /\ ToSet(<<>>) = {}
        BY <2>2 DEF ToSet
      <4> QED BY <4>1 DEF FreeOf
    <3> HIDE DEF ups
    <3> QED BY <3>1, <3>2, <3>3, <3>4
  <2>3. CASE d.log # from /\ d.log \notin log .. from - 1
    <3>1. d \notin ups /\ d # c
      BY <1>5, <1>7, <2>3
    <3>2. d \in FreeOf(n, ls2) <=> d \in FreeOf(n, ls)
      BY <1>6, <2>0, <2>3 DEF FreeOf
    <3> HIDE DEF ups
    <3> QED BY <3>1, <3>2
  <2> QED BY <2>1, <2>2, <2>3
<1>10. FreeOf(n, ls2) \subseteq BlocksOf(n) /\ (FreeOf(n, ls) \ {c}) \cup ups \subseteq BlocksOf(n)
  BY <1>7 DEF FreeOf
<1>11. FreeOf(n, ls2) = (FreeOf(n, ls) \ {c}) \cup ups
  <2> HIDE DEF ups
  <2> QED BY <1>9, <1>10
<1> QED BY <1>4, <1>8, <1>11 DEF c, ls2
-----------------------------------------------------------------------------
(* buddy_free on lists: as in the model *)
MergeLists(ls, b, to) ==
    [l \in Logs |->
        CASE l \in b.log .. to - 1 -> RemoveFirst(ls[l], sibling_of(Ancestor(b, l)).ptr)
          [] l = to -> <<Ancestor(b, l).ptr>> \o ls[l]
          [] OTHER -> ls[l]]

LEMMA FreeLists ==
    ASSUME NEW n \in Nat, NEW ls, AreLists(n, ls),
           NEW b \in BlocksOf(n), NEW to \in b.log .. MaxLog2,
           \A l \in b.log .. to - 1 : Partner(b, l) \in FreeOf(n, ls),
           Ancestor(b, to) \notin FreeOf(n, ls)
    PROVE  /\ AreLists(n, MergeLists(ls, b, to))
           /\ FreeOf(n, MergeLists(ls, b, to)) =
                 (FreeOf(n, ls) \ {Partner(b, l) : l \in b.log .. to - 1})
                 \cup {Ancestor(b, to)}
<1> DEFINE a == Ancestor(b, to)
           ls2 == MergeLists(ls, b, to)
           partners == {Partner(b, l) : l \in b.log .. to - 1}
<1>0. b.log \in Nat /\ MaxLog2 \in Nat /\ to \in Nat /\ to \in Logs /\ b.log \in Logs
  BY BlockShape, BlockLog, AncestorIs
<1>1. \A l \in b.log .. to - 1 : l \in Logs /\ l # to /\ l \in Nat
  BY <1>0, BuddyAssumption DEF Logs
<1>2. \A l \in Logs : IsList(n, l, ls[l])
  BY DEF AreLists
<1>3. a \in BlocksOf(n) /\ a.log = to /\ a.ptr \in Nat /\ a = Block(a.ptr, a.log)
  BY AncestorIs, BlockShape
<1>4. /\ DOMAIN ls2 = Logs
      /\ ls2[to] = <<a.ptr>> \o ls[to]
      /\ \A l \in b.log .. to - 1 : ls2[l] = RemoveFirst(ls[l], Partner(b, l).ptr)
      /\ \A l \in Logs : l # to /\ l \notin b.log .. to - 1 => ls2[l] = ls[l]
  BY <1>0, <1>1 DEF MergeLists, Partner
<1> HIDE DEF a, ls2
<1>5. IsList(n, to, ls2[to]) /\ ToSet(ls2[to]) = ToSet(ls[to]) \cup {a.ptr}
  <2>1. a.ptr \notin ToSet(ls[to])
    BY <1>3 DEF FreeOf, a
  <2>2. Block(a.ptr, to) \in BlocksOf(n)
    BY <1>3
  <2> QED BY <1>0, <1>2, <1>3, <1>4, <2>1, <2>2, ListCons
<1>6. ASSUME NEW l \in b.log .. to - 1
      PROVE  /\ IsList(n, l, ls2[l]) /\ ToSet(ls2[l]) = ToSet(ls[l]) \ {Partner(b, l).ptr}
             /\ Partner(b, l).log = l /\ Partner(b, l) = Block(Partner(b, l).ptr, l)
  <2>1. Partner(b, l).log = l /\ Partner(b, l) \in BlocksOf(n)
    BY MergeInside
  <2>2. Partner(b, l).ptr \in ToSet(ls[l])
    BY <2>1 DEF FreeOf
  <2> QED BY <1>1, <1>2, <1>4, <2>1, <2>2, ListRemove, BlockShape
<1>7. AreLists(n, ls2)
  <2>1. ASSUME NEW l \in Logs PROVE IsList(n, l, ls2[l])
    <3>1. CASE l = to
      BY <1>5, <3>1
    <3>2. CASE l \in b.log .. to - 1
      BY <1>6, <3>2
    <3>3. CASE l # to /\ l \notin b.log .. to - 1
      BY <1>2, <1>4, <3>3
    <3> QED BY <3>1, <3>2, <3>3
  <2> QED BY <1>4, <2>1 DEF AreLists
<1>8. ASSUME NEW d \in BlocksOf(n)
      PROVE  d \in FreeOf(n, ls2) <=> d \in (FreeOf(n, ls) \ partners) \cup {a}
  <2>0. d.log \in Logs /\ d = Block(d.ptr, d.log)
    BY BlockShape
  <2>1. CASE d.log = to
    <3>1. d \notin partners
      BY <1>1, <1>6, <2>1
    <3>2. d = a <=> d.ptr = a.ptr
      BY <1>3, <2>0, <2>1
    <3>3. d \in FreeOf(n, ls2) <=> d.ptr \in ToSet(ls[to]) \cup {a.ptr}
      BY <1>5, <2>1 DEF FreeOf
    <3>4. d \in FreeOf(n, ls) <=> d.ptr \in ToSet(ls[to])
      BY <2>1 DEF FreeOf
    <3> HIDE DEF partners
    <3> QED BY <3>1, <3>2, <3>3, <3>4
  <2>2. CASE d.log \in b.log .. to - 1
    <3>1. d \in FreeOf(n, ls2) <=> d \in FreeOf(n, ls) /\ d.ptr # Partner(b, d.log).ptr
      BY <1>6, <2>2 DEF FreeOf
    <3>2. d.ptr = Partner(b, d.log).ptr <=> d = Partner(b, d.log)
      BY <1>6, <2>0, <2>2
    <3>3. d \in partners <=> d = Partner(b, d.log)
      BY <1>6, <2>2
    <3>4. d # a
      BY <1>1, <1>3, <2>2
    <3> HIDE DEF partners
    <3> QED BY <3>1, <3>2, <3>3, <3>4
  <2>3. CASE d.log # to /\ d.log \notin b.log .. to - 1
    <3>1. d \notin partners /\ d # a
      BY <1>3, <1>6, <2>3
    <3>2. d \in FreeOf(n, ls2) <=> d \in FreeOf(n, ls)
      BY <1>4, <2>0, <2>3 DEF FreeOf
    <3> HIDE DEF partners
    <3> QED BY <3>1, <3>2
  <2> QED BY <2>1, <2>2, <2>3
<1>9. /\ FreeOf(n, ls2) \subseteq BlocksOf(n)
      /\ (FreeOf(n, ls) \ partners) \cup {a} \subseteq BlocksOf(n)
  BY <1>3 DEF FreeOf
<1>10. FreeOf(n, ls2) = (FreeOf(n, ls) \ partners) \cup {a}
  <2> HIDE DEF partners
  <2> QED BY <1>8, <1>9
<1> QED BY <1>7, <1>10 DEF a, ls2
-----------------------------------------------------------------------------
(* buddy_startup *)

LEMMA LayoutTypes ==
    ASSUME memory \in Memories
    PROVE  /\ memory.base \in Nat /\ memory.size \in Nat
           /\ MAX_BLOCK_SIZE \in Nat \ {0}
           /\ SizeofTree \in Nat \ {0} /\ TreesBase \in Nat /\ memory.base <= TreesBase
<1>1. /\ memory.base \in Nat /\ memory.size \in Nat
      /\ SizeofBuddy \in Nat \ {0} /\ AlignofBuddy \in Nat \ {0}
      /\ SizeofTree \in Nat \ {0} /\ AlignofTree \in Nat \ {0}
  BY BuddyAssumption
<1>2. MAX_BLOCK_SIZE \in Nat \ {0}
  <2>1. MaxLog2 \in 0 .. MaxLog2
    BY BuddyAssumption
  <2> QED BY <2>1, PowerPositive DEF MAX_BLOCK_SIZE
<1>3. ASSUME NEW x \in Nat, NEW g \in Nat \ {0}
      PROVE  Aligned(x, g) \in Nat /\ x <= Aligned(x, g)
  <2>1. (0 - x) % g \in 0 .. g - 1
    BY DivMod
  <2> QED BY <2>1 DEF Aligned, Padding
<1> DEFINE s == Aligned(memory.base, AlignofBuddy)
<1>4. s \in Nat /\ memory.base <= s
  BY <1>1, <1>3
<1> HIDE DEF s
<1>5. s + SizeofBuddy \in Nat /\ memory.base <= s + SizeofBuddy
  BY <1>1, <1>4
<1>6. TreesBase = Aligned(s + SizeofBuddy, AlignofTree)
  BY DEF TreesBase, s
<1>7. TreesBase \in Nat /\ s + SizeofBuddy <= TreesBase
  BY <1>1, <1>3, <1>5, <1>6
<1> QED BY <1>1, <1>2, <1>5, <1>7

(* Rounding up keeps the order. *)
LEMMA AlignedMonotone ==
    ASSUME NEW x \in Nat, NEW y \in Nat, x <= y, NEW g \in Nat \ {0}
    PROVE  /\ Aligned(x, g) \in Nat /\ x <= Aligned(x, g)
           /\ Aligned(x, g) <= Aligned(y, g)
<1> DEFINE i == (0 - x) \div g
           p == (0 - x) % g
           j == (0 - y) \div g
           q == (0 - y) % g
<1>1. /\ i \in Int /\ p \in 0 .. g - 1 /\ 0 - x = g * i + p
      /\ j \in Int /\ q \in 0 .. g - 1 /\ 0 - y = g * j + q
  <2>1. 0 - x \in Int /\ 0 - y \in Int
    OBVIOUS
  <2> QED BY <2>1, DivMod
<1>2. Aligned(x, g) = x + p /\ Aligned(y, g) = y + q
  BY DEF Aligned, Padding
<1> HIDE DEF i, p, j, q
<1>3. x + p = 0 - g * i /\ y + q = 0 - g * j
  <2>1. g * i \in Int /\ g * j \in Int
    BY <1>1
  <2> QED BY <1>1, <2>1
<1>4. j <= i
  <2>1. g * j < g * (i + 1)
    <3>1. g * (i + 1) = g * i + g /\ g * i \in Int /\ g * j \in Int
      BY <1>1
    <3> QED BY <1>1, <3>1
  <2> QED BY <1>1, <2>1, FactorLess
<1>5. g * j <= g * i
  BY <1>1, <1>4, FactorMonotone
<1>6. g * i \in Int /\ g * j \in Int
  BY <1>1
<1> QED BY <1>1, <1>2, <1>3, <1>5, <1>6

LEMMA PagesBaseOrder ==
    ASSUME memory \in Memories, NEW m \in Nat, NEW n \in Nat, m <= n
    PROVE  /\ PagesBase(m) \in Nat /\ TreesBase + m * SizeofTree <= PagesBase(m)
           /\ m * MAX_BLOCK_SIZE \in Nat /\ n * MAX_BLOCK_SIZE \in Nat
           /\ m * MAX_BLOCK_SIZE <= n * MAX_BLOCK_SIZE
           /\ PagesBase(m) <= PagesBase(n) /\ PagesBase(n) \in Nat
<1> DEFINE x == TreesBase + m * SizeofTree
           y == TreesBase + n * SizeofTree
<1>0. TreesBase \in Nat /\ SizeofTree \in Nat \ {0} /\ MAX_BLOCK_SIZE \in Nat \ {0}
  BY LayoutTypes
<1>1. ASSUME NEW s \in Nat PROVE m * s \in Nat /\ n * s \in Nat /\ m * s <= n * s
  <2>1. s * m <= s * n
    BY FactorMonotone
  <2>2. s * m = m * s /\ s * n = n * s /\ s * m \in Nat /\ s * n \in Nat
    OBVIOUS
  <2> QED BY <2>1, <2>2
<1>2. m * SizeofTree \in Nat /\ n * SizeofTree \in Nat /\ m * SizeofTree <= n * SizeofTree
  BY <1>0, <1>1
<1>3. x \in Nat /\ y \in Nat /\ x <= y
  BY <1>0, <1>2
<1>4. PagesBase(m) = Aligned(x, MAX_BLOCK_SIZE) /\ PagesBase(n) = Aligned(y, MAX_BLOCK_SIZE)
  BY DEF PagesBase
<1> HIDE DEF x, y
<1>5. /\ Aligned(x, MAX_BLOCK_SIZE) \in Nat /\ x <= Aligned(x, MAX_BLOCK_SIZE)
      /\ Aligned(x, MAX_BLOCK_SIZE) <= Aligned(y, MAX_BLOCK_SIZE)
      /\ Aligned(y, MAX_BLOCK_SIZE) \in Nat
  BY <1>0, <1>3, AlignedMonotone
<1>6. /\ m * MAX_BLOCK_SIZE \in Nat /\ n * MAX_BLOCK_SIZE \in Nat
      /\ m * MAX_BLOCK_SIZE <= n * MAX_BLOCK_SIZE
  BY <1>0, <1>1
<1> QED BY <1>4, <1>5, <1>6 DEF x

(* When n pages fit, so do fewer. *)
LEMMA FitDown ==
    ASSUME memory \in Memories, NEW m \in Nat, NEW n \in Nat, m <= n, Fit(n)
    PROVE  Fit(m)
<1>1. /\ PagesBase(m) \in Nat /\ m * MAX_BLOCK_SIZE \in Nat /\ n * MAX_BLOCK_SIZE \in Nat
      /\ m * MAX_BLOCK_SIZE <= n * MAX_BLOCK_SIZE
      /\ PagesBase(m) <= PagesBase(n) /\ PagesBase(n) \in Nat
  BY PagesBaseOrder
<1>2. memory.base + memory.size \in Nat
  BY LayoutTypes
<1> QED BY <1>1, <1>2 DEF Fit

(* The loop ends, with the largest number of pages that fit. *)
LEMMA LayoutLemma ==
    ASSUME memory \in Memories
    PROVE  NumTrees \in Nat /\ LayoutFits
<1> DEFINE T == {n \in Nat : ~Fit(n + 1)}
           sz == memory.size
<1>0. memory.base \in Nat /\ sz \in Nat /\ MAX_BLOCK_SIZE \in Nat \ {0}
      /\ SizeofTree \in Nat \ {0} /\ TreesBase \in Nat /\ memory.base <= TreesBase
  BY LayoutTypes
<1>1. sz \in T
  <2>1. /\ PagesBase(sz + 1) \in Nat /\ (sz + 1) * MAX_BLOCK_SIZE \in Nat
        /\ TreesBase + (sz + 1) * SizeofTree <= PagesBase(sz + 1)
    BY <1>0, PagesBaseOrder
  <2>2. (sz + 1) * MAX_BLOCK_SIZE >= sz + 1
    <3>1. ASSUME NEW a \in Nat, NEW g \in Nat \ {0} PROVE a * g >= a
      OBVIOUS
    <3> QED BY <1>0, <3>1
  <2>3. (sz + 1) * SizeofTree \in Nat
    BY <1>0
  <2>4. memory.base <= PagesBase(sz + 1)
    BY <1>0, <2>1, <2>3
  <2>5. ~(PagesBase(sz + 1) + (sz + 1) * MAX_BLOCK_SIZE <= memory.base + sz)
    BY <1>0, <2>1, <2>2, <2>4
  <2> QED BY <1>0, <2>5 DEF Fit
<1>2. PICK k \in T : \A n \in T : k <= n
  <2>1. T \subseteq Nat /\ T # {}
    BY <1>1
  <2> HIDE DEF T
  <2> QED BY <2>1, LeastNatural
<1>3. k \in 0 .. sz /\ ~Fit(k + 1)
  BY <1>0, <1>1, <1>2
<1>4. ASSUME NEW m \in 1 .. k PROVE Fit(m)
  <2>1. m - 1 \in Nat /\ (m - 1) + 1 = m /\ m - 1 < k /\ k \in Nat
    BY <1>3
  <2>2. m - 1 \notin T
    BY <1>2, <2>1
  <2> QED BY <2>1, <2>2
<1> DEFINE Right(n) == (\A m \in 1 .. n : Fit(m)) /\ ~Fit(n + 1)
<1>5. \E n \in 0 .. sz : Right(n)
  BY <1>3, <1>4
<1>6. NumTrees \in 0 .. sz /\ Right(NumTrees)
  <2>1. NumTrees = CHOOSE n \in 0 .. sz : Right(n)
    BY DEF NumTrees
  <2> HIDE DEF Right
  <2> QED BY <1>5, <2>1
<1>7. NumTrees \in Nat
  BY <1>0, <1>6
<1>8. ASSUME NumTrees > 0 PROVE Fit(NumTrees)
  BY <1>6, <1>7, <1>8
<1>9. ASSUME NEW n \in NumTrees + 1 .. memory.size PROVE ~Fit(n)
  <2>1. n \in Nat /\ NumTrees + 1 \in Nat /\ NumTrees + 1 <= n
    BY <1>0, <1>7
  <2> QED BY <1>6, <2>1, FitDown
<1>10. TreesBase + NumTrees * SizeofTree <= PagesBase(NumTrees)
  BY <1>7, PagesBaseOrder
<1> QED BY <1>7, <1>8, <1>9, <1>10 DEF LayoutFits, Fit

(* Every page is free. *)
LEMMA StartupAgrees ==
    ASSUME NEW n \in Nat
    PROVE  Agree(n, [log \in Logs |->
                        IF log = MaxLog2 THEN [i \in 1 .. n |-> (i - 1) * MAX_BLOCK_SIZE]
                        ELSE <<>>],
                 [page \in 0 .. n - 1 |-> {}], {})
<1> DEFINE M == MAX_BLOCK_SIZE
           s == [i \in 1 .. n |-> (i - 1) * M]
           ls == [log \in Logs |-> IF log = MaxLog2 THEN s ELSE <<>>]
           fr == FreeOf(n, ls)
<1>0. MaxLog2 \in Logs /\ M \in Nat \ {0} /\ 2 ^ MaxLog2 = M /\ MaxLog2 \in Nat
  <2>1. MaxLog2 \in Logs
    BY BuddyAssumption DEF Logs
  <2> QED BY <2>1, BlockLog DEF MAX_BLOCK_SIZE
<1>1. s \in Seq(Nat) /\ DOMAIN s = 1 .. n /\ \A i \in 1 .. n : s[i] = M * (i - 1)
  <2>1. \A i \in 1 .. n : (i - 1) * M \in Nat /\ (i - 1) * M = M * (i - 1)
    BY <1>0
  <2> HIDE DEF M
  <2> QED BY <2>1
<1> HIDE DEF s, M
<1>2. \A i \in 1 .. n : M * (i - 1) < n * M
  <2> SUFFICES ASSUME NEW i \in 1 .. n PROVE M * (i - 1) < n * M
    OBVIOUS
  <2>1. M * i <= M * n
    BY <1>0, FactorMonotone
  <2>2. M * i = M * (i - 1) + M /\ M * n = n * M /\ M * (i - 1) \in Int
    BY <1>0
  <2> QED BY <1>0, <2>1, <2>2
<1>3. \A i \in 1 .. n : Block(M * (i - 1), MaxLog2) \in BlocksOf(n)
  <2> SUFFICES ASSUME NEW i \in 1 .. n PROVE Block(M * (i - 1), MaxLog2) \in BlocksOf(n)
    OBVIOUS
  <2>1. i - 1 \in Nat
    OBVIOUS
  <2> QED BY <1>0, <1>2, <2>1, BlockMade DEF M
<1>4. IsInjective(s)
  <2> SUFFICES ASSUME NEW i \in 1 .. n, NEW j \in 1 .. n, s[i] = s[j] PROVE i = j
    BY <1>1 DEF IsInjective
  <2>1. M * (i - 1) = M * (j - 1)
    BY <1>1
  <2>2. M * (i - j) = 0
    BY <1>0, <2>1
  <2>3. i - j = 0
    BY <1>0, <2>2, SmallMultiple
  <2> QED BY <2>3
<1>5. IsList(n, MaxLog2, s)
  <2>1. ASSUME NEW p \in ToSet(s) PROVE Block(p, MaxLog2) \in BlocksOf(n)
    <3>1. PICK i \in 1 .. n : p = s[i]
      BY <1>1 DEF ToSet
    <3> QED BY <1>1, <1>3, <3>1
  <2> QED BY <1>1, <1>4, <2>1 DEF IsList
<1>6. \A l : IsList(n, l, <<>>)
  BY DEF IsList, IsInjective, ToSet
<1>7. AreLists(n, ls)
  BY <1>5, <1>6 DEF AreLists
<1>8. \A b \in fr : b.log = MaxLog2 /\ b \in BlocksOf(n)
  <2> SUFFICES ASSUME NEW b \in fr PROVE b.log = MaxLog2 /\ b \in BlocksOf(n)
    OBVIOUS
  <2>1. b \in BlocksOf(n) /\ b.log \in Logs /\ b.ptr \in ToSet(ls[b.log])
    BY FreeIn
  <2>2. ToSet(<<>>) = {}
    BY DEF ToSet
  <2> QED BY <2>1, <2>2
<1>9. Disjoint(fr)
  <2> SUFFICES ASSUME NEW b \in fr, NEW c \in fr, b # c, Bytes(b) \cap Bytes(c) # {} PROVE FALSE
    BY DEF Disjoint
  <2>1. b.log <= c.log /\ b.log = c.log /\ b \in BlocksOf(n) /\ c \in BlocksOf(n)
    BY <1>0, <1>8
  <2> QED BY <2>1, Nested
<1>10. ASSUME NEW x \in 0 .. n * MAX_BLOCK_SIZE - 1 PROVE \E b \in fr : x \in Bytes(b)
  <2> DEFINE q == x \div M
             b == Block(M * q, MaxLog2)
  <2>0. x \in Int /\ 0 <= x /\ x < n * M
    BY <1>0, <1>10 DEF M
  <2>1. q \in Int /\ x % M \in 0 .. M - 1 /\ x = M * q + (x % M)
    BY <1>0, <2>0, DivMod
  <2> HIDE DEF q
  <2>2. 0 <= q
    <3>1. M * 0 < M * (q + 1)
      BY <1>0, <2>0, <2>1
    <3> QED BY <1>0, <2>1, <3>1, FactorLess
  <2>3. q <= n - 1
    <3>1. M * q < M * ((n - 1) + 1)
      <4>1. M * ((n - 1) + 1) = n * M /\ M * q \in Int
        BY <1>0, <2>1
      <4> QED BY <1>0, <2>0, <2>1, <4>1
    <3> QED BY <1>0, <2>1, <3>1, FactorLess
  <2>4. q + 1 \in 1 .. n /\ (q + 1) - 1 = q
    BY <2>1, <2>2, <2>3
  <2>5. b \in BlocksOf(n) /\ s[q + 1] = M * q
    BY <1>1, <1>3, <2>4
  <2>6. b.ptr = M * q /\ b.log = MaxLog2
    BY DEF Block
  <2>7. b \in fr
    <3>1. M * q \in ToSet(s)
      BY <1>1, <2>4, <2>5 DEF ToSet
    <3>2. ls[MaxLog2] = s
      BY <1>0
    <3> QED BY <2>5, <2>6, <3>1, <3>2 DEF FreeOf
  <2>8. x \in Bytes(b)
    <3>1. M * q \in Int
      BY <1>0, <2>1
    <3>2. b.ptr <= x /\ x < b.ptr + 2 ^ b.log
      BY <1>0, <2>0, <2>1, <2>6, <3>1
    <3> QED BY <2>0, <2>5, <3>2, BlockBytes
  <2> QED BY <2>7, <2>8
<1>11. Tiled(n, {}, fr)
  <2>1. {} \cup fr = fr
    OBVIOUS
  <2> HIDE DEF fr
  <2> QED BY <1>8, <1>9, <1>10, <2>1 DEF Tiled, Covers
<1>12. Merged(fr)
  BY <1>0, <1>8 DEF Merged
<1>13. BitsFor(n, [page \in 0 .. n - 1 |-> {}], {})
  <2>1. \A b \in BlocksOf(n) : page_index(b.ptr) \in 0 .. n - 1
    BY BitShape
  <2> QED BY <2>1 DEF BitsFor
<1>14. Agree(n, ls, [page \in 0 .. n - 1 |-> {}], {})
  <2> HIDE DEF ls
  <2> QED BY <1>7, <1>11, <1>12, <1>13 DEF Agree
<1> QED BY <1>14 DEF s, M
-----------------------------------------------------------------------------
(* The invariant and the steps *)

BuddyInv ==
    /\ memory \in Memories
    /\ ~broken
    /\ Agree(NumTrees, lists, trees, live)

LEMMA NormalizedLen ==
    ASSUME NEW len \in 1 .. MAX_BLOCK_SIZE
    PROVE  normalize_len(len) \in Logs
<1> DEFINE T == {log \in Logs : len <= 2 ^ log}
           Right(log) == len <= 2 ^ log /\ \A l \in MinLog2 .. log - 1 : 2 ^ l < len
<1>0. MaxLog2 \in Logs /\ Logs \subseteq Nat /\ MinLog2 \in Nat /\ MaxLog2 \in Nat
  BY BuddyAssumption DEF Logs
<1>1. MAX_BLOCK_SIZE \in Nat /\ len \in Nat /\ \A l \in Logs : 2 ^ l \in Nat
  BY <1>0, BlockLog
<1>2. MaxLog2 \in T /\ T \subseteq Nat
  <2>1. MAX_BLOCK_SIZE = 2 ^ MaxLog2
    BY DEF MAX_BLOCK_SIZE
  <2>2. len <= 2 ^ MaxLog2
    BY <1>1, <2>1
  <2> QED BY <1>0, <2>2
<1>3. PICK log \in T : \A l \in T : log <= l
  <2> HIDE DEF T
  <2> QED BY <1>2, LeastNatural
<1>4. ASSUME NEW l \in MinLog2 .. log - 1 PROVE 2 ^ l < len
  <2>1. l \in Logs /\ ~(log <= l)
    BY <1>0, <1>3 DEF Logs
  <2>2. l \notin T
    BY <1>3, <2>1
  <2> QED BY <1>1, <2>1, <2>2
<1>5. \E l \in Logs : Right(l)
  BY <1>3, <1>4
<1>6. normalize_len(len) = CHOOSE l \in Logs : Right(l)
  BY DEF normalize_len
<1> HIDE DEF Right
<1> QED BY <1>5, <1>6

LEMMA BlocksAre ==
    ASSUME memory \in Memories
    PROVE  NumTrees \in Nat /\ Blocks = BlocksOf(NumTrees)
BY LayoutLemma DEF Blocks, BlocksOf

LEMMA PagesStay ==
    ASSUME UNCHANGED memory
    PROVE  NumTrees' = NumTrees
BY DEF NumTrees, Fit, PagesBase, TreesBase, Aligned, Padding, MAX_BLOCK_SIZE

LEMMA BuddyStarts == BuddyInit => BuddyInv
<1> SUFFICES ASSUME BuddyInit PROVE BuddyInv
  OBVIOUS
<1>1. memory \in Memories /\ NumTrees \in Nat
  BY LayoutLemma DEF BuddyInit
<1>2. Agree(NumTrees, lists, trees, live)
  BY <1>1, StartupAgrees DEF BuddyInit, Pages
<1> QED BY <1>1, <1>2 DEF BuddyInv, BuddyInit

LEMMA MallocStep ==
    ASSUME BuddyInv, NEW len \in Lens, buddy_malloc(len)
    PROVE  BuddyInv'
<1> DEFINE n == NumTrees
           log == normalize_len(len)
           larger == {l \in log .. MaxLog2 : lists[l] # <<>>}
           from == CHOOSE l \in larger : \A m \in larger : l <= m
           c == Block(Head(lists[from]), from)
           b == Block(Head(lists[from]), log)
<1>0. memory \in Memories /\ Agree(n, lists, trees, live) /\ n \in Nat /\ ~broken
  BY LayoutLemma DEF BuddyInv
<1>1. len \in 1 .. MAX_BLOCK_SIZE /\ larger # {} /\ UNCHANGED <<memory, broken>>
  BY DEF buddy_malloc
<1>2. /\ lists' = SplitLists(lists, log, from)
      /\ trees' = [trees EXCEPT ![page_index(b.ptr)] = @ \cup {block_info_index(b)}]
      /\ live' = live \cup {b}
  BY DEF buddy_malloc, SplitLists
<1>3. log \in Logs /\ log \in Nat
  BY <1>1, NormalizedLen, BlockLog
<1> HIDE DEF log
<1>4. from \in larger /\ \A m \in larger : from <= m
  <2>1. larger \subseteq Nat
    BY <1>3
  <2> HIDE DEF larger
  <2>2. \E l \in larger : \A m \in larger : l <= m
    BY <1>1, <2>1, LeastNatural
  <2> QED BY <2>2
<1> HIDE DEF from
<1>5. /\ from \in log .. MaxLog2 /\ lists[from] # <<>>
      /\ \A l \in log .. from - 1 : lists[l] = <<>>
  <2>1. from \in log .. MaxLog2 /\ lists[from] # <<>>
    BY <1>4
  <2>2. ASSUME NEW l \in log .. from - 1 PROVE lists[l] = <<>>
    <3>1. l \in log .. MaxLog2 /\ ~(from <= l)
      BY <1>3, <2>1, BuddyAssumption
    <3> QED BY <1>4, <3>1
  <2> QED BY <2>1, <2>2
<1>6. /\ AreLists(n, lists) /\ Tiled(n, live, FreeOf(n, lists))
      /\ Merged(FreeOf(n, lists)) /\ BitsFor(n, trees, live)
  BY <1>0 DEF Agree
<1>7. /\ c \in FreeOf(n, lists) /\ AreLists(n, lists')
      /\ FreeOf(n, lists') = (FreeOf(n, lists) \ {c}) \cup {Upper(c, l) : l \in log .. from - 1}
  BY <1>0, <1>2, <1>3, <1>5, <1>6, MallocLists
<1>8. c \in BlocksOf(n) /\ c.log = from /\ b = Lower(c, log) /\ log <= c.log
  <2>1. c.log = from /\ b = Lower(c, log)
    BY DEF Lower, Block
  <2> QED BY <1>0, <1>3, <1>5, <1>7, <2>1, FreeIn
<1> HIDE DEF c, b, n
<1>9. Tiled(n, live', FreeOf(n, lists')) /\ Merged(FreeOf(n, lists'))
  BY <1>0, <1>2, <1>3, <1>6, <1>7, <1>8, SplitTiled
<1>10. b \in BlocksOf(n)
  BY <1>0, <1>3, <1>8, LowerIs
<1>11. BitsFor(n, trees', live')
  BY <1>0, <1>2, <1>6, <1>10, BitSet
<1>12. Agree(n, lists', trees', live')
  BY <1>7, <1>9, <1>11 DEF Agree
<1>13. NumTrees' = n
  BY <1>1, PagesStay DEF n
<1> QED BY <1>0, <1>1, <1>12, <1>13 DEF BuddyInv

LEMMA FreeStep ==
    ASSUME BuddyInv, NEW len \in 1 .. MAX_BLOCK_SIZE, NEW ptr, buddy_free(len, ptr)
    PROVE  BuddyInv'
<1> DEFINE n == NumTrees
           b == Block(ptr, normalize_len(len))
           to == MergedLog(b)
           merged == b.log .. to - 1
           fr == FreeOf(n, lists)
<1>0. /\ memory \in Memories /\ Agree(n, lists, trees, live) /\ n \in Nat /\ ~broken
      /\ Blocks = BlocksOf(n)
  BY BlocksAre DEF BuddyInv
<1>1. b \in BlocksOf(n) /\ b.ptr = ptr
  BY <1>0 DEF buddy_free, Block
<1>2. CASE ~is_allocated(b)
  <2>1. UNCHANGED buddyVars
    BY <1>2 DEF buddy_free
  <2>2. NumTrees' = n
    BY <2>1, PagesStay DEF buddyVars
  <2> HIDE DEF n
  <2> QED BY <1>0, <2>1, <2>2 DEF BuddyInv, buddyVars
<1>3. CASE is_allocated(b)
  <2>1. /\ trees' = [trees EXCEPT ![page_index(b.ptr)] = @ \ {block_info_index(b)}]
        /\ lists' = MergeLists(lists, b, to)
        /\ live' = live \ {b}
        /\ UNCHANGED memory
        /\ broken' = \E l \in merged : Partner(b, l).ptr \notin ToSet(lists[l])
    BY <1>1, <1>3 DEF buddy_free, MergeLists, Partner
  <2> HIDE DEF b, n
  <2>2. /\ AreLists(n, lists) /\ Tiled(n, live, fr) /\ Merged(fr) /\ BitsFor(n, trees, live)
    BY <1>0 DEF Agree
  <2>3. \A c \in BlocksOf(n) : is_allocated(c) <=> c \in live
    BY <2>2 DEF BitsFor, is_allocated
  <2>4. b \in live /\ live \subseteq BlocksOf(n)
    BY <1>1, <1>3, <2>2, <2>3 DEF Tiled, Covers
  <2>5. \A d : is_allocated_considering_splits(d) <=> \E c \in live : Bytes(c) \subseteq Bytes(d)
    BY <1>0, <2>3, <2>4 DEF is_allocated_considering_splits, Splits
  <2> DEFINE MergeEnds(l) == l = MaxLog2 \/ is_allocated_considering_splits(Partner(b, l))
             T == {l \in b.log .. MaxLog2 : MergeEnds(l)}
             Right(l) == /\ MergeEnds(l)
                         /\ \A m \in b.log .. l - 1 :
                               ~is_allocated_considering_splits(Partner(b, m))
  <2>6. b.log \in Nat /\ MaxLog2 \in Nat /\ b.log <= MaxLog2
    BY <1>0, <1>1, BlockShape, BlockLog
  <2>7. to \in b.log .. MaxLog2 /\ Right(to)
    <3>1. MaxLog2 \in T /\ T \subseteq Nat
      BY <2>6
    <3>2. PICK l \in T : \A m \in T : l <= m
      <4> HIDE DEF T
      <4> QED BY <3>1, LeastNatural
    <3>3. ASSUME NEW m \in b.log .. l - 1
          PROVE  ~is_allocated_considering_splits(Partner(b, m))
      <4>1. m \in b.log .. MaxLog2 /\ ~(l <= m)
        BY <2>6, <3>2
      <4> QED BY <3>2, <4>1
    <3>4. l \in b.log .. MaxLog2 /\ Right(l)
      BY <3>2, <3>3
    <3>5. to = CHOOSE k \in b.log .. MaxLog2 : Right(k)
      BY DEF MergedLog, Partner
    <3> HIDE DEF Right
    <3> QED BY <3>4, <3>5
  <2> HIDE DEF to
  <2>8. ASSUME NEW l \in merged PROVE Partner(b, l) \in fr
    <3>1. l \in b.log .. MaxLog2 /\ l < MaxLog2
      BY <2>6, <2>7
    <3>2. \A c \in live : ~(Bytes(c) \subseteq Bytes(Partner(b, l)))
      BY <2>5, <2>7
    <3> HIDE DEF fr
    <3> QED BY <1>0, <2>2, <2>4, <3>1, <3>2, PartnerFree
  <2>9. to < MaxLog2 => \E c \in live : Bytes(c) \subseteq Bytes(Partner(b, to))
    BY <2>5, <2>6, <2>7
  <2>10. Ancestor(b, to) \notin fr
    <3>1. Bytes(b) \subseteq Bytes(Ancestor(b, to)) /\ b.ptr \in Bytes(b)
      BY <1>0, <1>1, <2>7, AncestorIs, BlockBytes
    <3> HIDE DEF fr
    <3> QED BY <2>2, <2>4, <3>1 DEF Tiled, Covers, Disjoint
  <2>11. /\ AreLists(n, lists')
         /\ FreeOf(n, lists') =
               (fr \ {Partner(b, l) : l \in merged}) \cup {Ancestor(b, to)}
    BY <1>0, <1>1, <2>1, <2>2, <2>7, <2>8, <2>10, FreeLists
  <2>12. Tiled(n, live', FreeOf(n, lists')) /\ Merged(FreeOf(n, lists'))
    <3>1. PartnersFree(b, to, fr) /\ StopsAt(b, to, live)
      BY <2>8, <2>9 DEF PartnersFree, StopsAt
    <3>2. FreeOf(n, lists') = FreeMerged(b, to, fr)
      BY <2>11 DEF FreeMerged
    <3> HIDE DEF fr
    <3>3. /\ Tiled(n, live \ {b}, FreeMerged(b, to, fr))
          /\ Merged(FreeMerged(b, to, fr))
      BY <1>0, <2>2, <2>4, <2>7, <3>1, MergeTiled
    <3> QED BY <2>1, <3>2, <3>3
  <2>13. BitsFor(n, trees', live')
    BY <1>0, <1>1, <2>1, <2>2, BitClear
  <2>14. Agree(n, lists', trees', live')
    BY <2>11, <2>12, <2>13 DEF Agree
  <2>15. ~broken'
    <3>1. ASSUME NEW l \in merged PROVE Partner(b, l).ptr \in ToSet(lists[l])
      <4>1. Partner(b, l).log = l
        BY <1>0, <1>1, <2>7, MergeInside
      <4> QED BY <1>0, <2>8, <4>1, FreeIn
    <3> QED BY <2>1, <3>1
  <2>16. NumTrees' = n
    BY <2>1, PagesStay DEF n
  <2> QED BY <1>0, <2>1, <2>14, <2>15, <2>16 DEF BuddyInv
<1> QED BY <1>2, <1>3

LEMMA BuddyStep == BuddyInv /\ [BuddyNext]_buddyVars => BuddyInv'
<1> SUFFICES ASSUME BuddyInv, [BuddyNext]_buddyVars PROVE BuddyInv'
  OBVIOUS
<1>1. CASE \E len \in Lens : buddy_malloc(len)
  BY <1>1, MallocStep
<1>2. CASE UNCHANGED buddyVars
  <2>1. NumTrees' = NumTrees
    BY <1>2, PagesStay DEF buddyVars
  <2> QED BY <1>2, <2>1 DEF BuddyInv, buddyVars
<1>3. CASE \E len \in Lens : MallocFails(len)
  BY <1>2, <1>3 DEF MallocFails
<1>4. CASE \E len \in Lens \cap (1 .. MAX_BLOCK_SIZE), ptr \in 0 .. NumTrees * MAX_BLOCK_SIZE - 1 :
             buddy_free(len, ptr)
  BY <1>4, FreeStep
<1> QED BY <1>1, <1>2, <1>3, <1>4 DEF BuddyNext

(* The lists, the bits and the callers' blocks agree, for pages and blocks *)
(* of any size, any memory and any calls of buddy_malloc and buddy_free.   *)
THEOREM BuddyInvariant == BuddySpec => []BuddyInv
<1>1. BuddyInit => BuddyInv
  BY BuddyStarts
<1>2. BuddyInv /\ [BuddyNext]_buddyVars => BuddyInv'
  BY BuddyStep
<1> QED BY <1>1, <1>2, PTL DEF BuddySpec

LEMMA FreeAre ==
    ASSUME BuddyInv
    PROVE  Free = FreeOf(NumTrees, lists)
<1>1. Blocks = BlocksOf(NumTrees) /\ NumTrees \in Nat /\ AreLists(NumTrees, lists)
  BY BlocksAre DEF BuddyInv, Agree
<1>2. ASSUME NEW b \in Blocks
      PROVE  (\E i \in 1 .. Len(lists[b.log]) : lists[b.log][i] = b.ptr)
             <=> b.ptr \in ToSet(lists[b.log])
  <2>1. b.log \in Logs
    BY <1>1, BlockShape
  <2>2. DOMAIN lists[b.log] = 1 .. Len(lists[b.log])
    BY <1>1, <2>1 DEF AreLists, IsList
  <2> QED BY <2>2 DEF ToSet
<1> QED BY <1>1, <1>2 DEF Free, FreeOf

LEMMA BuddyPartition == BuddyInv => Partition
<1> SUFFICES ASSUME BuddyInv PROVE Partition
  OBVIOUS
<1> DEFINE n == NumTrees
           all == live \cup Free
<1>0. /\ memory \in Memories /\ n \in Nat /\ Blocks = BlocksOf(n) /\ LayoutFits /\ ~broken
      /\ Agree(n, lists, trees, live) /\ Free = FreeOf(n, lists)
  BY BlocksAre, LayoutLemma, FreeAre DEF BuddyInv
<1> HIDE DEF n
<1>1. /\ live \cap Free = {} /\ all \subseteq BlocksOf(n) /\ Disjoint(all)
      /\ \A x \in 0 .. n * MAX_BLOCK_SIZE - 1 : \E b \in all : x \in Bytes(b)
  BY <1>0 DEF Agree, Tiled, Covers
<1>2. UNION {Bytes(b) : b \in all} = 0 .. n * MAX_BLOCK_SIZE - 1
  <2>1. \A b \in all : Bytes(b) \subseteq 0 .. n * MAX_BLOCK_SIZE - 1
    BY <1>0, <1>1, BlockBytes
  <2> HIDE DEF all
  <2> QED BY <1>1, <2>1
<1>3. \A l \in Logs : IsInjective(lists[l])
  BY <1>0 DEF Agree, AreLists, IsList
<1>4. \A b \in Blocks : is_allocated(b) <=> b \in live
  BY <1>0 DEF Agree, BitsFor, is_allocated
<1>5. \A b, c \in all : b # c => Bytes(b) \cap Bytes(c) = {}
  BY <1>1 DEF Disjoint
<1> QED BY <1>0, <1>1, <1>2, <1>3, <1>4, <1>5 DEF Partition, n

LEMMA BuddyServes == BuddyInv => NoFalseFailure
<1> SUFFICES ASSUME BuddyInv, NEW len \in Lens \cap (1 .. MAX_BLOCK_SIZE), CannotServe(len),
                    NEW b \in Blocks, b.log = normalize_len(len),
                    \A c \in live : Bytes(b) \cap Bytes(c) = {}
             PROVE  FALSE
  BY DEF NoFalseFailure
<1> DEFINE n == NumTrees
           fr == FreeOf(n, lists)
<1>0. /\ n \in Nat /\ Blocks = BlocksOf(n) /\ b \in BlocksOf(n)
      /\ Agree(n, lists, trees, live)
  BY BlocksAre DEF BuddyInv
<1>1. \A l \in b.log .. MaxLog2 : lists[l] = <<>>
  BY DEF CannotServe
<1>2. b.log \in Nat /\ b.log \in Logs /\ MaxLog2 \in Nat /\ b.log <= MaxLog2
  BY <1>0, BlockShape, BlockLog
<1> HIDE DEF n
<1>3. ASSUME NEW c \in fr PROVE c.log < b.log
  <2>1. c.log \in Logs /\ c.ptr \in ToSet(lists[c.log]) /\ c.log \in Nat /\ c.log <= MaxLog2
    BY <1>0, FreeIn, BlockLog
  <2>2. ToSet(<<>>) = {}
    BY DEF ToSet
  <2>3. c.log \notin b.log .. MaxLog2
    BY <1>1, <2>1, <2>2
  <2> QED BY <1>2, <2>1, <2>3
<1>4. Tiled(n, live, fr) /\ Merged(fr)
  BY <1>0 DEF Agree
<1>5. \A c \in live : ~(Bytes(c) \subseteq Bytes(b))
  <2> SUFFICES ASSUME NEW c \in live, Bytes(c) \subseteq Bytes(b) PROVE FALSE
    OBVIOUS
  <2>1. c.ptr \in Bytes(c)
    BY <1>0, <1>4, BlockBytes DEF Tiled, Covers
  <2> QED BY <2>1
<1>6. \A c \in live \cup fr : Bytes(b) \cap Bytes(c) # {} => c.log <= b.log
  <2>1. \A c \in fr : c.log \in Nat
    BY <1>0, FreeIn, BlockLog
  <2> HIDE DEF fr
  <2> QED BY <1>2, <1>3, <2>1
<1>7. b \in fr
  <2> HIDE DEF fr
  <2> QED BY <1>0, <1>4, <1>5, <1>6, FreeWhole
<1> QED BY <1>2, <1>3, <1>7

(* For memory, blocks and calls of any size and number: held and free      *)
(* blocks never overlap and make up all the pages that fit, the bits of    *)
(* buddy.c are those of the held blocks, and no assert of it fails.        *)
THEOREM BuddyPartitioned == BuddySpec => []Partition
BY BuddyInvariant, BuddyPartition, PTL

(* buddy_malloc returns NULL only when every block of the size overlaps    *)
(* one that is held.                                                       *)
THEOREM BuddyNoFalseFailure == BuddySpec => []NoFalseFailure
BY BuddyInvariant, BuddyServes, PTL
=============================================================================
