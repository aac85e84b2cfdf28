-------------------------- MODULE ArithmeticLemmas --------------------------
(***************************************************************************)
(* The facts about naturals and remainders that the proofs about the two   *)
(* ring buffers of the client-server project rest on.                      *)
(***************************************************************************)
EXTENDS Integers, WellFoundedInduction, TLAPS

\* Every non-empty set of naturals has a least element.
LEMMA LeastNat ==
  ASSUME NEW S, S \subseteq Nat, S # {}
  PROVE  \E n \in S : \A m \in S : n <= m
<1> DEFINE R == OpToRel(<, Nat)
<1>1. PICK n \in S : \A m \in S : ~ (<<m, n>> \in R)
  <2>1. IsWellFoundedOn(R, Nat)
    BY ZenonT(40), NatLessThanWellFounded
  <2> HIDE DEF R
  <2> QED BY <2>1, WFMin, Zenon
<1>2. ASSUME NEW m \in S PROVE n <= m
  <2>1. m \in Nat /\ n \in Nat
    OBVIOUS
  <2>2. m < n => <<m, n>> \in R
    BY <2>1 DEF OpToRel
  <2>3. ~ (m < n)
    <3> HIDE DEF R
    <3> QED BY <2>2, <1>1, Zenon
  <2> HIDE DEF R
  <2> QED BY <2>1, <2>3, SMT
<1> QED BY <1>2

-----------------------------------------------------------------------------

\* Different multiples of n are at least n apart.
LEMMA MultiplesApart ==
  ASSUME NEW n \in Nat, NEW q \in Int, NEW k \in Int, q < k
  PROVE  n * q \in Int /\ n * k \in Int /\ n * q + n <= n * k
<1> DEFINE d == k - q
<1>1. d \in Nat /\ d >= 1 /\ k = q + d
  OBVIOUS
<1> HIDE DEF d
<1>2. n * (q + d) = n * q + n * d
  BY <1>1
<1>3. n * d >= n
  BY <1>1
<1> QED BY <1>1, <1>2, <1>3

\* Division with remainder.
LEMMA DivMod ==
  ASSUME NEW n \in Nat, n > 0, NEW a \in Nat
  PROVE  a \div n \in Int /\ a % n \in 0..(n - 1) /\ a = n * (a \div n) + (a % n)
OBVIOUS

\* The remainder is the only one.
LEMMA ModUnique ==
  ASSUME NEW n \in Nat, n > 0, NEW a \in Nat, NEW k \in Int, NEW r \in 0..(n - 1),
         a = n * k + r
  PROVE  a % n = r
<1> DEFINE q == a \div n
           s == a % n
<1>1. q \in Int /\ s \in 0..(n - 1) /\ a = n * q + s
  BY DivMod
<1> HIDE DEF q, s
<1>2. ~ (q < k)
  <2> SUFFICES ASSUME q < k PROVE FALSE
    OBVIOUS
  <2>1. n * q \in Int /\ n * k \in Int /\ n * q + n <= n * k
    BY <1>1, MultiplesApart
  <2> QED BY <1>1, <2>1
<1>3. ~ (k < q)
  <2> SUFFICES ASSUME k < q PROVE FALSE
    OBVIOUS
  <2>1. n * q \in Int /\ n * k \in Int /\ n * k + n <= n * q
    BY <1>1, MultiplesApart
  <2> QED BY <1>1, <2>1
<1>4. q = k
  BY <1>1, <1>2, <1>3
<1>5. s = r
  BY <1>1, <1>4
<1> QED BY <1>5 DEF s

\* A number below n is its own remainder.
LEMMA ModSmall ==
  ASSUME NEW n \in Nat, n > 0, NEW a \in 0..(n - 1)
  PROVE  a % n = a
OBVIOUS

\* A step of b behind a remainder, once around the ring at most.
LEMMA ModStep ==
  ASSUME NEW n \in Nat, n > 0, NEW a \in Nat, NEW b \in Nat
  PROVE  /\ (a % n) + b < n => (a + b) % n = (a % n) + b
         /\ n <= (a % n) + b /\ (a % n) + b < 2 * n => (a + b) % n = (a % n) + b - n
<1> DEFINE q == a \div n
           s == a % n
<1>1. q \in Int /\ s \in 0..(n - 1) /\ a = n * q + s
  BY DivMod
<1> HIDE DEF q, s
<1>2. ASSUME s + b < n PROVE (a + b) % n = s + b
  <2>1. a + b = n * q + (s + b) /\ s + b \in 0..(n - 1) /\ a + b \in Nat
    BY <1>1, <1>2
  <2> QED BY <1>1, <2>1, ModUnique
<1>3. ASSUME n <= s + b, s + b < 2 * n PROVE (a + b) % n = s + b - n
  <2>1. n * (q + 1) = n * q + n /\ q + 1 \in Int
    BY <1>1
  <2>2. a + b = n * (q + 1) + (s + b - n) /\ s + b - n \in 0..(n - 1) /\ a + b \in Nat
    BY <1>1, <1>3, <2>1
  <2> QED BY ZenonT(40), <2>1, <2>2, ModUnique
<1> QED BY <1>2, <1>3 DEF s

\* Taking the remainder early changes nothing.
LEMMA ModAdd ==
  ASSUME NEW n \in Nat, n > 0, NEW a \in Nat, NEW b \in Nat
  PROVE  ((a % n) + b) % n = (a + b) % n
<1> DEFINE q == a \div n
           s == a % n
           t == (s + b) \div n
           u == (s + b) % n
<1>1. q \in Int /\ s \in 0..(n - 1) /\ a = n * q + s
  BY DivMod
<1>2. s + b \in Nat
  BY <1>1
<1>3. t \in Int /\ u \in 0..(n - 1) /\ s + b = n * t + u
  BY <1>2, DivMod
<1> HIDE DEF q, s, t, u
<1>4. n * (q + t) = n * q + n * t /\ q + t \in Int
  BY <1>1, <1>3
<1>5. a + b = n * (q + t) + u /\ a + b \in Nat
  BY <1>1, <1>3, <1>4
<1>6. (a + b) % n = u
  BY SMTT(30), <1>3, <1>4, <1>5, ModUnique
<1> QED BY <1>6 DEF u, s

\* Two numbers less than n apart have different remainders.
LEMMA ModDistinct ==
  ASSUME NEW n \in Nat, n > 0, NEW a \in Nat, NEW b \in Nat, a < b, b < a + n
  PROVE  a % n # b % n
<1> DEFINE q == a \div n
           t == b \div n
           s == a % n
           u == b % n
<1>1. q \in Int /\ s \in 0..(n - 1) /\ a = n * q + s
  BY DivMod
<1>2. t \in Int /\ u \in 0..(n - 1) /\ b = n * t + u
  BY DivMod
<1> HIDE DEF q, s, t, u
<1> SUFFICES ASSUME s = u PROVE FALSE
  BY DEF s, u
<1>3. n * q \in Int /\ n * t \in Int /\ n * q < n * t /\ n * t < n * q + n
  BY <1>1, <1>2
<1>4. CASE q < t
  BY <1>1, <1>2, <1>3, <1>4, MultiplesApart
<1>5. CASE t < q
  BY <1>1, <1>2, <1>3, <1>5, MultiplesApart
<1>6. CASE q = t
  BY <1>1, <1>2, <1>3, <1>6
<1> QED BY <1>1, <1>2, <1>4, <1>5, <1>6
=============================================================================
