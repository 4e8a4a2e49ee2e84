--------------------------- MODULE AlignmentProofs ---------------------------
(***************************************************************************)
(* Facts about the size helper, for every size and every page size, and    *)
(* the facts about natural numbers that the other proofs need.             *)
(***************************************************************************)
EXTENDS Alignment, TLAPS, WellFoundedInduction

\* Where there is a number there is a least one: what the proofs have for induction,
\* with the counterexamples as the set.
LEMMA LeastNatural ==
  ASSUME NEW S \in SUBSET Nat, S # {}
  PROVE  \E x \in S : \A y \in S : x <= y
<1> DEFINE R == OpToRel(<, Nat)
<1>1. IsWellFoundedOn(R, Nat)
  BY NatLessThanWellFounded
<1>2. \A x, y \in Nat : y < x => <<y, x>> \in R
  BY DEF OpToRel
<1> HIDE DEF R
<1>3. PICK x \in S : \A y \in S : <<y, x>> \notin R
  BY <1>1, WFMin
<1>4. \A y \in S : ~(y < x)
  BY <1>2, <1>3
<1> QED
  BY <1>4

\* Integer division, as the provers know it.
LEMMA DivMod ==
  ASSUME NEW i \in Nat, NEW n \in Nat \ {0}
  PROVE  /\ i \div n \in Nat
         /\ i = n * (i \div n) + (i % n)
         /\ i % n \in 0..(n-1)
  BY SMT

\* A multiple of n is aligned to n.
LEMMA MultipleAligned ==
  ASSUME NEW k \in Int, NEW n \in Nat \ {0}
  PROVE  (k * n) % n = 0
  BY SMT

\* roundup of misc.hxx reserves strictly more than i bytes, and at most n more:
\* a block never fills its reservation to the last byte.
LEMMA RoundupBounds ==
  ASSUME NEW i \in Nat, NEW n \in Nat \ {0}
  PROVE  /\ roundup(i, n) \in Nat
         /\ i < roundup(i, n)
         /\ roundup(i, n) <= i + n
<1> DEFINE q == i \div n
<1>1. q \in Nat /\ i = n * q + (i % n) /\ i % n \in 0..(n-1)
  BY DivMod
<1>2. (q + 1) * n = n * q + n /\ n * q \in Nat
  BY <1>1, SMT
<1> HIDE DEF q
<1>3. roundup(i, n) = n * q + n
  BY <1>2 DEF roundup, q
<1> QED
  BY <1>1, <1>2, <1>3, SMT

\* What roundup of misc.hxx returns is a multiple of n.
LEMMA RoundupAligned ==
  ASSUME NEW i \in Nat, NEW n \in Nat \ {0}
  PROVE  roundup(i, n) % n = 0
  BY DivMod, SMT DEF roundup

\* Aligned base plus aligned size: the next block starts aligned.
LEMMA SumAligned ==
  ASSUME NEW a \in Nat, NEW b \in Nat, NEW n \in Nat \ {0}, a % n = 0, b % n = 0
  PROVE  (a + b) % n = 0
<1> DEFINE p == a \div n
           q == b \div n
<1>1. p \in Nat /\ q \in Nat /\ a = n * p /\ b = n * q
  BY DivMod, SMT
<1> HIDE DEF p, q
<1>2. a + b = (p + q) * n
  BY <1>1, SMT
<1> QED
  BY <1>1, <1>2, MultipleAligned, SMT

\* There is one way to write a number as a multiple of n and a rest.
LEMMA DivModUnique ==
  ASSUME NEW k \in Nat, NEW n \in Nat \ {0}, NEW r \in 0 .. n - 1
  PROVE  (n * k + r) \div n = k /\ (n * k + r) % n = r
<1> DEFINE a == n * k + r
           q == a \div n
           s == a % n
<1>1. a \in Nat /\ n * k \in Nat
  BY SMT
<1>2. q \in Nat /\ a = n * q + s /\ s \in 0 .. n - 1
  BY <1>1, DivMod
<1>3. n * k + r = n * q + s
  BY <1>2
<1> HIDE DEF q, s
<1>4. q = k
  <2>1. n * (k - q) = n * k - n * q
    BY <1>2, SMT
  <2>2. n * (k - q) = s - r
    BY <1>1, <1>2, <1>3, <2>1, SMT
  <2>3. s - r < n /\ r - s < n
    BY <1>2
  <2>4. ASSUME k - q >= 1 PROVE FALSE
    <3>1. n * (k - q) >= n
      BY <1>2, <2>4, SMT
    <3> QED
      BY <1>2, <2>2, <2>3, <3>1
  <2>5. ASSUME q - k >= 1 PROVE FALSE
    <3>1. n * (q - k) >= n /\ n * (q - k) = n * q - n * k /\ n * q \in Nat
      BY <1>2, <2>5, SMT
    <3>2. n * (q - k) = r - s
      BY <1>1, <1>2, <1>3, <3>1, SMT
    <3> QED
      BY <1>2, <2>3, <3>1, <3>2
  <2> QED
    BY <1>2, <2>4, <2>5
<1>5. s = r
  BY <1>1, <1>2, <1>3, <1>4
<1> QED
  BY <1>4, <1>5 DEF q, s

\* Padding behind an aligned place brings a size to the next multiple of n, and not
\* beyond it.
LEMMA PadToMultiple ==
  ASSUME NEW a \in Nat, NEW size \in Nat, NEW n \in Nat \ {0}, a % n = 0
  PROVE  /\ size + ((n - ((a + size) % n)) % n) = ((size + n - 1) \div n) * n
         /\ (n - ((a + size) % n)) % n \in Nat
         /\ ((size + n - 1) \div n) * n \in Nat
         /\ size <= ((size + n - 1) \div n) * n
         /\ (((size + n - 1) \div n) * n) % n = 0
<1> DEFINE p == a \div n
           q == size \div n
           r == size % n
<1>1. p \in Nat /\ a = n * p /\ q \in Nat /\ size = n * q + r /\ r \in 0 .. n - 1
  <2>1. p \in Nat /\ a = n * p + (a % n)
    BY DivMod
  <2>2. q \in Nat /\ size = n * q + r /\ r \in 0 .. n - 1
    BY DivMod
  <2> QED
    BY <2>1, <2>2, SMT
<1> HIDE DEF p, q, r
<1>2. p + q \in Nat /\ a + size = n * (p + q) + r /\ n * q \in Nat /\ q * n = n * q
      /\ q + 1 \in Nat /\ n * (q + 1) = n * q + n /\ (q + 1) * n = n * q + n
  BY <1>1, SMT
<1>3. (a + size) % n = r
  BY <1>1, <1>2, DivModUnique
<1>4. CASE r = 0
  <2>1. (n - r) % n = 0
    <3>1. n * 1 + 0 = n /\ 0 \in 0 .. n - 1 /\ n - r = n
      BY <1>4
    <3>2. (n * 1 + 0) % n = 0
      BY <3>1, DivModUnique
    <3> QED
      BY <3>1, <3>2
  <2>2. size + n - 1 = n * q + (n - 1) /\ n - 1 \in 0 .. n - 1
    BY <1>1, <1>2, <1>4
  <2>3. (size + n - 1) \div n = q
    BY <1>1, <2>2, DivModUnique
  <2>4. (q * n) % n = 0
    BY <1>1, MultipleAligned
  <2>5. size = n * q
    BY <1>1, <1>2, <1>4
  <2> QED
    BY <1>2, <1>3, <2>1, <2>3, <2>4, <2>5
<1>5. CASE r # 0
  <2>1. (n - r) % n = n - r /\ n - r \in Nat
    <3>1. n * 0 + (n - r) = n - r /\ n - r \in 0 .. n - 1
      BY <1>1, <1>5
    <3>2. (n * 0 + (n - r)) % n = n - r
      BY <3>1, DivModUnique
    <3> QED
      BY <3>1, <3>2
  <2>2. size + n - 1 = n * (q + 1) + (r - 1) /\ r - 1 \in 0 .. n - 1
    BY <1>1, <1>2, <1>5
  <2>3. (size + n - 1) \div n = q + 1
    <3> DEFINE k == q + 1
               l == r - 1
    <3>1. k \in Nat /\ l \in 0 .. n - 1 /\ size + n - 1 = n * k + l
      BY <1>2, <2>2
    <3> HIDE DEF k, l
    <3>2. (n * k + l) \div n = k
      BY <3>1, DivModUnique
    <3> QED
      BY <3>1, <3>2 DEF k
  <2>4. ((q + 1) * n) % n = 0
    BY <1>2, MultipleAligned
  <2>5. size + (n - r) = n * q + n /\ size <= n * q + n /\ n * q + n \in Nat
    BY <1>1, <1>2
  <2> QED
    BY <1>2, <1>3, <2>1, <2>3, <2>4, <2>5
<1> QED
  BY <1>4, <1>5
=============================================================================
