------------------------------ MODULE Division -------------------------------
(***************************************************************************)
(* Facts about quotients and remainders, for divisors that are not known:  *)
(* the indices of rings whose size is a parameter, the pages of a heap     *)
(* whose page size is one.  And that sets of numbers have a least element. *)
(***************************************************************************)
EXTENDS Integers, WellFoundedInduction, TLAPS

\* Multiplication is monotonic, by at least the factor.
LEMMA Times ==
  ASSUME NEW m \in Nat \ {0}, NEW a \in Int, NEW b \in Int, a < b
  PROVE  m * a + m <= m * b
OBVIOUS

\* What % and \div mean to the provers.
LEMMA DivMod ==
  ASSUME NEW m \in Nat \ {0}, NEW x \in Nat,
         NEW d \in Int, d = x \div m, NEW r \in Int, r = x % m
  PROVE  x = m * d + r
OBVIOUS

\* The quotient of a natural number is one.
LEMMA NatQuotient ==
  ASSUME NEW m \in Nat \ {0}, NEW x \in Nat, NEW d \in Int, NEW r \in 0 .. m - 1,
         x = m * d + r
  PROVE  d \in Nat
<1>1. ASSUME d < 0 PROVE m * d + m <= m * 0
  BY <1>1, Times
<1> QED
  BY <1>1

\* Division with remainder.
LEMMA Divided ==
  ASSUME NEW m \in Nat \ {0}, NEW x \in Nat
  PROVE  \E d \in Nat, r \in 0 .. m - 1 : d = x \div m /\ r = x % m /\ x = m * d + r
<1>1. x % m \in 0 .. m - 1
  OBVIOUS
<1>2. PICK d \in Int, r \in 0 .. m - 1 : d = x \div m /\ r = x % m
  BY <1>1
<1>3. x = m * d + r
  BY <1>2, DivMod
<1>4. d \in Nat
  BY <1>3, NatQuotient
<1> QED
  BY <1>2, <1>3, <1>4

\* Quotients and remainders of numbers less than m apart.
LEMMA UniqueQuotient ==
  ASSUME NEW m \in Nat \ {0}, NEW a \in Nat, NEW b \in Nat, NEW r \in Int,
         m * a + r <= m * b + r, (m * b + r) - (m * a + r) < m
  PROVE  a = b
<1>1. ASSUME a < b PROVE m * a + m <= m * b
  BY <1>1, Times
<1>2. ASSUME b < a PROVE m * b + m <= m * a
  BY <1>2, Times
<1>3. m * a \in Int /\ m * b \in Int
  OBVIOUS
<1> QED
  BY <1>1, <1>2, <1>3

\* A sum of a multiple and a remainder.
LEMMA Quotients ==
  ASSUME NEW m \in Nat \ {0}, NEW k \in Nat, NEW r \in 0 .. m - 1
  PROVE  (m * k + r) % m = r /\ (m * k + r) \div m = k
<1>1. (m * k + r) % m = r
  OBVIOUS
<1>2. m * k + r \in Nat
  <2>1. m * k \in Nat
    OBVIOUS
  <2> QED
    BY <2>1
<1>3. PICK x \in Nat : x = m * k + r
  BY <1>2
<1>4. PICK d \in Nat, s \in 0 .. m - 1 : d = x \div m /\ s = x % m /\ x = m * d + s
  BY Divided
<1>5. s = r
  BY <1>1, <1>3, <1>4
<1>6. m * d + r = m * k + r /\ m * d \in Int /\ m * k \in Int
  BY <1>3, <1>4, <1>5
<1>7. d = k
  BY <1>6, UniqueQuotient
<1> QED
  BY <1>1, <1>3, <1>4, <1>7

\* A number below m is its own remainder.
LEMMA SmallRemainder ==
  ASSUME NEW m \in Nat \ {0}, NEW x \in 0 .. m - 1
  PROVE  x % m = x
OBVIOUS

\* Numbers less than m apart that have the same remainder are equal.
LEMMA RemaindersDiffer ==
  ASSUME NEW m \in Nat \ {0}, NEW x \in Nat, NEW y \in Nat,
         x <= y, y - x < m, x % m = y % m
  PROVE  x = y
<1>1. PICK d \in Nat, r \in 0 .. m - 1 : d = x \div m /\ r = x % m /\ x = m * d + r
  BY Divided
<1>2. PICK e \in Nat, s \in 0 .. m - 1 : e = y \div m /\ s = y % m /\ y = m * e + s
  BY Divided
<1>3. r = s
  BY <1>1, <1>2
<1>4. d = e
  BY <1>1, <1>2, <1>3, UniqueQuotient
<1> QED
  BY <1>1, <1>2, <1>3, <1>4

\* Distribution, in the form the next lemma needs.
LEMMA Products ==
  ASSUME NEW a \in Nat, NEW b \in Nat, NEW c \in Nat, NEW d \in Nat
  PROVE  (a * b) * c + a * d = a * (b * c + d) /\ b * c + d \in Nat
OBVIOUS

\* A remainder modulo m may first be taken modulo a multiple of m.
LEMMA RemainderOfRemainder ==
  ASSUME NEW m \in Nat \ {0}, NEW n \in Nat \ {0}, n % m = 0, NEW x \in Nat
  PROVE  (x % n) % m = x % m
<1>1. PICK d \in Nat, s \in 0 .. n - 1 : d = x \div n /\ s = x % n /\ x = n * d + s
  BY Divided
<1>2. PICK e \in Nat, r \in 0 .. m - 1 : e = s \div m /\ r = s % m /\ s = m * e + r
  <2>1. s \in Nat
    OBVIOUS
  <2> QED
    BY <2>1, Divided
<1>3. PICK f \in Nat, z \in 0 .. m - 1 : f = n \div m /\ z = n % m /\ n = m * f + z
  BY Divided
<1>4. n = m * f
  BY <1>3
<1>5. x = (m * f) * d + (m * e + r)
  BY <1>1, <1>2, <1>4
<1>6. /\ (m * f) * d + m * e = m * (f * d + e) /\ f * d + e \in Nat
      /\ (m * f) * d \in Int /\ m * e \in Int
  BY Products
<1>7. x = m * (f * d + e) + r
  BY <1>5, <1>6
<1>8. x % m = r
  BY <1>6, <1>7, Quotients
<1> QED
  BY <1>1, <1>2, <1>8

\* Counting on modulo m.
LEMMA NextRemainder ==
  ASSUME NEW m \in Nat \ {0}, NEW x \in Nat
  PROVE  ((x % m) + 1) % m = (x + 1) % m
<1>1. PICK d \in Nat, s \in 0 .. m - 1 : d = x \div m /\ s = x % m /\ x = m * d + s
  BY Divided
<1>2. CASE s + 1 < m
  <2>1. s + 1 \in 0 .. m - 1 /\ x + 1 = m * d + (s + 1) /\ s + 1 = m * 0 + (s + 1)
    BY <1>1, <1>2
  <2>2. (m * d + (s + 1)) % m = s + 1
    BY <2>1, Quotients
  <2>3. (m * 0 + (s + 1)) % m = s + 1
    BY <2>1, Quotients
  <2> QED
    BY <1>1, <2>1, <2>2, <2>3
<1>3. CASE s + 1 = m
  <2>1. x + 1 = m * (d + 1) + 0 /\ s + 1 = m * 1 + 0
    BY <1>1, <1>3
  <2>2. (m * (d + 1) + 0) % m = 0 /\ (m * 1 + 0) % m = 0
    BY Quotients
  <2> QED
    BY <1>1, <2>1, <2>2
<1> QED
  BY <1>2, <1>3

\* A set of natural numbers that is not empty has a least one.
LEMMA LeastNatural ==
  ASSUME NEW T \in SUBSET Nat, T # {}
  PROVE  \E x \in T : \A y \in T : x <= y
<1>1. \E x \in T : \A y \in T : ~ (<<y, x>> \in OpToRel(<, Nat))
  BY NatLessThanWellFounded, WFMin, Zenon
<1>2. PICK x \in T : \A y \in T : ~ (<<y, x>> \in OpToRel(<, Nat))
  BY <1>1
<1>3. \A y \in T : x <= y
  <2> TAKE y \in T
  <2>1. x \in Nat /\ y \in Nat
    OBVIOUS
  <2>2. ~ (y < x)
    BY <1>2, <2>1 DEF OpToRel
  <2> QED
    BY <2>1, <2>2
<1> QED
  BY <1>3
==============================================================================
