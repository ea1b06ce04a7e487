----------------------------- MODULE Remainders -----------------------------
(* Facts about quotients and remainders, for numbers that wrap: the uids of *)
(* queries (shared/Utils.cpp) and the counters of util/Counter.h.          *)
EXTENDS Integers, TLAPS

(* A product is no smaller than its factor.                                *)
LEMMA ProductGrows ==
  ASSUME NEW n \in Nat \ {0}, NEW d \in Nat \ {0}
  PROVE  n * d \in Nat /\ n * d >= n
OBVIOUS

(* A number is taken apart in one way.                                     *)
LEMMA PartsUnique ==
  ASSUME NEW n \in Nat \ {0}, NEW a \in Int, NEW b \in Int,
         NEW r \in 0..n - 1, NEW s \in 0..n - 1, a * n + r = b * n + s
  PROVE  a = b /\ r = s
<1>1. CASE a > b
  <2>1. PICK d \in Nat \ {0} : a = b + d
    BY <1>1
  <2>2. d * n + r = s
    BY <2>1
  <2>3. d * n >= n /\ d * n \in Int
    BY ProductGrows
  <2> QED BY <2>2, <2>3
<1>2. CASE b > a
  <2>1. PICK d \in Nat \ {0} : b = a + d
    BY <1>2
  <2>2. d * n + s = r
    BY <2>1
  <2>3. d * n >= n /\ d * n \in Int
    BY ProductGrows
  <2> QED BY <2>2, <2>3
<1>3. CASE a = b
  BY <1>3
<1> QED BY <1>1, <1>2, <1>3

(* The quotient and the remainder are the parts a number was made of.      *)
LEMMA PartsOf ==
  ASSUME NEW n \in Nat \ {0}, NEW a \in Int, NEW r \in 0..n - 1
  PROVE  (a * n + r) \div n = a /\ (a * n + r) % n = r
<1> DEFINE x == a * n + r
<1>1. x \in Int
  OBVIOUS
<1> HIDE DEF x
<1>2. x \div n \in Int /\ x % n \in 0..n - 1 /\ x = (x \div n) * n + (x % n)
  BY <1>1
<1> QED BY <1>2, PartsUnique DEF x

(* A multiple has no remainder.                                            *)
LEMMA WholeOf ==
  ASSUME NEW n \in Nat \ {0}, NEW a \in Int
  PROVE  (a * n) \div n = a /\ (a * n) % n = 0
<1>1. PICK r \in 0..n - 1 : r = 0
  OBVIOUS
<1>2. a * n + r = a * n
  BY <1>1
<1> QED BY <1>1, <1>2, PartsOf

(* Counting one more with a wrap is counting one more, modulo n.           *)
LEMMA OneMore ==
  ASSUME NEW n \in Nat \ {0}, NEW x \in Nat
  PROVE  ((x % n) + 1) % n = (x + 1) % n
<1>1. x \div n \in Int /\ x % n \in 0..n - 1 /\ x = (x \div n) * n + (x % n)
  OBVIOUS
<1>2. PICK q \in Int, r \in 0..n - 1 : q = x \div n /\ r = x % n
  BY <1>1
<1>3. x = q * n + r
  BY <1>1, <1>2
<1>4. CASE r + 1 < n
  <2>1. PICK s \in 0..n - 1 : s = r + 1
    BY <1>4
  <2>2. x + 1 = q * n + s
    BY <1>3, <2>1
  <2>3. (x + 1) % n = s
    BY <2>2, PartsOf
  <2>4. 0 * n + s = s
    OBVIOUS
  <2>5. s % n = s
    BY <2>4, PartsOf
  <2> QED BY <1>2, <2>1, <2>3, <2>5
<1>5. CASE r + 1 = n
  <2>1. x + 1 = (q + 1) * n /\ q + 1 \in Int
    BY <1>3, <1>5
  <2>2. (x + 1) % n = 0
    BY <2>1, WholeOf
  <2>3. 1 * n = n /\ (1 * n) % n = 0
    BY WholeOf
  <2> QED BY <1>2, <1>5, <2>2, <2>3
<1> QED BY <1>4, <1>5
=============================================================================
