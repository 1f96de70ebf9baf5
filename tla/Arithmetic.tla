----------------------------- MODULE Arithmetic -----------------------------
(***************************************************************************)
(* Induction on numbers, and what it says of functions that are defined by *)
(* recursion.  A set takes the place of the formula that is proved, and a  *)
(* function that of the step, so that both can be instantiated.            *)
(***************************************************************************)
EXTENDS Binary, SequenceTheorems, WellFoundedInduction, TLAPS

(* A set of numbers that has 0 and with each number the next has them all. *)
LEMMA Induction ==
    ASSUME NEW T \in SUBSET Nat, 0 \in T, \A n \in T : n + 1 \in T
    PROVE  T = Nat
<1> SUFFICES ASSUME Nat \ T # {} PROVE FALSE
    OBVIOUS
<1>1. PICK x \in Nat \ T : \A y \in Nat \ T : <<y, x>> \notin OpToRel(<, Nat)
      BY NatLessThanWellFounded, WFMin
<1>2. x # 0 /\ x - 1 \in Nat /\ x - 1 < x
      OBVIOUS
<1>3. x - 1 \in T
      BY <1>1, <1>2 DEF OpToRel
<1> QED BY <1>2, <1>3

(* The same up to a bound.                                                 *)
LEMMA BoundedInduction ==
    ASSUME NEW m \in Nat, NEW T \in SUBSET (0 .. m), 0 \in T,
           \A n \in 0 .. m - 1 : n \in T => n + 1 \in T
    PROVE  T = 0 .. m
<1> DEFINE U == { n \in Nat : n <= m => n \in T }
<1>1. 0 \in U /\ \A n \in U : n + 1 \in U
      OBVIOUS
<1>2. U = Nat
  <2> HIDE DEF U
  <2>1. U \in SUBSET Nat
        BY DEF U
  <2> QED BY <1>1, <2>1, Induction
<1>3. \A n \in 0 .. m : n \in T
      BY <1>2
<1> QED BY <1>3

(* The function on 0 .. m that is x at 0 and takes the step g[k] to k.     *)
Recursive(f, S, x, m, g) ==
    /\ f = [k \in 0 .. m |-> f[k]] /\ f[0] = x
    /\ \A k \in 1 .. m : f[k] = g[k][f[k - 1]] /\ f[k - 1] \in S /\ f[k] \in S

(* A value and steps within a set define a function.                       *)
LEMMA RecursiveFunction ==
    ASSUME NEW S, NEW x \in S, NEW m \in Nat, NEW g \in [1 .. m -> [S -> S]]
    PROVE  \E f : Recursive(f, S, x, m, g)
<1> DEFINE Upto(n) == \E f \in [0 .. n -> S] :
                        \A k \in 0 .. n : f[k] = IF k = 0 THEN x ELSE g[k][f[k - 1]]
           T == { n \in 0 .. m : Upto(n) }
<1>1. 0 \in T
  <2> DEFINE h == [j \in 0 .. 0 |-> x]
  <2>1. h \in [0 .. 0 -> S] /\ \A k \in 0 .. 0 : k = 0 /\ h[k] = x
        OBVIOUS
  <2> HIDE DEF h
  <2>2. \A k \in 0 .. 0 : h[k] = IF k = 0 THEN x ELSE g[k][h[k - 1]]
        BY <2>1
  <2> QED BY <2>1, <2>2
<1>2. ASSUME NEW n \in 0 .. m - 1, n \in T
      PROVE  n + 1 \in T
  <2>1. PICK f \in [0 .. n -> S] : \A k \in 0 .. n : f[k] = IF k = 0 THEN x ELSE g[k][f[k - 1]]
        BY <1>2
  <2> DEFINE h == [k \in 0 .. n + 1 |-> IF k = n + 1 THEN g[n + 1][f[n]] ELSE f[k]]
  <2>2. g[n + 1][f[n]] \in S
    <3>1. g[n + 1] \in [S -> S] /\ f[n] \in S
          OBVIOUS
    <3> QED BY <3>1
  <2>3. h \in [0 .. n + 1 -> S]
        BY <2>2
  <2>4. \A k \in 0 .. n : h[k] = f[k]
        OBVIOUS
  <2>5. h[n + 1] = g[n + 1][h[n]]
        BY <2>4
  <2> HIDE DEF h
  <2>6. ASSUME NEW k \in 0 .. n + 1
        PROVE  h[k] = IF k = 0 THEN x ELSE g[k][h[k - 1]]
    <3>1. CASE k = n + 1
          BY <2>5, <3>1
    <3>2. CASE k # n + 1
          BY <2>1, <2>4, <3>2
    <3> QED BY <3>1, <3>2
  <2> QED BY <2>3, <2>6
<1>3. T = 0 .. m
  <2> HIDE DEF T
  <2>1. T \in SUBSET (0 .. m)
        BY DEF T
  <2> QED BY <1>1, <1>2, <2>1, BoundedInduction
<1>4. PICK f \in [0 .. m -> S] : \A k \in 0 .. m : f[k] = IF k = 0 THEN x ELSE g[k][f[k - 1]]
  <2>1. m \in T
    <3> HIDE DEF T
    <3> QED BY <1>3
  <2>2. Upto(m)
    <3> HIDE DEF Upto
    <3> QED BY <2>1
  <2> QED BY <2>2, Zenon
<1>5. f = [k \in 0 .. m |-> f[k]]
      OBVIOUS
<1>6. f[0] = x
      BY <1>4
<1>7. ASSUME NEW k \in 1 .. m
      PROVE  f[k] = g[k][f[k - 1]] /\ f[k - 1] \in S /\ f[k] \in S
      BY <1>4
<1> QED BY <1>5, <1>6, <1>7 DEF Recursive
-----------------------------------------------------------------------------
(* Powers                                                                  *)

(* A power is what its definition says, step by step.                      *)
LEMMA PowerSteps ==
    ASSUME NEW b \in Nat, NEW n \in Nat
    PROVE  \E p \in [0 .. n -> Nat] :
             p[0] = 1 /\ (\A i \in 1 .. n : p[i] = b * p[i - 1]) /\ Power(b, n) = p[n]
<1> DEFINE Q(p) == p = [i \in 0 .. n |-> IF i = 0 THEN 1 ELSE b * p[i - 1]]
           g == [k \in 1 .. n |-> [a \in Nat |-> b * a]]
           h == CHOOSE p : Q(p)
<1>1. \A a \in Nat : b * a \in Nat
      OBVIOUS
<1>2. g \in [1 .. n -> [Nat -> Nat]] /\ \A k \in 1 .. n, a \in Nat : g[k][a] = b * a
      BY <1>1
<1>3. \E p : Q(p)
  <2>1. PICK p : Recursive(p, Nat, 1, n, g)
    <3> HIDE DEF g
    <3> QED BY <1>2, RecursiveFunction
  <2>2. /\ p = [i \in 0 .. n |-> p[i]] /\ p[0] = 1
        /\ \A i \in 1 .. n : p[i] = g[i][p[i - 1]] /\ p[i - 1] \in Nat
    <3> HIDE DEF g
    <3> QED BY <2>1 DEF Recursive
  <2>3. \A i \in 1 .. n : p[i] = b * p[i - 1]
    <3> HIDE DEF g
    <3> QED BY <1>2, <2>2
  <2>4. \A i \in 0 .. n : p[i] = IF i = 0 THEN 1 ELSE b * p[i - 1]
    <3>1. \A i \in 0 .. n : i = 0 \/ i \in 1 .. n
          OBVIOUS
    <3> QED BY <2>2, <2>3, <3>1
  <2> QED BY <2>2, <2>4
<1>4. Q(h)
  <2> HIDE DEF Q
  <2> QED BY <1>3
<1>5. Power(b, n) = h[n]
      BY DEF Power
<1> HIDE DEF h
<1>6. h[0] = 1 /\ \A i \in 1 .. n : h[i] = b * h[i - 1]
      BY <1>4
<1> DEFINE T == { k \in 0 .. n : h[k] \in Nat }
<1>7. T = 0 .. n
  <2>1. 0 \in T
        BY <1>6
  <2>2. ASSUME NEW k \in 0 .. n - 1, k \in T
        PROVE  k + 1 \in T
        BY <1>1, <1>6, <2>2
  <2>3. T \in SUBSET (0 .. n)
        OBVIOUS
  <2> HIDE DEF T
  <2> QED BY <2>1, <2>2, <2>3, BoundedInduction
<1>8. h \in [0 .. n -> Nat]
  <2>1. \A k \in 0 .. n : h[k] \in Nat
        BY <1>7
  <2>2. h = [i \in 0 .. n |-> h[i]]
        BY <1>4
  <2> QED BY <2>1, <2>2
<1> QED BY <1>5, <1>6, <1>8

(* Each power is the one before it times b.                                *)
LEMMA PowerFact ==
    ASSUME NEW b \in Nat
    PROVE  /\ Power(b, 0) = 1
           /\ \A n \in Nat : Power(b, n) \in Nat /\ Power(b, n + 1) = b * Power(b, n)
<1>1. Power(b, 0) = 1
      BY PowerSteps
<1>2. ASSUME NEW n \in Nat
      PROVE  Power(b, n) \in Nat /\ Power(b, n + 1) = b * Power(b, n)
  <2>1. PICK p \in [0 .. n -> Nat] :
          p[0] = 1 /\ (\A i \in 1 .. n : p[i] = b * p[i - 1]) /\ Power(b, n) = p[n]
        BY PowerSteps
  <2>2. PICK q \in [0 .. n + 1 -> Nat] :
          /\ q[0] = 1 /\ (\A i \in 1 .. n + 1 : q[i] = b * q[i - 1])
          /\ Power(b, n + 1) = q[n + 1]
    <3>1. n + 1 \in Nat
          OBVIOUS
    <3> QED BY <3>1, PowerSteps
  <2> DEFINE T == { k \in 0 .. n : p[k] = q[k] }
  <2>3. 0 \in T
        BY <2>1, <2>2
  <2>4. ASSUME NEW k \in 0 .. n - 1, k \in T
        PROVE  k + 1 \in T
    <3>1. p[k + 1] = b * p[k] /\ q[k + 1] = b * q[k]
          BY SMTT(30), <2>1, <2>2
    <3> QED BY <2>4, <3>1
  <2>5. T = 0 .. n
    <3>1. T \in SUBSET (0 .. n)
          OBVIOUS
    <3> HIDE DEF T
    <3> QED BY <2>3, <2>4, <3>1, BoundedInduction
  <2>6. p[n] = q[n]
        BY <2>5
  <2>7. q[n + 1] = b * q[n]
        BY <2>2
  <2> QED BY <2>1, <2>2, <2>6, <2>7
<1> QED BY <1>1, <1>2

(* The powers of a positive number are positive.                           *)
LEMMA PowerPositive ==
    ASSUME NEW b \in Nat \ {0}, NEW n \in Nat
    PROVE  Power(b, n) \in Nat \ {0}
<1> DEFINE T == { k \in Nat : Power(b, k) \in Nat \ {0} }
<1>1. 0 \in T
      BY PowerFact
<1>2. ASSUME NEW k \in T PROVE k + 1 \in T
  <2>1. k \in Nat /\ Power(b, k) \in Nat \ {0}
        OBVIOUS
  <2>2. Power(b, k + 1) = b * Power(b, k)
        BY <2>1, PowerFact
  <2>3. \A x \in Nat \ {0} : b * x \in Nat \ {0}
        OBVIOUS
  <2> QED BY <2>1, <2>2, <2>3
<1>3. T = Nat
  <2>1. T \in SUBSET Nat
        OBVIOUS
  <2> HIDE DEF T
  <2> QED BY <1>1, <1>2, <2>1, Induction
<1> QED BY <1>3

(* Exponents add up.                                                       *)
LEMMA PowerSum ==
    ASSUME NEW b \in Nat, NEW m \in Nat, NEW n \in Nat
    PROVE  Power(b, m + n) = Power(b, m) * Power(b, n)
<1> DEFINE T == { k \in Nat : Power(b, m + k) = Power(b, m) * Power(b, k) }
<1>0. Power(b, m) \in Nat
      BY PowerFact
<1>1. 0 \in T
      BY <1>0, PowerFact
<1>2. ASSUME NEW k \in T PROVE k + 1 \in T
  <2>1. k \in Nat /\ m + k \in Nat /\ m + (k + 1) = (m + k) + 1
        OBVIOUS
  <2>2. /\ Power(b, (m + k) + 1) = b * Power(b, m + k)
        /\ Power(b, k + 1) = b * Power(b, k) /\ Power(b, k) \in Nat
        BY <2>1, PowerFact
  <2>3. \A x, y \in Nat : b * (x * y) = x * (b * y)
        OBVIOUS
  <2> QED BY <1>0, <2>1, <2>2, <2>3
<1>3. T = Nat
  <2>1. T \in SUBSET Nat
        OBVIOUS
  <2> HIDE DEF T
  <2> QED BY <1>1, <1>2, <2>1, Induction
<1> QED BY <1>3

(* Powers of two, which are what words are made of.                        *)
LEMMA Doubling ==
    /\ Power(2, 0) = 1 /\ Power(2, 1) = 2
    /\ \A n \in Nat : Power(2, n) \in Nat \ {0} /\ Power(2, n + 1) = 2 * Power(2, n)
<1>1. Power(2, 0) = 1 /\ \A n \in Nat : Power(2, n + 1) = 2 * Power(2, n)
      BY PowerFact
<1>2. \A n \in Nat : Power(2, n) \in Nat \ {0}
      BY PowerPositive
<1>3. Power(2, 0 + 1) = 2
      BY <1>1
<1> QED BY <1>1, <1>2, <1>3

(* Powers of powers of two.                                                *)
LEMMA PowerPower ==
    ASSUME NEW m \in Nat, NEW n \in Nat
    PROVE  Power(Power(2, m), n) = Power(2, m * n)
<1> DEFINE T == { k \in Nat : Power(Power(2, m), k) = Power(2, m * k) }
           b == Power(2, m)
<1>0. b \in Nat
      BY Doubling
<1>1. 0 \in T
  <2>1. m * 0 = 0 /\ Power(b, 0) = 1
        BY <1>0, PowerFact
  <2> QED BY <2>1, Doubling
<1>2. ASSUME NEW k \in T PROVE k + 1 \in T
  <2>1. k \in Nat /\ m * k \in Nat /\ m * (k + 1) = m + m * k
        OBVIOUS
  <2>2. Power(b, k + 1) = b * Power(b, k) /\ Power(2, m + m * k) = b * Power(2, m * k)
        BY <1>0, <2>1, PowerFact, PowerSum
  <2> QED BY <2>1, <2>2
<1>3. T = Nat
  <2>1. T \in SUBSET Nat
        OBVIOUS
  <2> HIDE DEF T
  <2> QED BY <1>1, <1>2, <2>1, Induction
<1> QED BY <1>3

(* They grow.                                                              *)
LEMMA PowerGrows ==
    ASSUME NEW b \in Nat \ {0}, NEW m \in Nat, NEW n \in Nat, m <= n
    PROVE  /\ Power(b, m) <= Power(b, n)
           /\ Power(b, n) = Power(b, m) * Power(b, n - m)
<1>1. n - m \in Nat /\ n = m + (n - m)
      OBVIOUS
<1>2. Power(b, n) = Power(b, m) * Power(b, n - m)
      BY <1>1, PowerSum
<1>3. Power(b, m) \in Nat /\ Power(b, n - m) \in Nat \ {0}
      BY <1>1, PowerPositive
<1>4. \A x \in Nat, y \in Nat \ {0} : x <= x * y
      OBVIOUS
<1> QED BY <1>2, <1>3, <1>4
-----------------------------------------------------------------------------
(* Division with remainder, and that it is unique.                         *)
LEMMA DivMod ==
    ASSUME NEW n \in Nat \ {0}, NEW a \in Int
    PROVE  a % n \in 0 .. n - 1 /\ a \div n \in Int /\ a = n * (a \div n) + (a % n)
<1> DEFINE q == a \div n
           m == a % n
<1>1. q \in Int /\ m \in 0 .. n - 1
      OBVIOUS
<1>2. a = q * n + m
      BY SMTT(20)
<1> HIDE DEF q, m
<1>3. n * q = q * n /\ n * q \in Int
      BY <1>1
<1>4. a = n * q + m
      BY <1>1, <1>2, <1>3
<1> QED BY <1>1, <1>4 DEF q, m

LEMMA ModUnique ==
    ASSUME NEW n \in Nat \ {0}, NEW q \in Int, NEW b \in 0 .. n - 1
    PROVE  (n * q + b) % n = b
<1> DEFINE a == n * q + b
<1> DEFINE p == a \div n
<1>1. a \in Int
      OBVIOUS
<1>2. a % n \in 0 .. n - 1 /\ p \in Int /\ a = n * p + (a % n)
  <2>1. \A i \in Int : i % n \in 0 .. n - 1 /\ i \div n \in Int /\ i = n * (i \div n) + (i % n)
        BY DivMod
  <2> HIDE DEF a
  <2> QED BY <1>1, <2>1
<1>3. n * (p - q) = b - (a % n)
      BY <1>2
<1>4. CASE p = q
      BY <1>2, <1>4
<1>5. CASE p >= q + 1
  <2>1. n * (p - q) >= n
        BY <1>2, <1>5
  <2> QED BY <1>2, <1>3, <2>1
<1>6. CASE q >= p + 1
  <2>1. n * (q - p) >= n
        BY <1>2, <1>6
  <2>2. n * (p - q) = 0 - n * (q - p)
        BY <1>2
  <2> QED BY <1>2, <1>3, <2>1, <2>2
<1> QED BY <1>2, <1>4, <1>5, <1>6

(* The same for numbers and their quotient.                                *)
LEMMA DivFact ==
    ASSUME NEW a \in Nat, NEW n \in Nat \ {0}
    PROVE  a \div n \in Nat /\ a % n \in 0 .. n - 1 /\ a = n * (a \div n) + (a % n)
<1> DEFINE q == a \div n
           m == a % n
<1>1. m \in 0 .. n - 1 /\ q \in Int /\ a = n * q + m
      BY DivMod
<1> HIDE DEF q, m
<1>2. q >= 0
  <2>1. CASE q <= -1
    <3>1. n * q <= -n
          BY <1>1, <2>1
    <3> QED BY <1>1, <3>1
  <2> QED BY <1>1, <2>1
<1> QED BY <1>1, <1>2 DEF q, m

LEMMA DivUnique ==
    ASSUME NEW n \in Nat \ {0}, NEW q \in Int, NEW b \in 0 .. n - 1
    PROVE  (n * q + b) \div n = q /\ (n * q + b) % n = b
<1> DEFINE a == n * q + b
           p == a \div n
           m == a % n
<1>1. a \in Int
      OBVIOUS
<1>2. m = b
      BY ModUnique, Zenon
<1>3. p \in Int /\ m \in Int /\ a = n * p + m
  <2> HIDE DEF a
  <2> QED BY <1>1, DivMod
<1>4. n * q = n * p
  <2> HIDE DEF p, m
  <2> QED BY <1>2, <1>3
<1>5. q = p
  <2> HIDE DEF p, m
  <2>1. CASE p >= q + 1
    <3>1. n * p >= n * q + n
          BY <1>3, <2>1
    <3> QED BY <1>3, <1>4, <3>1
  <2>2. CASE q >= p + 1
    <3>1. n * q >= n * p + n
          BY <1>3, <2>2
    <3> QED BY <1>3, <1>4, <3>1
  <2> QED BY <1>3, <2>1, <2>2
<1> QED BY <1>2, <1>5

-----------------------------------------------------------------------------
(* Bits                                                                    *)

(* A bit, and what it adds to the bits below it.                           *)
LEMMA LowBits ==
    ASSUME NEW x \in Nat, NEW k \in Nat
    PROVE  /\ Bit(x, k) \in {0, 1}
           /\ x % Power(2, k) \in Nat
           /\ x % Power(2, k + 1) = (x % Power(2, k)) + Power(2, k) * Bit(x, k)
<1> DEFINE d == Power(2, k)
           q == x \div d
           r == x % d
           h == q \div 2
           b == q % 2
<1>1. d \in Nat \ {0} /\ Power(2, k + 1) = 2 * d
      BY Doubling
<1>2. q \in Nat /\ r \in 0 .. d - 1 /\ x = d * q + r
  <2> HIDE DEF d
  <2> QED BY <1>1, DivFact
<1>3. h \in Nat /\ b \in 0 .. 1 /\ q = 2 * h + b
  <2> HIDE DEF q
  <2> QED BY <1>2, DivFact
<1>4. b = Bit(x, k)
      BY DEF Bit
<1> HIDE DEF d, q, r, h, b
<1>5. d * q = (2 * d) * h + d * b
      BY <1>1, <1>2, <1>3
<1>6. d * b + r \in 0 .. 2 * d - 1
  <2>1. b = 0 \/ b = 1
        BY <1>3
  <2> QED BY <1>1, <1>2, <2>1
<1>7. x = (2 * d) * h + (d * b + r)
  <2>1. (2 * d) * h \in Nat /\ d * b \in Nat
        BY <1>1, <1>3
  <2> QED BY <1>2, <1>5, <2>1
<1>8. ((2 * d) * h + (d * b + r)) % (2 * d) = d * b + r
  <2>1. 2 * d \in Nat \ {0} /\ h \in Int
        BY <1>1, <1>3
  <2> QED BY <1>6, <2>1, DivUnique
<1>9. x % Power(2, k + 1) = r + d * b
  <2>1. d * b \in Nat
        BY <1>1, <1>3
  <2> QED BY <1>1, <1>2, <1>7, <1>8, <2>1
<1> QED BY <1>2, <1>3, <1>4, <1>9 DEF d, r

(* A number has no bits beyond its size, and a multiple none below.        *)
LEMMA NoHighBits ==
    ASSUME NEW x \in Nat, NEW k \in Nat, x < Power(2, k), NEW i \in Nat, k <= i
    PROVE  x % Power(2, i) = x /\ Bit(x, i) = 0
<1> DEFINE d == Power(2, i)
<1>1. d \in Nat \ {0} /\ Power(2, k) <= d /\ Power(2, k) \in Nat
      BY Doubling, PowerGrows
<1>2. x \in 0 .. d - 1
      BY <1>1
<1> HIDE DEF d
<1>3. d * 0 + x = x
      BY <1>1
<1>4. x \div d = 0 /\ x % d = x
      BY <1>1, <1>2, <1>3, DivUnique
<1>5. Bit(x, i) = 0
      BY <1>4 DEF Bit, d
<1> QED BY <1>4, <1>5 DEF d

LEMMA NoLowBits ==
    ASSUME NEW c \in Nat, NEW k \in Nat, NEW i \in 0 .. k - 1
    PROVE  Bit(Power(2, k) * c, i) = 0
<1> DEFINE d == Power(2, i)
           e == Power(2, k - i - 1)
<1>1. k - i - 1 \in Nat /\ k - i \in Nat /\ k - i = (k - i - 1) + 1 /\ k = i + (k - i)
      OBVIOUS
<1>2. d \in Nat \ {0} /\ e \in Nat /\ Power(2, k - i) = 2 * e
      BY <1>1, Doubling
<1>3. Power(2, k) = d * (2 * e)
  <2>1. Power(2, i + (k - i)) = Power(2, i) * Power(2, k - i)
        BY <1>1, PowerSum
  <2> QED BY <1>1, <1>2, <2>1
<1> HIDE DEF d, e
<1>4. Power(2, k) * c = d * (2 * (e * c)) + 0 /\ e * c \in Nat
      BY <1>2, <1>3
<1>5. (d * (2 * (e * c)) + 0) \div d = 2 * (e * c)
  <2>1. 2 * (e * c) \in Int /\ 0 \in 0 .. d - 1
        BY <1>2, <1>4
  <2> QED BY <1>2, <2>1, DivUnique
<1>6. (2 * (e * c)) % 2 = 0
  <2> DEFINE n == e * c
             x == 2 * n
  <2>1. n \in Nat
        BY <1>4
  <2> HIDE DEF n
  <2>2. x \in Nat
        BY <2>1
  <2>3. x = 2 * n
        OBVIOUS
  <2> HIDE DEF x
  <2>4. x % 2 \in 0 .. 1 /\ x \div 2 \in Nat /\ x = 2 * (x \div 2) + (x % 2)
        BY <2>2, DivFact
  <2>5. x % 2 = 0
        BY <2>1, <2>3, <2>4
  <2> QED BY <2>5 DEF x, n
<1> QED BY <1>4, <1>5, <1>6 DEF Bit, d
(* The bits that are or-ed, one by one.                                    *)
OrSteps(f, a, b, w) ==
    /\ f \in [0 .. w -> Nat] /\ f[0] = 0 /\ BitOr(a, b, w) = f[w]
    /\ \A i \in 0 .. w - 1 :
         f[i + 1] = f[i] + (IF Bit(a, i) + Bit(b, i) > 0 THEN Power(2, i) ELSE 0)

LEMMA BitOrSteps ==
    ASSUME NEW a \in Nat, NEW b \in Nat, NEW w \in Nat
    PROVE  \E f : OrSteps(f, a, b, w)
<1> DEFINE step(i) == IF Bit(a, i) + Bit(b, i) > 0 THEN Power(2, i) ELSE 0
           Q(f) == f = [i \in 0 .. w |-> IF i = 0 THEN 0 ELSE f[i - 1] + step(i - 1)]
           g == [k \in 1 .. w |-> [n \in Nat |-> n + step(k - 1)]]
           h == CHOOSE f : Q(f)
<1>1. \A i \in Nat : step(i) \in Nat
      BY Doubling
<1>2. g \in [1 .. w -> [Nat -> Nat]] /\ \A k \in 1 .. w, n \in Nat : g[k][n] = n + step(k - 1)
  <2> HIDE DEF step
  <2>1. \A k \in 1 .. w, n \in Nat : n + step(k - 1) \in Nat
        BY <1>1
  <2> QED BY <2>1
<1> HIDE DEF step
<1>3. \E f : Q(f)
  <2>1. PICK f : Recursive(f, Nat, 0, w, g)
    <3> HIDE DEF g
    <3> QED BY <1>2, RecursiveFunction
  <2>2. /\ f = [i \in 0 .. w |-> f[i]] /\ f[0] = 0
        /\ \A i \in 1 .. w : f[i] = g[i][f[i - 1]] /\ f[i - 1] \in Nat
    <3> HIDE DEF g
    <3> QED BY <2>1 DEF Recursive
  <2>3. \A i \in 1 .. w : f[i] = f[i - 1] + step(i - 1)
    <3> HIDE DEF g
    <3> QED BY <1>2, <2>2
  <2>4. \A i \in 0 .. w : f[i] = IF i = 0 THEN 0 ELSE f[i - 1] + step(i - 1)
    <3>1. \A i \in 0 .. w : i = 0 \/ i \in 1 .. w
          OBVIOUS
    <3> QED BY <2>2, <2>3, <3>1
  <2>5. [i \in 0 .. w |-> f[i]] = [i \in 0 .. w |-> IF i = 0 THEN 0 ELSE f[i - 1] + step(i - 1)]
        BY <2>4
  <2>6. Q(f)
        BY <2>2, <2>5
  <2> QED BY <2>6
<1>4. Q(h)
  <2> HIDE DEF Q
  <2> QED BY <1>3
<1>5. BitOr(a, b, w) = h[w]
      BY DEF BitOr, step
<1> HIDE DEF h
<1>6. h[0] = 0 /\ \A i \in 1 .. w : h[i] = h[i - 1] + step(i - 1)
      BY <1>4
<1>7. \A i \in 0 .. w - 1 : h[i + 1] = h[i] + step(i)
  <2> TAKE i \in 0 .. w - 1
  <2>1. i + 1 \in 1 .. w /\ (i + 1) - 1 = i
        OBVIOUS
  <2>2. h[i + 1] = h[(i + 1) - 1] + step((i + 1) - 1)
        BY <1>6, <2>1
  <2> QED BY <2>1, <2>2
<1> DEFINE T == { k \in 0 .. w : h[k] \in Nat }
<1>8. T = 0 .. w
  <2>1. 0 \in T
        BY <1>6
  <2>2. ASSUME NEW k \in 0 .. w - 1, k \in T
        PROVE  k + 1 \in T
    <3>1. h[k + 1] = h[k] + step(k) /\ step(k) \in Nat
          BY <1>1, <1>7
    <3> QED BY <2>2, <3>1
  <2>3. T \in SUBSET (0 .. w)
        OBVIOUS
  <2> HIDE DEF T
  <2> QED BY <2>1, <2>2, <2>3, BoundedInduction
<1>9. h \in [0 .. w -> Nat]
  <2>1. \A k \in 0 .. w : h[k] \in Nat
        BY <1>8
  <2>2. h = [i \in 0 .. w |-> h[i]]
        BY <1>4
  <2> QED BY <2>1, <2>2
<1> QED BY <1>5, <1>6, <1>7, <1>9 DEF step, OrSteps

(* Words that share no bit are or-ed by adding them.                       *)
Disjoint(a, b, w) == \A i \in 0 .. w - 1 : Bit(a, i) = 0 \/ Bit(b, i) = 0

LEMMA BitOrAdds ==
    ASSUME NEW a \in Nat, NEW b \in Nat, NEW w \in Nat, Disjoint(a, b, w)
    PROVE  BitOr(a, b, w) = (a % Power(2, w)) + (b % Power(2, w))
<1>0. PICK f : OrSteps(f, a, b, w)
      BY BitOrSteps, Zenon
<1>1. /\ f \in [0 .. w -> Nat] /\ f[0] = 0 /\ BitOr(a, b, w) = f[w]
      /\ \A i \in 0 .. w - 1 :
           f[i + 1] = f[i] + (IF Bit(a, i) + Bit(b, i) > 0 THEN Power(2, i) ELSE 0)
      BY <1>0 DEF OrSteps
<1> DEFINE T == { k \in 0 .. w : f[k] = (a % Power(2, k)) + (b % Power(2, k)) }
<1>2. 0 \in T
  <2>1. Power(2, 0) = 1 /\ a % 1 = 0 /\ b % 1 = 0
        BY Doubling
  <2> QED BY <1>1, <2>1
<1>3. ASSUME NEW k \in 0 .. w - 1, k \in T
      PROVE  k + 1 \in T
  <2> DEFINE d == Power(2, k)
             x == Bit(a, k)
             y == Bit(b, k)
  <2>0. k \in Nat
        OBVIOUS
  <2>1. f[k] = (a % d) + (b % d)
        BY <1>3
  <2>2. f[k + 1] = f[k] + (IF x + y > 0 THEN d ELSE 0)
        BY <1>1
  <2>3. /\ x \in {0, 1} /\ a % d \in Nat
        /\ a % Power(2, k + 1) = (a % d) + d * x
        BY <2>0, LowBits
  <2>4. /\ y \in {0, 1} /\ b % d \in Nat
        /\ b % Power(2, k + 1) = (b % d) + d * y
        BY <2>0, LowBits
  <2>5. x = 0 \/ y = 0
        BY DEF Disjoint
  <2>6. d \in Nat \ {0}
        BY <2>0, Doubling
  <2> HIDE DEF d, x, y
  <2>7. f[k + 1] = (a % Power(2, k + 1)) + (b % Power(2, k + 1))
    <3> DEFINE r == a % d
               s == b % d
    <3>0. r \in Nat /\ s \in Nat
          BY <2>3, <2>4
    <3>1. f[k + 1] = (r + s) + (IF x + y > 0 THEN d ELSE 0)
          BY <2>1, <2>2
    <3>2. a % Power(2, k + 1) = r + d * x /\ b % Power(2, k + 1) = s + d * y
          BY <2>3, <2>4
    <3> HIDE DEF r, s
    <3>3. CASE x = 0 /\ y = 0
          BY <2>6, <3>0, <3>1, <3>2, <3>3
    <3>4. CASE x = 1 /\ y = 0
          BY <2>6, <3>0, <3>1, <3>2, <3>4
    <3>5. CASE x = 0 /\ y = 1
          BY <2>6, <3>0, <3>1, <3>2, <3>5
    <3> QED BY <2>3, <2>4, <2>5, <3>3, <3>4, <3>5
  <2> QED BY <2>7
<1>4. T = 0 .. w
  <2>1. T \in SUBSET (0 .. w)
        OBVIOUS
  <2> HIDE DEF T
  <2> QED BY <1>2, <1>3, <2>1, BoundedInduction
<1> QED BY <1>1, <1>4

(* In particular a number below a power of two and a multiple of it.       *)
LEMMA BitOrDisjoint ==
    ASSUME NEW a \in Nat, NEW c \in Nat, NEW w \in Nat, NEW k \in Nat,
           a < Power(2, k), a < Power(2, w), Power(2, k) * c < Power(2, w)
    PROVE  /\ BitOr(a, Power(2, k) * c, w) = a + Power(2, k) * c
           /\ BitOr(Power(2, k) * c, a, w) = Power(2, k) * c + a
<1> DEFINE b == Power(2, k) * c
<1>1. b \in Nat
      BY Doubling
<1>2. ASSUME NEW i \in 0 .. w - 1
      PROVE  Bit(a, i) = 0 \/ Bit(b, i) = 0
  <2>1. CASE k <= i
        BY <2>1, NoHighBits
  <2>2. CASE i < k
    <3>1. i \in 0 .. k - 1
          BY <2>2
    <3> QED BY <3>1, NoLowBits
  <2> QED BY <2>1, <2>2
<1>3. a % Power(2, w) = a /\ b % Power(2, w) = b
  <2>1. b < Power(2, w)
        OBVIOUS
  <2> HIDE DEF b
  <2> QED BY <1>1, <2>1, NoHighBits
<1> HIDE DEF b
<1>4. Disjoint(a, b, w) /\ Disjoint(b, a, w)
      BY <1>2 DEF Disjoint
<1>5. BitOr(a, b, w) = a + b
      BY <1>1, <1>3, <1>4, BitOrAdds
<1>6. BitOr(b, a, w) = b + a
      BY <1>1, <1>3, <1>4, BitOrAdds
<1> QED BY <1>5, <1>6 DEF b

(* A number of j bits put above one of k bits makes one of k + j bits.     *)
LEMMA Stacked ==
    ASSUME NEW k \in Nat, NEW j \in Nat, NEW e \in Nat, NEW c \in Nat,
           e < Power(2, k), c < Power(2, j)
    PROVE  /\ Power(2, k) * c \in Nat /\ c * Power(2, k) = Power(2, k) * c
           /\ e + Power(2, k) * c < Power(2, k + j)
<1> DEFINE x == Power(2, k)
           y == Power(2, j)
<1>1. x \in Nat /\ y \in Nat /\ Power(2, k + j) = x * y
      BY Doubling, PowerSum
<1>2. c <= y - 1
      BY <1>1
<1> HIDE DEF x, y
<1>3. x * c <= x * (y - 1)
      BY <1>1, <1>2
<1>4. x * (y - 1) = x * y - x
      BY <1>1
<1>5. x * c \in Nat /\ c * x = x * c /\ x * y \in Nat
      BY <1>1
<1>6. e + x * c < x * y
      BY <1>1, <1>3, <1>4, <1>5 DEF x
<1> QED BY <1>1, <1>5, <1>6 DEF x
-----------------------------------------------------------------------------
(* Numbers in figures                                                      *)

(* The values of the beginnings of a sequence of figures.                  *)
Values(f, s, b) ==
    f[0] = 0 /\ \A i \in 1 .. Len(s) : f[i] = f[i - 1] * b + s[i]

(* The value of a sequence of figures comes about step by step.            *)
LEMMA PositionalSteps ==
    ASSUME NEW s \in Seq(Nat), NEW b \in Nat
    PROVE  \E f \in [0 .. Len(s) -> Nat] : Values(f, s, b) /\ Positional(s, b) = f[Len(s)]
<1> DEFINE n == Len(s)
           Q(f) == f = [i \in 0 .. n |-> IF i = 0 THEN 0 ELSE f[i - 1] * b + s[i]]
           g == [k \in 1 .. n |-> [a \in Nat |-> a * b + s[k]]]
           h == CHOOSE f : Q(f)
<1>0. n \in Nat /\ \A i \in 1 .. n : s[i] \in Nat
      BY LenProperties, ElementOfSeq
<1>1. \A a \in Nat, k \in 1 .. n : a * b + s[k] \in Nat
  <2> TAKE a \in Nat, k \in 1 .. n
  <2>1. s[k] \in Nat /\ a * b \in Nat
        BY <1>0
  <2> QED BY <2>1
<1>2. g \in [1 .. n -> [Nat -> Nat]] /\ \A k \in 1 .. n, a \in Nat : g[k][a] = a * b + s[k]
      BY <1>1
<1>3. \E f : Q(f)
  <2>1. PICK f : Recursive(f, Nat, 0, n, g)
    <3> HIDE DEF g, n
    <3> QED BY <1>0, <1>2, RecursiveFunction
  <2>2. /\ f = [i \in 0 .. n |-> f[i]] /\ f[0] = 0
        /\ \A i \in 1 .. n : f[i] = g[i][f[i - 1]] /\ f[i - 1] \in Nat
    <3> HIDE DEF g, n
    <3> QED BY <2>1 DEF Recursive
  <2>3. \A i \in 1 .. n : f[i] = f[i - 1] * b + s[i]
    <3> HIDE DEF g, n
    <3> QED BY <1>2, <2>2
  <2>4. \A i \in 0 .. n : f[i] = IF i = 0 THEN 0 ELSE f[i - 1] * b + s[i]
    <3>1. \A i \in 0 .. n : i = 0 \/ i \in 1 .. n
          BY <1>0
    <3> QED BY <2>2, <2>3, <3>1
  <2>5. f = [i \in 0 .. n |-> f[i]]
        BY <2>2
  <2> HIDE DEF n
  <2>6. f = [i \in 0 .. n |-> IF i = 0 THEN 0 ELSE f[i - 1] * b + s[i]]
        BY <2>4, <2>5, Zenon
  <2> QED BY <2>6 DEF n
<1>4. Q(h)
  <2> HIDE DEF Q
  <2> QED BY <1>3
<1>5. Positional(s, b) = h[n]
      BY DEF Positional
<1> HIDE DEF h
<1>6. h[0] = 0 /\ \A i \in 1 .. n : h[i] = h[i - 1] * b + s[i]
      BY <1>0, <1>4
<1> DEFINE T == { k \in 0 .. n : h[k] \in Nat }
<1>7. T = 0 .. n
  <2>1. 0 \in T
        BY <1>0, <1>6
  <2>2. ASSUME NEW k \in 0 .. n - 1, k \in T
        PROVE  k + 1 \in T
    <3>1. k + 1 \in 1 .. n /\ (k + 1) - 1 = k /\ k + 1 \in 0 .. n /\ h[k] \in Nat
          BY <1>0, <2>2
    <3>2. h[k + 1] = h[k] * b + s[k + 1]
          BY <1>6, <3>1
    <3> QED BY <1>1, <3>1, <3>2
  <2>3. T \in SUBSET (0 .. n)
        OBVIOUS
  <2> HIDE DEF T, n
  <2> QED BY <1>0, <2>1, <2>2, <2>3, BoundedInduction
<1>8. h \in [0 .. n -> Nat]
  <2>1. \A k \in 0 .. n : h[k] \in Nat
        BY <1>7
  <2>2. h = [i \in 0 .. n |-> h[i]]
        BY <1>4
  <2> QED BY <2>1, <2>2
<1> QED BY <1>5, <1>6, <1>8 DEF Values

(* Any function that takes these steps ends with the number.               *)
LEMMA PositionalOf ==
    ASSUME NEW s \in Seq(Nat), NEW b \in Nat, NEW f, Values(f, s, b)
    PROVE  Positional(s, b) = f[Len(s)] /\ Positional(s, b) \in Nat
<1>1. PICK h \in [0 .. Len(s) -> Nat] : Values(h, s, b) /\ Positional(s, b) = h[Len(s)]
      BY PositionalSteps
<1> DEFINE n == Len(s)
           T == { k \in 0 .. n : f[k] = h[k] }
<1>2. n \in Nat
      BY LenProperties
<1>3. f[0] = 0 /\ h[0] = 0
      BY <1>1 DEF Values
<1>4. /\ \A i \in 1 .. n : f[i] = f[i - 1] * b + s[i]
      /\ \A i \in 1 .. n : h[i] = h[i - 1] * b + s[i]
      BY <1>1 DEF Values
<1> HIDE DEF n
<1>5. T = 0 .. n
  <2>1. 0 \in T
        BY <1>2, <1>3
  <2>2. ASSUME NEW k \in 0 .. n - 1, k \in T
        PROVE  k + 1 \in T
    <3>1. k + 1 \in 1 .. n /\ (k + 1) - 1 = k /\ k + 1 \in 0 .. n /\ f[k] = h[k]
          BY <1>2, <2>2
    <3>2. f[k + 1] = f[k] * b + s[k + 1] /\ h[k + 1] = h[k] * b + s[k + 1]
          BY <1>4, <3>1
    <3> QED BY <3>1, <3>2
  <2>3. T \in SUBSET (0 .. n)
        OBVIOUS
  <2> HIDE DEF T
  <2> QED BY <1>2, <2>1, <2>2, <2>3, BoundedInduction
<1>6. n \in T
  <2> HIDE DEF T
  <2> QED BY <1>2, <1>5
<1>7. f[n] = h[n]
      BY <1>6
<1>8. h[n] \in Nat
      BY <1>1, <1>2 DEF n
<1> QED BY <1>1, <1>7, <1>8 DEF n

(* One sequence after another.                                             *)
LEMMA PositionalConcat ==
    ASSUME NEW s \in Seq(Nat), NEW t \in Seq(Nat), NEW b \in Nat
    PROVE  /\ Positional(s, b) \in Nat /\ Positional(t, b) \in Nat
           /\ Positional(s \o t, b) = Positional(s, b) * Power(b, Len(t)) + Positional(t, b)
<1> DEFINE m == Len(s)
           n == Len(t)
           u == s \o t
           P(i) == Power(b, i)
<1>1. /\ m \in Nat /\ n \in Nat /\ u \in Seq(Nat) /\ Len(u) = m + n
      /\ \A i \in 1 .. m + n : u[i] = IF i <= m THEN s[i] ELSE t[i - m]
      BY LenProperties, ConcatProperties
<1>2. PICK f \in [0 .. m -> Nat] : Values(f, s, b) /\ Positional(s, b) = f[m]
      BY PositionalSteps
<1>3. PICK h \in [0 .. n -> Nat] : Values(h, t, b) /\ Positional(t, b) = h[n]
      BY PositionalSteps
<1>4. /\ f[0] = 0 /\ h[0] = 0
      /\ \A i \in 1 .. m : f[i] = f[i - 1] * b + s[i]
      /\ \A i \in 1 .. n : h[i] = h[i - 1] * b + t[i]
      BY <1>2, <1>3 DEF Values
<1>5. f[m] \in Nat /\ h[n] \in Nat /\ \A i \in 0 .. n : h[i] \in Nat
  <2> HIDE DEF m, n
  <2> QED BY <1>1, <1>2, <1>3
<1> DEFINE e == [i \in 0 .. m + n |-> IF i <= m THEN f[i] ELSE f[m] * P(i - m) + h[i - m]]
<1>6. Values(e, u, b)
  <2>1. e[0] = 0
        BY <1>1, <1>4
  <2>2. ASSUME NEW i \in 1 .. m + n
        PROVE  e[i] = e[i - 1] * b + u[i]
    <3>1. CASE i <= m
          BY <1>1, <1>4, <3>1
    <3>2. CASE i > m
      <4> DEFINE j == i - m
      <4>1. j \in 1 .. n /\ j - 1 \in 0 .. n - 1 /\ (j - 1) + 1 = j /\ i - 1 - m = j - 1
            /\ j - 1 \in Nat
            BY <1>1, <3>2
      <4>2. e[i] = f[m] * P(j) + h[j] /\ u[i] = t[j]
            BY <1>1, <3>2
      <4> HIDE DEF j
      <4>3. e[i - 1] = f[m] * P(j - 1) + h[j - 1]
        <5>1. CASE j = 1
          <6>1. i - 1 = m /\ e[i - 1] = f[m]
                BY <1>1, <3>2, <5>1 DEF j
          <6>2. P(j - 1) = 1 /\ h[j - 1] = 0
                BY <1>4, <5>1, PowerFact
          <6> HIDE DEF P
          <6> QED BY <1>5, <6>1, <6>2
        <5>2. CASE j # 1
          <6>1. i - 1 > m /\ i - 1 \in 0 .. m + n
                BY <1>1, <3>2, <4>1, <5>2 DEF j
          <6> QED BY <1>1, <4>1, <6>1
        <5> QED BY <5>1, <5>2
      <4>4. P(j) = b * P(j - 1) /\ P(j - 1) \in Nat
            BY <4>1, PowerFact
      <4>5. h[j] = h[j - 1] * b + t[j] /\ h[j - 1] \in Nat /\ t[j] \in Nat
        <5>1. h[j] = h[j - 1] * b + t[j] 
              BY <1>4, <4>1
        <5>2. h[j - 1] \in Nat
          <6> HIDE DEF n
          <6> QED BY <1>1, <1>5, <4>1
        <5>3. t[j] \in Nat
              BY <4>1, ElementOfSeq
        <5> QED BY <5>1, <5>2, <5>3
      <4> HIDE DEF e, u, P
      <4>6. \A x, p, y, z \in Nat : x * (b * p) + (y * b + z) = (x * p + y) * b + z
            OBVIOUS
      <4>7. f[m] * (b * P(j - 1)) + (h[j - 1] * b + t[j]) = (f[m] * P(j - 1) + h[j - 1]) * b + t[j]
            BY SMTT(30), <1>5, <4>4, <4>5, <4>6
      <4> QED BY <4>2, <4>3, <4>4, <4>5, <4>7
    <3> QED BY <1>1, <3>1, <3>2
  <2> HIDE DEF e, u
  <2> QED BY <1>1, <2>1, <2>2 DEF Values
<1>7. e[m + n] = f[m] * P(n) + h[n]
  <2>1. CASE n = 0
    <3>1. P(n) = 1 /\ h[n] = 0 /\ e[m + n] = f[m]
          BY <1>1, <1>4, <2>1, PowerFact
    <3> HIDE DEF P, e
    <3> QED BY <1>5, <3>1
  <2>2. CASE n # 0
    <3>1. m + n > m /\ (m + n) - m = n /\ m + n \in 0 .. m + n
          BY <1>1, <2>2
    <3> QED BY <3>1
  <2> QED BY <2>1, <2>2
<1>8. Positional(u, b) = e[Len(u)]
  <2> HIDE DEF e, u
  <2> QED BY <1>1, <1>6, PositionalOf
<1> QED BY <1>1, <1>2, <1>3, <1>5, <1>7, <1>8

(* One figure, and none.                                                   *)
LEMMA PositionalOne ==
    ASSUME NEW d \in Nat, NEW b \in Nat
    PROVE  /\ <<d>> \in Seq(Nat) /\ Len(<<d>>) = 1 /\ Positional(<<d>>, b) = d
           /\ <<>> \in Seq(Nat) /\ Positional(<<>>, b) = 0
<1>1. <<d>> \in Seq(Nat) /\ Len(<<d>>) = 1 /\ <<d>>[1] = d
      OBVIOUS
<1>2. <<>> \in Seq(Nat) /\ Len(<<>>) = 0
      OBVIOUS
<1>3. Positional(<<d>>, b) = d
  <2> DEFINE f == [i \in 0 .. 1 |-> IF i = 0 THEN 0 ELSE d]
             s == <<d>>
  <2>1. f[0] = 0 /\ f[1] = d /\ f[1] = f[0] * b + d
        OBVIOUS
  <2>2. s \in Seq(Nat) /\ Len(s) = 1 /\ s[1] = d
        OBVIOUS
  <2> HIDE DEF f, s
  <2>3. Values(f, s, b)
        BY <2>1, <2>2 DEF Values
  <2>4. Positional(s, b) = f[1]
        BY <2>2, <2>3, PositionalOf
  <2> QED BY <2>1, <2>4 DEF s
<1>4. Positional(<<>>, b) = 0
  <2> DEFINE f == [i \in 0 .. 0 |-> 0]
             s == <<>>
  <2>1. f[0] = 0 /\ s \in Seq(Nat) /\ Len(s) = 0
        OBVIOUS
  <2> HIDE DEF f, s
  <2>2. Values(f, s, b)
        BY <2>1 DEF Values
  <2>3. Positional(s, b) = f[0]
        BY <2>1, <2>2, PositionalOf
  <2> QED BY <2>1, <2>3 DEF s
<1> QED BY <1>1, <1>2, <1>3, <1>4

(* Zeros.                                                                  *)
LEMMA PositionalZero ==
    ASSUME NEW b \in Nat, NEW s \in Seq(Nat), \A i \in 1 .. Len(s) : s[i] = 0
    PROVE  Positional(s, b) = 0
<1> DEFINE f == [i \in 0 .. Len(s) |-> 0]
<1>1. Len(s) \in Nat /\ 0 * b + 0 = 0
      BY LenProperties
<1>2. Values(f, s, b)
  <2>1. f[0] = 0
        BY <1>1
  <2>2. \A i \in 1 .. Len(s) : f[i] = 0 /\ f[i - 1] = 0
        BY <1>1
  <2> HIDE DEF f
  <2> QED BY <1>1, <2>1, <2>2 DEF Values
<1>3. f[Len(s)] = 0
      BY <1>1
<1> HIDE DEF f
<1> QED BY <1>2, <1>3, PositionalOf

(* A number in figures below the base is below a power of it.              *)
LEMMA PositionalBound ==
    ASSUME NEW b \in Nat \ {0}, NEW s \in Seq(0 .. b - 1)
    PROVE  s \in Seq(Nat) /\ Positional(s, b) \in Nat /\ Positional(s, b) < Power(b, Len(s))
<1> DEFINE n == Len(s)
<1>1. n \in Nat /\ s \in Seq(Nat) /\ \A i \in 1 .. n : s[i] \in 0 .. b - 1
      BY LenProperties, ElementOfSeq, SeqMonotonic, 0 .. b - 1 \subseteq Nat
<1>2. PICK f \in [0 .. n -> Nat] : Values(f, s, b) /\ Positional(s, b) = f[n]
      BY <1>1, PositionalSteps
<1>3. f[0] = 0 /\ \A i \in 1 .. n : f[i] = f[i - 1] * b + s[i]
      BY <1>2 DEF Values
<1> DEFINE T == { k \in 0 .. n : f[k] < Power(b, k) }
<1> HIDE DEF n
<1>4. T = 0 .. n
  <2>1. 0 \in T
        BY <1>1, <1>3, PowerFact
  <2>2. ASSUME NEW k \in 0 .. n - 1, k \in T
        PROVE  k + 1 \in T
    <3>1. k + 1 \in 1 .. n /\ (k + 1) - 1 = k /\ k + 1 \in 0 .. n /\ f[k] \in Nat /\ k \in Nat
          BY <1>1, <2>2
    <3> DEFINE p == Power(b, k)
               x == f[k]
               y == s[k + 1]
    <3>2. p \in Nat /\ Power(b, k + 1) = b * p /\ x < p
          BY <2>2, <3>1, PowerFact
    <3>3. f[k + 1] = x * b + y /\ y \in 0 .. b - 1 /\ x \in Nat
          BY <1>1, <1>3, <3>1
    <3> HIDE DEF p, x, y
    <3>4. x + 1 <= p /\ b * (x + 1) <= b * p /\ b * (x + 1) = x * b + b
          BY <3>2, <3>3
    <3>5. x * b \in Nat /\ b * p \in Nat
          BY <3>2, <3>3
    <3>6. x * b + y < b * p
          BY <3>3, <3>4, <3>5
    <3>7. f[k + 1] < Power(b, k + 1)
          BY <3>2, <3>3, <3>6
    <3> QED BY <3>1, <3>7
  <2>3. T \in SUBSET (0 .. n)
        OBVIOUS
  <2> HIDE DEF T
  <2> QED BY <1>1, <2>1, <2>2, <2>3, BoundedInduction
<1>5. n \in T
  <2> HIDE DEF T
  <2> QED BY <1>1, <1>4
<1>6. f[n] < Power(b, n) /\ f[n] \in Nat
      BY <1>1, <1>2, <1>5
<1> QED BY <1>1, <1>2, <1>6 DEF n

(* As many figures below the base, that write one number, are the same.    *)
LEMMA PositionalUnique ==
    ASSUME NEW b \in Nat \ {0}, NEW s \in Seq(0 .. b - 1), NEW t \in Seq(0 .. b - 1),
           Len(s) = Len(t), Positional(s, b) = Positional(t, b)
    PROVE  s = t
<1> DEFINE n == Len(s)
<1>1. /\ n \in Nat /\ Len(t) = n /\ s \in Seq(Nat) /\ t \in Seq(Nat)
      /\ \A i \in 1 .. n : s[i] \in 0 .. b - 1 /\ t[i] \in 0 .. b - 1
      BY LenProperties, ElementOfSeq, SeqMonotonic, 0 .. b - 1 \subseteq Nat
<1>2. PICK f \in [0 .. n -> Nat] : Values(f, s, b) /\ Positional(s, b) = f[n]
      BY <1>1, PositionalSteps
<1>3. PICK h \in [0 .. n -> Nat] : Values(h, t, b) /\ Positional(t, b) = h[n]
      BY <1>1, PositionalSteps
<1>4. /\ \A i \in 1 .. n : f[i] = f[i - 1] * b + s[i]
      /\ \A i \in 1 .. n : h[i] = h[i - 1] * b + t[i]
      BY <1>1, <1>2, <1>3 DEF Values
<1> HIDE DEF n
<1>5. ASSUME NEW i \in 1 .. n, f[i] = h[i]
      PROVE  f[i - 1] = h[i - 1] /\ s[i] = t[i]
  <2> DEFINE x == f[i - 1]
             y == h[i - 1]
  <2>1. x \in Nat /\ y \in Nat /\ s[i] \in 0 .. b - 1 /\ t[i] \in 0 .. b - 1
        BY <1>1, <1>2, <1>3
  <2>2. x * b + s[i] = y * b + t[i]
        BY <1>4, <1>5
  <2> HIDE DEF x, y
  <2>3. x * b = b * x /\ y * b = b * y
        BY <2>1
  <2> DEFINE u == s[i]
             v == t[i]
  <2>4. /\ (b * x + u) \div b = x /\ (b * x + u) % b = u
        /\ (b * y + v) \div b = y /\ (b * y + v) % b = v
    <3>1. x \in Int /\ y \in Int /\ u \in 0 .. b - 1 /\ v \in 0 .. b - 1
          BY <2>1
    <3> HIDE DEF u, v
    <3>2. \A q \in Int, c \in 0 .. b - 1 : (b * q + c) \div b = q /\ (b * q + c) % b = c
          BY DivUnique
    <3> QED BY <3>1, <3>2, Zenon
  <2>5. b * x + u = b * y + v
        BY <2>2, <2>3
  <2> HIDE DEF u, v
  <2>6. x = y /\ u = v
        BY <2>4, <2>5, Zenon
  <2> QED BY <2>6 DEF x, y, u, v
<1> DEFINE T == { k \in 0 .. n : f[n - k] = h[n - k] }
<1>6. T = 0 .. n
  <2>1. 0 \in T
    <3>1. n - 0 = n /\ 0 \in 0 .. n
          BY <1>1
    <3> QED BY <1>2, <1>3, <3>1
  <2>2. ASSUME NEW k \in 0 .. n - 1, k \in T
        PROVE  k + 1 \in T
    <3>1. n - k \in 1 .. n /\ (n - k) - 1 = n - (k + 1) /\ k + 1 \in 0 .. n /\ f[n - k] = h[n - k]
          BY <1>1, <2>2
    <3>2. f[(n - k) - 1] = h[(n - k) - 1]
          BY <1>5, <3>1
    <3> QED BY <3>1, <3>2
  <2>3. T \in SUBSET (0 .. n)
        OBVIOUS
  <2> HIDE DEF T
  <2> QED BY <1>1, <2>1, <2>2, <2>3, BoundedInduction
<1>7. ASSUME NEW i \in 1 .. n PROVE s[i] = t[i]
  <2>1. n - i \in T /\ n - (n - i) = i
    <3> HIDE DEF T
    <3> QED BY <1>1, <1>6
  <2>2. f[i] = h[i]
        BY <2>1
  <2> QED BY <1>5, <2>2
<1> QED BY <1>1, <1>7, SeqEqual DEF n
=============================================================================
