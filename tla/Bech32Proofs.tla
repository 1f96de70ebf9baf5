---------------------------- MODULE Bech32Proofs ----------------------------
(***************************************************************************)
(* The string of an address for every public key: it fits its buffer, it   *)
(* reads back, and one wrong character is noticed.  The checksum is linear *)
(* in its bits and one round of it is injective, so that one wrong symbol  *)
(* changes it for good; convert_bits writes the number that it reads, so   *)
(* that it can be undone.                                                  *)
(***************************************************************************)
EXTENDS Bech32, Arithmetic

-----------------------------------------------------------------------------
(* Words                                                                   *)
Words == SUBSET (0 .. 29)

(* The powers of two that a byte and a symbol are made of.                 *)
LEMMA Powers ==
    /\ Power(2, 0) = 1 /\ Power(2, 1) = 2 /\ Power(2, 2) = 4 /\ Power(2, 3) = 8
    /\ Power(2, 4) = 16 /\ Power(2, 5) = 32 /\ Power(2, 6) = 64 /\ Power(2, 7) = 128
    /\ Power(2, 8) = 256
<1>1. Power(2, 0) = 1 /\ \A n \in Nat : Power(2, n + 1) = 2 * Power(2, n)
      BY Doubling
<1>2. /\ Power(2, 0 + 1) = 2 * Power(2, 0) /\ Power(2, 1 + 1) = 2 * Power(2, 1)
      /\ Power(2, 2 + 1) = 2 * Power(2, 2) /\ Power(2, 3 + 1) = 2 * Power(2, 3)
      /\ Power(2, 4 + 1) = 2 * Power(2, 4) /\ Power(2, 5 + 1) = 2 * Power(2, 5)
      /\ Power(2, 6 + 1) = 2 * Power(2, 6) /\ Power(2, 7 + 1) = 2 * Power(2, 7)
  <2>1. /\ 0 \in Nat /\ 1 \in Nat /\ 2 \in Nat /\ 3 \in Nat /\ 4 \in Nat /\ 5 \in Nat
        /\ 6 \in Nat /\ 7 \in Nat
        OBVIOUS
  <2> QED BY <1>1, <2>1, Zenon
<1> QED BY <1>1, <1>2

(* A symbol is five bits.                                                  *)
LEMMA SymbolBits ==
    ASSUME NEW v \in 0 .. 31
    PROVE  /\ Bits(v) \in Words
           /\ \A j \in Bits(v) : j \in 0 .. 4
           /\ v = 16 * Bit(v, 4) + 8 * Bit(v, 3) + 4 * Bit(v, 2) + 2 * Bit(v, 1) + Bit(v, 0)
           /\ \A j \in 0 .. 4 : Bit(v, j) \in {0, 1}
<1>1. /\ Bit(v, 0) = v % 2 /\ Bit(v, 1) = (v \div 2) % 2 /\ Bit(v, 2) = (v \div 4) % 2
      /\ Bit(v, 3) = (v \div 8) % 2 /\ Bit(v, 4) = (v \div 16) % 2
      BY Powers DEF Bit
<1>2. v = 16 * Bit(v, 4) + 8 * Bit(v, 3) + 4 * Bit(v, 2) + 2 * Bit(v, 1) + Bit(v, 0)
  <2>1. v = 16 * ((v \div 16) % 2) + 8 * ((v \div 8) % 2) + 4 * ((v \div 4) % 2)
            + 2 * ((v \div 2) % 2) + (v % 2)
        OBVIOUS
  <2> QED BY <1>1, <2>1
<1>3. \A j \in 0 .. 4 : Bit(v, j) \in {0, 1}
  <2>1. \A j \in 0 .. 4 : j = 0 \/ j = 1 \/ j = 2 \/ j = 3 \/ j = 4
        OBVIOUS
  <2>2. /\ Bit(v, 0) \in {0, 1} /\ Bit(v, 1) \in {0, 1} /\ Bit(v, 2) \in {0, 1}
        /\ Bit(v, 3) \in {0, 1} /\ Bit(v, 4) \in {0, 1}
        BY <1>1
  <2> QED BY <2>1, <2>2
<1>4. \A j \in Bits(v) : j \in 0 .. 4
  <2> SUFFICES ASSUME NEW j \in 5 .. 29 PROVE Bit(v, j) = 0
      BY DEF Bits
  <2>1. v \in Nat /\ v < Power(2, 5) /\ j \in Nat /\ 5 <= j
        BY Powers
  <2> QED BY <2>1, NoHighBits
<1> QED BY <1>2, <1>3, <1>4 DEF Bits, Words

(* Symbols that differ differ in a bit.                                    *)
LEMMA BitsDiffer ==
    ASSUME NEW u \in 0 .. 31, NEW v \in 0 .. 31, Bits(u) = Bits(v)
    PROVE  u = v
<1>1. \A j \in 0 .. 4 : j \in 0 .. 29
      OBVIOUS
<1>2. \A j \in 0 .. 4 : Bit(u, j) = 1 <=> Bit(v, j) = 1
      BY <1>1 DEF Bits
<1>3. \A j \in 0 .. 4 : Bit(u, j) = Bit(v, j)
      BY <1>2, SymbolBits
<1>4. /\ Bit(u, 0) = Bit(v, 0) /\ Bit(u, 1) = Bit(v, 1) /\ Bit(u, 2) = Bit(v, 2)
      /\ Bit(u, 3) = Bit(v, 3) /\ Bit(u, 4) = Bit(v, 4)
      BY <1>3
<1> QED BY <1>4, SymbolBits

(* Five bits that make a symbol are its bits.                              *)
LEMMA BitsOfSum ==
    ASSUME NEW a \in {0, 1}, NEW b \in {0, 1}, NEW c \in {0, 1}, NEW d \in {0, 1}, NEW e \in {0, 1}
    PROVE  LET v == 16 * a + 8 * b + 4 * c + 2 * d + e
           IN  /\ v \in 0 .. 31
               /\ Bit(v, 4) = a /\ Bit(v, 3) = b /\ Bit(v, 2) = c /\ Bit(v, 1) = d /\ Bit(v, 0) = e
<1> DEFINE v == 16 * a + 8 * b + 4 * c + 2 * d + e
<1>1. v \in 0 .. 31
      OBVIOUS
<1>2. /\ Bit(v, 0) = v % 2 /\ Bit(v, 1) = (v \div 2) % 2 /\ Bit(v, 2) = (v \div 4) % 2
      /\ Bit(v, 3) = (v \div 8) % 2 /\ Bit(v, 4) = (v \div 16) % 2
      BY Powers DEF Bit
<1>3. /\ v % 2 = e /\ (v \div 2) % 2 = d /\ (v \div 4) % 2 = c
      /\ (v \div 8) % 2 = b /\ (v \div 16) % 2 = a
      OBVIOUS
<1> QED BY <1>1, <1>2, <1>3

(* The ends of the generators, which no bit of the word is shifted to.     *)
LEMMA GeneratorEnds ==
    /\ \A i \in 1 .. 5 : Generators[i] \in Words
    /\ \A j \in 0 .. 4 : j \in Generators[1] <=> j \in {1, 4}
    /\ \A j \in 0 .. 4 : j \in Generators[2] <=> j \in {0, 2, 3}
    /\ \A j \in 0 .. 4 : j \in Generators[3] <=> j \in {1, 3, 4}
    /\ \A j \in 0 .. 4 : j \in Generators[4] <=> j \in {0, 2, 3, 4}
    /\ \A j \in 0 .. 4 : j \in Generators[5] <=> j \in {0, 1, 4}
<1>1. \A j \in 0 .. 4 : j \in 0 .. 29 /\ (j = 0 \/ j = 1 \/ j = 2 \/ j = 3 \/ j = 4)
      OBVIOUS
<1>2. \A v \in Nat :
        /\ Bit(v, 0) = v % 2 /\ Bit(v, 1) = (v \div 2) % 2 /\ Bit(v, 2) = (v \div 4) % 2
        /\ Bit(v, 3) = (v \div 8) % 2 /\ Bit(v, 4) = (v \div 16) % 2
      BY Powers DEF Bit
<1>3. \A j \in 0 .. 4 : j \in Bits(996825010) <=> j \in {1, 4}
      BY <1>1, <1>2 DEF Bits
<1>4. \A j \in 0 .. 4 : j \in Bits(642813549) <=> j \in {0, 2, 3}
      BY <1>1, <1>2 DEF Bits
<1>5. \A j \in 0 .. 4 : j \in Bits(513874426) <=> j \in {1, 3, 4}
      BY <1>1, <1>2 DEF Bits
<1>6. \A j \in 0 .. 4 : j \in Bits(1027748829) <=> j \in {0, 2, 3, 4}
      BY <1>1, <1>2 DEF Bits
<1>7. \A j \in 0 .. 4 : j \in Bits(705979059) <=> j \in {0, 1, 4}
      BY <1>1, <1>2 DEF Bits
<1>8. \A v \in Nat : Bits(v) \in Words
      BY DEF Bits, Words
<1>9. /\ Generators[1] = Bits(996825010) /\ Generators[2] = Bits(642813549)
      /\ Generators[3] = Bits(513874426) /\ Generators[4] = Bits(1027748829)
      /\ Generators[5] = Bits(705979059)
      BY DEF Generators
<1>10. \A i \in 1 .. 5 : Generators[i] \in Words
  <2>1. \A i \in 1 .. 5 : i = 1 \/ i = 2 \/ i = 3 \/ i = 4 \/ i = 5
        OBVIOUS
  <2> QED BY <1>8, <1>9, <2>1
<1> QED BY <1>3, <1>4, <1>5, <1>6, <1>7, <1>9, <1>10

-----------------------------------------------------------------------------
(* The checksum                                                            *)

(* What a step shifts, and what the generators add.                        *)
Shift(a) == {j \in 5 .. 29 : j - 5 \in a}

Feedback(a) == {j \in 0 .. 29 :
    ((((25 \in a /\ j \in Generators[1]) # (26 \in a /\ j \in Generators[2]))
        # (27 \in a /\ j \in Generators[3])) # (28 \in a /\ j \in Generators[4]))
        # (29 \in a /\ j \in Generators[5])}

(* The bits of an exclusive or.                                            *)
LEMMA XorFact ==
    ASSUME NEW a, NEW b
    PROVE  Xor(a, b) \in Words /\ \A j \in 0 .. 29 : j \in Xor(a, b) <=> (j \in a) # (j \in b)
BY DEF Xor, Words

(* Words are the same when their bits are.                                 *)
LEMMA SameWord ==
    ASSUME NEW a \in Words, NEW b \in Words, \A j \in 0 .. 29 : j \in a <=> j \in b
    PROVE  a = b
BY DEF Words

(* The bits of a step of the checksum.                                     *)
LEMMA StepFact ==
    ASSUME NEW a
    PROVE  /\ polymod_step(a) \in Words
           /\ \A j \in 0 .. 29 : j \in polymod_step(a) <=> (j \in Shift(a)) # (j \in Feedback(a))
<1> DEFINE s == {j \in 5 .. 29 : j - 5 \in a}
           m1 == Masked(a, 1)
           m2 == Masked(a, 2)
           m3 == Masked(a, 3)
           m4 == Masked(a, 4)
           m5 == Masked(a, 5)
<1>1. polymod_step(a) = Xor(Xor(Xor(Xor(Xor(s, m1), m2), m3), m4), m5)
      BY DEF polymod_step
<1>2. s = Shift(a)
      BY DEF Shift
<1>3. \A j \in 0 .. 29 :
        /\ j \in m1 <=> 25 \in a /\ j \in Generators[1]
        /\ j \in m2 <=> 26 \in a /\ j \in Generators[2]
        /\ j \in m3 <=> 27 \in a /\ j \in Generators[3]
        /\ j \in m4 <=> 28 \in a /\ j \in Generators[4]
        /\ j \in m5 <=> 29 \in a /\ j \in Generators[5]
      BY DEF Masked
<1> HIDE DEF s, m1, m2, m3, m4, m5
<1>4. polymod_step(a) \in Words
      BY <1>1, XorFact
<1>5. ASSUME NEW j \in 0 .. 29
      PROVE  j \in polymod_step(a) <=> (j \in s) # (j \in Feedback(a))
  <2> DEFINE x1 == Xor(s, m1)
             x2 == Xor(x1, m2)
             x3 == Xor(x2, m3)
             x4 == Xor(x3, m4)
             x5 == Xor(x4, m5)
  <2>1. /\ j \in x1 <=> (j \in s) # (j \in m1)
        /\ j \in x2 <=> (j \in x1) # (j \in m2)
        /\ j \in x3 <=> (j \in x2) # (j \in m3)
        /\ j \in x4 <=> (j \in x3) # (j \in m4)
        /\ j \in x5 <=> (j \in x4) # (j \in m5)
        BY XorFact
  <2>2. polymod_step(a) = x5
        BY <1>1
  <2> HIDE DEF x1, x2, x3, x4, x5
  <2>3. j \in polymod_step(a) <=>
               (((((j \in s) # (j \in m1)) # (j \in m2)) # (j \in m3)) # (j \in m4)) # (j \in m5)
        BY <2>1, <2>2
  <2>4. j \in Feedback(a) <=>
               ((((j \in m1) # (j \in m2)) # (j \in m3)) # (j \in m4)) # (j \in m5)
        BY <1>3 DEF Feedback
  <2> QED BY <2>3, <2>4
<1> QED BY <1>2, <1>4, <1>5

(* A step is linear.                                                       *)
LEMMA StepLinear ==
    ASSUME NEW a, NEW b
    PROVE  polymod_step(Xor(a, b)) = Xor(polymod_step(a), polymod_step(b))
<1> DEFINE x == Xor(a, b)
           p == polymod_step(a)
           q == polymod_step(b)
<1>1. \A k \in 0 .. 29 : k \in x <=> (k \in a) # (k \in b)
      BY XorFact
<1> HIDE DEF x
<1>2. ASSUME NEW j \in 0 .. 29
      PROVE  j \in polymod_step(x) <=> (j \in p) # (j \in q)
  <2>1. j \in Shift(x) <=> (j \in Shift(a)) # (j \in Shift(b))
    <3>1. CASE j \in 5 .. 29
      <4>1. j - 5 \in 0 .. 29
            BY <3>1
      <4> QED BY <1>1, <3>1, <4>1 DEF Shift
    <3>2. CASE j \notin 5 .. 29
          BY <3>2 DEF Shift
    <3> QED BY <3>1, <3>2
  <2>2. /\ 25 \in x <=> (25 \in a) # (25 \in b)
        /\ 26 \in x <=> (26 \in a) # (26 \in b)
        /\ 27 \in x <=> (27 \in a) # (27 \in b)
        /\ 28 \in x <=> (28 \in a) # (28 \in b)
        /\ 29 \in x <=> (29 \in a) # (29 \in b)
        BY <1>1
  <2>3. j \in Feedback(x) <=> (j \in Feedback(a)) # (j \in Feedback(b))
        BY <2>2 DEF Feedback
  <2>4. \A c : j \in polymod_step(c) <=> (j \in Shift(c)) # (j \in Feedback(c))
        BY StepFact
  <2> QED BY <2>1, <2>3, <2>4
<1>3. polymod_step(x) \in Words /\ Xor(p, q) \in Words
      BY StepFact, XorFact
<1>4. \A j \in 0 .. 29 : j \in Xor(p, q) <=> (j \in p) # (j \in q)
      BY XorFact
<1> HIDE DEF p, q
<1> QED BY <1>2, <1>3, <1>4, SameWord DEF x, p, q

(* And loses nothing: the five bits shifted out can be told from the five  *)
(* lowest bits of the generators.                                          *)
LEMMA StepInjective ==
    ASSUME NEW a \in Words, NEW b \in Words, polymod_step(a) = polymod_step(b)
    PROVE  a = b
<1>1. \A j \in 0 .. 29 : (j \in Shift(a)) # (j \in Feedback(a))
                            <=> (j \in Shift(b)) # (j \in Feedback(b))
      BY StepFact
<1>2. \A j \in 0 .. 4 : j \in Feedback(a) <=> j \in Feedback(b)
  <2> TAKE j \in 0 .. 4
  <2>1. j \in 0 .. 29 /\ j \notin Shift(a) /\ j \notin Shift(b)
        BY DEF Shift
  <2> QED BY <1>1, <2>1
<1>3. ASSUME NEW c
      PROVE  /\ 0 \in Feedback(c) <=> ((26 \in c) # (28 \in c)) # (29 \in c)
             /\ 1 \in Feedback(c) <=> ((25 \in c) # (27 \in c)) # (29 \in c)
             /\ 2 \in Feedback(c) <=> (26 \in c) # (28 \in c)
             /\ 3 \in Feedback(c) <=> ((26 \in c) # (27 \in c)) # (28 \in c)
             /\ 4 \in Feedback(c) <=> (((25 \in c) # (27 \in c)) # (28 \in c)) # (29 \in c)
  <2>1. /\ 0 \notin Generators[1] /\ 0 \in Generators[2] /\ 0 \notin Generators[3]
        /\ 0 \in Generators[4] /\ 0 \in Generators[5]
        BY GeneratorEnds
  <2>2. /\ 1 \in Generators[1] /\ 1 \notin Generators[2] /\ 1 \in Generators[3]
        /\ 1 \notin Generators[4] /\ 1 \in Generators[5]
        BY GeneratorEnds
  <2>3. /\ 2 \notin Generators[1] /\ 2 \in Generators[2] /\ 2 \notin Generators[3]
        /\ 2 \in Generators[4] /\ 2 \notin Generators[5]
        BY GeneratorEnds
  <2>4. /\ 3 \notin Generators[1] /\ 3 \in Generators[2] /\ 3 \in Generators[3]
        /\ 3 \in Generators[4] /\ 3 \notin Generators[5]
        BY GeneratorEnds
  <2>5. /\ 4 \in Generators[1] /\ 4 \notin Generators[2] /\ 4 \in Generators[3]
        /\ 4 \in Generators[4] /\ 4 \in Generators[5]
        BY GeneratorEnds
  <2>6. 0 \in Feedback(c) <=> ((26 \in c) # (28 \in c)) # (29 \in c)
        BY <2>1 DEF Feedback
  <2>7. 1 \in Feedback(c) <=> ((25 \in c) # (27 \in c)) # (29 \in c)
        BY <2>2 DEF Feedback
  <2>8. 2 \in Feedback(c) <=> (26 \in c) # (28 \in c)
        BY <2>3 DEF Feedback
  <2>9. 3 \in Feedback(c) <=> ((26 \in c) # (27 \in c)) # (28 \in c)
        BY <2>4 DEF Feedback
  <2>10. 4 \in Feedback(c) <=> (((25 \in c) # (27 \in c)) # (28 \in c)) # (29 \in c)
        BY <2>5 DEF Feedback
  <2> QED BY <2>6, <2>7, <2>8, <2>9, <2>10
<1>4. /\ 25 \in a <=> 25 \in b
      /\ 26 \in a <=> 26 \in b
      /\ 27 \in a <=> 27 \in b
      /\ 28 \in a <=> 28 \in b
      /\ 29 \in a <=> 29 \in b
  <2>1. /\ 0 \in Feedback(a) <=> 0 \in Feedback(b)
        /\ 1 \in Feedback(a) <=> 1 \in Feedback(b)
        /\ 2 \in Feedback(a) <=> 2 \in Feedback(b)
        /\ 3 \in Feedback(a) <=> 3 \in Feedback(b)
        /\ 4 \in Feedback(a) <=> 4 \in Feedback(b)
        BY <1>2
  <2> QED BY <1>3, <2>1
<1>5. \A j \in 0 .. 29 : j \in Feedback(a) <=> j \in Feedback(b)
      BY <1>4 DEF Feedback
<1>6. ASSUME NEW k \in 0 .. 29
      PROVE  k \in a <=> k \in b
  <2>1. CASE k \in 0 .. 24
    <3>1. k + 5 \in 5 .. 29 /\ k + 5 \in 0 .. 29 /\ (k + 5) - 5 = k
          BY <2>1
    <3>2. k + 5 \in Shift(a) <=> k + 5 \in Shift(b)
          BY <1>1, <1>5, <3>1
    <3> QED BY <3>1, <3>2 DEF Shift
  <2>2. CASE k \in 25 .. 29
    <3>1. k = 25 \/ k = 26 \/ k = 27 \/ k = 28 \/ k = 29
          BY <2>2
    <3> QED BY <1>4, <3>1
  <2> QED BY <2>1, <2>2
<1> QED BY <1>6, SameWord

(* The algebra of words.                                                   *)
LEMMA XorAlgebra ==
    /\ \A a \in Words : Xor(a, {}) = a
    /\ \A a, b \in Words : Xor(a, b) = Xor(b, a) /\ Xor(a, Xor(a, b)) = b
    /\ \A a, b, c \in Words : Xor(Xor(a, b), c) = Xor(a, Xor(b, c))
<1>1. ASSUME NEW a \in Words PROVE Xor(a, {}) = a
      BY XorFact, SameWord
<1>2. ASSUME NEW a \in Words, NEW b \in Words PROVE Xor(a, Xor(a, b)) = b
  <2>1. \A j \in 0 .. 29 : j \in Xor(a, Xor(a, b)) <=> j \in b
        BY XorFact
  <2>2. Xor(a, Xor(a, b)) \in Words
        BY XorFact
  <2> QED BY <2>1, <2>2, SameWord
<1>3. ASSUME NEW a \in Words, NEW b \in Words, NEW c \in Words
      PROVE  Xor(Xor(a, b), c) = Xor(a, Xor(b, c))
  <2>1. \A j \in 0 .. 29 : j \in Xor(Xor(a, b), c) <=> j \in Xor(a, Xor(b, c))
    <3> TAKE j \in 0 .. 29
    <3>1. /\ j \in Xor(a, b) <=> (j \in a) # (j \in b)
          /\ j \in Xor(b, c) <=> (j \in b) # (j \in c)
          /\ j \in Xor(Xor(a, b), c) <=> (j \in Xor(a, b)) # (j \in c)
          /\ j \in Xor(a, Xor(b, c)) <=> (j \in a) # (j \in Xor(b, c))
          BY XorFact
    <3> QED BY <3>1
  <2>2. Xor(Xor(a, b), c) \in Words /\ Xor(a, Xor(b, c)) \in Words
        BY XorFact
  <2> QED BY <2>1, <2>2, SameWord
<1>4. ASSUME NEW a \in Words, NEW b \in Words PROVE Xor(a, b) = Xor(b, a)
      BY DEF Xor
<1> QED BY <1>1, <1>2, <1>3, <1>4

(* The words of numbers.                                                   *)
LEMMA BitsFact ==
    /\ \A v : Bits(v) \in Words
    /\ Bits(0) = {} /\ Bits(1) = {0}
<1>1. \A v : Bits(v) \in Words
      BY DEF Bits, Words
<1>2. \A j \in Bits(0) : FALSE
  <2>1. 0 \in 0 .. 31 /\ 0 % 2 = 0 /\ 0 \div 2 = 0 /\ 0 \div 4 = 0 /\ 0 \div 8 = 0 /\ 0 \div 16 = 0
        OBVIOUS
  <2>2. /\ Bit(0, 0) = 0 /\ Bit(0, 1) = 0 /\ Bit(0, 2) = 0 /\ Bit(0, 3) = 0 /\ Bit(0, 4) = 0
        BY Powers, <2>1 DEF Bit
  <2>3. \A j \in 0 .. 4 : j = 0 \/ j = 1 \/ j = 2 \/ j = 3 \/ j = 4
        OBVIOUS
  <2>4. \A j \in Bits(0) : j \in 0 .. 4 /\ Bit(0, j) = 1
        BY <2>1, SymbolBits DEF Bits
  <2> QED BY <2>2, <2>3, <2>4
<1>3. \A j \in 0 .. 29 : j \in Bits(1) <=> j = 0
  <2>1. 1 \in 0 .. 31 /\ 1 % 2 = 1 /\ 1 \div 2 = 0 /\ 1 \div 4 = 0 /\ 1 \div 8 = 0 /\ 1 \div 16 = 0
        /\ 1 \div 1 = 1 /\ 0 % 2 = 0
        OBVIOUS
  <2>2. /\ Bit(1, 0) = 1 /\ Bit(1, 1) = 0 /\ Bit(1, 2) = 0 /\ Bit(1, 3) = 0 /\ Bit(1, 4) = 0
        BY Powers, <2>1 DEF Bit
  <2>3. \A j \in 0 .. 4 : j = 0 \/ j = 1 \/ j = 2 \/ j = 3 \/ j = 4
        OBVIOUS
  <2>4. \A j \in Bits(1) : j \in 0 .. 4 /\ Bit(1, j) = 1
        BY <2>1, SymbolBits DEF Bits
  <2>5. 0 \in Bits(1)
        BY <2>2 DEF Bits
  <2> QED BY <2>2, <2>3, <2>4, <2>5
<1>4. Bits(0) = {}
      BY <1>2
<1>5. Bits(1) = {0}
  <2>1. Bits(1) \in Words
        BY <1>1
  <2>2. {0} \in Words
        BY DEF Words
  <2> QED BY <1>3, <2>1, <2>2, SameWord
<1> QED BY <1>1, <1>4, <1>5

(* The values that the checksum takes while symbols go into it.            *)
Follows(f, s) ==
    /\ f \in [0 .. Len(s) -> Words] /\ f[0] = Bits(1)
    /\ \A i \in 1 .. Len(s) : f[i] = Xor(polymod_step(f[i - 1]), Bits(s[i]))

Run(s) == CHOOSE f : Follows(f, s)

(* There is such a function for every sequence.                            *)
LEMMA RunFact ==
    ASSUME NEW S, NEW s \in Seq(S)
    PROVE  Follows(Run(s), s)
<1> DEFINE n == Len(s)
           g == [k \in 1 .. n |-> [a \in Words |-> Xor(polymod_step(a), Bits(s[k]))]]
<1>1. n \in Nat /\ Bits(1) \in Words
      BY LenProperties, BitsFact
<1>2. \A k \in 1 .. n, a \in Words : Xor(polymod_step(a), Bits(s[k])) \in Words
      BY XorFact
<1>3. g \in [1 .. n -> [Words -> Words]]
      /\ \A k \in 1 .. n, a \in Words : g[k][a] = Xor(polymod_step(a), Bits(s[k]))
      BY <1>2
<1> HIDE DEF g
<1>4. PICK f : Recursive(f, Words, Bits(1), n, g)
  <2> HIDE DEF n
  <2> QED BY <1>1, <1>3, RecursiveFunction
<1>5. /\ f = [k \in 0 .. n |-> f[k]] /\ f[0] = Bits(1)
      /\ \A k \in 1 .. n : f[k] = g[k][f[k - 1]] /\ f[k - 1] \in Words /\ f[k] \in Words
  <2> HIDE DEF n
  <2> QED BY <1>4 DEF Recursive
<1>6. \A k \in 0 .. n : f[k] \in Words
  <2>1. \A k \in 0 .. n : k = 0 \/ k \in 1 .. n
        BY <1>1
  <2> QED BY <1>1, <1>5, <2>1
<1>7. f \in [0 .. n -> Words]
      BY <1>5, <1>6
<1>8. Follows(f, s)
      BY <1>3, <1>5, <1>7 DEF Follows
<1> QED BY <1>8 DEF Run

(* The checksum is the same as long as the symbols are.                    *)
LEMMA RunAgrees ==
    ASSUME NEW S, NEW s \in Seq(S), NEW t \in Seq(S), NEW k \in Nat, k <= Len(s), k <= Len(t),
           \A i \in 1 .. k : s[i] = t[i]
    PROVE  Run(s)[k] = Run(t)[k]
<1> DEFINE f == Run(s)
           h == Run(t)
           T == { i \in 0 .. k : f[i] = h[i] }
<1>1. /\ f[0] = h[0] /\ Len(s) \in Nat /\ Len(t) \in Nat
      /\ \A i \in 1 .. Len(s) : f[i] = Xor(polymod_step(f[i - 1]), Bits(s[i]))
      /\ \A i \in 1 .. Len(t) : h[i] = Xor(polymod_step(h[i - 1]), Bits(t[i]))
      BY RunFact, LenProperties DEF Follows
<1> HIDE DEF f, h
<1>2. T = 0 .. k
  <2>1. 0 \in T
        BY <1>1
  <2>2. ASSUME NEW i \in 0 .. k - 1, i \in T
        PROVE  i + 1 \in T
    <3>1. i + 1 \in 1 .. Len(s) /\ i + 1 \in 1 .. Len(t) /\ i + 1 \in 1 .. k /\ (i + 1) - 1 = i
          BY <1>1
    <3>2. f[i] = h[i] /\ s[i + 1] = t[i + 1]
          BY <2>2, <3>1
    <3>3. f[i + 1] = h[i + 1]
          BY <1>1, <3>1, <3>2
    <3> QED BY <3>1, <3>3
  <2>3. T \in SUBSET (0 .. k)
        OBVIOUS
  <2> HIDE DEF T
  <2> QED BY <2>1, <2>2, <2>3, BoundedInduction
<1>3. k \in T
  <2> HIDE DEF T
  <2> QED BY <1>2
<1> QED BY <1>3 DEF f, h

(* One wrong symbol changes it for good.                                   *)
LEMMA OneWrong ==
    ASSUME NEW s \in Seq(0 .. 31), NEW t \in Seq(0 .. 31), Len(s) = Len(t),
           NEW k \in 1 .. Len(s), s[k] # t[k],
           \A i \in 1 .. Len(s) : i # k => s[i] = t[i]
    PROVE  Run(s)[Len(s)] # Run(t)[Len(t)]
<1> DEFINE f == Run(s)
           h == Run(t)
           n == Len(s)
           T == { i \in 0 .. n - k : f[k + i] # h[k + i] }
<1>1. n \in Nat /\ Len(t) = n /\ k \in 1 .. n
      BY LenProperties
<1>2. f[k - 1] = h[k - 1]
  <2>1. /\ k - 1 \in Nat /\ k - 1 <= Len(s) /\ k - 1 <= Len(t)
        /\ \A i \in 1 .. k - 1 : i \in 1 .. Len(s) /\ i # k
        BY <1>1
  <2> QED BY <2>1, RunAgrees
<1>3. /\ f \in [0 .. n -> Words] /\ h \in [0 .. n -> Words]
      /\ \A i \in 1 .. n : f[i] = Xor(polymod_step(f[i - 1]), Bits(s[i]))
      /\ \A i \in 1 .. n : h[i] = Xor(polymod_step(h[i - 1]), Bits(t[i]))
      BY <1>1, RunFact DEF Follows
<1>4. \A i \in 1 .. n : s[i] \in 0 .. 31 /\ t[i] \in 0 .. 31
      BY <1>1, ElementOfSeq
<1>5. \A i \in 1 .. n : i # k => s[i] = t[i]
      OBVIOUS
<1> HIDE DEF f, h, n
<1>6. f[k] # h[k]
  <2> SUFFICES ASSUME f[k] = h[k] PROVE FALSE
      OBVIOUS
  <2> DEFINE p == polymod_step(f[k - 1])
  <2>1. Xor(p, Bits(s[k])) = Xor(p, Bits(t[k])) /\ p \in Words
        BY <1>1, <1>2, <1>3, StepFact
  <2> HIDE DEF p
  <2>2. Bits(s[k]) = Bits(t[k])
        BY <2>1, XorAlgebra, BitsFact
  <2> QED BY <1>1, <1>4, <2>2, BitsDiffer
<1>7. T = 0 .. n - k
  <2>1. 0 \in T
        BY <1>1, <1>6
  <2>2. ASSUME NEW i \in 0 .. (n - k) - 1, i \in T
        PROVE  i + 1 \in T
    <3> DEFINE j == k + i
    <3>1. /\ j \in 0 .. n /\ j + 1 \in 1 .. n /\ (j + 1) - 1 = j /\ k + (i + 1) = j + 1
          /\ i + 1 \in 0 .. n - k /\ j + 1 # k
      <4>1. i \in Nat /\ k \in Nat /\ n \in Nat /\ 1 <= k /\ i <= (n - k) - 1
            BY <1>1
      <4> DEFINE x == k + i
      <4>2. x \in Nat /\ x + 1 <= n /\ k <= x /\ k + (i + 1) = x + 1
            BY <4>1
      <4> HIDE DEF x
      <4>3. x \in 0 .. n /\ x + 1 \in 1 .. n /\ (x + 1) - 1 = x /\ x + 1 # k
            BY <4>1, <4>2
      <4>4. i + 1 \in 0 .. n - k
            BY <4>1
      <4> QED BY <4>2, <4>3, <4>4 DEF x
    <3>2. f[j] # h[j] /\ s[j + 1] = t[j + 1] /\ f[j] \in Words /\ h[j] \in Words
          BY <1>3, <1>5, <2>2, <3>1
    <3> HIDE DEF j
    <3> DEFINE p == polymod_step(f[j])
               q == polymod_step(h[j])
               b == Bits(s[j + 1])
    <3>3. p # q /\ p \in Words /\ q \in Words /\ b \in Words
          BY <3>2, StepFact, StepInjective, BitsFact
    <3>4. f[j + 1] = Xor(p, b) /\ h[j + 1] = Xor(q, b)
          BY <1>3, <3>1, <3>2
    <3> HIDE DEF p, q, b
    <3>5. Xor(p, b) # Xor(q, b)
      <4>1. \A c \in Words : Xor(b, Xor(c, b)) = c
            BY <3>3, XorAlgebra
      <4> QED BY <3>3, <4>1
    <3> QED BY <3>1, <3>4, <3>5
  <2>3. T \in SUBSET (0 .. n - k) /\ n - k \in Nat
        BY <1>1
  <2> HIDE DEF T
  <2> QED BY <2>1, <2>2, <2>3, BoundedInduction
<1>8. n - k \in T /\ k + (n - k) = n
  <2> HIDE DEF T
  <2> QED BY <1>1, <1>7
<1>9. f[n] # h[n]
      BY <1>8
<1> QED BY <1>1, <1>9 DEF f, h, n

(* A function on 1 .. n is a sequence.                                      *)
LEMMA IsSequence ==
    ASSUME NEW S, NEW n \in Nat, NEW f \in [1 .. n -> S]
    PROVE  f \in Seq(S) /\ Len(f) = n
<1>1. f \in Seq(S)
      BY SeqDef
<1>2. Len(f) \in Nat /\ DOMAIN f = 1 .. Len(f) /\ DOMAIN f = 1 .. n
      BY <1>1, LenProperties
<1>3. \A m \in Nat : 1 .. m = 1 .. n => m = n
      OBVIOUS
<1> QED BY <1>1, <1>2, <1>3

(* The symbols of the checksum are its bits, five at a time.               *)
LEMMA CheckFact ==
    ASSUME NEW w
    PROVE  /\ CheckSymbols(w) \in Seq(0 .. 31) /\ Len(CheckSymbols(w)) = 6
           /\ \A i \in 1 .. 6, j \in 0 .. 29 :
                j \in Bits(CheckSymbols(w)[i]) <=> j < 5 /\ j + 30 - 5 * i \in w
<1> DEFINE one(k) == IF k \in w THEN 1 ELSE 0
           v(k) == 16 * one(k + 4) + 8 * one(k + 3) + 4 * one(k + 2) + 2 * one(k + 1) + one(k)
<1>1. CheckSymbols(w) = [i \in 1 .. 6 |-> v((6 - i) * 5)]
      BY DEF CheckSymbols, CheckLen
<1>2. \A k : one(k) \in {0, 1} /\ (one(k) = 1 <=> k \in w)
      OBVIOUS
<1>3. ASSUME NEW k \in Nat
      PROVE  v(k) \in 0 .. 31 /\ \A j \in 0 .. 29 : j \in Bits(v(k)) <=> j < 5 /\ j + k \in w
  <2>1. /\ v(k) \in 0 .. 31
        /\ Bit(v(k), 4) = one(k + 4) /\ Bit(v(k), 3) = one(k + 3) /\ Bit(v(k), 2) = one(k + 2)
        /\ Bit(v(k), 1) = one(k + 1) /\ Bit(v(k), 0) = one(k)
    <3> HIDE DEF one
    <3> QED BY <1>2, BitsOfSum
  <2> HIDE DEF one, v
  <2>2. ASSUME NEW j \in 0 .. 29, j < 5
        PROVE  j \in Bits(v(k)) <=> j + k \in w
    <3>1. j = 0 \/ j = 1 \/ j = 2 \/ j = 3 \/ j = 4
          BY <2>2
    <3>2. j \in Bits(v(k)) <=> Bit(v(k), j) = 1
          BY DEF Bits
    <3>3. 0 + k = k /\ 1 + k = k + 1 /\ 2 + k = k + 2 /\ 3 + k = k + 3 /\ 4 + k = k + 4
          OBVIOUS
    <3> QED BY <1>2, <2>1, <3>1, <3>2, <3>3
  <2>3. ASSUME NEW j \in 0 .. 29, ~(j < 5)
        PROVE  j \notin Bits(v(k))
    <3>1. j \notin 0 .. 4
          BY <2>3
    <3> QED BY <2>1, <3>1, SymbolBits
  <2> QED BY <2>1, <2>2, <2>3
<1> HIDE DEF v
<1>4. ASSUME NEW i \in 1 .. 6
      PROVE  /\ CheckSymbols(w)[i] \in 0 .. 31
             /\ \A j \in 0 .. 29 : j \in Bits(CheckSymbols(w)[i]) <=> j < 5 /\ j + 30 - 5 * i \in w
  <2> DEFINE k == (6 - i) * 5
  <2>1. k \in Nat /\ CheckSymbols(w)[i] = v(k)
        BY <1>1
  <2>2. \A j \in 0 .. 29 : j + 30 - 5 * i = j + k
        OBVIOUS
  <2> HIDE DEF k
  <2> QED BY <1>3, <2>1, <2>2
<1>5. CheckSymbols(w) \in Seq(0 .. 31) /\ Len(CheckSymbols(w)) = 6
  <2> DEFINE c == CheckSymbols(w)
             S == 0 .. 31
  <2>1. c \in [1 .. 6 -> S] /\ 6 \in Nat
        BY <1>1, <1>4
  <2> HIDE DEF c, S
  <2>2. c \in Seq(S) /\ Len(c) = 6
        BY <2>1, IsSequence, ZenonT(60)
  <2> QED BY <2>2 DEF c, S
<1> QED BY <1>4, <1>5

(* The checksum of symbols with their check symbols is 1.                  *)
LEMMA Verified ==
    ASSUME NEW u \in Seq(0 .. 31), NEW z \in Seq(0 .. 31), Len(z) = 6,
           \A i \in 1 .. 6 : z[i] = 0
    PROVE  LET s == u \o z
               t == u \o CheckSymbols(Xor(Run(s)[Len(s)], Bits(1)))
           IN  Run(t)[Len(t)] = Bits(1)
<1> DEFINE n == Len(u)
           s == u \o z
           w == Xor(Run(s)[Len(s)], Bits(1))
           c == CheckSymbols(w)
           t == u \o c
           f == Run(s)
           h == Run(t)
           H(i) == {m \in 0 .. 29 : m < 5 * i /\ m + 30 - 5 * i \in w}
<1>0. n \in Nat
      BY LenProperties
<1>1. /\ c \in Seq(0 .. 31) /\ Len(c) = 6
      /\ \A i \in 1 .. 6, j \in 0 .. 29 : j \in Bits(c[i]) <=> j < 5 /\ j + 30 - 5 * i \in w
      BY CheckFact
<1>2. w \in Words
      BY XorFact
<1> HIDE DEF c
<1>3. /\ s \in Seq(0 .. 31) /\ Len(s) = n + 6 /\ t \in Seq(0 .. 31) /\ Len(t) = n + 6
      /\ \A i \in 1 .. n : s[i] = t[i]
      /\ \A i \in 1 .. 6 : s[n + i] = 0 /\ t[n + i] = c[i]
  <2>1. /\ s \in Seq(0 .. 31) /\ Len(s) = n + 6 /\ t \in Seq(0 .. 31) /\ Len(t) = n + 6
        /\ \A i \in 1 .. n + 6 : s[i] = IF i <= n THEN u[i] ELSE z[i - n]
        /\ \A i \in 1 .. n + 6 : t[i] = IF i <= n THEN u[i] ELSE c[i - n]
    <3>1. /\ s \in Seq(0 .. 31) /\ Len(s) = Len(u) + Len(z)
          /\ \A i \in 1 .. Len(u) + Len(z) : s[i] = IF i <= Len(u) THEN u[i] ELSE z[i - Len(u)]
          BY ConcatProperties
    <3>2. /\ t \in Seq(0 .. 31) /\ Len(t) = Len(u) + Len(c)
          /\ \A i \in 1 .. Len(u) + Len(c) : t[i] = IF i <= Len(u) THEN u[i] ELSE c[i - Len(u)]
          BY <1>1, ConcatProperties
    <3> HIDE DEF s, t
    <3> QED BY <1>1, <3>1, <3>2
  <2> HIDE DEF s, t, n
  <2>2. \A i \in 1 .. n : i \in 1 .. n + 6 /\ i <= n
        BY <1>0
  <2>3. \A i \in 1 .. 6 : n + i \in 1 .. n + 6 /\ ~(n + i <= n) /\ (n + i) - n = i
        BY <1>0
  <2> QED BY <2>1, <2>2, <2>3, SMTT(30)
<1>4. Follows(f, s) /\ Follows(h, t)
      BY <1>3, RunFact
<1> HIDE DEF s, t, n
<1>5. f[n] = h[n]
  <2> DEFINE S == 0 .. 31
  <2>1. n <= Len(s) /\ n <= Len(t)
        BY <1>0, <1>3
  <2>2. s \in Seq(S) /\ t \in Seq(S) /\ \A i \in 1 .. n : s[i] = t[i]
        BY <1>3
  <2> HIDE DEF S
  <2>3. Run(s)[n] = Run(t)[n]
        BY <1>0, <2>1, <2>2, RunAgrees
  <2> QED BY <2>3 DEF f, h
<1>6. /\ f \in [0 .. n + 6 -> Words] /\ h \in [0 .. n + 6 -> Words]
      /\ \A i \in 1 .. n + 6 : f[i] = Xor(polymod_step(f[i - 1]), Bits(s[i]))
      /\ \A i \in 1 .. n + 6 : h[i] = Xor(polymod_step(h[i - 1]), Bits(t[i]))
      BY <1>3, <1>4 DEF Follows
<1>7. w = Xor(f[n + 6], Bits(1))
      BY <1>3
<1> HIDE DEF f, h, w
<1>8. \A i \in 0 .. 6 : H(i) \in Words
      BY DEF Words
<1>9. ASSUME NEW i \in 0 .. 5
      PROVE  Xor(polymod_step(H(i)), Bits(c[i + 1])) = H(i + 1)
  <2> DEFINE p == polymod_step(H(i))
             b == Bits(c[i + 1])
  <2>1. i + 1 \in 1 .. 6 /\ i + 1 \in 0 .. 6
        OBVIOUS
  <2>2. ASSUME NEW j \in 0 .. 29
        PROVE  (j \in p) # (j \in b) <=> j \in H(i + 1)
    <3>1. j \notin Feedback(H(i))
      <4>1. \A k \in 25 .. 29 : k \notin H(i)
            OBVIOUS
      <4>2. 25 \notin H(i) /\ 26 \notin H(i) /\ 27 \notin H(i) /\ 28 \notin H(i) /\ 29 \notin H(i)
            BY <4>1
      <4> HIDE DEF H
      <4> QED BY <4>2 DEF Feedback
    <3>2. j \in p <=> j \in Shift(H(i))
      <4>1. \A x : j \in polymod_step(x) <=> (j \in Shift(x)) # (j \in Feedback(x))
            BY StepFact
      <4> HIDE DEF H
      <4>2. j \in p <=> (j \in Shift(H(i))) # (j \in Feedback(H(i)))
            BY <4>1
      <4> HIDE DEF p
      <4> QED BY <3>1, <4>2
    <3>3. j \in b <=> j < 5 /\ j + 30 - 5 * (i + 1) \in w
          BY <1>1, <2>1
    <3> HIDE DEF p, b
    <3>4. CASE j < 5
      <4>1. j \notin Shift(H(i))
            BY <3>4 DEF Shift
      <4>2. j \in H(i + 1) <=> j + 30 - 5 * (i + 1) \in w
            BY <3>4
      <4> QED BY <3>2, <3>3, <3>4, <4>1, <4>2
    <3>5. CASE ~(j < 5)
      <4>1. j - 5 \in 0 .. 29 /\ j \in 5 .. 29 /\ (j - 5) + 30 - 5 * i = j + 30 - 5 * (i + 1)
            BY <3>5
      <4>2. j - 5 < 5 * i <=> j < 5 * (i + 1)
            BY <4>1
      <4>3. j \in Shift(H(i)) <=> j - 5 \in H(i)
        <5> HIDE DEF H
        <5> QED BY <4>1 DEF Shift
      <4>4. j - 5 \in H(i) <=> j \in H(i + 1)
            BY <4>1, <4>2
      <4> QED BY <3>2, <3>3, <3>5, <4>3, <4>4
    <3> QED BY <3>4, <3>5
  <2> HIDE DEF p, b, H
  <2>3. \A j \in 0 .. 29 : j \in Xor(p, b) <=> (j \in p) # (j \in b)
        BY XorFact
  <2>4. Xor(p, b) \in Words /\ H(i + 1) \in Words
        BY <1>8, <2>1, XorFact
  <2> QED BY <2>2, <2>3, <2>4, SameWord DEF p, b
<1> DEFINE T == { i \in 0 .. 6 : h[n + i] = Xor(f[n + i], H(i)) }
<1>10. T = 0 .. 6
  <2>1. 0 \in T
    <3>1. n + 0 = n /\ n \in 0 .. n + 6
          BY <1>0
    <3>2. f[n] \in Words
          BY <1>6, <3>1
    <3>3. H(0) = {}
      <4>1. 5 * 0 = 0 /\ \A m \in 0 .. 29 : ~(m < 0)
            OBVIOUS
      <4>2. \A m \in H(0) : FALSE
            BY <4>1
      <4> HIDE DEF H
      <4> QED BY <4>2
    <3> HIDE DEF H
    <3>4. h[n + 0] = Xor(f[n + 0], H(0))
          BY <1>5, <3>1, <3>2, <3>3, XorAlgebra
    <3> QED BY <3>4
  <2>2. ASSUME NEW i \in 0 .. 6 - 1, i \in T
        PROVE  i + 1 \in T
    <3> DEFINE j == n + i
    <3>1. /\ j \in 0 .. n + 6 /\ j + 1 \in 1 .. n + 6 /\ (j + 1) - 1 = j /\ n + (i + 1) = j + 1
          /\ i + 1 \in 1 .. 6 /\ i + 1 \in 0 .. 6 /\ i \in 0 .. 6 /\ i \in 0 .. 5
          BY <1>0
    <3> DEFINE p == polymod_step(f[j])
               q == polymod_step(H(i))
               b == Bits(c[i + 1])
    <3>2. h[j] = Xor(f[j], H(i)) /\ s[j + 1] = 0 /\ t[j + 1] = c[i + 1]
      <4> HIDE DEF H
      <4> QED BY <1>3, <2>2, <3>1, SMTT(30)
    <3>3. p \in Words /\ q \in Words /\ b \in Words
          BY StepFact, BitsFact
    <3> HIDE DEF j
    <3>4. h[j + 1] = Xor(polymod_step(h[j]), b) /\ f[j + 1] = Xor(p, Bits(0))
      <4> HIDE DEF H
      <4> QED BY <1>6, <3>1, <3>2
    <3>5. f[j + 1] = p
      <4> HIDE DEF p
      <4> QED BY <3>3, <3>4, XorAlgebra, BitsFact
    <3>6. polymod_step(h[j]) = Xor(p, q)
      <4> HIDE DEF H
      <4> QED BY <3>2, StepLinear
    <3>7. Xor(q, b) = H(i + 1)
          BY <1>9, <3>1
    <3> HIDE DEF H, p, q, b
    <3>8. h[j + 1] = Xor(f[j + 1], H(i + 1))
          BY <3>3, <3>4, <3>5, <3>6, <3>7, XorAlgebra
    <3> QED BY <3>1, <3>8
  <2>3. T \in SUBSET (0 .. 6)
        OBVIOUS
  <2> HIDE DEF T
  <2> QED BY <2>1, <2>2, <2>3, BoundedInduction
<1>11. h[n + 6] = Xor(f[n + 6], H(6))
  <2>1. 6 \in T
    <3> HIDE DEF T
    <3> QED BY <1>10
  <2> HIDE DEF H
  <2> QED BY <2>1
<1>12. H(6) = w
  <2>1. \A j \in 0 .. 29 : j \in H(6) <=> j \in w
    <3>1. 5 * 6 = 30 /\ \A j \in 0 .. 29 : j < 30 /\ j + 30 - 30 = j
          OBVIOUS
    <3> QED BY <3>1
  <2> HIDE DEF H
  <2>2. H(6) \in Words
    <3>1. 6 \in 0 .. 6
          OBVIOUS
    <3> QED BY <1>8, <3>1
  <2> QED BY <1>2, <2>1, <2>2, SameWord
<1>13. f[n + 6] \in Words
      BY <1>0, <1>6
<1>14. h[n + 6] = Bits(1)
  <2> HIDE DEF H
  <2> QED BY <1>7, <1>11, <1>12, <1>13, XorAlgebra, BitsFact
<1> QED BY <1>3, <1>14 DEF h, n, s, t, c, w, f

-----------------------------------------------------------------------------
(* Regrouping bits                                                         *)

(* Dividing twice.                                                         *)
LEMMA DivDiv ==
    ASSUME NEW v \in Nat, NEW p \in Nat \ {0}, NEW q \in Nat \ {0}
    PROVE  p * q \in Nat \ {0} /\ v \div (p * q) = (v \div p) \div q
<1> DEFINE a == v \div p
           r == v % p
           b == a \div q
           t == a % q
<1>1. a \in Nat /\ r \in 0 .. p - 1 /\ v = p * a + r
      BY DivFact
<1> HIDE DEF a, r
<1>2. b \in Nat /\ t \in 0 .. q - 1 /\ a = q * b + t
      BY <1>1, DivFact
<1> HIDE DEF b, t
<1>3. p * q \in Nat \ {0}
      OBVIOUS
<1>4. p * t + r \in 0 .. p * q - 1
  <2>1. p * t <= p * (q - 1)
        BY <1>2
  <2>2. p * (q - 1) = p * q - p /\ p * t \in Nat
        BY <1>2
  <2> QED BY <1>1, <1>2, <1>3, <2>1, <2>2
<1>5. v = (p * q) * b + (p * t + r)
  <2>1. p * (q * b + t) = (p * q) * b + p * t
        BY <1>2
  <2> QED BY <1>1, <1>2, <2>1
<1>6. v \div (p * q) = b
  <2> DEFINE n == p * q
             x == p * t + r
  <2>1. n \in Nat \ {0} /\ x \in 0 .. n - 1 /\ v = n * b + x /\ b \in Int
        BY <1>2, <1>3, <1>4, <1>5
  <2> HIDE DEF n, x
  <2>2. (n * b + x) \div n = b
        BY <2>1, DivUnique
  <2>3. v \div n = b
        BY <2>1, <2>2
  <2> QED BY <2>3 DEF n
<1> QED BY <1>3, <1>6 DEF a, b

(* The same for all numbers.                                               *)
LEMMA DivTwice ==
    \A v \in Nat, p, q \in Nat \ {0} : v \div (p * q) = (v \div p) \div q
<1> TAKE v \in Nat, p \in Nat \ {0}, q \in Nat \ {0}
<1> QED BY DivDiv

(* The groups of bits that go out make up the number with the rest.        *)
LEMMA GroupFact ==
    \A O \in Nat \ {0}, bits, val \in Nat : val < Power(2, bits) =>
           /\ bits \div O \in Nat /\ bits % O \in 0 .. O - 1
           /\ bits = O * (bits \div O) + (bits % O)
           /\ Groups(val, bits, O) \in Seq(0 .. Power(2, O) - 1)
           /\ Len(Groups(val, bits, O)) = bits \div O
           /\ val % Power(2, bits % O) \in Nat /\ val % Power(2, bits % O) < Power(2, bits % O)
           /\ Positional(Groups(val, bits, O), Power(2, O)) * Power(2, bits % O)
                + (val % Power(2, bits % O)) = val
<1> TAKE O \in Nat \ {0}, bits, val \in Nat
<1> HAVE val < Power(2, bits)
<1> DEFINE k == bits \div O
           r == bits % O
           b == Power(2, O)
           P(j) == Power(2, bits - j * O)
           group == [j \in 1 .. k |-> (val \div P(j)) % b]
           e == [j \in 0 .. k |-> val \div P(j)]
<1>1. k \in Nat /\ r \in 0 .. O - 1 /\ bits = O * k + r
      BY DivFact
<1> HIDE DEF k, r
<1>2. b \in Nat \ {0} /\ Power(2, r) \in Nat \ {0}
      BY <1>1, Doubling
<1>3. ASSUME NEW j \in 0 .. k
      PROVE  bits - j * O \in Nat /\ P(j) \in Nat \ {0}
  <2>1. j * O <= k * O /\ j * O \in Nat
        BY <1>1
  <2>2. bits - j * O \in Nat
        BY <1>1, <2>1
  <2> QED BY <2>2, Doubling
<1>4. ASSUME NEW j \in 1 .. k
      PROVE  /\ val \div P(j) \in Nat /\ (val \div P(j)) % b \in 0 .. b - 1
             /\ val \div P(j) = (val \div P(j - 1)) * b + ((val \div P(j)) % b)
  <2>1. j \in 0 .. k /\ j - 1 \in 0 .. k /\ bits - (j - 1) * O = (bits - j * O) + O
        BY <1>1
  <2>2. P(j) \in Nat \ {0} /\ bits - j * O \in Nat
        BY <1>3, <2>1
  <2>3. P(j - 1) = P(j) * b
        BY <2>1, <2>2, PowerSum
  <2> DEFINE p == P(j)
             q == val \div p
  <2>4. p \in Nat \ {0} /\ P(j - 1) = p * b
        BY <2>2, <2>3
  <2> HIDE DEF p, b, P
  <2>5. val \div P(j - 1) = q \div b
    <3>1. val \div (p * b) = (val \div p) \div b
          BY DivTwice, <1>2, <2>4, Zenon
    <3> QED BY <2>4, <3>1
  <2>6. q \in Nat
        BY <2>4, DivFact
  <2> HIDE DEF q
  <2>7. q \div b \in Nat /\ q % b \in 0 .. b - 1 /\ q = b * (q \div b) + (q % b)
        BY <1>2, <2>6, DivFact
  <2>8. b * (q \div b) = (q \div b) * b
        BY <1>2, <2>7
  <2> QED BY <2>5, <2>6, <2>7, <2>8 DEF p, q
<1>5. group \in Seq(0 .. b - 1) /\ Len(group) = k
  <2> DEFINE S == 0 .. b - 1
  <2>1. group \in [1 .. k -> S]
        BY <1>4
  <2> HIDE DEF group, S
  <2> QED BY <1>1, <2>1, IsSequence DEF S
<1>6. group \in Seq(Nat)
      BY <1>5, SeqMonotonic, 0 .. b - 1 \subseteq Nat
<1>7. e[0] = 0 /\ e[k] = val \div Power(2, r)
  <2>1. bits - 0 * O = bits /\ bits - k * O = r /\ 0 \in 0 .. k /\ k \in 0 .. k
        BY <1>1
  <2>2. P(0) = Power(2, bits) /\ P(k) = Power(2, r)
        BY <2>1
  <2>3. val \div Power(2, bits) = 0
    <3>1. Power(2, bits) \in Nat \ {0}
          BY Doubling
    <3> DEFINE n == Power(2, bits)
    <3>2. n \in Nat \ {0} /\ val \in 0 .. n - 1
          BY <3>1
    <3> HIDE DEF n
    <3>3. (n * 0 + val) \div n = 0 /\ n * 0 + val = val
          BY <3>2, DivUnique
    <3> QED BY <3>3 DEF n
  <2> HIDE DEF P
  <2> QED BY <2>1, <2>2, <2>3
<1>8. \A j \in 1 .. k : e[j] = e[j - 1] * b + group[j]
  <2> TAKE j \in 1 .. k
  <2>1. j \in 0 .. k /\ j - 1 \in 0 .. k
        BY <1>1
  <2>2. e[j] = val \div P(j) /\ e[j - 1] = val \div P(j - 1) /\ group[j] = (val \div P(j)) % b
    <3> HIDE DEF P, b
    <3> QED BY <2>1
  <2> HIDE DEF e, group, P, b
  <2> QED BY <1>4, <2>2
<1> HIDE DEF e, group, b
<1>9. Values(e, group, b)
      BY <1>5, <1>7, <1>8 DEF Values
<1>10. Positional(group, b) = val \div Power(2, r)
       BY <1>2, <1>5, <1>6, <1>7, <1>9, PositionalOf
<1>11. /\ val % Power(2, r) \in Nat /\ val % Power(2, r) < Power(2, r)
       /\ (val \div Power(2, r)) * Power(2, r) + (val % Power(2, r)) = val
  <2> DEFINE n == Power(2, r)
  <2>1. n \in Nat \ {0}
        BY <1>2
  <2> HIDE DEF n
  <2>2. val \div n \in Nat /\ val % n \in 0 .. n - 1 /\ val = n * (val \div n) + (val % n)
        BY <2>1, DivFact
  <2>3. n * (val \div n) = (val \div n) * n
        BY <2>1, <2>2
  <2>4. val % n \in Nat /\ val % n < n /\ (val \div n) * n + (val % n) = val
        BY <2>1, <2>2, <2>3
  <2> QED BY <2>4 DEF n
<1> QED BY <1>1, <1>5, <1>10, <1>11 DEF k, r, b, group, Groups

(* What convert_bits has after some of its input: its output and what is   *)
(* left write the number of the input.                                     *)
Regrouped(s, n, h, I, O) ==
    /\ s.out \in Seq(0 .. Power(2, O) - 1)
    /\ s.bits \in 0 .. O - 1 /\ s.val \in Nat /\ s.val < Power(2, s.bits)
    /\ Len(s.out) * O + s.bits = n * I
    /\ Positional(s.out, Power(2, O)) * Power(2, s.bits) + s.val = h

(* The accumulator takes one more number.                                  *)
LEMMA Accumulated ==
    ASSUME NEW v \in Nat, NEW p \in Nat, NEW c \in Nat \ {0}, v < p, NEW x \in 0 .. c - 1
    PROVE  v * c + x \in Nat /\ v * c + x < p * c
<1>1. v + 1 <= p
      OBVIOUS
<1>2. (v + 1) * c <= p * c
      BY <1>1
<1>3. (v + 1) * c = v * c + c /\ v * c \in Nat /\ p * c \in Nat
      OBVIOUS
<1> QED BY <1>2, <1>3

(* Factoring out.                                                          *)
LEMMA Distributes ==
    \A i, j, k, l \in Nat : (i * j + k) * l = i * (j * l) + k * l
OBVIOUS

(* Two ways to write one number.                                           *)
LEMMA Rearranged ==
    ASSUME NEW N \in Nat, NEW M \in Nat, NEW e \in Nat, NEW p \in Nat, NEW q \in Nat,
           NEW c \in Nat, NEW v \in Nat, NEW w \in Nat, NEW x \in Nat
    PROVE  e * p = q * c /\ M * p + w = v * c + x
             => (N * e + M) * p + w = (N * q + v) * c + x
<1>2. (N * e + M) * p = N * (e * p) + M * p
      BY Distributes
<1>3. (N * q + v) * c = N * (q * c) + v * c
      BY Distributes
<1> DEFINE a == N * (q * c)
           b == M * p
           d == v * c
<1> HAVE e * p = q * c /\ M * p + w = v * c + x
<1>4. a \in Nat /\ b \in Nat /\ d \in Nat /\ (N * e + M) * p = a + b /\ (N * q + v) * c = a + d
      BY <1>2, <1>3
<1>5. b + w = d + x
      OBVIOUS
<1> HIDE DEF a, b, d
<1> DEFINE y == (N * e + M) * p
           z == (N * q + v) * c
<1>6. y = a + b /\ z = a + d
      BY <1>4
<1> HIDE DEF y, z
<1>7. y + w = z + x
      BY <1>4, <1>5, <1>6
<1> QED BY <1>7 DEF y, z

(* A round of convert_bits.                                                *)
LEMMA RegroupFact ==
    ASSUME NEW I \in Nat \ {0}, NEW O \in Nat \ {0}, NEW n \in Nat, NEW h \in Nat, NEW s,
           Regrouped(s, n, h, I, O), NEW x \in 0 .. Power(2, I) - 1
    PROVE  Regrouped(Regroup(s, x, I, O), n + 1, h * Power(2, I) + x, I, O)
<1> DEFINE c == Power(2, I)
           d == Power(2, O)
           v == s.val
           y == s.bits
           val == v * c + x
           bits == y + I
           k == bits \div O
           r == bits % O
           group == Groups(val, bits, O)
           t == Regroup(s, x, I, O)
           u == s.out
           N == Positional(u, d)
           M == Positional(group, d)
<1>1. c \in Nat \ {0} /\ d \in Nat \ {0}
      BY Doubling
<1>2. /\ u \in Seq(0 .. d - 1) /\ y \in 0 .. O - 1 /\ v \in Nat
      /\ v < Power(2, y) /\ Len(u) * O + y = n * I
      /\ N * Power(2, y) + v = h
      BY DEF Regrouped
<1>3. t = [out |-> u \o group, val |-> val % Power(2, r), bits |-> r]
      BY DEF Regroup
<1>4. t.out = u \o group /\ t.val = val % Power(2, r) /\ t.bits = r
  <2> HIDE DEF u, group, val, r, t
  <2> QED BY <1>3
<1> HIDE DEF u, v, y, t
<1>5. y \in Nat /\ bits \in Nat /\ Power(2, y) \in Nat /\ Power(2, bits) = Power(2, y) * c
  <2>1. y \in Nat /\ bits \in Nat /\ bits = y + I
        BY <1>2
  <2>2. Power(2, y + I) = Power(2, y) * Power(2, I)
        BY <2>1, PowerSum
  <2> QED BY <2>1, <2>2, Doubling
<1>6. val \in Nat /\ val < Power(2, bits)
  <2> HIDE DEF c
  <2> QED BY <1>1, <1>2, <1>5, Accumulated, ZenonT(60) DEF c
<1>7. /\ k \in Nat /\ r \in 0 .. O - 1 /\ bits = O * k + r
      /\ group \in Seq(0 .. d - 1) /\ Len(group) = k
      /\ val % Power(2, r) \in Nat /\ val % Power(2, r) < Power(2, r)
      /\ M * Power(2, r) + (val % Power(2, r)) = val
  <2> HIDE DEF val, bits
  <2>1. bits \in Nat /\ val \in Nat /\ val < Power(2, bits)
        BY <1>5, <1>6
  <2> QED BY <2>1, GroupFact, ZenonT(60)
<1> DEFINE w == val % Power(2, r)
<1>8. w \in Nat /\ w < Power(2, r) /\ M * Power(2, r) + w = v * c + x /\ y + I = O * k + r
      BY <1>7
<1>9. t.out = u \o group /\ t.val = w /\ t.bits = r
      BY <1>4
<1> HIDE DEF w, group, r, k, val, bits, N, M
<1>10. /\ t.out \in Seq(0 .. d - 1) /\ Len(t.out) = Len(u) + k
       /\ Len(u) \in Nat
  <2> DEFINE S == 0 .. d - 1
  <2>1. u \in Seq(S) /\ group \in Seq(S) /\ Len(group) = k
        BY <1>2, <1>7
  <2> HIDE DEF S
  <2>2. u \o group \in Seq(S) /\ Len(u \o group) = Len(u) + Len(group) /\ Len(u) \in Nat
        BY <2>1, ConcatProperties, LenProperties
  <2> QED BY <1>9, <2>1, <2>2 DEF S
<1>11. Len(t.out) * O + r = (n + 1) * I
  <2> DEFINE l == Len(u)
  <2>1. l * O + y = n * I /\ y + I = O * k + r /\ l \in Nat /\ k \in Nat /\ r \in Nat
        BY <1>2, <1>7, <1>8, <1>10
  <2> HIDE DEF l
  <2>2. (l + k) * O = l * O + O * k /\ (n + 1) * I = n * I + I
        BY <2>1
  <2>3. l * O \in Nat /\ O * k \in Nat /\ n * I \in Nat
        BY <2>1
  <2>4. (l + k) * O + r = (n + 1) * I
        BY <1>5, <2>1, <2>2, <2>3
  <2> QED BY <1>10, <2>4 DEF l
<1>12. Positional(t.out, d) * Power(2, r) + w = h * c + x
  <2> DEFINE p == Power(2, r)
             q == Power(2, y)
             e == Power(2, O * k)
  <2>1. /\ u \in Seq(Nat) /\ group \in Seq(Nat)
        BY <1>2, <1>7, SeqMonotonic, 0 .. d - 1 \subseteq Nat
  <2>2. /\ N \in Nat /\ M \in Nat
        /\ Positional(t.out, d) = N * Power(d, k) + M
    <3> HIDE DEF d
    <3>1. Len(group) = k
          BY <1>7
    <3>2. /\ Positional(u, d) \in Nat /\ Positional(group, d) \in Nat
          /\ Positional(u \o group, d) =
               Positional(u, d) * Power(d, Len(group)) + Positional(group, d)
          BY <1>1, <2>1, PositionalConcat
    <3> QED BY <1>9, <3>1, <3>2 DEF N, M
  <2>3. Power(d, k) = e
        BY <1>7, PowerPower
  <2>4. p \in Nat /\ q \in Nat /\ e \in Nat /\ e * p = q * c
    <3>1. O * k \in Nat /\ r \in Nat /\ y \in Nat /\ O * k + r = y + I
          BY <1>5, <1>7, <1>8
    <3>2. Power(2, O * k + r) = e * p /\ Power(2, y + I) = q * c
          BY <3>1, PowerSum, ZenonT(60)
    <3> QED BY <3>1, <3>2, Doubling
  <2>5. M * p + w = v * c + x /\ N * q + v = h /\ v \in Nat /\ w \in Nat /\ x \in Nat
        BY <1>1, <1>2, <1>8
  <2> HIDE DEF p, q, e, c
  <2>6. (N * e + M) * p + w = (N * q + v) * c + x
        BY <1>1, <2>2, <2>4, <2>5, Rearranged
  <2>7. (N * e + M) * p + w = h * c + x
        BY <2>5, <2>6
  <2>8. Positional(t.out, d) = N * e + M
        BY <2>2, <2>3
  <2> HIDE DEF d
  <2>9. Positional(t.out, d) * p + w = h * c + x
        BY <2>7, <2>8
  <2> QED BY <2>9 DEF p, c
<1> QED BY <1>7, <1>8, <1>9, <1>10, <1>11, <1>12 DEF Regrouped, t, c, d

(* The rounds of convert_bits over a sequence.                             *)
Rounds(f, in, I, O) ==
    /\ f[0] = [out |-> <<>>, val |-> 0, bits |-> 0]
    /\ \A i \in 1 .. Len(in) : f[i] = Regroup(f[i - 1], in[i], I, O)

(* What convert_bits may have.                                             *)
Regroupable(I, O) ==
    { s \in [out : Seq(0 .. Power(2, O) - 1), val : Nat, bits : Nat] :
        \E k, h \in Nat : Regrouped(s, k, h, I, O) }

(* A round of convert_bits leaves it so.                                   *)
LEMMA RegroupStays ==
    ASSUME NEW I \in Nat \ {0}, NEW O \in Nat \ {0}, NEW s \in Regroupable(I, O),
           NEW x \in 0 .. Power(2, I) - 1
    PROVE  Regroup(s, x, I, O) \in Regroupable(I, O)
<1> DEFINE t == Regroup(s, x, I, O)
           c == Power(2, I)
<1>1. PICK i, j \in Nat : Regrouped(s, i, j, I, O)
      BY DEF Regroupable
<1>2. Regrouped(t, i + 1, j * c + x, I, O)
      BY <1>1, RegroupFact
<1>3. i + 1 \in Nat /\ j * c + x \in Nat
  <2>1. c \in Nat \ {0}
        BY Doubling
  <2> HIDE DEF c
  <2>2. x \in Nat /\ j * c \in Nat
        BY <2>1 DEF c
  <2> QED BY <2>2
<1>4. t = [out |-> t.out, val |-> t.val, bits |-> t.bits]
      BY DEF Regroup
<1>5. t.out \in Seq(0 .. Power(2, O) - 1) /\ t.val \in Nat /\ t.bits \in Nat
      BY <1>2 DEF Regrouped
<1> HIDE DEF t, c
<1>6. t \in [out : Seq(0 .. Power(2, O) - 1), val : Nat, bits : Nat]
  <2> DEFINE F == Seq(0 .. Power(2, O) - 1)
             a == t.out
             b == t.val
             e == t.bits
  <2>1. a \in F /\ b \in Nat /\ e \in Nat /\ t = [out |-> a, val |-> b, bits |-> e]
        BY <1>4, <1>5
  <2> HIDE DEF F, a, b, e
  <2>2. t \in [out : F, val : Nat, bits : Nat]
        BY <2>1
  <2> QED BY <2>2 DEF F
<1>7. t \in Regroupable(I, O)
      BY <1>2, <1>3, <1>6 DEF Regroupable
<1> QED BY <1>7 DEF t

(* They can be told one by one.                                            *)
LEMMA RoundsExist ==
    ASSUME NEW I \in Nat \ {0}, NEW O \in Nat \ {0}, NEW in \in Seq(0 .. Power(2, I) - 1),
           NEW pad \in BOOLEAN
    PROVE  \E f : /\ Rounds(f, in, I, O)
                  /\ LET end == f[Len(in)]
                     IN  convert_bits(in, I, O, pad) =
                           [ok |-> pad \/ (end.val = 0 /\ end.bits < I),
                            out |-> end.out \o IF pad /\ end.bits > 0
                              THEN <<(end.val * Power(2, O - end.bits)) % Power(2, O)>> ELSE <<>>]
<1> DEFINE n == Len(in)
           c == Power(2, I)
           d == Power(2, O)
           z == [out |-> <<>>, val |-> 0, bits |-> 0]
           S == Regroupable(I, O)
           Q(f) == f = [i \in 0 .. n |-> IF i = 0 THEN z ELSE Regroup(f[i - 1], in[i], I, O)]
           g == [k \in 1 .. n |-> [s \in S |-> Regroup(s, in[k], I, O)]]
           h == CHOOSE f : Q(f)
<1>1. n \in Nat /\ c \in Nat \ {0} /\ \A i \in 1 .. n : in[i] \in 0 .. c - 1
      BY LenProperties, ElementOfSeq, Doubling
<1>2. z \in S
  <2>1. Regrouped(z, 0, 0, I, O)
    <3>1. <<>> \in Seq(Nat) /\ Positional(<<>>, d) = 0 /\ d \in Nat
          BY PositionalOne, Doubling
    <3>2. Power(2, 0) = 1
          BY Doubling
    <3> HIDE DEF d
    <3>3. 0 * O + 0 = 0 * I /\ 0 * 1 + 0 = 0
          OBVIOUS
    <3>4. z.out = <<>> /\ z.val = 0 /\ z.bits = 0 /\ Len(<<>>) = 0 /\ 0 \in 0 .. O - 1
          OBVIOUS
    <3>5. <<>> \in Seq(0 .. d - 1)
          OBVIOUS
    <3> HIDE DEF z
    <3> QED BY <3>1, <3>2, <3>3, <3>4, <3>5 DEF Regrouped, d
  <2>2. z \in [out : Seq(0 .. d - 1), val : Nat, bits : Nat]
        OBVIOUS
  <2> HIDE DEF z
  <2> QED BY <2>1, <2>2 DEF Regroupable
<1>3. \A s \in S, k \in 1 .. n : Regroup(s, in[k], I, O) \in S
  <2>1. \A s \in S, x \in 0 .. c - 1 : Regroup(s, x, I, O) \in S
        BY RegroupStays
  <2> HIDE DEF S, c
  <2> QED BY <1>1, <2>1
<1> HIDE DEF S, z, n, c, d
<1>4. g \in [1 .. n -> [S -> S]] /\ \A k \in 1 .. n, s \in S : g[k][s] = Regroup(s, in[k], I, O)
      BY <1>3
<1>5. \E f : Q(f)
  <2>1. PICK f : Recursive(f, S, z, n, g)
    <3> HIDE DEF g
    <3> QED BY <1>1, <1>2, <1>4, RecursiveFunction
  <2>2. /\ f = [i \in 0 .. n |-> f[i]] /\ f[0] = z
        /\ \A i \in 1 .. n : f[i] = g[i][f[i - 1]] /\ f[i - 1] \in S
    <3> HIDE DEF g
    <3>1. \A i \in 1 .. n : i - 1 \in 0 .. n
          BY <1>1
    <3> QED BY <1>1, <2>1, <3>1 DEF Recursive
  <2>3. \A i \in 1 .. n : f[i] = Regroup(f[i - 1], in[i], I, O)
    <3> HIDE DEF g
    <3> QED BY <1>4, <2>2
  <2>4. \A i \in 0 .. n : f[i] = IF i = 0 THEN z ELSE Regroup(f[i - 1], in[i], I, O)
    <3>1. \A i \in 0 .. n : i = 0 \/ i \in 1 .. n
          BY <1>1
    <3> QED BY <2>2, <2>3, <3>1
  <2>5. f = [i \in 0 .. n |-> f[i]]
        BY <2>2
  <2>6. f = [i \in 0 .. n |-> IF i = 0 THEN z ELSE Regroup(f[i - 1], in[i], I, O)]
        BY <2>4, <2>5, Zenon
  <2> QED BY <2>6
<1>6. Q(h)
  <2> HIDE DEF Q
  <2> QED BY <1>5
<1>7. LET end == h[n]
      IN  convert_bits(in, I, O, pad) =
            [ok |-> pad \/ (end.val = 0 /\ end.bits < I),
             out |-> end.out \o IF pad /\ end.bits > 0
               THEN <<(end.val * Power(2, O - end.bits)) % Power(2, O)>> ELSE <<>>]
      BY DEF convert_bits, n, z
<1> HIDE DEF h
<1>8. h[0] = z /\ \A i \in 1 .. n : h[i] = Regroup(h[i - 1], in[i], I, O)
      BY <1>1, <1>6
<1>9. Rounds(h, in, I, O)
      BY <1>8 DEF Rounds, z, n
<1> QED BY <1>7, <1>9 DEF n

(* Bits that come out even.                                                *)
Even(n, I, m, O) == n * I = m * O

Rewritten(c, in, I, m, O) ==
    /\ c.ok = TRUE /\ c.out \in Seq(0 .. Power(2, O) - 1) /\ Len(c.out) = m
    /\ Positional(c.out, Power(2, O)) = Positional(in, Power(2, I))

(* Where they do, convert_bits writes the same number.                     *)
LEMMA Converted ==
    ASSUME NEW I \in Nat \ {0}, NEW O \in Nat \ {0}, NEW in \in Seq(0 .. Power(2, I) - 1),
           NEW pad \in BOOLEAN, NEW m \in Nat, Even(Len(in), I, m, O)
    PROVE  Rewritten(convert_bits(in, I, O, pad), in, I, m, O)
<1> DEFINE n == Len(in)
           c == Power(2, I)
           d == Power(2, O)
<1>1. n \in Nat /\ c \in Nat \ {0} /\ d \in Nat \ {0} /\ in \in Seq(Nat)
      /\ \A i \in 1 .. n : in[i] \in 0 .. c - 1
      BY LenProperties, ElementOfSeq, Doubling, SeqMonotonic, 0 .. Power(2, I) - 1 \subseteq Nat
<1>2. PICK f : /\ Rounds(f, in, I, O)
               /\ LET end == f[n]
                  IN  convert_bits(in, I, O, pad) =
                           [ok |-> pad \/ (end.val = 0 /\ end.bits < I),
                            out |-> end.out \o IF pad /\ end.bits > 0
                              THEN <<(end.val * Power(2, O - end.bits)) % Power(2, O)>> ELSE <<>>]
      BY RoundsExist
<1>3. PICK h \in [0 .. n -> Nat] : Values(h, in, c) /\ Positional(in, c) = h[n]
      BY <1>1, PositionalSteps
<1> DEFINE T == { k \in 0 .. n : Regrouped(f[k], k, h[k], I, O) }
<1>4. /\ f[0] = [out |-> <<>>, val |-> 0, bits |-> 0] /\ h[0] = 0
      /\ \A i \in 1 .. n : f[i] = Regroup(f[i - 1], in[i], I, O)
      /\ \A i \in 1 .. n : h[i] = h[i - 1] * c + in[i]
      BY <1>2, <1>3 DEF Rounds, Values
<1> HIDE DEF n, c, d
<1>5. T = 0 .. n
  <2>1. 0 \in T
    <3> DEFINE z == f[0]
    <3>1. z.out = <<>> /\ z.val = 0 /\ z.bits = 0
          BY <1>4
    <3>2. <<>> \in Seq(Nat) /\ Positional(<<>>, d) = 0
          BY <1>1, PositionalOne
    <3>3. Power(2, 0) = 1
          BY Doubling
    <3>4. <<>> \in Seq(0 .. d - 1) /\ Len(<<>>) = 0 /\ 0 \in 0 .. O - 1 /\ 0 * O + 0 = 0 * I
          /\ 0 * 1 + 0 = 0
          OBVIOUS
    <3> HIDE DEF z
    <3>5. Regrouped(z, 0, 0, I, O)
          BY <3>1, <3>2, <3>3, <3>4 DEF Regrouped, d
    <3> QED BY <1>1, <1>4, <3>5 DEF z
  <2>2. ASSUME NEW k \in 0 .. n - 1, k \in T
        PROVE  k + 1 \in T
    <3>1. k + 1 \in 1 .. n /\ (k + 1) - 1 = k /\ k + 1 \in 0 .. n /\ k \in Nat
          /\ Regrouped(f[k], k, h[k], I, O) /\ h[k] \in Nat
          BY <1>1, <1>3, <2>2
    <3> DEFINE x == in[k + 1]
               s == f[k]
               y == h[k]
    <3>2. f[k + 1] = Regroup(s, x, I, O) /\ h[k + 1] = y * c + x
          BY <1>4, <3>1
    <3>3. x \in 0 .. Power(2, I) - 1 /\ y \in Nat /\ Regrouped(s, k, y, I, O)
          BY <1>1, <3>1 DEF c
    <3> HIDE DEF x, s, y
    <3>4. Regrouped(Regroup(s, x, I, O), k + 1, y * Power(2, I) + x, I, O)
          BY <3>1, <3>3, RegroupFact
    <3> QED BY <3>1, <3>2, <3>4 DEF c
  <2>3. T \in SUBSET (0 .. n)
        OBVIOUS
  <2> HIDE DEF T
  <2> QED BY <1>1, <2>1, <2>2, <2>3, BoundedInduction
<1> DEFINE e == f[n]
<1>6. Regrouped(e, n, h[n], I, O)
  <2>1. n \in T
    <3> HIDE DEF T
    <3> QED BY <1>1, <1>5
  <2> QED BY <2>1
<1>7. convert_bits(in, I, O, pad) =
        [ok |-> pad \/ (e.val = 0 /\ e.bits < I),
         out |-> e.out \o IF pad /\ e.bits > 0
           THEN <<(e.val * Power(2, O - e.bits)) % Power(2, O)>> ELSE <<>>]
      BY <1>2
<1> HIDE DEF e
<1>8. /\ e.out \in Seq(0 .. d - 1) /\ e.bits \in 0 .. O - 1 /\ e.val \in Nat
      /\ e.val < Power(2, e.bits) /\ Len(e.out) * O + e.bits = m * O
      /\ Positional(e.out, d) * Power(2, e.bits) + e.val = h[n]
      BY <1>6 DEF Regrouped, Even, d, n
<1>9. Len(e.out) = m /\ e.bits = 0
  <2> DEFINE l == Len(e.out)
             b == e.bits
  <2>1. l \in Nat /\ b \in 0 .. O - 1 /\ l * O + b = m * O
        BY <1>8, LenProperties
  <2> HIDE DEF l, b
  <2>2. O * l + b = O * m + 0
        BY <2>1
  <2>3. (O * l + b) \div O = l /\ (O * m + 0) \div O = m
    <3>1. \A q \in Int, x \in 0 .. O - 1 : (O * q + x) \div O = q
          BY DivUnique
    <3>2. l \in Int /\ m \in Int /\ b \in 0 .. O - 1 /\ 0 \in 0 .. O - 1
          BY <2>1
    <3> QED BY <3>1, <3>2, Zenon
  <2>4. l = m
        BY <2>2, <2>3
  <2>5. b = 0
        BY <2>1, <2>4
  <2> QED BY <2>4, <2>5 DEF l, b
<1>10. e.val = 0 /\ Positional(e.out, d) = h[n]
  <2>1. Power(2, e.bits) = 1
        BY <1>9, Doubling
  <2>2. e.val = 0
        BY <1>8, <2>1
  <2>3. Positional(e.out, d) \in Nat
        BY <1>1, <1>8, PositionalBound
  <2> QED BY <1>8, <2>1, <2>2, <2>3
<1>11. convert_bits(in, I, O, pad) = [ok |-> TRUE, out |-> e.out \o <<>>]
  <2>1. (pad \/ (e.val = 0 /\ e.bits < I)) = TRUE
        BY <1>9, <1>10
  <2>2. ~ (pad /\ e.bits > 0)
        BY <1>9
  <2> QED BY <1>7, <2>1, <2>2
<1>12. e.out \o <<>> = e.out
       BY <1>8, ConcatEmptySeq
<1> QED BY <1>3, <1>8, <1>9, <1>10, <1>11, <1>12 DEF Rewritten, c, d

-----------------------------------------------------------------------------
(* Characters                                                              *)

(* The characters of the symbols.                                          *)
LEMMA CharsetFact ==
    /\ charset[1] = 113 /\ charset[2] = 112 /\ charset[3] = 122 /\ charset[4] = 114
    /\ charset[5] = 121 /\ charset[6] = 57 /\ charset[7] = 120 /\ charset[8] = 56
    /\ charset[9] = 103 /\ charset[10] = 102 /\ charset[11] = 50 /\ charset[12] = 116
    /\ charset[13] = 118 /\ charset[14] = 100 /\ charset[15] = 119 /\ charset[16] = 48
    /\ charset[17] = 115 /\ charset[18] = 51 /\ charset[19] = 106 /\ charset[20] = 110
    /\ charset[21] = 53 /\ charset[22] = 52 /\ charset[23] = 107 /\ charset[24] = 104
    /\ charset[25] = 99 /\ charset[26] = 101 /\ charset[27] = 54 /\ charset[28] = 109
    /\ charset[29] = 117 /\ charset[30] = 97 /\ charset[31] = 55 /\ charset[32] = 108
BY DEF charset

(* The symbols of the characters.                                          *)
LEMMA RevFact ==
    /\ charset_rev[1] = 15 /\ charset_rev[2] = -1 /\ charset_rev[3] = 10 /\ charset_rev[4] = 17
    /\ charset_rev[5] = 21 /\ charset_rev[6] = 20 /\ charset_rev[7] = 26 /\ charset_rev[8] = 30
    /\ charset_rev[9] = 7 /\ charset_rev[10] = 5 /\ charset_rev[11] = -1 /\ charset_rev[12] = -1
    /\ charset_rev[13] = -1 /\ charset_rev[14] = -1 /\ charset_rev[15] = -1 /\ charset_rev[16] = -1
    /\ charset_rev[17] = -1 /\ charset_rev[18] = 29 /\ charset_rev[19] = -1 /\ charset_rev[20] = 24
    /\ charset_rev[21] = 13 /\ charset_rev[22] = 25 /\ charset_rev[23] = 9 /\ charset_rev[24] = 8
    /\ charset_rev[25] = 23 /\ charset_rev[26] = -1 /\ charset_rev[27] = 18 /\ charset_rev[28] = 22
    /\ charset_rev[29] = 31 /\ charset_rev[30] = 27 /\ charset_rev[31] = 19 /\ charset_rev[32] = -1
    /\ charset_rev[33] = 1 /\ charset_rev[34] = 0 /\ charset_rev[35] = 3 /\ charset_rev[36] = 16
    /\ charset_rev[37] = 11 /\ charset_rev[38] = 28 /\ charset_rev[39] = 12 /\ charset_rev[40] = 14
    /\ charset_rev[41] = 6 /\ charset_rev[42] = 4 /\ charset_rev[43] = 2 /\ charset_rev[44] = -1
    /\ charset_rev[45] = -1 /\ charset_rev[46] = -1 /\ charset_rev[47] = -1 /\ charset_rev[48] = -1
    /\ charset_rev[49] = -1 /\ charset_rev[50] = 29 /\ charset_rev[51] = -1 /\ charset_rev[52] = 24
    /\ charset_rev[53] = 13 /\ charset_rev[54] = 25 /\ charset_rev[55] = 9 /\ charset_rev[56] = 8
    /\ charset_rev[57] = 23 /\ charset_rev[58] = -1 /\ charset_rev[59] = 18 /\ charset_rev[60] = 22
    /\ charset_rev[61] = 31 /\ charset_rev[62] = 27 /\ charset_rev[63] = 19 /\ charset_rev[64] = -1
    /\ charset_rev[65] = 1 /\ charset_rev[66] = 0 /\ charset_rev[67] = 3 /\ charset_rev[68] = 16
    /\ charset_rev[69] = 11 /\ charset_rev[70] = 28 /\ charset_rev[71] = 12 /\ charset_rev[72] = 14
    /\ charset_rev[73] = 6 /\ charset_rev[74] = 4 /\ charset_rev[75] = 2 /\ charset_rev[76] = -1
    /\ charset_rev[77] = -1 /\ charset_rev[78] = -1 /\ charset_rev[79] = -1 /\ charset_rev[80] = -1
BY DEF charset_rev

(* The character of a symbol stands for it, as a capital too.              *)
LEMMA CharFact ==
    ASSUME NEW v \in 0 .. 31
    PROVE  LET c == charset[v + 1]
           IN  /\ c \in 48 .. 57 \/ Small(c)
               /\ c # Separator /\ SymbolOf(c) = v
               /\ Small(c) => SymbolOf(c - 32) = v
<1>1. CASE v \in 0 .. 7
  <2>1. \/ v = 0 \/ v = 1 \/ v = 2 \/ v = 3 \/ v = 4 \/ v = 5 \/ v = 6 \/ v = 7
        BY <1>1
  <2>2. CASE v = 0
        BY <2>2, CharsetFact, RevFact DEF SymbolOf, Small, Separator
  <2>3. CASE v = 1
        BY <2>3, CharsetFact, RevFact DEF SymbolOf, Small, Separator
  <2>4. CASE v = 2
        BY <2>4, CharsetFact, RevFact DEF SymbolOf, Small, Separator
  <2>5. CASE v = 3
        BY <2>5, CharsetFact, RevFact DEF SymbolOf, Small, Separator
  <2>6. CASE v = 4
        BY <2>6, CharsetFact, RevFact DEF SymbolOf, Small, Separator
  <2>7. CASE v = 5
        BY <2>7, CharsetFact, RevFact DEF SymbolOf, Small, Separator
  <2>8. CASE v = 6
        BY <2>8, CharsetFact, RevFact DEF SymbolOf, Small, Separator
  <2>9. CASE v = 7
        BY <2>9, CharsetFact, RevFact DEF SymbolOf, Small, Separator
  <2> QED BY <2>1, <2>2, <2>3, <2>4, <2>5, <2>6, <2>7, <2>8, <2>9
<1>2. CASE v \in 8 .. 15
  <2>1. \/ v = 8 \/ v = 9 \/ v = 10 \/ v = 11 \/ v = 12 \/ v = 13 \/ v = 14 \/ v = 15
        BY <1>2
  <2>2. CASE v = 8
        BY <2>2, CharsetFact, RevFact DEF SymbolOf, Small, Separator
  <2>3. CASE v = 9
        BY <2>3, CharsetFact, RevFact DEF SymbolOf, Small, Separator
  <2>4. CASE v = 10
        BY <2>4, CharsetFact, RevFact DEF SymbolOf, Small, Separator
  <2>5. CASE v = 11
        BY <2>5, CharsetFact, RevFact DEF SymbolOf, Small, Separator
  <2>6. CASE v = 12
        BY <2>6, CharsetFact, RevFact DEF SymbolOf, Small, Separator
  <2>7. CASE v = 13
        BY <2>7, CharsetFact, RevFact DEF SymbolOf, Small, Separator
  <2>8. CASE v = 14
        BY <2>8, CharsetFact, RevFact DEF SymbolOf, Small, Separator
  <2>9. CASE v = 15
        BY <2>9, CharsetFact, RevFact DEF SymbolOf, Small, Separator
  <2> QED BY <2>1, <2>2, <2>3, <2>4, <2>5, <2>6, <2>7, <2>8, <2>9
<1>3. CASE v \in 16 .. 23
  <2>1. \/ v = 16 \/ v = 17 \/ v = 18 \/ v = 19 \/ v = 20 \/ v = 21 \/ v = 22 \/ v = 23
        BY <1>3
  <2>2. CASE v = 16
        BY <2>2, CharsetFact, RevFact DEF SymbolOf, Small, Separator
  <2>3. CASE v = 17
        BY <2>3, CharsetFact, RevFact DEF SymbolOf, Small, Separator
  <2>4. CASE v = 18
        BY <2>4, CharsetFact, RevFact DEF SymbolOf, Small, Separator
  <2>5. CASE v = 19
        BY <2>5, CharsetFact, RevFact DEF SymbolOf, Small, Separator
  <2>6. CASE v = 20
        BY <2>6, CharsetFact, RevFact DEF SymbolOf, Small, Separator
  <2>7. CASE v = 21
        BY <2>7, CharsetFact, RevFact DEF SymbolOf, Small, Separator
  <2>8. CASE v = 22
        BY <2>8, CharsetFact, RevFact DEF SymbolOf, Small, Separator
  <2>9. CASE v = 23
        BY <2>9, CharsetFact, RevFact DEF SymbolOf, Small, Separator
  <2> QED BY <2>1, <2>2, <2>3, <2>4, <2>5, <2>6, <2>7, <2>8, <2>9
<1>4. CASE v \in 24 .. 31
  <2>1. \/ v = 24 \/ v = 25 \/ v = 26 \/ v = 27 \/ v = 28 \/ v = 29 \/ v = 30 \/ v = 31
        BY <1>4
  <2>2. CASE v = 24
        BY <2>2, CharsetFact, RevFact DEF SymbolOf, Small, Separator
  <2>3. CASE v = 25
        BY <2>3, CharsetFact, RevFact DEF SymbolOf, Small, Separator
  <2>4. CASE v = 26
        BY <2>4, CharsetFact, RevFact DEF SymbolOf, Small, Separator
  <2>5. CASE v = 27
        BY <2>5, CharsetFact, RevFact DEF SymbolOf, Small, Separator
  <2>6. CASE v = 28
        BY <2>6, CharsetFact, RevFact DEF SymbolOf, Small, Separator
  <2>7. CASE v = 29
        BY <2>7, CharsetFact, RevFact DEF SymbolOf, Small, Separator
  <2>8. CASE v = 30
        BY <2>8, CharsetFact, RevFact DEF SymbolOf, Small, Separator
  <2>9. CASE v = 31
        BY <2>9, CharsetFact, RevFact DEF SymbolOf, Small, Separator
  <2> QED BY <2>1, <2>2, <2>3, <2>4, <2>5, <2>6, <2>7, <2>8, <2>9
<1> QED BY <1>1, <1>2, <1>3, <1>4

(* A character that stands for a symbol is that of the symbol, or as a     *)
(* capital.                                                                *)
LEMMA OnlyChar ==
    \A ch \in Int :
        \/ SymbolOf(ch) = -1
        \/ SymbolOf(ch) \in 0 .. 31 /\ LowerCase(ch) = charset[SymbolOf(ch) + 1]
<1> SUFFICES ASSUME NEW ch \in Int, SymbolOf(ch) # -1
             PROVE  SymbolOf(ch) \in 0 .. 31 /\ LowerCase(ch) = charset[SymbolOf(ch) + 1]
    OBVIOUS
<1> DEFINE v(j) == charset_rev[j]
           Good(j) == v(j) = -1 \/ (v(j) \in 0 .. 31 /\ LowerCase(j + 47) = charset[v(j) + 1])
<1>1. Good(1) /\ Good(2) /\ Good(3) /\ Good(4) /\ Good(5) /\ Good(6) /\ Good(7) /\ Good(8)
      BY CharsetFact, RevFact DEF LowerCase, Capital
<1>2. Good(9) /\ Good(10) /\ Good(11) /\ Good(12) /\ Good(13) /\ Good(14) /\ Good(15) /\ Good(16)
      BY CharsetFact, RevFact DEF LowerCase, Capital
<1>3. Good(17) /\ Good(18) /\ Good(19) /\ Good(20) /\ Good(21) /\ Good(22) /\ Good(23) /\ Good(24)
      BY CharsetFact, RevFact DEF LowerCase, Capital
<1>4. Good(25) /\ Good(26) /\ Good(27) /\ Good(28) /\ Good(29) /\ Good(30) /\ Good(31) /\ Good(32)
      BY CharsetFact, RevFact DEF LowerCase, Capital
<1>5. Good(33) /\ Good(34) /\ Good(35) /\ Good(36) /\ Good(37) /\ Good(38) /\ Good(39) /\ Good(40)
      BY CharsetFact, RevFact DEF LowerCase, Capital
<1>6. Good(41) /\ Good(42) /\ Good(43) /\ Good(44) /\ Good(45) /\ Good(46) /\ Good(47) /\ Good(48)
      BY CharsetFact, RevFact DEF LowerCase, Capital
<1>7. Good(49) /\ Good(50) /\ Good(51) /\ Good(52) /\ Good(53) /\ Good(54) /\ Good(55) /\ Good(56)
      BY CharsetFact, RevFact DEF LowerCase, Capital
<1>8. Good(57) /\ Good(58) /\ Good(59) /\ Good(60) /\ Good(61) /\ Good(62) /\ Good(63) /\ Good(64)
      BY CharsetFact, RevFact DEF LowerCase, Capital
<1>9. Good(65) /\ Good(66) /\ Good(67) /\ Good(68) /\ Good(69) /\ Good(70) /\ Good(71) /\ Good(72)
      BY CharsetFact, RevFact DEF LowerCase, Capital
<1>10. Good(73) /\ Good(74) /\ Good(75) /\ Good(76) /\ Good(77) /\ Good(78) /\ Good(79) /\ Good(80)
      BY CharsetFact, RevFact DEF LowerCase, Capital
<1>11. \A j \in 1 .. 80 : Good(j)
  <2> HIDE DEF Good
  <2> QED BY <1>1, <1>2, <1>3, <1>4, <1>5, <1>6, <1>7, <1>8, <1>9, <1>10
<1>12. ch \in 48 .. 127 /\ SymbolOf(ch) = charset_rev[ch - 47]
      BY DEF SymbolOf
<1>13. ch - 47 \in 1 .. 80 /\ (ch - 47) + 47 = ch
      BY <1>12
<1> QED BY <1>11, <1>12, <1>13

(* Every character has a symbol or -1.                                     *)
LEMMA SymbolIsInt == \A ch \in Int : SymbolOf(ch) \in Int
<1> TAKE ch \in Int
<1> DEFINE v == SymbolOf(ch)
<1>1. v = -1 \/ (v \in 0 .. 31 /\ LowerCase(ch) = charset[v + 1])
      BY OnlyChar, Zenon
<1> HIDE DEF v
<1>2. v \in Int
      BY <1>1
<1> QED BY <1>2 DEF v

-----------------------------------------------------------------------------
(* Addresses and their strings                                             *)
Addresses == [1 .. PUB_ADDR_BYTES_LEN -> 0 .. 255]

(* The symbols of an address are the address.                              *)
LEMMA AddressFact ==
    ASSUME NEW a \in Addresses
    PROVE  /\ Symbols(a) \in Seq(0 .. 31) /\ Len(Symbols(a)) = 32
           /\ convert_bits(Symbols(a), 5, 8, FALSE).ok = TRUE
           /\ convert_bits(Symbols(a), 5, 8, FALSE).out = a
           /\ Len(a) = PUB_ADDR_BYTES_LEN
<1> DEFINE s == Symbols(a)
           t == convert_bits(s, 5, 8, FALSE)
<1>1. PUB_ADDR_BYTES_LEN = 20
      BY Bech32Assumption DEF SHA256_HASH_LEN
<1>2. a \in Seq(0 .. 255) /\ Len(a) = 20
  <2> DEFINE S == 0 .. 255
  <2>1. a \in [1 .. 20 -> S] /\ 20 \in Nat
        BY <1>1 DEF Addresses
  <2> HIDE DEF S
  <2>2. a \in Seq(S) /\ Len(a) = 20
        BY <2>1, IsSequence, ZenonT(60)
  <2> QED BY <2>2 DEF S
<1>3. Power(2, 8) = 256 /\ Power(2, 5) = 32
      BY Powers
<1>4. /\ s \in Seq(0 .. 32 - 1) /\ Len(s) = 32
      /\ Positional(s, 32) = Positional(a, 256)
  <2>1. 20 * 8 = 32 * 5 /\ 8 \in Nat \ {0} /\ 5 \in Nat \ {0} /\ 32 \in Nat
        OBVIOUS
  <2>2. a \in Seq(0 .. Power(2, 8) - 1)
    <3>1. 0 .. 255 = 0 .. 256 - 1
          OBVIOUS
    <3> QED BY <1>2, <1>3, <3>1, Zenon
  <2>3. Even(Len(a), 8, 32, 5)
        BY <1>2, <2>1 DEF Even
  <2>4. s = convert_bits(a, 8, 5, TRUE).out
        BY DEF Symbols
  <2>5. Rewritten(convert_bits(a, 8, 5, TRUE), a, 8, 32, 5)
        BY <2>1, <2>2, <2>3, Converted, Zenon
  <2> HIDE DEF s
  <2>6. /\ s \in Seq(0 .. Power(2, 5) - 1) /\ Len(s) = 32
        /\ Positional(s, Power(2, 5)) = Positional(a, Power(2, 8))
        BY <2>4, <2>5, Zenon DEF Rewritten
  <2> QED BY <1>3, <2>6, ZenonT(60)
<1> HIDE DEF s
<1>5. /\ t.ok = TRUE /\ t.out \in Seq(0 .. 256 - 1) /\ Len(t.out) = 20
      /\ Positional(t.out, 256) = Positional(s, 32)
  <2>1. 32 * 5 = 20 * 8 /\ 8 \in Nat \ {0} /\ 5 \in Nat \ {0} /\ 20 \in Nat
        OBVIOUS
  <2>2. s \in Seq(0 .. Power(2, 5) - 1)
        BY <1>3, <1>4, Zenon
  <2>3. Even(Len(s), 5, 20, 8)
        BY <1>4, <2>1 DEF Even
  <2>4. /\ t.ok = TRUE /\ t.out \in Seq(0 .. Power(2, 8) - 1) /\ Len(t.out) = 20
        /\ Positional(t.out, Power(2, 8)) = Positional(s, Power(2, 5))
    <3>1. Rewritten(t, s, 5, 20, 8)
          BY <2>1, <2>2, <2>3, Converted, Zenon
    <3> HIDE DEF t
    <3> QED BY <3>1, Zenon DEF Rewritten
  <2> HIDE DEF t
  <2> QED BY <1>3, <2>4, ZenonT(60)
<1> HIDE DEF t
<1>6. t.out = a
  <2>1. 0 .. 255 = 0 .. 256 - 1
        OBVIOUS
  <2>2. a \in Seq(0 .. 256 - 1)
        BY <1>2, <2>1, Zenon
  <2>3. /\ 256 \in Nat \ {0} /\ t.out \in Seq(0 .. 256 - 1)
        /\ Len(t.out) = Len(a) /\ Positional(t.out, 256) = Positional(a, 256)
        BY <1>2, <1>4, <1>5
  <2> QED BY <2>2, <2>3, PositionalUnique
<1>7. s \in Seq(0 .. 31)
  <2>1. 0 .. 31 = 0 .. 32 - 1
        OBVIOUS
  <2> QED BY <1>4, <2>1, Zenon
<1> QED BY <1>1, <1>2, <1>4, <1>5, <1>6, <1>7 DEF s, t

(* What goes into the checksum of the human readable part.                 *)
LEMMA PrefixFact ==
    /\ hrp \in Seq(Int) /\ Len(hrp) = 3
    /\ \A i \in 1 .. 3 : hrp[i] \in 97 .. 122
    /\ Expand(hrp) \in Seq(0 .. 31) /\ Len(Expand(hrp)) = 7
<1>1. hrp \in Seq(97 .. 122) /\ Len(hrp) = 3
      BY Bech32Assumption
<1>2. hrp \in Seq(Int) /\ \A i \in 1 .. 3 : hrp[i] \in 97 .. 122
      BY <1>1, ElementOfSeq, SeqMonotonic, 97 .. 122 \subseteq Int
<1> DEFINE S == 0 .. 31
           o == <<0>>
           u == [i \in 1 .. 3 |-> hrp[i] \div 32]
           v == [i \in 1 .. 3 |-> hrp[i] % 32]
<1>0. \A x \in 97 .. 122 : x \div 32 \in S /\ x % 32 \in S
      OBVIOUS
<1>3. u \in Seq(S) /\ Len(u) = 3
  <2>1. \A i \in 1 .. 3 : hrp[i] \div 32 \in S
        BY <1>0, <1>2
  <2>2. u \in [1 .. 3 -> S] /\ 3 \in Nat
        BY <2>1
  <2> HIDE DEF u, S
  <2> QED BY <2>2, IsSequence
<1>4. v \in Seq(S) /\ Len(v) = 3
  <2>1. \A i \in 1 .. 3 : hrp[i] % 32 \in S
        BY <1>0, <1>2
  <2>2. v \in [1 .. 3 -> S] /\ 3 \in Nat
        BY <2>1
  <2> HIDE DEF v, S
  <2> QED BY <2>2, IsSequence
<1>5. Expand(hrp) = (u \o o) \o v
      BY <1>1 DEF Expand
<1>6. o \in Seq(S) /\ Len(o) = 1
      OBVIOUS
<1> HIDE DEF u, v, o, S
<1>7. u \o o \in Seq(S) /\ Len(u \o o) = 3 + 1
  <2>1. u \o o \in Seq(S) /\ Len(u \o o) = Len(u) + Len(o)
        BY <1>3, <1>6, ConcatProperties
  <2> QED BY <1>3, <1>6, <2>1
<1>8. (u \o o) \o v \in Seq(S) /\ Len((u \o o) \o v) = 4 + 3
  <2>1. (u \o o) \o v \in Seq(S) /\ Len((u \o o) \o v) = Len(u \o o) + Len(v)
        BY <1>4, <1>7, ConcatProperties
  <2> QED BY <1>4, <1>7, <2>1
<1> QED BY <1>1, <1>2, <1>5, <1>8 DEF S

(* The prefix is made of small letters.                                    *)
LEMMA PrefixLetters == \A i \in 1 .. 3 : hrp[i] \in 97 .. 122
BY PrefixFact

(* What goes into the checksum of an address, and what comes out.          *)
Plain(a) == Expand(hrp) \o Symbols(a) \o <<0, 0, 0, 0, 0, 0>>

Body(a) == Symbols(a) \o CheckSymbols(Xor(Run(Plain(a))[Len(Plain(a))], Final))

(* The symbols of the string, and that their checksum is right.            *)
LEMMA BodyFact ==
    ASSUME NEW a \in Addresses
    PROVE  /\ Plain(a) \in Seq(0 .. 31)
           /\ Body(a) \in Seq(0 .. 31) /\ Len(Body(a)) = 38
           /\ SubSeq(Body(a), 1, 32) = Symbols(a)
           /\ Expand(hrp) \o Body(a) \in Seq(0 .. 31) /\ Len(Expand(hrp) \o Body(a)) = 45
           /\ Run(Expand(hrp) \o Body(a))[45] = Bits(1)
<1> DEFINE S == 0 .. 31
           e == Expand(hrp)
           s == Symbols(a)
           z == <<0, 0, 0, 0, 0, 0>>
           p == Plain(a)
           c == CheckSymbols(Xor(Run(p)[Len(p)], Bits(1)))
           b == Body(a)
<1>1. e \in Seq(S) /\ Len(e) = 7
      BY PrefixFact
<1>2. s \in Seq(S) /\ Len(s) = 32
      BY AddressFact
<1>3. z \in Seq(S) /\ Len(z) = 6 /\ \A i \in 1 .. 6 : z[i] = 0
      OBVIOUS
<1>4. c \in Seq(S) /\ Len(c) = 6
      BY CheckFact
<1>5. b = s \o c
      BY DEF Body, Final
<1>6. p = (e \o s) \o z
      BY DEF Plain
<1> HIDE DEF e, s, z, c, b, p
<1>7. e \o s \in Seq(S) /\ Len(e \o s) = 39 /\ p \in Seq(S)
  <2> HIDE DEF S
  <2>1. e \o s \in Seq(S) /\ Len(e \o s) = Len(e) + Len(s)
        BY <1>1, <1>2, ConcatProperties
  <2>2. p \in Seq(S)
        BY <1>3, <1>6, <2>1, ConcatProperties
  <2> QED BY <1>1, <1>2, <2>1, <2>2
<1>8. /\ b \in Seq(S) /\ Len(b) = 38
      /\ \A i \in 1 .. 38 : b[i] = IF i <= 32 THEN s[i] ELSE c[i - 32]
  <2> HIDE DEF S
  <2>1. /\ b \in Seq(S) /\ Len(b) = Len(s) + Len(c)
        /\ \A i \in 1 .. Len(s) + Len(c) : b[i] = IF i <= Len(s) THEN s[i] ELSE c[i - Len(s)]
        BY <1>2, <1>4, <1>5, ConcatProperties, ZenonT(60)
  <2>2. Len(s) + Len(c) = 38
        BY <1>2, <1>4
  <2> QED BY <1>2, <2>1, <2>2
<1>9. (e \o s) \o c = e \o b
  <2>1. (e \o s) \o c = e \o (s \o c)
    <3>1. e \in Seq(S) /\ s \in Seq(S) /\ c \in Seq(S)
          BY <1>1, <1>2, <1>4
    <3> HIDE DEF S
    <3> QED BY <3>1, ConcatAssociative, SMTT(30)
  <2> QED BY <1>5, <2>1
<1>10. /\ e \o b \in Seq(S) /\ Len(e \o b) = 45
  <2> HIDE DEF S
  <2>1. e \o b \in Seq(S) /\ Len(e \o b) = Len(e) + Len(b)
        BY <1>1, <1>8, ConcatProperties, ZenonT(60)
  <2> QED BY <1>1, <1>8, <2>1
<1>11. Run(e \o b)[45] = Bits(1)
  <2> DEFINE u == e \o s
             t == u \o CheckSymbols(Xor(Run(u \o z)[Len(u \o z)], Bits(1)))
  <2>1. u \in Seq(0 .. 31) /\ z \in Seq(0 .. 31) /\ Len(z) = 6 /\ \A i \in 1 .. 6 : z[i] = 0
        BY <1>3, <1>7
  <2> HIDE DEF u
  <2>2. Run(t)[Len(t)] = Bits(1)
        BY <2>1, Verified
  <2>3. t = e \o b
        BY <1>6, <1>9 DEF u, c
  <2> HIDE DEF t
  <2> QED BY <1>10, <2>2, <2>3
<1>12. SubSeq(b, 1, 32) = s
  <2> DEFINE q == SubSeq(b, 1, 32)
  <2>1. /\ q \in Seq(S) /\ Len(q) = 32
        /\ \A i \in 1 .. 32 : q[i] = b[i]
    <3> HIDE DEF S
    <3>1. \A i \in 1 .. 32 : b[i] \in S
      <4>1. \A i \in 1 .. Len(b) : b[i] \in S
            BY <1>8, ElementOfSeq
      <4>2. Len(b) = 38
            BY <1>8
      <4> QED BY <4>1, <4>2
    <3>2. 1 \in Int /\ 32 \in Int /\ 32 - 1 + 1 = 32 /\ 1 <= 32 /\ \A i \in 1 .. 32 : 1 + i - 1 = i
          OBVIOUS
    <3>3. /\ q \in Seq(S) /\ Len(q) = 32 - 1 + 1
          /\ \A i \in 1 .. 32 - 1 + 1 : q[i] = b[1 + i - 1]
          BY <3>1, <3>2, SubSeqProperties
    <3> HIDE DEF q
    <3> QED BY <3>2, <3>3
  <2> HIDE DEF q
  <2>2. \A i \in 1 .. 32 : i \in 1 .. 38 /\ i <= 32
        OBVIOUS
  <2>3. \A i \in 1 .. 32 : q[i] = s[i]
    <3>1. \A i \in 1 .. 38 : b[i] = IF i <= 32 THEN s[i] ELSE c[i - 32]
          BY <1>8
    <3>2. \A i \in 1 .. 32 : q[i] = b[i]
          BY <2>1
    <3> QED BY <2>2, <3>1, <3>2
  <2> HIDE DEF S
  <2> QED BY <1>2, <2>1, <2>3, SeqEqual, ZenonT(60) DEF q
<1> QED BY <1>7, <1>8, <1>10, <1>11, <1>12 DEF e, b, s, p, S

Text(a) == hrp \o <<Separator>> \o [i \in 1 .. Len(Body(a)) |-> charset[Body(a)[i] + 1]]

(* The string of an address.                                               *)
LEMMA TextFact ==
    ASSUME NEW a \in Addresses
    PROVE  /\ Text(a) \in Seq(Int) /\ Len(Text(a)) = 42
           /\ \A i \in 1 .. 3 : Text(a)[i] = hrp[i]
           /\ Text(a)[4] = Separator
           /\ \A i \in 1 .. 38 : Body(a)[i] \in 0 .. 31 /\ Text(a)[4 + i] = charset[Body(a)[i] + 1]
<1> DEFINE b == Body(a)
           o == <<Separator>>
           t == [i \in 1 .. 38 |-> charset[b[i] + 1]]
           u == hrp \o o
           v == u \o t
<1>1. b \in Seq(0 .. 31) /\ Len(b) = 38
      BY BodyFact
<1> HIDE DEF b
<1>2. \A i \in 1 .. 38 : b[i] \in 0 .. 31
      BY <1>1, ElementOfSeq
<1>3. \A x \in 0 .. 31 : charset[x + 1] \in Int
      BY CharFact DEF Small
<1>4. t \in Seq(Int) /\ Len(t) = 38 /\ \A i \in 1 .. 38 : t[i] = charset[b[i] + 1]
  <2>1. t \in [1 .. 38 -> Int] /\ 38 \in Nat /\ \A i \in 1 .. 38 : t[i] = charset[b[i] + 1]
    <3>1. \A i \in 1 .. 38 : charset[b[i] + 1] \in Int
          BY <1>2, <1>3
    <3> QED BY <3>1
  <2>2. t \in [1 .. 38 -> Int] /\ 38 \in Nat
        BY <2>1
  <2> HIDE DEF t
  <2>3. t \in Seq(Int) /\ Len(t) = 38
        BY <2>2, IsSequence, ZenonT(60)
  <2> QED BY <2>1, <2>3
<1>5. o \in Seq(Int) /\ Len(o) = 1 /\ o[1] = Separator
      BY DEF Separator
<1> HIDE DEF o, t
<1>6. /\ u \in Seq(Int) /\ Len(u) = 4
      /\ \A i \in 1 .. 4 : u[i] = IF i <= 3 THEN hrp[i] ELSE o[i - 3]
  <2>1. /\ u \in Seq(Int) /\ Len(u) = Len(hrp) + Len(o)
        /\ \A i \in 1 .. Len(hrp) + Len(o) :
             u[i] = IF i <= Len(hrp) THEN hrp[i] ELSE o[i - Len(hrp)]
        BY <1>5, PrefixFact, ConcatProperties
  <2>2. Len(hrp) + Len(o) = 4 /\ Len(hrp) = 3
        BY <1>5, PrefixFact
  <2> HIDE DEF u
  <2> QED BY <2>1, <2>2
<1> HIDE DEF u
<1>7. /\ v \in Seq(Int) /\ Len(v) = 42
      /\ \A i \in 1 .. 42 : v[i] = IF i <= 4 THEN u[i] ELSE t[i - 4]
  <2>1. /\ v \in Seq(Int) /\ Len(v) = Len(u) + Len(t)
        /\ \A i \in 1 .. Len(u) + Len(t) : v[i] = IF i <= Len(u) THEN u[i] ELSE t[i - Len(u)]
        BY <1>4, <1>6, ConcatProperties, ZenonT(60)
  <2>2. Len(u) + Len(t) = 42 /\ Len(u) = 4
        BY <1>4, <1>6
  <2> HIDE DEF v
  <2> QED BY <2>1, <2>2
<1>8. Text(a) = v
  <2>1. 1 .. Len(b) = 1 .. 38
        BY <1>1
  <2>2. Text(a) = u \o [i \in 1 .. Len(b) |-> charset[b[i] + 1]]
        BY DEF Text, b, u, o
  <2> QED BY <2>1, <2>2 DEF t
<1> HIDE DEF v
<1>9. \A i \in 1 .. 3 : v[i] = hrp[i]
  <2> TAKE i \in 1 .. 3
  <2>1. i \in 1 .. 42 /\ i <= 4 /\ i \in 1 .. 4 /\ i <= 3
        OBVIOUS
  <2>2. v[i] = u[i]
        BY <1>7, <2>1
  <2>3. u[i] = hrp[i]
        BY <1>6, <2>1
  <2> QED BY <2>2, <2>3
<1>10. v[4] = Separator
  <2>1. 4 \in 1 .. 42 /\ 4 <= 4 /\ 4 \in 1 .. 4 /\ ~(4 <= 3) /\ 4 - 3 = 1
        OBVIOUS
  <2>2. v[4] = u[4]
        BY <1>7, <2>1
  <2>3. u[4] = o[1]
        BY <1>6, <2>1
  <2> QED BY <1>5, <2>2, <2>3
<1>11. \A i \in 1 .. 38 : v[4 + i] = charset[b[i] + 1]
  <2>1. \A i \in 1 .. 38 : 4 + i \in 1 .. 42 /\ ~(4 + i <= 4) /\ (4 + i) - 4 = i
        OBVIOUS
  <2> QED BY <1>4, <1>7, <2>1, ZenonT(60)
<1> QED BY <1>2, <1>7, <1>8, <1>9, <1>10, <1>11 DEF b

(* What a reader may type in: it has the letters of the prefix and the     *)
(* symbols of the string, all small or all capital.                        *)
Reading(x, a) ==
    /\ x \in Seq(Int) /\ Len(x) = 42
    /\ \A i \in 1 .. 3 : LowerCase(x[i]) = hrp[i] /\ (Small(x[i]) \/ Capital(x[i]))
    /\ x[4] = Separator
    /\ \A i \in 1 .. 38 : /\ x[4 + i] # Separator /\ SymbolOf(x[4 + i]) = Body(a)[i]
                          /\ LowerCase(x[4 + i]) = charset[Body(a)[i] + 1]
    /\ ~MixedCase(x)

(* That is what TypedIn makes of the string of an address.                 *)
LEMMA ReadingFact ==
    ASSUME NEW a \in Addresses, NEW capitals \in BOOLEAN, NEW x,
           x = [i \in 1 .. 42 |->
                  IF capitals /\ Small(Text(a)[i]) THEN Text(a)[i] - 32 ELSE Text(a)[i]]
    PROVE  Reading(x, a)
<1> DEFINE t == Text(a)
           b == Body(a)
           y(c) == IF capitals /\ Small(c) THEN c - 32 ELSE c
<1>1. t \in Seq(Int) /\ Len(t) = 42
      BY TextFact
<1>10. \A i \in 1 .. 3 : t[i] = hrp[i]
      BY TextFact
<1>11. t[4] = Separator
      BY TextFact
<1>12. \A i \in 1 .. 38 : b[i] \in 0 .. 31 /\ t[4 + i] = charset[b[i] + 1]
      BY TextFact
<1> HIDE DEF t, b
<1>2. \A i \in 1 .. 42 : t[i] \in Int /\ x[i] = y(t[i])
  <2>1. \A i \in 1 .. 42 : t[i] \in Int
        BY <1>1, ElementOfSeq
  <2> QED BY <2>1 DEF t
<1>3. x \in Seq(Int) /\ Len(x) = 42
  <2>1. \A c \in Int : y(c) \in Int
        OBVIOUS
  <2>2. x = [i \in 1 .. 42 |-> x[i]]
        OBVIOUS
  <2> HIDE DEF y
  <2>3. \A i \in 1 .. 42 : x[i] \in Int
        BY <1>2, <2>1
  <2>4. x \in [1 .. 42 -> Int] /\ 42 \in Nat
        BY <2>2, <2>3
  <2> QED BY <2>4, IsSequence, SMTT(30)
<1>4. \A c \in Int : Small(c) => LowerCase(y(c)) = c /\ (Small(y(c)) \/ Capital(y(c)))
      BY DEF Small, Capital, LowerCase
<1>5. \A c \in Int : ~Small(c) => y(c) = c
      OBVIOUS
<1>6. ASSUME NEW i \in 1 .. 3
      PROVE  LowerCase(x[i]) = hrp[i] /\ (Small(x[i]) \/ Capital(x[i]))
  <2>1. i \in 1 .. 42 /\ t[i] = hrp[i] /\ hrp[i] \in 97 .. 122
        BY <1>10, PrefixLetters
  <2>2. Small(t[i]) /\ t[i] \in Int /\ x[i] = y(t[i])
        BY <1>2, <2>1 DEF Small
  <2> HIDE DEF y
  <2>3. LowerCase(y(t[i])) = t[i] /\ (Small(y(t[i])) \/ Capital(y(t[i])))
        BY <1>4, <2>2
  <2> QED BY <2>1, <2>2, <2>3
<1>7. x[4] = Separator
  <2>1. ~Small(t[4]) /\ t[4] \in Int /\ x[4] = y(t[4])
        BY <1>2, <1>11 DEF Small, Separator
  <2> HIDE DEF y
  <2> QED BY <1>5, <1>11, <2>1
<1>8. ASSUME NEW i \in 1 .. 38
      PROVE  /\ x[4 + i] # Separator /\ SymbolOf(x[4 + i]) = b[i]
             /\ LowerCase(x[4 + i]) = charset[b[i] + 1]
  <2> DEFINE c == t[4 + i]
             v == b[i]
  <2>1. v \in 0 .. 31 /\ c = charset[v + 1] /\ 4 + i \in 1 .. 42
        BY <1>12
  <2>2. c \in Int /\ x[4 + i] = y(c)
        BY <1>2, <2>1
  <2> HIDE DEF c, v
  <2>3. /\ c \in 48 .. 57 \/ Small(c)
        /\ c # Separator /\ SymbolOf(c) = v
        /\ Small(c) => SymbolOf(c - 32) = v
        BY <2>1, CharFact
  <2>4. y(c) # Separator
        BY <2>2, <2>3 DEF Separator, Small
  <2>5. SymbolOf(y(c)) = v
        BY <2>3
  <2>6. LowerCase(y(c)) = c
    <3>1. CASE Small(c)
      <4> HIDE DEF y
      <4> QED BY <1>4, <2>2, <3>1
    <3>2. CASE c \in 48 .. 57
          BY <3>2 DEF Small, LowerCase, Capital
    <3> QED BY <2>3, <3>1, <3>2
  <2> HIDE DEF y
  <2> QED BY <2>1, <2>2, <2>4, <2>5, <2>6 DEF v
<1>9. ~MixedCase(x)
  <2>1. CASE capitals
    <3>1. \A c \in Int : ~Small(y(c))
          BY <2>1 DEF Small
    <3> HIDE DEF y
    <3>2. \A i \in 1 .. 42 : ~Small(x[i])
          BY <1>2, <3>1, ZenonT(30)
    <3> QED BY <1>3, <3>2, Zenon DEF MixedCase
  <2>2. CASE ~capitals
    <3>1. \A i \in 1 .. 42 : ~Capital(t[i])
      <4>1. \A i \in 1 .. 42 : i \in 1 .. 3 \/ i = 4 \/ (i - 4 \in 1 .. 38 /\ 4 + (i - 4) = i)
            OBVIOUS
      <4>2. \A i \in 1 .. 3 : ~Capital(t[i])
            BY <1>10, PrefixLetters DEF Capital
      <4>3. ~Capital(t[4])
            BY <1>11 DEF Capital, Separator
      <4>4. \A i \in 1 .. 38 : ~Capital(t[4 + i])
        <5>1. \A v \in 0 .. 31 : ~Capital(charset[v + 1])
          <6> TAKE v \in 0 .. 31
          <6>1. charset[v + 1] \in 48 .. 57 \/ Small(charset[v + 1])
                BY CharFact
          <6> QED BY <6>1 DEF Capital, Small
        <5> HIDE DEF Capital
        <5> QED BY <1>12, <5>1
      <4> QED BY <4>1, <4>2, <4>3, <4>4
    <3>2. \A c \in Int : y(c) = c
          BY <2>2
    <3> HIDE DEF y
    <3>3. \A i \in 1 .. 42 : x[i] = t[i]
          BY <1>2, <3>2, ZenonT(30)
    <3>4. \A i \in 1 .. 42 : ~Capital(x[i])
          BY <3>1, <3>3, ZenonT(30)
    <3> QED BY <1>3, <3>4, Zenon DEF MixedCase
  <2> QED BY <2>1, <2>2
<1> HIDE DEF y
<1> QED BY <1>3, <1>6, <1>7, <1>8, <1>9 DEF Reading, b

-----------------------------------------------------------------------------
(* Reading a string                                                        *)

(* Where the last separator is.                                            *)
LEMMA SepFact ==
    ASSUME NEW s, Len(s) \in Nat, NEW k \in 1 .. Len(s), s[k] = Separator,
           \A i \in 1 .. Len(s) : i > k => s[i] # Separator
    PROVE  Sep(s) = k
<1> DEFINE ones == {i \in 1 .. Len(s) : s[i] = Separator}
<1>1. k \in ones /\ \A j \in ones : j <= k
      OBVIOUS
<1>2. Sep(s) = IF ones = {} THEN 0 ELSE CHOOSE i \in ones : \A j \in ones : j <= i
      BY DEF Sep
<1>3. \A i \in ones : i \in Int
      OBVIOUS
<1> HIDE DEF ones
<1>4. \A i \in ones : (\A j \in ones : j <= i) => i = k
      BY <1>1, <1>3
<1> QED BY <1>1, <1>2, <1>4

(* A string without a separator.                                           *)
LEMMA SepNone ==
    ASSUME NEW s, \A i \in 1 .. Len(s) : s[i] # Separator
    PROVE  Sep(s) = 0
BY DEF Sep

(* The parts of a string with its separator in the fourth place.           *)
LEMMA PartsFact ==
    ASSUME NEW s \in Seq(Int), Len(s) = 42, Sep(s) = 4
    PROVE  /\ HrpOf(s) \in Seq(Int) /\ Len(HrpOf(s)) = 3
           /\ \A i \in 1 .. 3 : HrpOf(s)[i] = LowerCase(s[i])
           /\ DataOf(s) \in Seq(Int) /\ Len(DataOf(s)) = 38
           /\ \A i \in 1 .. 38 : DataOf(s)[i] = SymbolOf(s[4 + i])
<1>1. \A c \in Int : LowerCase(c) \in Int
      BY DEF LowerCase
<1>2. \A c \in Int : SymbolOf(c) \in Int
      BY SymbolIsInt
<1>3. \A i \in 1 .. 42 : s[i] \in Int
      BY ElementOfSeq
<1> DEFINE h == [i \in 1 .. 3 |-> LowerCase(s[i])]
           d == [i \in 1 .. 38 |-> SymbolOf(s[4 + i])]
<1>4. HrpOf(s) = h
  <2>1. 1 .. Sep(s) - 1 = 1 .. 3
        OBVIOUS
  <2> QED BY <2>1 DEF HrpOf
<1>5. DataOf(s) = d
  <2>1. 1 .. Len(s) - Sep(s) = 1 .. 38
        OBVIOUS
  <2>2. DataOf(s) = [i \in 1 .. 38 |-> SymbolOf(s[Sep(s) + i])]
        BY <2>1 DEF DataOf
  <2> QED BY <2>2
<1>6. h \in Seq(Int) /\ Len(h) = 3 /\ \A i \in 1 .. 3 : h[i] = LowerCase(s[i])
  <2>1. \A i \in 1 .. 3 : LowerCase(s[i]) \in Int
    <3> TAKE i \in 1 .. 3
    <3>1. i \in 1 .. 42
          OBVIOUS
    <3>2. s[i] \in Int
          BY <1>3, <3>1
    <3> QED BY <1>1, <3>2
  <2>2. h \in [1 .. 3 -> Int] /\ 3 \in Nat
        BY <2>1
  <2>3. \A i \in 1 .. 3 : h[i] = LowerCase(s[i])
        OBVIOUS
  <2> HIDE DEF h
  <2>4. h \in Seq(Int) /\ Len(h) = 3
        BY <2>2, IsSequence, ZenonT(60)
  <2> QED BY <2>3, <2>4
<1>7. d \in Seq(Int) /\ Len(d) = 38 /\ \A i \in 1 .. 38 : d[i] = SymbolOf(s[4 + i])
  <2>1. \A i \in 1 .. 38 : SymbolOf(s[4 + i]) \in Int
    <3>1. \A i \in 1 .. 38 : 4 + i \in 1 .. 42
          OBVIOUS
    <3> QED BY <1>2, <1>3, <3>1
  <2>2. d \in [1 .. 38 -> Int] /\ 38 \in Nat
        BY <2>1
  <2>3. \A i \in 1 .. 38 : d[i] = SymbolOf(s[4 + i])
        OBVIOUS
  <2> HIDE DEF d
  <2>4. d \in Seq(Int) /\ Len(d) = 38
        BY <2>2, IsSequence, ZenonT(60)
  <2> QED BY <2>3, <2>4
<1> HIDE DEF h, d
<1> QED BY <1>4, <1>5, <1>6, <1>7

(* What Decode asks of a string before it computes the checksum.           *)
Readable(s) ==
    /\ Len(s) \in 8 .. 90
    /\ Sep(s) > 1 /\ Len(DataOf(s)) >= 6
    /\ \A i \in 1 .. Sep(s) - 1 : s[i] \in 33 .. 126
    /\ \A i \in 1 .. Len(DataOf(s)) : DataOf(s)[i] # -1
    /\ ~MixedCase(s)

(* A string that was typed in well has it, and has the parts it had.       *)
LEMMA RightText ==
    ASSUME NEW a \in Addresses, NEW x, Reading(x, a)
    PROVE  Readable(x) /\ HrpOf(x) = hrp /\ DataOf(x) = Body(a) /\ Len(x) = 42
<1>1. x \in Seq(Int) /\ Len(x) = 42 /\ x[4] = Separator /\ ~MixedCase(x)
      BY DEF Reading
<1>2. \A i \in 1 .. 3 : LowerCase(x[i]) = hrp[i] /\ (Small(x[i]) \/ Capital(x[i]))
      BY DEF Reading
<1>3. \A i \in 1 .. 38 : x[4 + i] # Separator /\ SymbolOf(x[4 + i]) = Body(a)[i]
      BY DEF Reading
<1>4. Sep(x) = 4
  <2>1. ASSUME NEW i \in 1 .. 42, i > 4 PROVE x[i] # Separator
    <3>1. i - 4 \in 1 .. 38 /\ 4 + (i - 4) = i
          BY <2>1
    <3> QED BY <1>3, <3>1
  <2>2. 4 \in 1 .. Len(x) /\ Len(x) \in Nat
        BY <1>1
  <2> QED BY <1>1, <2>1, <2>2, SepFact, ZenonT(60)
<1>5. HrpOf(x) = hrp
  <2>1. /\ HrpOf(x) \in Seq(Int) /\ Len(HrpOf(x)) = 3
        /\ \A i \in 1 .. 3 : HrpOf(x)[i] = LowerCase(x[i])
        BY <1>1, <1>4, PartsFact
  <2>2. hrp \in Seq(Int) /\ Len(hrp) = 3
        BY PrefixFact
  <2>3. \A i \in 1 .. 3 : HrpOf(x)[i] = hrp[i]
        BY <1>2, <2>1
  <2> QED BY <2>1, <2>2, <2>3, SeqEqual
<1>6. DataOf(x) = Body(a) /\ Len(DataOf(x)) = 38
  <2>1. /\ DataOf(x) \in Seq(Int) /\ Len(DataOf(x)) = 38
        /\ \A i \in 1 .. 38 : DataOf(x)[i] = SymbolOf(x[4 + i])
        BY <1>1, <1>4, PartsFact
  <2>2. Body(a) \in Seq(Int) /\ Len(Body(a)) = 38
        BY BodyFact, SeqMonotonic, 0 .. 31 \subseteq Int
  <2>3. \A i \in 1 .. 38 : DataOf(x)[i] = Body(a)[i]
        BY <1>3, <2>1
  <2> QED BY <2>1, <2>2, <2>3, SeqEqual, ZenonT(60)
<1>7. \A i \in 1 .. 38 : Body(a)[i] # -1
  <2>1. Body(a) \in Seq(0 .. 31) /\ Len(Body(a)) = 38
        BY BodyFact
  <2>2. \A i \in 1 .. 38 : Body(a)[i] \in 0 .. 31
        BY <2>1, ElementOfSeq
  <2> QED BY <2>2
<1>8. \A i \in 1 .. 3 : x[i] \in 33 .. 126
      BY <1>2 DEF Small, Capital
<1>9. Readable(x)
  <2>1. Sep(x) - 1 = 3
        BY <1>4
  <2> QED BY <1>1, <1>4, <1>6, <1>7, <1>8, <2>1 DEF Readable
<1> QED BY <1>1, <1>5, <1>6, <1>9

(* What Decode puts into the checksum.                                     *)
Entered(s) == Expand(HrpOf(s)) \o DataOf(s)

(* With one wrong character the checksum is wrong, if Decode gets that far. *)
LEMMA WrongText ==
    ASSUME NEW a \in Addresses, NEW w, Reading(w, a), NEW p \in 1 .. 42, NEW ch \in 33 .. 126,
           ch # w[p]
    PROVE  LET y == [w EXCEPT ![p] = ch]
           IN  Readable(y) /\ HrpOf(y) = hrp
                 => Entered(y) \in Seq(0 .. 31) /\ Run(Entered(y))[Len(Entered(y))] # Bits(1)
<1> DEFINE y == [w EXCEPT ![p] = ch]
<1>1. w \in Seq(Int) /\ Len(w) = 42 /\ w[4] = Separator /\ ~MixedCase(w)
      BY DEF Reading
<1>2. \A i \in 1 .. 3 : LowerCase(w[i]) = hrp[i] /\ (Small(w[i]) \/ Capital(w[i]))
      BY DEF Reading
<1>3. \A i \in 1 .. 38 : /\ w[4 + i] # Separator /\ SymbolOf(w[4 + i]) = Body(a)[i]
                         /\ LowerCase(w[4 + i]) = charset[Body(a)[i] + 1]
      BY DEF Reading
<1>4. y \in Seq(Int) /\ Len(y) = 42
  <2> DEFINE S == Int
  <2>1. w \in [1 .. Len(w) -> S] /\ Len(w) = 42
        BY <1>1, LenProperties
  <2>2. w \in [1 .. 42 -> S]
        BY <2>1
  <2>3. y \in [1 .. 42 -> S] /\ 42 \in Nat
        BY <2>2
  <2> HIDE DEF y, S
  <2>4. y \in Seq(S) /\ Len(y) = 42
        BY <2>3, IsSequence, ZenonT(60)
  <2> QED BY <2>4 DEF S
<1>23. y[p] = ch /\ \A i \in 1 .. 42 : i # p => y[i] = w[i]
  <2>1. DOMAIN w = 1 .. 42
        BY <1>1, LenProperties
  <2> QED BY <2>1
<1> HIDE DEF y
<1> SUFFICES ASSUME Readable(y), HrpOf(y) = hrp
             PROVE  Entered(y) \in Seq(0 .. 31) /\ Run(Entered(y))[Len(Entered(y))] # Bits(1)
    BY DEF y
<1>5. Readable(y) /\ HrpOf(y) = hrp
      OBVIOUS
<1>6. ~MixedCase(y) /\ Sep(y) > 1
      BY <1>5 DEF Readable
(* The separator is where it was.                                          *)
<1>7. p # 4
  <2> SUFFICES ASSUME p = 4 PROVE FALSE
      OBVIOUS
  <2>1. ch # Separator
        BY <1>1
  <2>2. \A i \in 1 .. 42 : y[i] # Separator
    <3> TAKE i \in 1 .. 42
    <3>1. CASE i = 4
          BY <1>4, <1>23, <2>1, <3>1
    <3>2. CASE i \in 1 .. 3
      <4>0. i # p
            BY <3>2
      <4>1. y[i] = w[i] /\ (Small(w[i]) \/ Capital(w[i]))
            BY <1>2, <1>23, <3>2, <4>0
      <4> QED BY <4>1 DEF Small, Capital, Separator
    <3>3. CASE i > 4
      <4>1. i - 4 \in 1 .. 38 /\ 4 + (i - 4) = i
            BY <3>3
      <4>2. w[i] # Separator
            BY <1>3, <4>1
      <4>3. i # p
            BY <3>3
      <4> QED BY <1>23, <4>2, <4>3
    <3> QED BY <3>1, <3>2, <3>3
  <2>3. Sep(y) = 0
        BY <1>4, <1>23, <2>2, SepNone
  <2> QED BY <1>6, <2>3
<1>8. ~ (p > 4 /\ ch = Separator)
  <2> SUFFICES ASSUME p > 4, ch = Separator PROVE FALSE
      OBVIOUS
  <2>1. ASSUME NEW i \in 1 .. 42, i > p PROVE y[i] # Separator
    <3>1. i - 4 \in 1 .. 38 /\ 4 + (i - 4) = i /\ i # p
          BY <2>1
    <3>2. w[i] # Separator
          BY <1>3, <3>1
    <3>3. y[i] = w[i]
          BY <1>23, <3>1
    <3> QED BY <3>2, <3>3
  <2>2. p \in 1 .. Len(y) /\ Len(y) \in Nat /\ y[p] = Separator
        BY <1>4, <1>23
  <2>3. Sep(y) = p
    <3>1. \A i \in 1 .. Len(y) : i > p => y[i] # Separator
          BY <1>4, <2>1
    <3> QED BY <2>2, <3>1, SepFact
  <2>4. DOMAIN HrpOf(y) = 1 .. p - 1
        BY <2>3 DEF HrpOf
  <2>5. DOMAIN hrp = 1 .. 3
        BY PrefixFact, LenProperties
  <2>6. 1 .. p - 1 = 1 .. 3
        BY <1>5, <2>4, <2>5
  <2>7. p - 1 \in 1 .. p - 1 /\ ~(p - 1 \in 1 .. 3)
        OBVIOUS
  <2> QED BY <2>6, <2>7
<1>9. Sep(y) = 4
  <2>1. ASSUME NEW i \in 1 .. 42, i > 4 PROVE y[i] # Separator
    <3>1. i - 4 \in 1 .. 38 /\ 4 + (i - 4) = i
          BY <2>1
    <3>2. w[i] # Separator
          BY <1>3, <3>1
    <3> QED BY <1>4, <1>23, <1>8, <2>1, <3>2
  <2>2. 4 \in 1 .. Len(y) /\ Len(y) \in Nat /\ y[4] = Separator
    <3>1. 4 \in 1 .. 42 /\ 4 # p
          BY <1>7
    <3> QED BY <1>1, <1>4, <1>23, <3>1
  <2>3. \A i \in 1 .. Len(y) : i > 4 => y[i] # Separator
        BY <1>4, <2>1
  <2> QED BY <2>2, <2>3, SepFact
<1>10. /\ Len(HrpOf(y)) = 3
       /\ \A i \in 1 .. 3 : HrpOf(y)[i] = LowerCase(y[i])
       /\ DataOf(y) \in Seq(Int) /\ Len(DataOf(y)) = 38
       /\ \A i \in 1 .. 38 : DataOf(y)[i] = SymbolOf(y[4 + i])
       BY <1>4, <1>23, <1>9, PartsFact
(* No letter is a capital among small ones, or a small one among capitals. *)
<1>11. ~ (Capital(ch) /\ Small(w[p])) /\ ~ (Small(ch) /\ Capital(w[p]))
  <2> SUFFICES ASSUME (Capital(ch) /\ Small(w[p])) \/ (Small(ch) /\ Capital(w[p])) PROVE FALSE
      OBVIOUS
  <2>1. \E q \in 1 .. 3 : q # p
        OBVIOUS
  <2>2. PICK q \in 1 .. 3 : q # p
        BY <2>1
  <2>3. p \in 1 .. Len(w) /\ q \in 1 .. Len(w) /\ q \in 1 .. 42 /\ p \in 1 .. Len(y) /\ q \in 1 .. Len(y)
        BY <1>1, <1>4
  <2>4. y[q] = w[q] /\ y[p] = ch
        BY <1>23, <2>2, <2>3
  <2>5. Small(w[q]) \/ Capital(w[q])
        BY <1>2
  <2>6. CASE Capital(ch) /\ Small(w[p])
    <3>1. Small(w[q])
          BY <1>1, <2>3, <2>5, <2>6 DEF MixedCase
    <3>2. MixedCase(y)
          BY <2>3, <2>4, <2>6, <3>1 DEF MixedCase
    <3> QED BY <1>6, <3>2
  <2>7. CASE Small(ch) /\ Capital(w[p])
    <3>1. Capital(w[q])
          BY <1>1, <2>3, <2>5, <2>7 DEF MixedCase
    <3>2. MixedCase(y)
          BY <2>3, <2>4, <2>7, <3>1 DEF MixedCase
    <3> QED BY <1>6, <3>2
  <2> QED BY <2>6, <2>7
<1>12. LowerCase(ch) # LowerCase(w[p])
  <2>1. p \in 1 .. Len(w)
        BY <1>1
  <2>2. w[p] \in Int
        BY <1>1, <2>1, ElementOfSeq
  <2> QED BY <1>11, <2>2 DEF LowerCase, Capital, Small
(* Nor has the prefix changed.                                             *)
<1>13. ~ (p \in 1 .. 3)
  <2> SUFFICES ASSUME p \in 1 .. 3 PROVE FALSE
      OBVIOUS
  <2>1. HrpOf(y)[p] = LowerCase(ch) /\ hrp[p] = LowerCase(w[p])
        BY <1>2, <1>4, <1>23, <1>10
  <2> QED BY <1>5, <1>12, <2>1
(* Then a symbol has, and the checksum.                                    *)
<1> DEFINE k == p - 4
           b == Body(a)
           d == DataOf(y)
           e == Expand(hrp)
<1>14. k \in 1 .. 38 /\ 4 + k = p
       BY <1>7, <1>13
<1>15. b \in Seq(0 .. 31) /\ Len(b) = 38 /\ e \in Seq(0 .. 31) /\ Len(e) = 7
       BY BodyFact, PrefixFact
<1>16. ASSUME NEW i \in 1 .. 38
       PROVE  /\ SymbolOf(y[4 + i]) \in 0 .. 31
              /\ LowerCase(y[4 + i]) = charset[SymbolOf(y[4 + i]) + 1]
  <2>1. d[i] # -1 /\ d[i] = SymbolOf(y[4 + i])
        BY <1>5, <1>10 DEF Readable
  <2>2. 4 + i \in 1 .. Len(y)
        BY <1>4
  <2>3. y[4 + i] \in Int
        BY <1>4, <1>23, <2>2, ElementOfSeq
  <2> QED BY <2>1, <2>3, OnlyChar
<1>17. d \in Seq(0 .. 31) /\ Len(d) = 38
  <2>1. \A i \in 1 .. 38 : d[i] \in 0 .. 31
        BY <1>10, <1>16
  <2>2. d = [i \in 1 .. 38 |-> d[i]]
        BY <1>10, LenProperties
  <2> DEFINE S == 0 .. 31
  <2>3. d \in [1 .. 38 -> S] /\ 38 \in Nat
        BY <2>1, <2>2
  <2> HIDE DEF d, S
  <2>4. d \in Seq(S) /\ Len(d) = 38
        BY <2>3, IsSequence, ZenonT(60)
  <2> QED BY <2>4 DEF S
<1>18. d[k] # b[k]
  <2>1. d[k] = SymbolOf(ch)
        BY <1>4, <1>23, <1>10, <1>14, ZenonT(60)
  <2>2. LowerCase(ch) = charset[SymbolOf(ch) + 1]
        BY <1>4, <1>23, <1>14, <1>16, ZenonT(60)
  <2>3. LowerCase(w[p]) = charset[b[k] + 1]
        BY <1>3, <1>14
  <2> QED BY <1>12, <2>1, <2>2, <2>3
<1>19. \A i \in 1 .. 38 : i # k => d[i] = b[i]
  <2> TAKE i \in 1 .. 38
  <2> HAVE i # k
  <2>1. 4 + i \in 1 .. 42 /\ 4 + i # p
        BY <1>14
  <2>2. y[4 + i] = w[4 + i]
        BY <1>4, <1>23, <2>1
  <2>3. d[i] = SymbolOf(y[4 + i]) /\ SymbolOf(w[4 + i]) = b[i]
        BY <1>3, <1>10
  <2> QED BY <2>2, <2>3
<1>20. Run(e \o d)[45] # Run(e \o b)[45] /\ Len(e \o d) = 45 /\ e \o d \in Seq(0 .. 31)
  <2> DEFINE S == 0 .. 31
             s == e \o d
             t == e \o b
  <2>0. e \in Seq(S) /\ d \in Seq(S) /\ b \in Seq(S)
        BY <1>15, <1>17
  <2> HIDE DEF e, b, d, S, k
  <2>1. /\ s \in Seq(S) /\ Len(s) = Len(e) + Len(d)
        /\ \A i \in 1 .. Len(e) + Len(d) : s[i] = IF i <= Len(e) THEN e[i] ELSE d[i - Len(e)]
        BY <2>0, ConcatProperties
  <2>2. /\ t \in Seq(S) /\ Len(t) = Len(e) + Len(b)
        /\ \A i \in 1 .. Len(e) + Len(b) : t[i] = IF i <= Len(e) THEN e[i] ELSE b[i - Len(e)]
        BY <2>0, ConcatProperties
  <2> HIDE DEF s, t
  <2>3. Len(e) = 7 /\ Len(e) + Len(d) = 45 /\ Len(e) + Len(b) = 45
        BY <1>15, <1>17
  <2>4. /\ \A i \in 1 .. 45 : s[i] = IF i <= 7 THEN e[i] ELSE d[i - 7]
        /\ \A i \in 1 .. 45 : t[i] = IF i <= 7 THEN e[i] ELSE b[i - 7]
        BY <2>1, <2>2, <2>3
  <2>5. s[7 + k] # t[7 + k] /\ 7 + k \in 1 .. 45
    <3>1. 7 + k \in 1 .. 45 /\ ~(7 + k <= 7) /\ (7 + k) - 7 = k
          BY <1>14
    <3>2. s[7 + k] = d[k] /\ t[7 + k] = b[k]
          BY <2>4, <3>1
    <3> QED BY <1>18, <3>1, <3>2
  <2>6. ASSUME NEW i \in 1 .. 45, i # 7 + k PROVE s[i] = t[i]
    <3>1. CASE i <= 7
          BY <2>4, <3>1
    <3>2. CASE ~(i <= 7)
      <4>1. i - 7 \in 1 .. 38 /\ i - 7 # k
            BY <1>14, <2>6, <3>2
      <4>2. s[i] = d[i - 7] /\ t[i] = b[i - 7]
            BY <2>4, <3>2
      <4> QED BY <1>19, <4>1, <4>2
    <3> QED BY <3>1, <3>2
  <2>7. Len(s) = 45 /\ Len(t) = 45 /\ s \in Seq(0 .. 31) /\ t \in Seq(0 .. 31)
        BY <2>1, <2>2, <2>3 DEF S
  <2>8. Run(s)[Len(s)] # Run(t)[Len(t)]
    <3> DEFINE j == 7 + k
    <3>1. /\ Len(s) = Len(t) /\ j \in 1 .. Len(s) /\ s[j] # t[j]
          /\ \A i \in 1 .. Len(s) : i # j => s[i] = t[i]
          BY <2>5, <2>6, <2>7
    <3> HIDE DEF j
    <3> QED BY <2>7, <3>1, OneWrong, ZenonT(60)
  <2>9. Run(s)[45] # Run(t)[45] /\ Len(s) = 45
        BY <2>7, <2>8
  <2> QED BY <2>7, <2>9 DEF s, t
<1>21. Run(e \o b)[45] = Bits(1)
       BY BodyFact
<1>22. Entered(y) = e \o d
       BY <1>5 DEF Entered
<1> HIDE DEF e, d, b
<1> QED BY <1>20, <1>21, <1>22

-----------------------------------------------------------------------------
(* The program                                                             *)

(* The checksum of the beginning of a sequence, and its rest.              *)
Pending(s, c, t) ==
    \E k \in 0 .. Len(s) :
        /\ c = Run(s)[k] /\ t \in Seq(Int) /\ Len(t) = Len(s) - k
        /\ \A i \in 1 .. Len(t) : t[i] = s[k + i]

(* Before, during and after the loops.                                     *)
LEMMA PendingStarts ==
    ASSUME NEW s \in Seq(Int)
    PROVE  Pending(s, Bits(1), s)
<1>1. Run(s)[0] = Bits(1) /\ Len(s) \in Nat
      BY RunFact, LenProperties DEF Follows
<1>2. 0 \in 0 .. Len(s) /\ Len(s) = Len(s) - 0 /\ \A i \in 1 .. Len(s) : 0 + i = i
      BY <1>1
<1> QED BY <1>1, <1>2 DEF Pending

(* Checksum takes the next symbol.                                         *)
LEMMA PendingGoes ==
    ASSUME NEW s \in Seq(Int), NEW c, NEW t, Pending(s, c, t), t # <<>>
    PROVE  Pending(s, Xor(polymod_step(c), Bits(Head(t))), Tail(t))
<1>1. PICK k \in 0 .. Len(s) :
        /\ c = Run(s)[k] /\ t \in Seq(Int) /\ Len(t) = Len(s) - k
        /\ \A i \in 1 .. Len(t) : t[i] = s[k + i]
      BY DEF Pending
<1>2. /\ Len(s) \in Nat /\ Len(t) \in Nat /\ Len(t) # 0
      /\ \A i \in 1 .. Len(s) : Run(s)[i] = Xor(polymod_step(Run(s)[i - 1]), Bits(s[i]))
      BY <1>1, RunFact, LenProperties, EmptySeq DEF Follows
<1>3. Head(t) = t[1] /\ Tail(t) \in Seq(Int) /\ Len(Tail(t)) = Len(t) - 1
      /\ \A i \in 1 .. Len(Tail(t)) : Tail(t)[i] = t[i + 1]
  <2>1. Head(t) = t[1]
        BY <1>1
  <2>2. t \in Seq(Int) /\ t # <<>>
        BY <1>1
  <2>3. /\ Tail(t) \in Seq(Int) /\ Len(Tail(t)) = Len(t) - 1
        /\ \A i \in 1 .. Len(Tail(t)) : Tail(t)[i] = t[i + 1]
        BY <2>2, HeadTailProperties
  <2> QED BY <2>1, <2>3
<1>4. k + 1 \in 1 .. Len(s) /\ (k + 1) - 1 = k /\ k + 1 \in 0 .. Len(s) /\ 1 \in 1 .. Len(t)
      BY <1>1, <1>2
<1>5. Xor(polymod_step(c), Bits(Head(t))) = Run(s)[k + 1]
      BY <1>1, <1>2, <1>3, <1>4
<1>6. Len(Tail(t)) = Len(s) - (k + 1)
      BY <1>1, <1>2, <1>3
<1>7. ASSUME NEW i \in 1 .. Len(Tail(t)) PROVE Tail(t)[i] = s[(k + 1) + i]
  <2>1. i + 1 \in 1 .. Len(t) /\ k + (i + 1) = (k + 1) + i
        BY <1>2, <1>3
  <2> QED BY <1>1, <1>3, <2>1
<1> QED BY <1>3, <1>4, <1>5, <1>6, <1>7 DEF Pending

(* When none is left, the checksum is that of all of them.                 *)
LEMMA PendingEnds ==
    ASSUME NEW s \in Seq(Int), NEW c, Pending(s, c, <<>>)
    PROVE  c = Run(s)[Len(s)]
<1>1. PICK k \in 0 .. Len(s) : c = Run(s)[k] /\ Len(<<>>) = Len(s) - k
      BY DEF Pending
<1>2. Len(s) \in Nat /\ Len(<<>>) = 0
      BY LenProperties
<1>3. k = Len(s)
      BY <1>1, <1>2
<1> QED BY <1>1, <1>3

(* The input: typed in well, or with one wrong character.                  *)
TypedBy(x, n, a) ==
    \/ n = 0 /\ Reading(x, a)
    \/ /\ n = 1
       /\ \E w \in Seq(Int), p \in 1 .. 42, ch \in 33 .. 126 :
            /\ Reading(w, a) /\ x = [w EXCEPT ![p] = ch]
            /\ ch # w[p]

(* What Decode and the loops make of it.                                   *)
LEMMA TypedFact ==
    ASSUME NEW a \in Addresses, NEW x, NEW n, TypedBy(x, n, a)
    PROVE  /\ n \in {0, 1}
           /\ n = 0 => Readable(x) /\ HrpOf(x) = hrp /\ DataOf(x) = Body(a)
           /\ Readable(x) /\ HrpOf(x) = hrp =>
                /\ Entered(x) \in Seq(Int)
                /\ n = 0 => Run(Entered(x))[Len(Entered(x))] = Bits(1)
                /\ n = 1 => Run(Entered(x))[Len(Entered(x))] # Bits(1)
<1>1. CASE n = 0
  <2>1. Reading(x, a)
        BY <1>1 DEF TypedBy
  <2>2. Readable(x) /\ HrpOf(x) = hrp /\ DataOf(x) = Body(a)
        BY <2>1, RightText
  <2>3. Entered(x) = Expand(hrp) \o Body(a)
        BY <2>2 DEF Entered
  <2>4. /\ Entered(x) \in Seq(0 .. 31) /\ Len(Entered(x)) = 45
        /\ Run(Entered(x))[45] = Bits(1)
        BY <2>3, BodyFact
  <2>5. Entered(x) \in Seq(Int)
        BY <2>4, SeqMonotonic, 0 .. 31 \subseteq Int
  <2> QED BY <1>1, <2>2, <2>4, <2>5
<1>2. CASE n = 1
  <2>1. PICK w \in Seq(Int), p \in 1 .. 42, ch \in 33 .. 126 :
            /\ Reading(w, a) /\ x = [w EXCEPT ![p] = ch]
            /\ ch # w[p]
    <3>1. n # 0
          BY <1>2
    <3> QED BY <3>1, Zenon DEF TypedBy
  <2> DEFINE y == [w EXCEPT ![p] = ch]
  <2>2. Readable(y) /\ HrpOf(y) = hrp
           => Entered(y) \in Seq(0 .. 31) /\ Run(Entered(y))[Len(Entered(y))] # Bits(1)
        BY <2>1, WrongText
  <2>3. x = y
        BY <2>1
  <2> HIDE DEF y
  <2>4. Readable(x) /\ HrpOf(x) = hrp => Entered(x) \in Seq(Int)
        BY <2>2, <2>3, SeqMonotonic, 0 .. 31 \subseteq Int
  <2> QED BY <1>2, <2>2, <2>3, <2>4
<1> QED BY <1>1, <1>2 DEF TypedBy

(* The strengthening that the steps preserve: the loops are at their place, *)
(* the string is that of the address, and the result that of the reader.   *)
IInv ==
    /\ address \in Addresses
    /\ pc \in {"encode", "encoding", "shown", "read", "decoding", "decoded"}
    /\ pc \in {"encode", "encoding", "shown"} => mistakes = 0
    /\ pc = "encoding" => Pending(Plain(address), chk, todo)
    /\ pc = "shown" => output = Text(address)
    /\ pc \in {"read", "decoding"} => TypedBy(input, mistakes, address)
    /\ pc = "decoding" =>
         Readable(input) /\ (HrpOf(input) = hrp => Pending(Entered(input), chk, todo))
    /\ pc # "decoded" => result = <<>>
    /\ pc = "decoded" => result = IF mistakes = 0 THEN address ELSE <<>>

(* The initial states have it.                                             *)
LEMMA Initially == Init => IInv
<1> SUFFICES ASSUME Init PROVE IInv
    OBVIOUS
<1>1. PICK d \in DIGESTS : address = pubkeyToZilAddress(d)
      BY DEF Init
<1>2. d \in [1 .. 32 -> 0 .. 255] /\ PUB_ADDR_BYTES_LEN = 20
      BY Bech32Assumption, SMTT(30) DEF SHA256_HASH_LEN
<1>3. \A i \in 1 .. 20 : i + 12 \in 1 .. 32
      OBVIOUS
<1>4. \A i \in 1 .. 20 : d[i + 12] \in 0 .. 255
      BY <1>2, <1>3
<1>5. address \in Addresses
      BY <1>1, <1>2, <1>4 DEF Addresses, pubkeyToZilAddress
<1> QED BY <1>5 DEF Init, IInv

(* Every step keeps it.                                                    *)
LEMMA Step == IInv /\ [Next]_vars => IInv'
<1> SUFFICES ASSUME IInv, [Next]_vars PROVE IInv'
    OBVIOUS
<1>0. /\ address \in Addresses
      /\ Plain(address) \in Seq(Int)
  <2>1. address \in Addresses
        BY DEF IInv
  <2>2. Plain(address) \in Seq(0 .. 31)
        BY <2>1, BodyFact
  <2> QED BY <2>1, <2>2, SeqMonotonic, 0 .. 31 \subseteq Int
<1>1. CASE Checksum
  <2>1. /\ todo # <<>> /\ chk' = Xor(polymod_step(chk), Bits(Head(todo))) /\ todo' = Tail(todo)
        /\ UNCHANGED <<pc, address, output, input, mistakes, result>>
        BY <1>1 DEF Checksum
  <2>2. pc = "encoding" => Pending(Plain(address), chk', todo')
        BY <1>0, <2>1, PendingGoes DEF IInv
  <2>3. pc = "decoding" /\ HrpOf(input) = hrp => Pending(Entered(input), chk', todo')
    <3> SUFFICES ASSUME pc = "decoding", HrpOf(input) = hrp
                 PROVE  Pending(Entered(input), chk', todo')
        OBVIOUS
    <3>1. Readable(input) /\ TypedBy(input, mistakes, address) /\ Pending(Entered(input), chk, todo)
          BY DEF IInv
    <3>2. Entered(input) \in Seq(Int)
          BY <1>0, <3>1, TypedFact
    <3> QED BY <2>1, <3>1, <3>2, PendingGoes
  <2> QED BY <2>1, <2>2, <2>3 DEF IInv
<1>2. CASE Encode
  <2>1. /\ pc = "encode" /\ chk' = Bits(1) /\ todo' = Plain(address) /\ pc' = "encoding"
        /\ UNCHANGED <<address, output, input, mistakes, result>>
        BY <1>2 DEF Encode, Start, Plain
  <2>2. Pending(Plain(address), chk', todo')
        BY <1>0, <2>1, PendingStarts
  <2> QED BY <2>1, <2>2 DEF IInv
<1>3. CASE Encoded
  <2>1. /\ pc = "encoding" /\ todo = <<>> /\ pc' = "shown"
        /\ UNCHANGED <<address, input, mistakes, result>>
        BY <1>3 DEF Encoded
  <2>2. chk = Run(Plain(address))[Len(Plain(address))]
    <3>1. Pending(Plain(address), chk, <<>>)
          BY <2>1 DEF IInv
    <3> QED BY <1>0, <3>1, PendingEnds
  <2>3. Symbols(address) \o CheckSymbols(Xor(chk, Final)) = Body(address)
        BY <2>2 DEF Body
  <2>4. output' = Text(address)
        BY <1>3, <2>3 DEF Encoded, Text
  <2> QED BY <2>1, <2>4 DEF IInv
<1>4. ASSUME NEW capitals \in BOOLEAN, TypedIn(capitals)
      PROVE  IInv'
  <2>1. /\ pc = "shown" /\ pc' = "read"
        /\ UNCHANGED <<chk, todo, address, output, mistakes, result>>
        /\ output = Text(address) /\ mistakes = 0 /\ result = <<>>
        BY <1>4 DEF TypedIn, IInv
  <2>2. fullStr = Text(address) /\ Len(Text(address)) = 42
    <3> DEFINE t == Text(address)
               q == SubSeq(t, 1, 42)
    <3>1. t \in Seq(Int) /\ Len(t) = 42
          BY <1>0, TextFact
    <3> HIDE DEF t
    <3>2. \A i \in 1 .. 42 : t[i] \in Int
          BY <3>1, ElementOfSeq
    <3>3. 1 \in Int /\ 42 \in Int /\ 42 - 1 + 1 = 42 /\ 1 <= 42 /\ \A i \in 1 .. 42 : 1 + i - 1 = i
          OBVIOUS
    <3>4. /\ q \in Seq(Int) /\ Len(q) = 42 - 1 + 1
          /\ \A i \in 1 .. 42 - 1 + 1 : q[i] = t[1 + i - 1]
          BY <3>2, <3>3, SubSeqProperties
    <3>5. fullStr = q
          BY <2>1 DEF fullStr, BECH32_ADDRSTR_LEN, t
    <3> HIDE DEF q
    <3>6. \A i \in 1 .. 42 : q[i] = t[i]
          BY <3>3, <3>4
    <3>7. Len(q) = 42
          BY <3>3, <3>4
    <3>8. q = t
          BY <3>1, <3>4, <3>6, <3>7, SeqEqual
    <3> QED BY <3>1, <3>5, <3>8 DEF t
  <2>3. input' = [i \in 1 .. 42 |-> IF capitals /\ Small(Text(address)[i])
                                     THEN Text(address)[i] - 32 ELSE Text(address)[i]]
        BY <1>4, <2>2 DEF TypedIn
  <2>4. Reading(input', address)
        BY <1>0, <2>3, ReadingFact
  <2>5. TypedBy(input', mistakes', address')
        BY <2>1, <2>4 DEF TypedBy
  <2> QED BY <1>0, <2>1, <2>5 DEF IInv
<1>5. ASSUME NEW i \in 1 .. Len(input), NEW ch \in MISTAKES, Mistake(i, ch)
      PROVE  IInv'
  <2>1. /\ pc = "read" /\ mistakes = 0 /\ mistakes' = 1 /\ input' = [input EXCEPT ![i] = ch]
        /\ ch # input[i]
        /\ UNCHANGED <<pc, chk, todo, address, output, result>>
        BY <1>5 DEF Mistake
  <2>2. Reading(input, address)
        BY <2>1 DEF IInv, TypedBy
  <2>3. input \in Seq(Int) /\ i \in 1 .. 42 /\ ch \in 33 .. 126
        BY <2>2, Bech32Assumption DEF Reading
  <2>4. TypedBy(input', mistakes', address')
        BY <2>1, <2>2, <2>3 DEF TypedBy
  <2> QED BY <2>1, <2>4 DEF IInv
<1>6. CASE Decode
  <2>1. /\ pc = "read" /\ UNCHANGED <<address, output, input, mistakes, result>>
        /\ \/ /\ Readable(input) /\ pc' = "decoding"
              /\ chk' = Bits(1) /\ todo' = Entered(input)
           \/ ~Readable(input) /\ pc' = "decoded" /\ UNCHANGED <<chk, todo>>
        BY <1>6 DEF Decode, Readable, Start, Entered
  <2>2. TypedBy(input, mistakes, address) /\ result = <<>>
        BY <2>1 DEF IInv
  <2>3. CASE Readable(input)
    <3>1. HrpOf(input) = hrp => Pending(Entered(input), chk', todo')
          BY <1>0, <2>1, <2>2, <2>3, TypedFact, PendingStarts
    <3> QED BY <1>0, <2>1, <2>2, <2>3, <3>1 DEF IInv
  <2>4. CASE ~Readable(input)
    <3>1. mistakes # 0
          BY <1>0, <2>2, <2>4, TypedFact
    <3> QED BY <1>0, <2>1, <2>2, <2>4, <3>1 DEF IInv
  <2> QED BY <2>3, <2>4
<1>7. CASE Decoded
  <2> DEFINE d == SubSeq(DataOf(input), 1, Len(DataOf(input)) - 6)
             prog == convert_bits(d, 5, 8, FALSE)
  <2>1. /\ pc = "decoding" /\ todo = <<>> /\ pc' = "decoded"
        /\ UNCHANGED <<chk, todo, address, output, input, mistakes>>
        /\ result' = IF /\ chk = Bits(1) /\ HrpOf(input) = hrp
                        /\ Len(d) \in 1 .. 64
                        /\ prog.ok /\ Len(prog.out) = PUB_ADDR_BYTES_LEN
                       THEN prog.out ELSE <<>>
        BY <1>7 DEF Decoded
  <2>2. /\ TypedBy(input, mistakes, address) /\ Readable(input)
        /\ HrpOf(input) = hrp => Pending(Entered(input), chk, <<>>)
        BY <2>1 DEF IInv
  <2>3. HrpOf(input) = hrp => chk = Run(Entered(input))[Len(Entered(input))]
        BY <1>0, <2>2, TypedFact, PendingEnds
  <2>4. CASE mistakes = 0
    <3>1. HrpOf(input) = hrp /\ DataOf(input) = Body(address) /\ chk = Bits(1)
          BY <1>0, <2>2, <2>3, <2>4, TypedFact
    <3>2. d = Symbols(address)
      <4>1. Len(Body(address)) = 38 /\ SubSeq(Body(address), 1, 32) = Symbols(address)
            BY <1>0, BodyFact
      <4> QED BY <3>1, <4>1
    <3> HIDE DEF d
    <3>3. Len(d) = 32 /\ prog.ok = TRUE /\ prog.out = address /\ Len(address) = PUB_ADDR_BYTES_LEN
          BY <1>0, <3>2, AddressFact
    <3> HIDE DEF prog
    <3>4. result' = address
          BY <2>1, <3>1, <3>3
    <3> QED BY <1>0, <2>1, <2>4, <3>4 DEF IInv
  <2>5. CASE mistakes # 0
    <3>1. mistakes = 1
          BY <1>0, <2>2, <2>5, TypedFact
    <3>2. HrpOf(input) = hrp => chk # Bits(1)
          BY <1>0, <2>2, <2>3, <3>1, TypedFact
    <3> HIDE DEF d, prog
    <3>3. result' = <<>>
          BY <2>1, <3>2
    <3> QED BY <1>0, <2>1, <2>5, <3>3 DEF IInv
  <2> QED BY <2>4, <2>5
<1>8. CASE UNCHANGED vars
  <2>1. UNCHANGED <<pc, chk, todo, address, output, input, mistakes, result>>
        BY <1>8 DEF vars
  <2> QED BY <2>1 DEF IInv
<1> QED BY <1>1, <1>2, <1>3, <1>4, <1>5, <1>6, <1>7, <1>8 DEF Next

(* It is an invariant of the program.                                      *)
LEMMA Invariant == Spec => []IInv
<1> QED BY Initially, Step, PTL DEF Spec

(* FitsBuffer: the string of every address has the length of the buffer    *)
(* that signTxn and getPublicKey copy it to.                               *)
THEOREM AddressFits == Spec => []FitsBuffer
<1>1. IInv => FitsBuffer
      BY TextFact DEF IInv, FitsBuffer, BECH32_ADDRSTR_LEN
<1> QED BY <1>1, Invariant, PTL

(* ReadsBack: bech32_addr_decode returns the address that                  *)
(* bech32_addr_encode was given, in small letters or in capitals.          *)
THEOREM AddressReadsBack == Spec => []ReadsBack
<1>1. IInv => ReadsBack
      BY DEF IInv, ReadsBack
<1> QED BY <1>1, Invariant, PTL

(* MistakeIsCaught: with one wrong character, wherever it is, it returns   *)
(* a failure.                                                              *)
THEOREM MistakeCaught == Spec => []MistakeIsCaught
<1>1. IInv => MistakeIsCaught
      BY DEF IInv, MistakeIsCaught
<1> QED BY <1>1, Invariant, PTL
=============================================================================
