---------------------------- MODULE AmountProofs ----------------------------
(***************************************************************************)
(* Theorems about AmountDisplay: for every width of a word and every base  *)
(* up to ten the division is exact, the buffers suffice, and the text on   *)
(* the screen reads back as the amount that is signed.                     *)
(***************************************************************************)
EXTENDS AmountDisplay, Arithmetic

-----------------------------------------------------------------------------
(* Numbers of two words                                                    *)
B == Power(2, W)

(* Powers of two as words see them.                                        *)
LEMMA WordFact ==
    /\ W \in Nat \ {0, 1} /\ B \in Nat \ {0} /\ Word = 0 .. B - 1
    /\ Power(2, W - 1) \in Nat \ {0} /\ B = 2 * Power(2, W - 1)
    /\ Power(2, 2 * W) = B * B
<1>1. W \in Nat \ {0, 1} /\ W - 1 \in Nat /\ (W - 1) + 1 = W /\ 2 * W = W + W
      BY WordAssumption
<1>2. B \in Nat \ {0} /\ Power(2, W - 1) \in Nat \ {0} /\ B = 2 * Power(2, W - 1)
      BY <1>1, Doubling DEF B
<1>3. Power(2, 2 * W) = B * B
      BY <1>1, PowerSum DEF B
<1> QED BY <1>1, <1>2, <1>3 DEF Word, B

(* A pair is its two words, and below the square of what a word is below.  *)
LEMMA ValFact ==
    ASSUME NEW x \in U128
    PROVE  /\ x[1] \in 0 .. B - 1 /\ x[2] \in 0 .. B - 1 /\ x = <<x[1], x[2]>>
           /\ Val(x) \in Nat /\ Val(x) = B * x[1] + x[2] /\ Val(x) < B * B
<1>1. x[1] \in 0 .. B - 1 /\ x[2] \in 0 .. B - 1 /\ x = <<x[1], x[2]>>
      BY WordFact DEF U128
<1> DEFINE p == x[1]
           q == x[2]
<1>2. B \in Nat
      BY WordFact
<1> HIDE DEF p, q
<1>3. ASSUME p \in 0 .. B - 1, q \in 0 .. B - 1
      PROVE  p * B + q = B * p + q /\ B * p + q < B * B /\ B * p + q \in Nat
  <2>1. p <= B - 1 /\ p \in Nat /\ q \in Nat
        BY <1>2, <1>3
  <2>2. B * p <= B * (B - 1)
        BY <1>2, <2>1
  <2>3. B * (B - 1) = B * B - B /\ B * p \in Nat /\ p * B = B * p /\ B * B \in Nat
        BY <1>2, <2>1
  <2> QED BY <1>2, <1>3, <2>2, <2>3
<1> QED BY <1>1, <1>3 DEF Val, B, p, q

(* Pairs of words, by their number.                                        *)
LEMMA PairFact ==
    ASSUME NEW u \in 0 .. B - 1, NEW l \in 0 .. B - 1
    PROVE  <<u, l>> \in U128 /\ Val(<<u, l>>) = B * u + l
<1>1. <<u, l>> \in U128
      BY WordFact DEF U128
<1>2. Val(<<u, l>>) = B * <<u, l>>[1] + <<u, l>>[2]
      BY <1>1, ValFact
<1> QED BY <1>1, <1>2

(* A number below a word is its lower word.                                *)
LEMMA SmallFact ==
    ASSUME NEW c \in 0 .. B - 1
    PROVE  <<0, c>> \in U128 /\ Val(<<0, c>>) = c /\ Zero \in U128 /\ Val(Zero) = 0
<1>1. 0 \in 0 .. B - 1 /\ B * 0 + c = c /\ B * 0 + 0 = 0
      BY WordFact
<1> QED BY <1>1, PairFact DEF Zero

(* Wrapping.                                                               *)
LEMMA WrapFact ==
    /\ \A i \in Int : Wrap(i) \in 0 .. B - 1
    /\ \A q \in Int, r \in 0 .. B - 1 : Wrap(B * q + r) = r
    /\ \A r \in 0 .. B - 1 : Wrap(r) = r
<1>1. B \in Nat \ {0}
      BY WordFact
<1>2. \A i \in Int : Wrap(i) \in 0 .. B - 1
      BY <1>1, DivMod DEF Wrap, B
<1>3. \A q \in Int, r \in 0 .. B - 1 : Wrap(B * q + r) = r
      BY <1>1, ModUnique DEF Wrap, B
<1>4. \A r \in 0 .. B - 1 : Wrap(r) = r
  <2> TAKE r \in 0 .. B - 1
  <2>1. 0 \in Int /\ B * 0 + r = r
        BY <1>1
  <2>2. Wrap(B * 0 + r) = r
        BY <1>3, <2>1, Zenon
  <2> QED BY <2>1, <2>2
<1> QED BY <1>2, <1>3, <1>4

(* gt128 and gte128 compare.                                               *)
LEMMA GtFact ==
    ASSUME NEW x \in U128, NEW y \in U128
    PROVE  /\ Gt128(x, y) <=> Val(x) > Val(y)
           /\ Gte128(x, y) <=> Val(x) >= Val(y)
<1> DEFINE a == x[1]
           b == x[2]
           c == y[1]
           d == y[2]
<1>1. /\ a \in 0 .. B - 1 /\ b \in 0 .. B - 1 /\ x = <<a, b>> /\ Val(x) = B * a + b
      /\ c \in 0 .. B - 1 /\ d \in 0 .. B - 1 /\ y = <<c, d>> /\ Val(y) = B * c + d
      BY ValFact
<1>2. B \in Nat
      BY WordFact
<1>3. /\ Gt128(x, y) <=> IF a = c THEN b > d ELSE a > c
      /\ Gte128(x, y) <=> Gt128(x, y) \/ (a = c /\ b = d)
      BY <1>1 DEF Gt128, Gte128
<1> HIDE DEF a, b, c, d
<1>4. CASE a = c
      BY <1>1, <1>2, <1>3, <1>4
<1>5. CASE a > c
  <2>1. a >= c + 1 /\ B * a >= B * (c + 1) /\ B * (c + 1) = B * c + B
        BY <1>1, <1>2, <1>5
  <2>2. B * a \in Nat /\ B * c \in Nat
        BY <1>1, <1>2
  <2>3. Val(x) > Val(y)
        BY <1>1, <1>2, <2>1, <2>2
  <2> QED BY <1>1, <1>3, <1>5, <2>2, <2>3
<1>6. CASE a < c
  <2>1. c >= a + 1 /\ B * c >= B * (a + 1) /\ B * (a + 1) = B * a + B
        BY <1>1, <1>2, <1>6
  <2>2. B * a \in Nat /\ B * c \in Nat
        BY <1>1, <1>2
  <2>3. Val(x) < Val(y)
        BY <1>1, <1>2, <2>1, <2>2
  <2> QED BY <1>1, <1>3, <1>6, <2>2, <2>3
<1> QED BY <1>1, <1>4, <1>5, <1>6

(* minus128 subtracts, with a borrow.                                      *)
LEMMA MinusFact ==
    ASSUME NEW x \in U128, NEW y \in U128, Val(y) <= Val(x)
    PROVE  Minus128(x, y) \in U128 /\ Val(Minus128(x, y)) = Val(x) - Val(y)
<1> DEFINE a == x[1]
           b == x[2]
           c == y[1]
           d == y[2]
           low == Wrap(b - d)
           high == Wrap(a - c - (IF low > b THEN 1 ELSE 0))
<1>1. /\ a \in 0 .. B - 1 /\ b \in 0 .. B - 1 /\ Val(x) = B * a + b
      /\ c \in 0 .. B - 1 /\ d \in 0 .. B - 1 /\ Val(y) = B * c + d
      BY ValFact
<1>2. B \in Nat /\ B > 0
      BY WordFact
<1>3. Minus128(x, y) = <<high, low>>
      BY DEF Minus128
<1> HIDE DEF a, b, c, d
<1>4. a >= c /\ (a = c => b >= d)
  <2>1. CASE a < c
    <3>1. c >= a + 1 /\ B * c >= B * (a + 1) /\ B * (a + 1) = B * a + B
          BY <1>1, <1>2, <2>1
    <3>2. B * a \in Nat /\ B * c \in Nat
          BY <1>1, <1>2
    <3> QED BY <1>1, <1>2, <3>1, <3>2
  <2>2. CASE a = c
        BY <1>1, <1>2, <2>2
  <2> QED BY <1>1, <2>1, <2>2
<1>5. CASE b >= d
  <2>1. low = b - d
    <3>1. b - d \in 0 .. B - 1
          BY <1>1, <1>2, <1>5
    <3> QED BY <3>1, WrapFact
  <2>2. high = a - c
    <3>1. ~(low > b) /\ a - c \in 0 .. B - 1 /\ a - c - 0 = a - c
          BY <1>1, <1>2, <1>4, <2>1
    <3> HIDE DEF low
    <3>2. high = Wrap(a - c)
          BY <3>1
    <3> QED BY <3>1, <3>2, WrapFact
  <2> HIDE DEF low, high
  <2>3. B * (a - c) = B * a - B * c /\ B * a \in Nat /\ B * c \in Nat
        BY <1>1, <1>2
  <2>4. high \in 0 .. B - 1 /\ low \in 0 .. B - 1
        BY <1>1, <1>2, <1>4, <1>5, <2>1, <2>2
  <2>5. Minus128(x, y) \in U128 /\ Val(Minus128(x, y)) = B * high + low
        BY <1>3, <2>4, PairFact
  <2> QED BY <1>1, <2>1, <2>2, <2>3, <2>5
<1>6. CASE b < d
  <2>0. a >= c + 1
        BY <1>1, <1>4, <1>6
  <2>1. low = b - d + B
    <3>1. b - d + B \in 0 .. B - 1 /\ B * (-1) + (b - d + B) = b - d /\ -1 \in Int
          BY <1>1, <1>2, <1>6
    <3>2. Wrap(B * (-1) + (b - d + B)) = b - d + B
          BY <3>1, WrapFact
    <3> QED BY <3>1, <3>2
  <2>2. high = a - c - 1
    <3>1. low > b /\ a - c - 1 \in 0 .. B - 1
          BY <1>1, <1>2, <2>0, <2>1
    <3> HIDE DEF low
    <3>2. high = Wrap(a - c - 1)
          BY <3>1
    <3> QED BY <3>1, <3>2, WrapFact
  <2> HIDE DEF low, high
  <2>3. B * (a - c - 1) = B * a - B * c - B /\ B * a \in Nat /\ B * c \in Nat
        BY <1>1, <1>2
  <2>4. high \in 0 .. B - 1 /\ low \in 0 .. B - 1
        BY <1>1, <1>2, <2>0, <1>6, <2>1, <2>2
  <2>5. Minus128(x, y) \in U128 /\ Val(Minus128(x, y)) = B * high + low
        BY <1>3, <2>4, PairFact
  <2> QED BY <1>1, <1>2, <2>1, <2>2, <2>3, <2>5
<1> QED BY <1>1, <1>5, <1>6

(* shiftr128 by one halves; by none it changes nothing.                    *)
LEMMA HalfFact ==
    ASSUME NEW x \in U128
    PROVE  Shiftr128(x, 1) \in U128 /\ Val(Shiftr128(x, 1)) = Val(x) \div 2
<1> DEFINE H == Power(2, W - 1)
           a == x[1]
           b == x[2]
           h == a \div 2
           r == a % 2
           k == b \div 2
           s == b % 2
           low == Wrap(Wrap(a * H) + k)
<1>1. a \in 0 .. B - 1 /\ b \in 0 .. B - 1 /\ Val(x) = B * a + b
      BY ValFact
<1>2. B \in Nat /\ H \in Nat /\ H > 0 /\ B = 2 * H /\ W \in Nat /\ 1 < W
      BY WordFact
<1>3. h \in Nat /\ r \in 0 .. 1 /\ a = 2 * h + r
  <2> HIDE DEF a
  <2>1. a \in Nat
        BY <1>1
  <2> QED BY <2>1, DivFact
<1>4. k \in Nat /\ s \in 0 .. 1 /\ b = 2 * k + s
  <2> HIDE DEF b
  <2>1. b \in Nat
        BY <1>1
  <2> QED BY <2>1, DivFact
<1>5. Power(2, 1) = 2
      BY Doubling
<1>6. Shiftr128(x, 1) = <<h, low>>
      BY <1>2, <1>5 DEF Shiftr128
<1> HIDE DEF H, a, b, h, r, k, s
<1>7. h \in 0 .. B - 1 /\ k < H /\ h < H
      BY <1>1, <1>2, <1>3, <1>4
<1>8. Wrap(a * H) = r * H /\ r * H \in {0, H}
  <2>1. CASE r = 0
    <3>1. a * H = B * h + 0 /\ r * H = 0
          BY <1>2, <1>3, <2>1
    <3>2. Wrap(B * h + 0) = 0
      <4>1. h \in Int /\ 0 \in 0 .. B - 1
            BY <1>2, <1>3
      <4> QED BY <4>1, WrapFact, Zenon
    <3> QED BY <3>1, <3>2
  <2>2. CASE r = 1
    <3>1. a * H = B * h + H /\ r * H = H
          BY <1>2, <1>3, <2>2
    <3>2. Wrap(B * h + H) = H
      <4>1. H \in 0 .. B - 1 /\ h \in Int
            BY <1>2, <1>3
      <4> QED BY <4>1, WrapFact
    <3> QED BY <3>1, <3>2
  <2> QED BY <1>3, <2>1, <2>2
<1>9. low = r * H + k /\ low \in 0 .. B - 1
  <2>1. r * H + k \in 0 .. B - 1
        BY <1>2, <1>4, <1>7, <1>8
  <2>2. low = Wrap(r * H + k)
        BY <1>8
  <2> HIDE DEF low
  <2> QED BY <2>1, <2>2, WrapFact
<1> HIDE DEF low
<1>10. Shiftr128(x, 1) \in U128 /\ Val(Shiftr128(x, 1)) = B * h + low
       BY <1>6, <1>7, <1>9, PairFact
<1>11. Val(x) = 2 * (B * h + low) + s
  <2>1. CASE r = 0
    <3>1. B * a = 2 * (B * h) /\ low = k /\ B * h \in Nat
          BY <1>2, <1>3, <1>4, <1>9, <2>1
    <3> QED BY <1>1, <1>4, <3>1
  <2>2. CASE r = 1
    <3>1. B * h \in Nat /\ a = 2 * h + 1
          BY <1>2, <1>3, <2>2
    <3>2. B * (2 * h + 1) = 2 * (B * h) + B
          BY <1>2, <1>3
    <3>3. low = H + k
          BY <1>2, <1>9, <2>2
    <3> QED BY <1>1, <1>2, <1>4, <3>1, <3>2, <3>3
  <2> QED BY <1>3, <2>1, <2>2
<1>12. (2 * (B * h + low) + s) \div 2 = B * h + low
  <2> DEFINE q == B * h + low
  <2>1. q \in Int /\ s \in 0 .. 2 - 1
        BY <1>2, <1>3, <1>4, <1>9
  <2> HIDE DEF q
  <2>2. (2 * q + s) \div 2 = q
        BY <2>1, DivUnique
  <2> QED BY <2>2 DEF q
<1> QED BY <1>10, <1>11, <1>12

(* shiftr128 by nothing.                                                   *)
LEMMA UnshiftedFact ==
    ASSUME NEW x \in U128
    PROVE  Shiftr128(x, 0) = x
<1> DEFINE a == x[1]
           b == x[2]
<1>1. a \in 0 .. B - 1 /\ b \in 0 .. B - 1 /\ x = <<a, b>>
      BY ValFact
<1>2. B \in Nat \ {0} /\ W \in Nat /\ 1 < W /\ Power(2, 0) = 1
      BY WordFact, Doubling
<1> HIDE DEF a, b
<1>3. a \div 1 = a /\ b \div 1 = b
      BY <1>1, <1>2
<1>4. Wrap(a * B) = 0
  <2>1. a * B = B * a + 0 /\ a \in Int /\ 0 \in 0 .. B - 1
        BY <1>1, <1>2
  <2> QED BY <2>1, WrapFact
<1>5. Wrap(0 + b) = b
  <2>1. 0 + b = b
        BY <1>1, <1>2
  <2> QED BY <1>1, <2>1, WrapFact
<1>6. Shiftr128(x, 0) = <<a \div 1, Wrap(Wrap(a * B) + b \div 1)>>
  <2>1. W - 0 = W
        BY <1>2
  <2> QED BY <1>1, <1>2, <2>1 DEF Shiftr128, B
<1> QED BY <1>1, <1>3, <1>4, <1>5, <1>6

(* shiftl128 of a small number is exact as long as it fits.                *)
LEMMA LeftFact ==
    ASSUME NEW c \in 1 .. B - 1, NEW v \in Nat, Power(2, v) * c < B * B
    PROVE  Shiftl128(<<0, c>>, v) \in U128 /\ Val(Shiftl128(<<0, c>>, v)) = Power(2, v) * c
<1>1. W \in Nat /\ B \in Nat \ {0} /\ Power(2, 2 * W) = B * B
      BY WordFact
<1>2. v < 2 * W
  <2> SUFFICES ASSUME v >= 2 * W PROVE FALSE
      BY <1>1
  <2>1. Power(2, 2 * W) <= Power(2, v) /\ Power(2, v) \in Nat
    <3>1. 2 * W \in Nat
          BY <1>1
    <3> QED BY <3>1, PowerGrows, Doubling
  <2>2. Power(2, v) <= Power(2, v) * c
        BY <2>1
  <2>3. B * B \in Nat /\ Power(2, v) * c \in Nat
        BY <1>1, <2>1
  <2> QED BY <1>1, <2>1, <2>2, <2>3
<1>3. CASE v >= W
  <2> DEFINE p == Power(2, v - W)
  <2>1. v - W \in Nat /\ v = W + (v - W)
        BY <1>1, <1>3
  <2>2. p \in Nat /\ Power(2, v) = B * p
    <3>1. Power(2, W + (v - W)) = Power(2, W) * Power(2, v - W)
          BY <1>1, <2>1, PowerSum
    <3>2. W + (v - W) = v
          BY <1>1
    <3> QED BY <2>1, <3>1, <3>2, Doubling DEF B
  <2>3. Shiftl128(<<0, c>>, v) = <<Wrap(c * p), 0>>
        BY <1>1, <1>2, <1>3 DEF Shiftl128
  <2> HIDE DEF p
  <2>4. c * p \in Nat /\ (B * p) * c = B * (c * p)
        BY <1>1, <2>2
  <2>5. c * p < B
    <3> DEFINE q == c * p
    <3>1. q \in Nat /\ B * q < B * B
          BY <2>2, <2>4
    <3> HIDE DEF q
    <3>2. CASE q >= B
      <4>1. B * q >= B * B
            BY <1>1, <3>1, <3>2
      <4>2. B * q \in Nat /\ B * B \in Nat
            BY <1>1, <3>1
      <4> QED BY <3>1, <4>1, <4>2
    <3>3. q < B
          BY <1>1, <3>1, <3>2
    <3> QED BY <3>3 DEF q
  <2>6. Wrap(c * p) = c * p
    <3>1. c * p \in 0 .. B - 1
          BY <1>1, <2>4, <2>5
    <3> QED BY <3>1, WrapFact
  <2>7. <<c * p, 0>> \in U128 /\ Val(<<c * p, 0>>) = B * (c * p) + 0
    <3>1. c * p \in 0 .. B - 1 /\ 0 \in 0 .. B - 1
          BY <1>1, <2>4, <2>5
    <3> QED BY <3>1, PairFact, Zenon
  <2>8. B * (c * p) + 0 = B * (c * p)
        BY <1>1, <2>4
  <2> QED BY <2>2, <2>3, <2>4, <2>6, <2>7, <2>8
<1>4. CASE v < W
  <2> DEFINE p == Power(2, v)
             d == Power(2, W - v)
             h == c \div d
             r == c % d
  <2>1. W - v \in Nat /\ W = v + (W - v)
        BY <1>1, <1>4
  <2>2. p \in Nat \ {0} /\ d \in Nat \ {0} /\ B = p * d
        BY <2>1, Doubling, PowerSum DEF B
  <2>3. h \in Nat /\ r \in 0 .. d - 1 /\ c = d * h + r
    <3> HIDE DEF d
    <3>1. c \in Nat
          BY <1>1
    <3> QED BY <2>2, <3>1, DivFact
  <2>4. Shiftl128(<<0, c>>, v) = <<Wrap(Wrap(0 * p) + h), Wrap(c * p)>>
        BY <1>1, <1>2, <1>4 DEF Shiftl128
  <2> HIDE DEF p, d, h, r
  <2>5. p * r \in 0 .. B - 1
    <3>1. p * r <= p * (d - 1) /\ p * (d - 1) = p * d - p /\ p * r \in Nat
          BY <2>2, <2>3
    <3> QED BY <1>1, <2>2, <3>1
  <2>6. c * p = B * h + p * r /\ p * c = B * h + p * r
        BY <2>2, <2>3
  <2>7. Wrap(c * p) = p * r
    <3>1. h \in Int
          BY <2>3
    <3> QED BY <2>5, <2>6, <3>1, WrapFact
  <2>8. h \in 0 .. B - 1
    <3>1. h <= d * h /\ d * h \in Nat
          BY <2>2, <2>3
    <3> QED BY <1>1, <2>2, <2>3, <3>1
  <2>9. Wrap(Wrap(0 * p) + h) = h
    <3>1. 0 * p = 0 /\ 0 \in 0 .. B - 1 /\ 0 + h = h
          BY <1>1, <2>2, <2>8
    <3>2. Wrap(0) = 0
          BY <3>1, WrapFact, Zenon
    <3>3. Wrap(h) = h
          BY <2>8, WrapFact
    <3> QED BY <3>1, <3>2, <3>3
  <2>10. <<h, p * r>> \in U128 /\ Val(<<h, p * r>>) = B * h + p * r
         BY <2>5, <2>8, PairFact
  <2> QED BY <2>4, <2>6, <2>7, <2>9, <2>10 DEF p
<1> QED BY <1>1, <1>3, <1>4

(* The bits of a word and of a pair, without leading zeros.                *)
Bits(n, i) == i < Power(2, n) /\ (n > 0 => i >= Power(2, n - 1))

(* A number below a power of two has a bit length up to its exponent.      *)
LEMMA SomeBits ==
    ASSUME NEW m \in Nat, NEW i \in Nat, i < Power(2, m)
    PROVE  \E n \in 0 .. m : Bits(n, i)
<1> DEFINE T == { k \in Nat : i < Power(2, k) => \E n \in 0 .. k : Bits(n, i) }
<1>1. 0 \in T
      BY DEF Bits
<1>2. ASSUME NEW k \in T PROVE k + 1 \in T
  <2>1. CASE i < Power(2, k)
        BY <2>1
  <2>2. CASE ~(i < Power(2, k))
    <3>1. k \in Nat /\ Power(2, k) \in Nat
          BY Doubling
    <3>2. i >= Power(2, (k + 1) - 1)
          BY <2>2, <3>1
    <3>3. i < Power(2, k + 1) => Bits(k + 1, i)
          BY <3>2 DEF Bits
    <3> QED BY <3>1, <3>3
  <2> QED BY <2>1, <2>2
<1>3. T = Nat
  <2>1. T \in SUBSET Nat
        OBVIOUS
  <2> HIDE DEF T
  <2> QED BY <1>1, <1>2, <2>1, Induction
<1> QED BY <1>3

(* bits128 counts the bits without leading zeros.                          *)
LEMMA BitsFact ==
    ASSUME NEW x \in U128
    PROVE  Bits128(x) \in 0 .. 2 * W /\ Bits(Bits128(x), Val(x))
<1> DEFINE a == x[1]
           b == x[2]
<1>1. a \in 0 .. B - 1 /\ b \in 0 .. B - 1 /\ Val(x) = B * a + b
      BY ValFact
<1>2. W \in Nat /\ B \in Nat \ {0}
      BY WordFact
<1>3. ASSUME NEW w \in 0 .. B - 1
      PROVE  BitLength(w) \in 0 .. W /\ Bits(BitLength(w), w)
  <2>1. w \in Nat /\ w < Power(2, W)
        BY <1>2 DEF B
  <2>2. \E n \in 0 .. W : Bits(n, w)
        BY <1>2, <2>1, SomeBits
  <2>3. BitLength(w) = CHOOSE n \in 0 .. W : Bits(n, w)
        BY DEF BitLength, Bits
  <2> QED BY <2>2, <2>3
<1>4. Bits128(x) = IF a # 0 THEN W + BitLength(a) ELSE BitLength(b)
      BY DEF Bits128
<1> HIDE DEF a, b
<1>5. CASE a = 0
  <2>1. B * a + b = b
        BY <1>1, <1>2, <1>5
  <2> QED BY <1>1, <1>2, <1>3, <1>4, <1>5, <2>1
<1>6. CASE a # 0
  <2> DEFINE n == BitLength(a)
             p == Power(2, n)
             q == Power(2, n - 1)
  <2>1. n \in 0 .. W /\ Bits(n, a)
        BY <1>1, <1>3
  <2>2. n > 0
    <3>1. CASE n = 0
      <4>1. a < 1
            BY <2>1, <3>1, Doubling DEF Bits
      <4> QED BY <1>1, <1>6, <4>1
    <3> QED BY <1>2, <2>1, <3>1
  <2> HIDE DEF n
  <2>3. n \in Nat /\ n - 1 \in Nat /\ (W + n) - 1 = W + (n - 1)
        BY <1>2, <2>1, <2>2
  <2>4. /\ p \in Nat /\ q \in Nat /\ a < p /\ a >= q
        /\ Power(2, W + n) = B * p /\ Power(2, (W + n) - 1) = B * q
        BY <1>2, <2>1, <2>2, <2>3, Doubling, PowerSum DEF Bits, B
  <2> HIDE DEF p, q
  <2>5. B * a + b < B * p
    <3>1. a + 1 <= p
          BY <1>1, <2>4
    <3>2. B * (a + 1) <= B * p
          BY <1>1, <1>2, <2>4, <3>1
    <3>3. B * (a + 1) = B * a + B /\ B * a \in Nat /\ B * p \in Nat
          BY <1>1, <1>2, <2>4
    <3> QED BY <1>1, <1>2, <3>2, <3>3
  <2>6. B * a + b >= B * q
    <3>1. B * a >= B * q /\ B * a \in Nat /\ B * q \in Nat
          BY <1>1, <1>2, <2>4
    <3> QED BY <1>1, <3>1
  <2>7. Bits128(x) = W + n /\ W + n \in 0 .. 2 * W
        BY <1>2, <1>4, <1>6, <2>1 DEF n
  <2> QED BY <1>1, <2>4, <2>5, <2>6, <2>7 DEF Bits
<1> QED BY <1>5, <1>6

(* or128 of a power of two and a multiple of the next.                     *)
LEMMA OrFact ==
    ASSUME NEW x \in U128, NEW y \in U128, NEW k \in 0 .. 2 * W - 1, NEW c \in Nat,
           Val(x) = Power(2, k + 1) * c, Val(y) = Power(2, k)
    PROVE  Or128(x, y) \in U128 /\ Val(Or128(x, y)) = Val(x) + Val(y)
<1> DEFINE a == x[1]
           b == x[2]
           u == y[1]
           l == y[2]
           p == Power(2, k)
<1>1. /\ a \in 0 .. B - 1 /\ b \in 0 .. B - 1 /\ Val(x) = B * a + b
      /\ u \in 0 .. B - 1 /\ l \in 0 .. B - 1 /\ Val(y) = B * u + l
      BY ValFact
<1>2. W \in Nat /\ B \in Nat \ {0} /\ Power(2, W) = B /\ k \in Nat
      BY WordFact DEF B
<1>3. p \in Nat \ {0} /\ Power(2, k + 1) = 2 * p
      BY <1>2, Doubling
<1>4. Or128(x, y) = <<BitOr(a, u, W), BitOr(b, l, W)>>
      BY DEF Or128
<1>5. ASSUME NEW w \in 0 .. B - 1
      PROVE  BitOr(w, 0, W) = w
  <2>1. Power(2, W) * 0 = 0 /\ w < Power(2, W) /\ Power(2, W) * 0 < Power(2, W) /\ w \in Nat
        BY <1>2
  <2>2. BitOr(w, Power(2, W) * 0, W) = w + Power(2, W) * 0
        BY <1>2, <2>1, BitOrDisjoint
  <2> QED BY <2>1, <2>2
<1>6. ASSUME NEW w \in Nat, NEW j \in 0 .. W - 1, w = Power(2, j + 1) * (w \div Power(2, j + 1)),
             w < B
      PROVE  BitOr(w, Power(2, j), W) = w + Power(2, j) /\ w + Power(2, j) \in 0 .. B - 1
  <2> DEFINE q == Power(2, j)
             d == w \div Power(2, j + 1)
             e == Power(2, W - (j + 1))
  <2>1. q \in Nat \ {0} /\ Power(2, j + 1) = 2 * q /\ j \in Nat /\ j + 1 \in Nat
        BY <1>2, Doubling
  <2>2. d \in Nat
    <3> DEFINE z == Power(2, j + 1)
    <3>1. z \in Nat \ {0}
          BY <2>1, Doubling
    <3> HIDE DEF z
    <3>2. w \div z \in Nat
          BY <3>1, DivFact
    <3> QED BY <3>2 DEF z
  <2>3. w = (2 * q) * d
        BY <1>6, <2>1
  <2>4. e \in Nat /\ B = (2 * q) * e
    <3>1. W - (j + 1) \in Nat /\ j + 1 <= W
          BY <1>2
    <3>2. Power(2, W) = Power(2, j + 1) * Power(2, W - (j + 1))
          BY <1>2, <2>1, <3>1, PowerGrows
    <3> QED BY <1>2, <2>1, <3>1, <3>2, Doubling
  <2> HIDE DEF d, e
  <2>5. d + 1 <= e
    <3> SUFFICES ASSUME d >= e PROVE FALSE
        BY <2>2, <2>4
    <3> HIDE DEF q
    <3>1. (2 * q) * d >= (2 * q) * e /\ (2 * q) * e \in Nat /\ (2 * q) * d \in Nat
          BY <2>1, <2>2, <2>4
    <3> QED BY <1>6, <2>3, <2>4, <3>1
  <2>6. w + 2 * q <= B
    <3> HIDE DEF q
    <3>1. (2 * q) * (d + 1) <= (2 * q) * e /\ (2 * q) * (d + 1) = (2 * q) * d + 2 * q
          BY <2>1, <2>2, <2>4, <2>5
    <3> QED BY <2>3, <2>4, <3>1
  <2>7. q < 2 * q /\ q < B /\ q \in Nat
    <3> HIDE DEF q
    <3> QED BY <1>2, <2>1, <2>6
  <2>8. BitOr(Power(2, j + 1) * d, q, W) = Power(2, j + 1) * d + q
    <3>1. q < Power(2, j + 1) /\ q < Power(2, W) /\ Power(2, j + 1) * d < Power(2, W)
          BY <1>2, <1>6, <2>1, <2>3, <2>7
    <3> QED BY <1>2, <2>1, <2>2, <2>7, <3>1, BitOrDisjoint
  <2>9. w + q \in 0 .. B - 1
    <3> HIDE DEF q
    <3> QED BY <1>2, <1>6, <2>1, <2>6, <2>7
  <2> QED BY <2>1, <2>3, <2>8, <2>9
<1> HIDE DEF a, b, u, l
<1>7. CASE k < W
  <2> DEFINE d == Power(2, W - (k + 1))
             z == Power(2, k + 1)
  <2>1. u = 0 /\ l = p
    <3>1. p < B
      <4>1. Power(2, k + 1) <= Power(2, W) /\ k + 1 \in Nat
        <5>1. k + 1 \in Nat /\ k + 1 <= W
              BY <1>2, <1>7
        <5> QED BY <1>2, <5>1, PowerGrows
      <4> QED BY <1>2, <1>3, <4>1
    <3>2. CASE u >= 1
      <4>1. B * u >= B
            BY <1>1, <1>2, <3>2
      <4>2. B * u \in Nat
            BY <1>1, <1>2
      <4> QED BY <1>1, <1>2, <1>3, <3>1, <4>1, <4>2
    <3>3. u = 0
          BY <1>1, <3>2
    <3> QED BY <1>1, <1>2, <1>3, <3>3
  <2>2. d \in Nat /\ z \in Nat \ {0} /\ B = z * d
    <3>1. W - (k + 1) \in Nat /\ k + 1 <= W /\ k + 1 \in Nat
          BY <1>2, <1>7
    <3>2. Power(2, W) = Power(2, k + 1) * Power(2, W - (k + 1))
          BY <1>2, <3>1, PowerGrows
    <3> QED BY <1>2, <3>1, <3>2, Doubling
  <2>3. b = z * (b \div z)
    <3>1. b \in Nat
          BY <1>1
    <3>2. b \div z \in Nat /\ b % z \in 0 .. z - 1 /\ b = z * (b \div z) + (b % z)
      <4> HIDE DEF z
      <4> QED BY <2>2, <3>1, DivFact
    <3> DEFINE h == b \div z
               r == b % z
    <3>3. h \in Nat /\ r \in 0 .. z - 1 /\ b = z * h + r
          BY <3>2
    <3>4. Val(x) = z * c
          OBVIOUS
    <3> HIDE DEF z, h, r, d
    <3>5. z * c = z * (d * a + h) + r
      <4>1. B * a = z * (d * a)
            BY <1>1, <2>2
      <4>2. z * (d * a + h) = z * (d * a) + z * h /\ z * (d * a) \in Nat /\ z * h \in Nat
            BY <1>1, <2>2, <3>3
      <4> QED BY <1>1, <3>3, <3>4, <4>1, <4>2
    <3>6. r = 0
      <4>1. (z * (d * a + h) + r) % z = r
        <5>1. d * a + h \in Int
              BY <1>1, <2>2, <3>3
        <5> QED BY <2>2, <3>3, <5>1, DivUnique
      <4>2. (z * c + 0) % z = 0
        <5>1. 0 \in 0 .. z - 1 /\ c \in Int
              BY <2>2
        <5> QED BY <2>2, <5>1, DivUnique, Zenon
      <4>3. z * c + 0 = z * c
            BY <2>2
      <4> QED BY <3>5, <4>1, <4>2, <4>3
    <3>7. z * h \in Nat
          BY <2>2, <3>3
    <3>8. b = z * h
          BY <3>3, <3>6, <3>7
    <3> QED BY <3>8 DEF h
  <2>4. BitOr(b, p, W) = b + p /\ b + p \in 0 .. B - 1
    <3>1. k \in 0 .. W - 1 /\ b \in Nat /\ b < B
          BY <1>1, <1>2, <1>7
    <3> QED BY <1>6, <2>3, <3>1
  <2>5. BitOr(a, 0, W) = a
        BY <1>1, <1>5
  <2>6. Or128(x, y) = <<a, b + p>>
        BY <1>4, <2>1, <2>4, <2>5
  <2>7. Or128(x, y) \in U128 /\ Val(Or128(x, y)) = B * a + (b + p)
        BY <1>1, <2>4, <2>6, PairFact
  <2>8. B * a \in Nat
        BY <1>1, <1>2
  <2> QED BY <1>1, <1>3, <2>7, <2>8
<1>8. CASE k >= W
  <2> DEFINE j == k - W
             q == Power(2, j)
             z == Power(2, j + 1)
  <2>1. j \in 0 .. W - 1 /\ j \in Nat /\ j + 1 \in Nat /\ k = W + j /\ k + 1 = W + (j + 1)
        BY <1>2, <1>8
  <2>2. p = B * q /\ Power(2, k + 1) = B * z /\ q \in Nat \ {0} /\ z \in Nat \ {0} /\ z = 2 * q
    <3> HIDE DEF j
    <3>1. Power(2, W + j) = Power(2, W) * Power(2, j)
          BY <1>2, <2>1, PowerSum
    <3>2. Power(2, W + (j + 1)) = Power(2, W) * Power(2, j + 1)
          BY <1>2, <2>1, PowerSum
    <3> QED BY <1>2, <2>1, <3>1, <3>2, Doubling
  <2>3. Val(x) = B * (z * c) + 0 /\ Val(y) = B * q + 0
    <3> HIDE DEF q, z
    <3>1. (B * z) * c = B * (z * c) + 0 /\ B * q = B * q + 0
          BY <1>2, <2>2
    <3> QED BY <2>2, <3>1
  <2>4. ASSUME NEW i \in 0 .. B - 1, NEW m \in 0 .. B - 1, NEW n \in Nat, B * i + m = B * n + 0
        PROVE  i = n /\ m = 0
    <3>1. (B * i + m) \div B = i /\ (B * i + m) % B = m
      <4>1. i \in Int
            BY <1>2
      <4> QED BY <1>2, <4>1, DivUnique
    <3>2. (B * n + 0) \div B = n /\ (B * n + 0) % B = 0
      <4>1. 0 \in 0 .. B - 1 /\ n \in Int
            BY <1>2
      <4> QED BY <1>2, <4>1, DivUnique, Zenon
    <3> QED BY <2>4, <3>1, <3>2
  <2>5. z * c \in Nat /\ q \in Nat
    <3> HIDE DEF q, z
    <3> QED BY <2>2
  <2>6. a = z * c /\ b = 0 /\ u = q /\ l = 0
    <3> HIDE DEF q, z
    <3>1. B * a + b = B * (z * c) + 0 /\ B * u + l = B * q + 0
          BY <1>1, <2>3
    <3>2. a = z * c /\ b = 0
          BY <1>1, <2>4, <2>5, <3>1
    <3>3. u = q /\ l = 0
          BY <1>1, <2>4, <2>5, <3>1
    <3> QED BY <3>2, <3>3
  <2>7. a = z * (a \div z)
    <3> HIDE DEF q, z
    <3>1. (z * c + 0) \div z = c
      <4>1. 0 \in 0 .. z - 1 /\ c \in Int
            BY <2>2
      <4> QED BY <2>2, <4>1, DivUnique, Zenon
    <3>2. z * c + 0 = z * c
          BY <2>2
    <3> QED BY <2>6, <3>1, <3>2
  <2>8. BitOr(a, q, W) = a + q /\ a + q \in 0 .. B - 1
    <3>1. a \in Nat /\ a < B
          BY <1>1, <1>2
    <3> HIDE DEF j
    <3> QED BY <1>6, <2>1, <2>7, <3>1
  <2>9. BitOr(0, 0, W) = 0
    <3>1. 0 \in 0 .. B - 1
          BY <1>2
    <3> QED BY <1>5, <3>1
  <2> HIDE DEF q, z
  <2>10. Or128(x, y) = <<a + q, 0>>
         BY <1>4, <2>6, <2>8, <2>9
  <2>11. Or128(x, y) \in U128 /\ Val(Or128(x, y)) = B * (a + q) + 0
    <3>1. 0 \in 0 .. B - 1
          BY <1>2
    <3> QED BY <2>8, <2>10, <3>1, PairFact, Zenon
  <2>12. B * (a + q) + 0 = B * a + B * q
         BY <1>1, <1>2, <2>5
  <2> QED BY <1>1, <1>2, <2>2, <2>3, <2>5, <2>6, <2>11, <2>12
<1> QED BY <1>2, <1>7, <1>8
-----------------------------------------------------------------------------
(* The division                                                            *)
Words == {rDiv, copyd, adder, resDiv, resMod} \subseteq U128

(* The divisor and its bit of the quotient are shifted alike; the rest is  *)
(* below twice the divisor, the quotient has no bits from there on down.   *)
Shifting ==
    \E k \in 0 .. 2 * W - 1, c \in Nat :
        /\ Val(adder) = Power(2, k) /\ Val(copyd) = Power(2, k) * BASE
        /\ Val(resMod) < 2 * Val(copyd)
        /\ Val(resDiv) = Power(2, k + 1) * c

Dividing ==
    pc = "divide" =>
        /\ Val(rDiv) = BASE * Val(resDiv) + Val(resMod)
        /\ Shifting \/ (Val(adder) = 0 /\ Val(resMod) < BASE)

DivisionDone ==
    pc = "write" => Val(rDiv) = BASE * Val(resDiv) + Val(resMod) /\ Val(resMod) < BASE

(* The divisor is a number of one word.                                    *)
LEMMA BaseFact ==
    /\ BASE \in 2 .. 10 /\ BASE \in 1 .. B - 1 /\ 1 \in 1 .. B - 1
    /\ Ten = <<0, BASE>> /\ One = <<0, 1>>
    /\ Ten \in U128 /\ Val(Ten) = BASE /\ Zero \in U128 /\ Val(Zero) = 0
<1>1. BASE \in 2 .. 10 /\ BASE < B
      BY DisplayAssumption DEF B
<1>2. BASE \in 1 .. B - 1 /\ BASE \in 0 .. B - 1 /\ 1 \in 1 .. B - 1
      BY SMTT(30), <1>1, WordFact
<1> QED BY <1>1, <1>2, SmallFact DEF Ten, One

(* Half of the double.                                                     *)
LEMMA EvenHalf ==
    ASSUME NEW q \in Nat
    PROVE  (2 * q) \div 2 = q
<1>1. (2 * q + 0) \div 2 = q
      BY DivUnique, 0 \in 0 .. 2 - 1, q \in Int, 2 \in Nat \ {0}, Zenon
<1> QED BY <1>1

(* A round of tostring128 puts the divisor under the dividend.             *)
LEMMA DigitDivides ==
    ASSUME Words, Digit, RoomForDigit
    PROVE  Words' /\ Dividing' /\ DivisionDone'
<1>1. rDiv \in U128 /\ rDiv' = rDiv /\ resDiv' = Zero /\ resMod' = rDiv
      BY DEF Words, Digit
<1>2. B \in Nat \ {0} /\ W \in Nat /\ Power(2, 2 * W) = B * B
      BY WordFact
<1>3. Val(rDiv) \in Nat /\ Val(rDiv) = BASE * 0 + Val(rDiv) /\ BASE \in Nat /\ BASE >= 2
      BY <1>1, ValFact, BaseFact
<1>4. CASE Gt128(Ten, rDiv)
  <2>1. pc' = "write" /\ copyd' = copyd /\ adder' = adder
        BY <1>4 DEF Digit
  <2>2. Val(rDiv) < BASE
        BY <1>1, <1>3, <1>4, GtFact, BaseFact
  <2>3. Words'
        BY <1>1, <2>1, BaseFact DEF Words
  <2>4. Val(resDiv') = 0 /\ Val(resMod') = Val(rDiv) /\ Val(rDiv') = Val(rDiv)
        BY <1>1, BaseFact
  <2> QED BY <1>3, <2>1, <2>2, <2>3, <2>4 DEF Dividing, DivisionDone, Val
<1>5. CASE ~Gt128(Ten, rDiv)
  <2> DEFINE n == Bits128(rDiv)
             t == Bits128(Ten)
             S == Shiftl128(Ten, Aligned)
             D == Shiftl128(One, Aligned)
             half == IF Gt128(S, rDiv) THEN 1 ELSE 0
             r == Val(rDiv)
  <2>1. pc' = "divide" /\ copyd' = Shiftr128(S, half) /\ adder' = Shiftr128(D, half)
        BY <1>5 DEF Digit
  <2>2. r >= BASE
        BY <1>1, <1>3, <1>5, GtFact, BaseFact
  <2>3. n \in 0 .. 2 * W /\ r < Power(2, n) /\ (n > 0 => r >= Power(2, n - 1))
        BY <1>1, BitsFact DEF Bits
  <2>4. t \in 0 .. 2 * W /\ BASE < Power(2, t) /\ (t > 0 => BASE >= Power(2, t - 1))
        BY BitsFact, BaseFact DEF Bits
  <2>5. Aligned = n - t
        BY DEF Aligned
  <2> HIDE DEF n, t, r
  <2>6. t > 0 /\ t - 1 \in Nat /\ (t - 1) + 1 = t
    <3>1. CASE t = 0
          BY <1>3, <2>4, <3>1, Doubling
    <3> QED BY <1>2, <2>4, <3>1
  <2>7. n >= t
    <3> SUFFICES ASSUME n <= t - 1 PROVE FALSE
        BY <1>2, <2>3, <2>4
    <3>1. n \in Nat
          BY <1>2, <2>3
    <3>2. Power(2, n) <= Power(2, t - 1) /\ Power(2, n) \in Nat /\ Power(2, t - 1) \in Nat
          BY <2>6, <3>1, PowerGrows, Doubling
    <3> QED BY <1>3, <2>2, <2>3, <2>4, <2>6, <3>2 DEF r
  <2> DEFINE a == Aligned
             p == Power(2, a)
  <2>8. /\ a \in Nat /\ n = a + t /\ n - 1 \in Nat /\ n - 1 = a + (t - 1) /\ (n - 1) + 1 = n
        /\ n \in Nat /\ t \in Nat
        BY <1>2, <2>3, <2>4, <2>5, <2>6, <2>7
  <2> HIDE DEF a
  <2>9. /\ p \in Nat \ {0} /\ Power(2, n) = p * Power(2, t)
        /\ Power(2, n - 1) = p * Power(2, t - 1)
        /\ Power(2, n) = 2 * Power(2, n - 1)
        /\ Power(2, t) \in Nat /\ Power(2, t - 1) \in Nat /\ Power(2, n - 1) \in Nat
    <3>1. Power(2, a + t) = p * Power(2, t)
          BY <2>8, PowerSum
    <3>2. Power(2, a + (t - 1)) = p * Power(2, t - 1)
          BY <2>6, <2>8, PowerSum
    <3>3. Power(2, (n - 1) + 1) = 2 * Power(2, n - 1)
          BY <2>8, Doubling
    <3> QED BY <2>6, <2>8, <3>1, <3>2, <3>3, Doubling
  <2>10. Power(2, n) <= B * B
    <3>1. n <= 2 * W /\ 2 * W \in Nat
          BY <1>2, <2>3
    <3>2. Power(2, n) <= Power(2, 2 * W)
          BY <2>8, <3>1, PowerGrows
    <3> QED BY <1>2, <3>2
  <2>11. p * BASE < B * B /\ p * BASE \in Nat /\ p * 1 < B * B /\ p * 1 = p
    <3> HIDE DEF p
    <3>1. BASE + 1 <= Power(2, t)
          BY <1>3, <2>4, <2>9
    <3>2. p * (BASE + 1) <= p * Power(2, t) /\ p * (BASE + 1) = p * BASE + p
          BY <1>3, <2>9, <3>1
    <3>3. p * BASE \in Nat /\ p <= p * BASE /\ p * 1 = p
          BY <1>3, <2>9
    <3>4. B * B \in Nat
          BY <1>2
    <3> QED BY <2>9, <2>10, <3>2, <3>3, <3>4
  <2>12. /\ S \in U128 /\ Val(S) = p * BASE
         /\ D \in U128 /\ Val(D) = p
    <3>1. S \in U128 /\ Val(S) = p * BASE
          BY <2>8, <2>11, LeftFact, BaseFact DEF a
    <3>2. D \in U128 /\ Val(D) = p * 1
          BY <2>8, <2>11, LeftFact, BaseFact DEF a
    <3> QED BY <2>11, <3>1, <3>2
  <2>13. r < 2 * (p * BASE)
    <3> HIDE DEF p
    <3>1. p * Power(2, t - 1) <= p * BASE
          BY <1>3, <2>4, <2>6, <2>9
    <3> QED BY <1>3, <2>3, <2>9, <2>11, <3>1 DEF r
  <2>14. a < 2 * W
    <3> SUFFICES ASSUME a >= 2 * W PROVE FALSE
        BY <1>2, <2>8
    <3>1. 2 * W \in Nat
          BY <1>2
    <3>2. Power(2, 2 * W) <= p
          BY <2>8, <3>1, PowerGrows
    <3> HIDE DEF p
    <3>3. B * B \in Nat
          BY <1>2
    <3> QED BY <1>2, <2>9, <2>11, <3>2, <3>3
  <2>15. Val(resDiv') = 0 /\ Val(resMod') = r /\ Val(rDiv') = r
         BY <1>1, BaseFact DEF r
  <2> HIDE DEF S, D
  <2>16. CASE ~Gt128(S, rDiv)
    <3>1. copyd' = S /\ adder' = D
          BY <2>1, <2>12, <2>16, UnshiftedFact
    <3>2. Words'
          BY <1>1, <2>12, <3>1, BaseFact DEF Words
    <3>3. Shifting'
      <4>1. /\ Val(adder') = Power(2, a) /\ Val(copyd') = Power(2, a) * BASE
            /\ Val(resMod') < 2 * Val(copyd')
            BY <2>12, <2>13, <2>15, <3>1
      <4>2. Val(resDiv') = Power(2, a + 1) * 0
            BY <2>8, <2>15, Doubling
      <4>3. a \in 0 .. 2 * W - 1 /\ 0 \in Nat
            BY <1>2, <2>8, <2>14
      <4> QED BY <4>1, <4>2, <4>3 DEF Shifting, Val
    <3> QED BY <1>3, <2>1, <2>15, <3>2, <3>3 DEF Dividing, DivisionDone, Val, r
  <2>17. CASE Gt128(S, rDiv)
    <3>1. copyd' = Shiftr128(S, 1) /\ adder' = Shiftr128(D, 1)
          BY <2>1, <2>17
    <3>2. r < p * BASE
          BY <1>1, <2>12, <2>17, GtFact DEF r
    <3>3. a > 0
      <4>1. CASE a = 0
        <5>1. p = 1
              BY <4>1, Doubling
        <5> HIDE DEF p
        <5> QED BY <1>3, <2>2, <3>2, <5>1 DEF r
      <4> QED BY <2>8, <4>1
    <3>4. a - 1 \in Nat /\ (a - 1) + 1 = a /\ a - 1 \in 0 .. 2 * W - 1
          BY <1>2, <2>8, <2>14, <3>3
    <3> DEFINE q == Power(2, a - 1)
    <3>5. q \in Nat /\ p = 2 * q
      <4>1. Power(2, (a - 1) + 1) = 2 * q /\ q \in Nat
            BY <3>4, Doubling
      <4> QED BY <3>4, <4>1
    <3>6. Val(copyd') = q * BASE /\ copyd' \in U128 /\ Val(adder') = q /\ adder' \in U128
      <4> HIDE DEF q, p
      <4>1. (2 * (q * BASE)) \div 2 = q * BASE /\ (2 * q) \div 2 = q
        <5>1. q * BASE \in Nat
              BY <1>3, <3>5
        <5> QED BY <3>5, <5>1, EvenHalf
      <4>2. p * BASE = 2 * (q * BASE)
            BY <1>3, <3>5
      <4>3. copyd' \in U128 /\ Val(copyd') = (p * BASE) \div 2
            BY <2>12, <3>1, HalfFact
      <4>4. adder' \in U128 /\ Val(adder') = p \div 2
            BY <2>12, <3>1, HalfFact
      <4> QED BY <3>5, <4>1, <4>2, <4>3, <4>4
    <3>7. Words'
          BY <1>1, <3>6, BaseFact DEF Words
    <3>8. Shifting'
      <4>1. Val(resMod') < 2 * Val(copyd')
        <5>1. p * BASE = 2 * (q * BASE)
          <6> HIDE DEF q, p
          <6> QED BY <1>3, <3>5
        <5> QED BY <2>15, <3>2, <3>6, <5>1
      <4>2. Val(resDiv') = Power(2, (a - 1) + 1) * 0
        <5>1. p * 0 = 0
              BY <2>9
        <5> QED BY <2>15, <3>4, <5>1
      <4>3. 0 \in Nat
            OBVIOUS
      <4> QED BY <3>4, <3>6, <4>1, <4>2, <4>3 DEF Shifting, Val
    <3> QED BY <1>3, <2>1, <2>15, <3>7, <3>8 DEF Dividing, DivisionDone, Val, r
  <2> QED BY <2>16, <2>17
<1> QED BY <1>4, <1>5
-----------------------------------------------------------------------------
(* A round of divmod128 keeps what dividend, quotient and rest say.        *)
LEMMA DivideFact ==
    ASSUME Words, Dividing, Divide
    PROVE  Words' /\ Dividing'
<1> DEFINE r == Val(resMod)
           d == Val(resDiv)
           m == Val(rDiv)
<1>1. /\ rDiv \in U128 /\ copyd \in U128 /\ adder \in U128 /\ resDiv \in U128 /\ resMod \in U128
      /\ pc = "divide" /\ pc' = pc /\ rDiv' = rDiv
      /\ copyd' = Shiftr128(copyd, 1) /\ adder' = Shiftr128(adder, 1)
      BY DEF Words, Divide
<1>2. r \in Nat /\ d \in Nat /\ m \in Nat /\ m = BASE * d + r /\ BASE \in Nat /\ BASE >= 2
      BY <1>1, ValFact, BaseFact DEF Dividing
<1>3. r >= BASE
  <2>1. Gte128(resMod, Ten)
        BY DEF Divide
  <2> QED BY <1>1, <2>1, GtFact, BaseFact
<1>4. Shifting
      BY <1>1, <1>2, <1>3 DEF Dividing
<1>5. PICK k \in 0 .. 2 * W - 1, c \in Nat :
        /\ Val(adder) = Power(2, k) /\ Val(copyd) = Power(2, k) * BASE
        /\ r < 2 * Val(copyd) /\ d = Power(2, k + 1) * c
      BY <1>4 DEF Shifting
<1> DEFINE p == Power(2, k)
<1>6. k \in Nat /\ p \in Nat \ {0} /\ Power(2, k + 1) = 2 * p
  <2>1. k \in Nat
        BY WordFact
  <2> QED BY <2>1, Doubling
<1>7. \E e \in Nat :
        /\ resMod' \in U128 /\ resDiv' \in U128
        /\ Val(resMod') < p * BASE /\ Val(resDiv') = p * e
        /\ m = BASE * Val(resDiv') + Val(resMod')
  <2>1. Val(copyd) = p * BASE /\ Gte128(resMod, copyd) <=> r >= Val(copyd)
        BY <1>1, <1>5, GtFact
  <2>2. CASE Gte128(resMod, copyd)
    <3>1. resMod' = Minus128(resMod, copyd) /\ resDiv' = Or128(resDiv, adder)
          BY <2>2 DEF Divide
    <3>2. r >= Val(copyd)
          BY <1>1, <2>2, GtFact
    <3>3. resMod' \in U128 /\ Val(resMod') = r - Val(copyd)
          BY <1>1, <3>1, <3>2, MinusFact
    <3>4. resDiv' \in U128 /\ Val(resDiv') = d + Val(adder)
          BY <1>1, <1>5, <3>1, OrFact
    <3>5. Val(copyd) = p * BASE /\ Val(adder) = p /\ r < 2 * Val(copyd) /\ d = (2 * p) * c
          BY <1>5, <1>6
    <3>6. Val(resMod') = r - p * BASE /\ Val(resDiv') = d + p /\ r < 2 * (p * BASE)
          BY <3>3, <3>4, <3>5
    <3> HIDE DEF p, r, d, m
    <3>7. p * BASE \in Nat /\ BASE * (d + p) = BASE * d + p * BASE
          BY <1>2, <1>6
    <3>8. d + p = p * (2 * c + 1) /\ 2 * c + 1 \in Nat
          BY <1>6, <3>5
    <3>9. Val(resMod') < p * BASE
          BY <1>2, <3>6, <3>7
    <3>10. m = BASE * Val(resDiv') + Val(resMod')
      <4>1. BASE * d \in Nat
            BY <1>2
      <4> QED BY <1>2, <3>6, <3>7, <4>1
    <3> QED BY <3>3, <3>4, <3>6, <3>8, <3>9, <3>10
  <2>3. CASE ~Gte128(resMod, copyd)
    <3>1. resMod' = resMod /\ resDiv' = resDiv
          BY <2>3 DEF Divide
    <3>2. ~(r >= Val(copyd))
          BY <1>1, <2>3, GtFact
    <3>3. Val(copyd) = p * BASE /\ d = (2 * p) * c /\ Val(resMod') = r /\ Val(resDiv') = d
          BY <1>5, <1>6, <3>1
    <3> HIDE DEF p, r, d, m
    <3>4. p * BASE \in Nat
          BY <1>2, <1>6
    <3>5. Val(resMod') < p * BASE
          BY <1>2, <3>2, <3>3, <3>4
    <3>6. d = p * (2 * c) /\ 2 * c \in Nat
          BY <1>6, <3>3
    <3> QED BY <1>1, <1>2, <3>1, <3>3, <3>5, <3>6
  <2> QED BY <2>2, <2>3
<1>8. PICK e \in Nat :
        /\ resMod' \in U128 /\ resDiv' \in U128
        /\ Val(resMod') < p * BASE /\ Val(resDiv') = p * e
        /\ m = BASE * Val(resDiv') + Val(resMod')
      BY <1>7
<1>9. /\ copyd' \in U128 /\ Val(copyd') = (p * BASE) \div 2
      /\ adder' \in U128 /\ Val(adder') = p \div 2
      BY <1>1, <1>5, HalfFact
<1>10. Words'
       BY <1>1, <1>8, <1>9 DEF Words
<1>11. Val(rDiv') = BASE * Val(resDiv') + Val(resMod') /\ pc' = "divide"
       BY <1>1, <1>8
<1>12. CASE k = 0
  <2>1. p = 1
        BY <1>12, Doubling
  <2>2. Val(adder') = 0 /\ Val(resMod') < BASE
    <3> HIDE DEF p
    <3>1. 1 \div 2 = 0 /\ 1 * BASE = BASE
          BY <1>2
    <3> QED BY <1>8, <1>9, <2>1, <3>1
  <2>3. (Val(adder) = 0 /\ Val(resMod) < BASE)'
        BY <2>2
  <2> QED BY <1>10, <1>11, <2>2 DEF Dividing, Val
<1>13. CASE k # 0
  <2> DEFINE q == Power(2, k - 1)
  <2>1. k - 1 \in 0 .. 2 * W - 1 /\ k - 1 \in Nat /\ (k - 1) + 1 = k
        BY <1>6, <1>13, WordFact
  <2>2. q \in Nat /\ p = 2 * q
    <3>1. Power(2, (k - 1) + 1) = 2 * q
          BY <2>1, Doubling
    <3> QED BY <2>1, <3>1, Doubling
  <2>3. Val(adder') = q /\ Val(copyd') = q * BASE /\ p * BASE = 2 * (q * BASE)
    <3> HIDE DEF p, q
    <3>1. p * BASE = 2 * (q * BASE) /\ q * BASE \in Nat
          BY <1>2, <2>2
    <3>2. (2 * (q * BASE)) \div 2 = q * BASE /\ (2 * q) \div 2 = q
          BY <2>2, <3>1, EvenHalf
    <3> QED BY <1>9, <2>2, <3>1, <3>2
  <2>4. Shifting'
    <3>1. /\ Val(adder') = Power(2, k - 1) /\ Val(copyd') = Power(2, k - 1) * BASE
          /\ Val(resMod') < 2 * Val(copyd')
          BY <1>8, <2>3
    <3>2. Val(resDiv') = Power(2, (k - 1) + 1) * e
          BY <1>8, <2>1
    <3> QED BY <2>1, <3>1, <3>2 DEF Shifting, Val
  <2> QED BY <1>10, <1>11, <2>4 DEF Dividing, Val
<1> QED BY <1>12, <1>13

(* When the rest is below ten the division is done.                        *)
LEMMA DividedFact ==
    ASSUME Words, Dividing, Divided
    PROVE  Words' /\ Dividing' /\ DivisionDone'
<1>1. /\ UNCHANGED <<rDiv, copyd, adder, resDiv, resMod>>
      /\ pc = "divide" /\ pc' = "write" /\ ~Gte128(resMod, Ten)
      BY DEF Divided, loop
<1>2. Words'
      BY <1>1 DEF Words
<1>3. Val(rDiv) = BASE * Val(resDiv) + Val(resMod)
      BY <1>1 DEF Dividing
<1>4. Val(resMod) < BASE
  <2>1. resMod \in U128
        BY DEF Words
  <2>2. ~(Val(resMod) >= BASE) /\ Val(resMod) \in Nat
        BY <1>1, <2>1, GtFact, ValFact, BaseFact
  <2> QED BY <2>2, BaseFact
<1> QED BY <1>1, <1>2, <1>3, <1>4 DEF Dividing, DivisionDone, Val
-----------------------------------------------------------------------------
(* The wire                                                                *)
R == Power(2, BYTE)

(* A word is a number of whole bytes.                                      *)
LEMMA ByteFact ==
    /\ BYTE \in Nat \ {0} /\ R \in Nat \ {0} /\ WORD_BYTES \in Nat \ {0}
    /\ W = BYTE * WORD_BYTES /\ Power(R, WORD_BYTES) = B
<1>1. BYTE \in Nat \ {0} /\ W % BYTE = 0 /\ W \in Nat \ {0}
      BY DisplayAssumption, WordFact
<1> DEFINE k == WORD_BYTES
<1>2. k \in Nat /\ W = BYTE * k + 0
  <2>1. W \div BYTE \in Nat /\ W = BYTE * (W \div BYTE) + (W % BYTE)
        BY <1>1, DivFact
  <2> QED BY <1>1, <2>1 DEF WORD_BYTES
<1> HIDE DEF k
<1>3. BYTE * k + 0 = BYTE * k /\ BYTE * 0 = 0
      BY <1>1, <1>2
<1>4. k # 0
      BY <1>1, <1>2, <1>3
<1>5. Power(R, k) = B
  <2>1. Power(R, k) = Power(2, BYTE * k)
        BY <1>1, <1>2, PowerPower DEF R
  <2> QED BY <1>2, <1>3, <2>1 DEF B
<1>6. R \in Nat \ {0}
      BY <1>1, Doubling DEF R
<1> QED BY <1>1, <1>2, <1>3, <1>4, <1>5, <1>6 DEF k

(* Bytes with the least significant one first are a word.                  *)
LEMMA WordFromBytes ==
    ASSUME NEW b, NEW off \in Nat, NEW t \in Seq(0 .. R - 1), Len(t) = WORD_BYTES,
           \A n \in 1 .. WORD_BYTES : b[off + n] = t[WORD_BYTES + 1 - n]
    PROVE  WordAt(b, off) = Positional(t, R) /\ WordAt(b, off) \in 0 .. B - 1
<1> DEFINE K == WORD_BYTES
           Q(h) == h = [n \in 0 .. K |->
                          IF n = 0 THEN 0 ELSE h[n - 1] + b[off + n] * Power(2, BYTE * (n - 1))]
           e == [n \in 0 .. K |-> Positional(SubSeq(t, K + 1 - n, K), R)]
           h == CHOOSE f : Q(f)
<1>1. K \in Nat \ {0} /\ R \in Nat \ {0} /\ BYTE \in Nat \ {0} /\ t \in Seq(Nat) /\ Len(t) = K
      BY ByteFact, PositionalBound
<1>2. WordAt(b, off) = h[K]
      BY DEF WordAt
<1> HIDE DEF K
<1>3. e[0] = 0
  <2>1. SubSeq(t, K + 1, K) = <<>>
        BY <1>1, SubSeqEmpty
  <2>2. K + 1 - 0 = K + 1 /\ 0 \in 0 .. K /\ 0 \in Nat
        BY <1>1
  <2>3. Positional(<<>>, R) = 0
        BY <1>1, <2>2, PositionalOne
  <2> QED BY <2>1, <2>2, <2>3
<1>4. ASSUME NEW n \in 1 .. K
      PROVE  e[n] = e[n - 1] + b[off + n] * Power(2, BYTE * (n - 1))
  <2> DEFINE m == K + 1 - n
             u == SubSeq(t, m + 1, K)
             d == t[m]
  <2>1. /\ m \in 1 .. K /\ n - 1 \in Nat /\ n - 1 \in 0 .. K /\ n \in 0 .. K
        /\ K + 1 - (n - 1) = m + 1 /\ K \in m .. K
        BY <1>1
  <2>2. SubSeq(t, m, K) = <<d>> \o u
        BY <1>1, <2>1, SubSeqRecursiveFirst
  <2>3. d \in Nat /\ b[off + n] = d
        BY <1>1, <2>1, ElementOfSeq DEF K
  <2>4. u \in Seq(Nat) /\ Len(u) = n - 1
    <3>1. \A i \in m + 1 .. K : t[i] \in Nat
          BY <1>1, <2>1, ElementOfSeq
    <3>2. m + 1 \in Int /\ K \in Int
          BY <1>1, <2>1
    <3>3. u \in Seq(Nat) /\ Len(u) = IF m + 1 <= K THEN K - (m + 1) + 1 ELSE 0
          BY <3>1, <3>2, SubSeqProperties
    <3>4. (IF m + 1 <= K THEN K - (m + 1) + 1 ELSE 0) = n - 1
          BY <1>1
    <3> QED BY <3>3, <3>4
  <2>5. Positional(<<d>> \o u, R) = d * Power(R, n - 1) + Positional(u, R)
        /\ Positional(u, R) \in Nat
    <3>1. <<d>> \in Seq(Nat) /\ Positional(<<d>>, R) = d
          BY <1>1, <2>3, PositionalOne
    <3>2. R \in Nat
          BY <1>1
    <3> HIDE DEF u, d
    <3>3. /\ Positional(u, R) \in Nat
          /\ Positional(<<d>> \o u, R) = Positional(<<d>>, R) * Power(R, Len(u)) + Positional(u, R)
          BY <2>4, <3>1, <3>2, PositionalConcat, Zenon
    <3> QED BY <2>4, <3>1, <3>3
  <2>6. Power(R, n - 1) = Power(2, BYTE * (n - 1)) /\ Power(R, n - 1) \in Nat
        BY <1>1, <2>1, PowerPower, PowerFact DEF R
  <2>7. e[n] = Positional(SubSeq(t, m, K), R)
        BY <2>1
  <2>8. e[n - 1] = Positional(u, R)
        BY <2>1
  <2> HIDE DEF e, u, d, m
  <2>9. d * Power(R, n - 1) + Positional(u, R) = Positional(u, R) + d * Power(R, n - 1)
        BY <2>3, <2>5, <2>6
  <2> QED BY <2>2, <2>3, <2>5, <2>6, <2>7, <2>8, <2>9
<1>5. Q(e)
  <2>1. e = [n \in 0 .. K |-> e[n]]
        OBVIOUS
  <2> HIDE DEF e
  <2>2. \A n \in 0 .. K : e[n] = IF n = 0 THEN 0 ELSE e[n - 1] + b[off + n] * Power(2, BYTE * (n - 1))
    <3>1. \A n \in 0 .. K : n = 0 \/ n \in 1 .. K
          BY <1>1
    <3> QED BY <1>3, <1>4, <3>1
  <2> QED BY <2>1, <2>2, Zenon
<1> HIDE DEF e
<1>6. Q(h)
  <2> HIDE DEF Q
  <2> QED BY <1>5
<1> HIDE DEF h
<1>7. h[0] = 0 /\ \A n \in 1 .. K : h[n] = h[n - 1] + b[off + n] * Power(2, BYTE * (n - 1))
  <2>1. 0 \in 0 .. K /\ \A n \in 1 .. K : n \in 0 .. K /\ n # 0
        BY <1>1
  <2> QED BY <1>6, <2>1, Zenon
<1> DEFINE T == { n \in 0 .. K : h[n] = e[n] }
<1>8. T = 0 .. K
  <2>1. 0 \in T
        BY <1>1, <1>3, <1>7
  <2>2. ASSUME NEW n \in 0 .. K - 1, n \in T
        PROVE  n + 1 \in T
    <3>1. n + 1 \in 1 .. K /\ (n + 1) - 1 = n /\ n + 1 \in 0 .. K /\ h[n] = e[n]
          BY <1>1, <2>2
    <3>2. /\ h[n + 1] = h[n] + b[off + (n + 1)] * Power(2, BYTE * n)
          /\ e[n + 1] = e[n] + b[off + (n + 1)] * Power(2, BYTE * n)
      <4> DEFINE j == n + 1
      <4>1. j \in 1 .. K /\ j - 1 = n
            BY <3>1
      <4> HIDE DEF j
      <4>2. /\ h[j] = h[n] + b[off + j] * Power(2, BYTE * n)
            /\ e[j] = e[n] + b[off + j] * Power(2, BYTE * n)
            BY <1>4, <1>7, <4>1
      <4> QED BY <4>2 DEF j
    <3> QED BY <3>1, <3>2
  <2>3. T \in SUBSET (0 .. K)
        OBVIOUS
  <2>4. K \in Nat
        BY <1>1
  <2> HIDE DEF T
  <2> QED BY <2>1, <2>2, <2>3, <2>4, BoundedInduction
<1>9. h[K] = e[K]
  <2>1. K \in T
    <3> HIDE DEF T
    <3> QED BY <1>1, <1>8
  <2> QED BY <2>1
<1>10. e[K] = Positional(t, R)
  <2>1. K + 1 - K = 1 /\ K \in 0 .. K
        BY <1>1
  <2>2. SubSeq(t, 1, K) = t
        BY <1>1, SubSeqFull
  <2> QED BY <2>1, <2>2 DEF e
<1>11. Positional(t, R) \in Nat /\ Positional(t, R) < B
  <2>1. Power(R, Len(t)) = B
        BY ByteFact
  <2>2. Positional(t, R) \in Nat /\ Positional(t, R) < Power(R, Len(t))
        BY <1>1, PositionalBound
  <2> QED BY <2>1, <2>2
<1>12. B \in Nat
       BY WordFact
<1> QED BY <1>2, <1>9, <1>10, <1>11, <1>12

(* The amount that is loaded is the one that the wire format means.        *)
LEMMA LoadedFact ==
    ASSUME NEW w \in Wires
    PROVE  /\ Loaded(Swapped(w)) \in U128
           /\ Val(Loaded(Swapped(w))) = Positional(w, R)
<1> DEFINE K == WORD_BYTES
           S == 0 .. R - 1
           hi == SubSeq(w, 1, K)
           lo == SubSeq(w, K + 1, 2 * K)
           b == Swapped(w)
<1>1. K \in Nat \ {0} /\ R \in Nat \ {0} /\ Power(R, K) = B
      BY ByteFact
<1>2. /\ DOMAIN w = 1 .. 2 * K /\ w = [i \in 1 .. 2 * K |-> w[i]] /\ \A i \in 1 .. 2 * K : w[i] \in S
      /\ w \in [1 .. 2 * K -> S]
      BY DEF Wires, R
<1>3. \A i \in 1 .. 2 * K : b[i] = IF i <= K THEN w[K + 1 - i] ELSE w[3 * K + 1 - i]
      BY <1>2 DEF Swapped
<1> HIDE DEF K, S, b
<1>4. w \in Seq(S) /\ Len(w) = 2 * K
  <2>1. 2 * K \in Nat
        BY <1>1
  <2> QED BY <1>2, <2>1
<1>5. /\ hi \in Seq(S) /\ Len(hi) = K /\ \A i \in 1 .. K : hi[i] = w[i]
      /\ lo \in Seq(S) /\ Len(lo) = K /\ \A i \in 1 .. K : lo[i] = w[K + i]
  <2>1. /\ \A i \in 1 .. K : w[i] \in S
        /\ \A i \in K + 1 .. 2 * K : w[i] \in S
        /\ 1 \in Int /\ K \in Int /\ K + 1 \in Int /\ 2 * K \in Int
        BY <1>1, <1>2
  <2>2. /\ hi \in Seq(S) /\ Len(hi) = (IF 1 <= K THEN K - 1 + 1 ELSE 0)
        /\ \A i \in 1 .. K - 1 + 1 : hi[i] = w[1 + i - 1]
        BY <2>1, SubSeqProperties
  <2>3. /\ lo \in Seq(S) /\ Len(lo) = (IF K + 1 <= 2 * K THEN 2 * K - (K + 1) + 1 ELSE 0)
        /\ \A i \in 1 .. 2 * K - (K + 1) + 1 : lo[i] = w[(K + 1) + i - 1]
        BY <2>1, SubSeqProperties
  <2> HIDE DEF hi, lo
  <2>4. /\ (IF 1 <= K THEN K - 1 + 1 ELSE 0) = K /\ K - 1 + 1 = K
        /\ (IF K + 1 <= 2 * K THEN 2 * K - (K + 1) + 1 ELSE 0) = K /\ 2 * K - (K + 1) + 1 = K
        /\ \A i \in 1 .. K : 1 + i - 1 = i /\ (K + 1) + i - 1 = K + i
        BY <1>1
  <2> QED BY <2>2, <2>3, <2>4
<1>6. hi \o lo = w
  <2>1. /\ 1 \in 1 .. Len(w) + 1 /\ K \in 1 - 1 .. Len(w) /\ 2 * K \in K .. Len(w)
        BY <1>1, <1>4
  <2>2. hi \o lo = SubSeq(w, 1, 2 * K)
        BY <1>4, <2>1, ConcatAdjacentSubSeq
  <2> QED BY <1>4, <2>2, SubSeqFull
<1> HIDE DEF hi, lo
<1>7. WordAt(b, 0) = Positional(hi, R) /\ WordAt(b, 0) \in 0 .. B - 1
  <2>1. \A n \in 1 .. K : b[0 + n] = hi[K + 1 - n]
    <3> TAKE n \in 1 .. K
    <3>1. 0 + n = n /\ n \in 1 .. 2 * K /\ n <= K /\ K + 1 - n \in 1 .. K
          BY <1>1
    <3> QED BY <1>3, <1>5, <3>1
  <2> QED BY <1>5, <2>1, WordFromBytes, 0 \in Nat, Zenon DEF K, S
<1>8. WordAt(b, K) = Positional(lo, R) /\ WordAt(b, K) \in 0 .. B - 1
  <2>1. \A n \in 1 .. K : b[K + n] = lo[K + 1 - n]
    <3> TAKE n \in 1 .. K
    <3>1. /\ K + n \in 1 .. 2 * K /\ ~(K + n <= K) /\ K + 1 - n \in 1 .. K
          /\ 3 * K + 1 - (K + n) = K + (K + 1 - n)
          BY <1>1
    <3> QED BY <1>3, <1>5, <3>1
  <2>2. K \in Nat
        BY <1>1
  <2> QED BY <1>5, <2>1, <2>2, WordFromBytes, Zenon DEF K, S
<1>9. /\ Loaded(b) \in U128
      /\ Val(Loaded(b)) = B * Positional(hi, R) + Positional(lo, R)
      BY <1>7, <1>8, PairFact DEF Loaded, K
<1>10. Positional(w, R) = Positional(hi, R) * B + Positional(lo, R)
       /\ Positional(hi, R) \in Nat
  <2>1. hi \in Seq(Nat) /\ lo \in Seq(Nat)
        BY <1>1, <1>5, PositionalBound DEF S
  <2>2. R \in Nat
        BY <1>1
  <2>3. /\ Positional(hi, R) \in Nat
        /\ Positional(hi \o lo, R) = Positional(hi, R) * Power(R, Len(lo)) + Positional(lo, R)
        BY <2>1, <2>2, PositionalConcat, Zenon
  <2> QED BY <1>1, <1>5, <1>6, <2>3
<1>11. B * Positional(hi, R) = Positional(hi, R) * B
       BY <1>10, WordFact
<1> QED BY <1>9, <1>10, <1>11 DEF b
-----------------------------------------------------------------------------
(* Digits                                                                  *)

(* HEXDIGITS has each digit once.                                          *)
LEMMA HexDistinct ==
    ASSUME NEW i \in 1 .. 10, NEW j \in 1 .. 16, HEXDIGITS[i] = HEXDIGITS[j]
    PROVE  i = j
<1>1. CASE i = 1 BY <1>1 DEF HEXDIGITS
<1>2. CASE i = 2 BY <1>2 DEF HEXDIGITS
<1>3. CASE i = 3 BY <1>3 DEF HEXDIGITS
<1>4. CASE i = 4 BY <1>4 DEF HEXDIGITS
<1>5. CASE i = 5 BY <1>5 DEF HEXDIGITS
<1>6. CASE i = 6 BY <1>6 DEF HEXDIGITS
<1>7. CASE i = 7 BY <1>7 DEF HEXDIGITS
<1>8. CASE i = 8 BY <1>8 DEF HEXDIGITS
<1>9. CASE i = 9 BY <1>9 DEF HEXDIGITS
<1>10. CASE i = 10 BY <1>10 DEF HEXDIGITS
<1> QED BY <1>1, <1>2, <1>3, <1>4, <1>5, <1>6, <1>7, <1>8, <1>9, <1>10

(* A digit is the character at its value.                                  *)
LEMMA HexFact ==
    /\ \A i \in 1 .. 10 : HEXDIGITS[i] \in Digits
    /\ \A c \in Digits : \E i \in 1 .. 10 : c = HEXDIGITS[i]
    /\ \A i \in 1 .. 10 : DigitVal(HEXDIGITS[i]) = i - 1
    /\ HEXDIGITS[1] = "0" /\ "0" \in Digits
<1>1. \A i \in 1 .. 10 : HEXDIGITS[i] \in Digits
      BY DEF HEXDIGITS, Digits
<1>2. ASSUME NEW c \in Digits PROVE \E i \in 1 .. 10 : c = HEXDIGITS[i]
      BY DEF HEXDIGITS, Digits
<1>3. ASSUME NEW i \in 1 .. 10 PROVE DigitVal(HEXDIGITS[i]) = i - 1
  <2> DEFINE n == CHOOSE j \in 1 .. 16 : HEXDIGITS[j] = HEXDIGITS[i]
  <2>1. i \in 1 .. 16
        OBVIOUS
  <2>2. n \in 1 .. 16 /\ HEXDIGITS[n] = HEXDIGITS[i]
        BY <2>1
  <2>3. DigitVal(HEXDIGITS[i]) = n - 1
        BY DEF DigitVal
  <2> HIDE DEF n
  <2>4. n = i
        BY <2>2, HexDistinct
  <2> QED BY <2>3, <2>4
<1>4. HEXDIGITS[1] = "0" /\ "0" \in Digits
      BY DEF HEXDIGITS, Digits
<1> QED BY <1>1, <1>2, <1>3, <1>4

(* Digits and their values.                                                *)
LEMMA DigitFact ==
    /\ \A c \in Digits : DigitVal(c) \in 0 .. 9 /\ (DigitVal(c) = 0 => c = "0")
    /\ DigitVal("0") = 0
    /\ \A d \in 0 .. 9 : /\ HEXDIGITS[d + 1] \in Digits /\ DigitVal(HEXDIGITS[d + 1]) = d
                         /\ HEXDIGITS[d + 1] = "0" => d = 0
<1>1. ASSUME NEW c \in Digits PROVE DigitVal(c) \in 0 .. 9 /\ (DigitVal(c) = 0 => c = "0")
  <2>1. PICK i \in 1 .. 10 : c = HEXDIGITS[i]
        BY HexFact
  <2>2. DigitVal(c) = i - 1
        BY <2>1, HexFact
  <2>3. i - 1 \in 0 .. 9 /\ (i - 1 = 0 => i = 1)
        OBVIOUS
  <2> QED BY <2>1, <2>2, <2>3, HexFact
<1>2. DigitVal("0") = 0
  <2>1. 1 \in 1 .. 10 /\ 1 - 1 = 0
        OBVIOUS
  <2> QED BY <2>1, HexFact
<1>3. ASSUME NEW d \in 0 .. 9
      PROVE  /\ HEXDIGITS[d + 1] \in Digits /\ DigitVal(HEXDIGITS[d + 1]) = d
             /\ HEXDIGITS[d + 1] = "0" => d = 0
  <2>1. d + 1 \in 1 .. 10 /\ (d + 1) - 1 = d
        OBVIOUS
  <2>2. HEXDIGITS[d + 1] \in Digits /\ DigitVal(HEXDIGITS[d + 1]) = (d + 1) - 1
        BY <2>1, HexFact
  <2> QED BY <1>2, <2>1, <2>2
<1> QED BY <1>1, <1>2, <1>3

(* What figures stand for.                                                 *)
Figures(s) == [i \in DOMAIN s |-> DigitVal(s[i])]

(* The number of a string is that of its figures.                          *)
LEMMA FiguresFact ==
    ASSUME NEW s \in Seq(Digits)
    PROVE  /\ Figures(s) \in Seq(Nat) /\ Len(Figures(s)) = Len(s)
           /\ \A i \in 1 .. Len(s) : Figures(s)[i] = DigitVal(s[i])
           /\ NumberOf(s) = Positional(Figures(s), BASE)
<1> DEFINE n == Len(s)
<1>1. n \in Nat /\ DOMAIN s = 1 .. n /\ \A i \in 1 .. n : s[i] \in Digits
      BY LenProperties, ElementOfSeq
<1>2. Figures(s) = [i \in 1 .. n |-> DigitVal(s[i])]
      BY <1>1 DEF Figures
<1>3. \A i \in 1 .. n : DigitVal(s[i]) \in Nat
      BY <1>1, DigitFact
<1> HIDE DEF n
<1>4. Figures(s) \in [1 .. n -> Nat] /\ \A i \in 1 .. n : Figures(s)[i] = DigitVal(s[i])
      BY <1>2, <1>3
<1>5. Figures(s) \in Seq(Nat) /\ Len(Figures(s)) = n
      BY <1>1, <1>4
<1> QED BY <1>4, <1>5 DEF n, NumberOf, Figures

(* One string of digits after another.                                     *)
LEMMA NumberConcat ==
    ASSUME NEW s \in Seq(Digits), NEW t \in Seq(Digits)
    PROVE  /\ NumberOf(s) \in Nat /\ NumberOf(t) \in Nat
           /\ NumberOf(s \o t) = NumberOf(s) * Power(BASE, Len(t)) + NumberOf(t)
<1> DEFINE f == Figures(s)
           g == Figures(t)
           h == Figures(s \o t)
           m == Len(s)
           n == Len(t)
<1>1. /\ s \o t \in Seq(Digits) /\ Len(s \o t) = m + n /\ m \in Nat /\ n \in Nat
      /\ \A i \in 1 .. m + n : (s \o t)[i] = IF i <= m THEN s[i] ELSE t[i - m]
      BY ConcatProperties, LenProperties
<1>2. /\ f \in Seq(Nat) /\ Len(f) = m /\ \A i \in 1 .. m : f[i] = DigitVal(s[i])
      /\ g \in Seq(Nat) /\ Len(g) = n /\ \A i \in 1 .. n : g[i] = DigitVal(t[i])
      /\ h \in Seq(Nat) /\ Len(h) = m + n /\ \A i \in 1 .. m + n : h[i] = DigitVal((s \o t)[i])
      BY <1>1, FiguresFact
<1>3. NumberOf(s) = Positional(f, BASE) /\ NumberOf(t) = Positional(g, BASE)
      /\ NumberOf(s \o t) = Positional(h, BASE)
      BY <1>1, FiguresFact
<1> HIDE DEF f, g, h, m, n
<1>4. h = f \o g
  <2>1. /\ f \o g \in Seq(Nat) /\ Len(f \o g) = m + n
        /\ \A i \in 1 .. m + n : (f \o g)[i] = IF i <= m THEN f[i] ELSE g[i - m]
        BY ZenonT(40), <1>2, ConcatProperties
  <2>2. \A i \in 1 .. m + n : h[i] = (f \o g)[i]
    <3> TAKE i \in 1 .. m + n
    <3>1. CASE i <= m
      <4>1. i \in 1 .. m
            BY <1>1, <3>1
      <4> QED BY ZenonT(40), <1>1, <1>2, <2>1, <3>1, <4>1
    <3>2. CASE i > m
      <4>1. i - m \in 1 .. n /\ ~(i <= m)
            BY <1>1, <3>2
      <4>2. h[i] = DigitVal((s \o t)[i]) /\ (s \o t)[i] = t[i - m]
            BY <1>1, <1>2, <4>1
      <4>3. (f \o g)[i] = g[i - m]
            BY <2>1, <4>1
      <4>4. g[i - m] = DigitVal(t[i - m])
            BY <1>2, <4>1
      <4> QED BY <4>2, <4>3, <4>4
    <3>3. i <= m \/ i > m
          BY <1>1
    <3> QED BY <3>1, <3>2, <3>3, Zenon
  <2> DEFINE u == f \o g
  <2>3. u \in Seq(Nat) /\ Len(h) = Len(u) /\ \A i \in 1 .. Len(h) : h[i] = u[i]
        BY <1>2, <2>1, <2>2
  <2> HIDE DEF u
  <2>4. h = u
        BY <1>2, <2>3, SeqEqual
  <2> QED BY <2>4 DEF u
<1>5. BASE \in Nat
      BY BaseFact
<1>6. /\ Positional(f, BASE) \in Nat /\ Positional(g, BASE) \in Nat
      /\ Positional(f \o g, BASE) = Positional(f, BASE) * Power(BASE, Len(g)) + Positional(g, BASE)
      BY <1>2, <1>5, PositionalConcat, Zenon
<1> QED BY <1>2, <1>3, <1>4, <1>6 DEF n

(* A string of one digit.                                                  *)
LEMMA NumberOne ==
    ASSUME NEW c \in Digits
    PROVE  <<c>> \in Seq(Digits) /\ Len(<<c>>) = 1 /\ NumberOf(<<c>>) = DigitVal(c)
<1> DEFINE s == <<c>>
           d == DigitVal(c)
<1>1. s \in Seq(Digits) /\ Len(s) = 1 /\ s[1] = c
      OBVIOUS
<1>2. d \in Nat /\ BASE \in Nat
      BY DigitFact, BaseFact
<1> HIDE DEF s
<1>3. /\ Figures(s) \in Seq(Nat) /\ Len(Figures(s)) = 1 /\ Figures(s)[1] = d
      /\ NumberOf(s) = Positional(Figures(s), BASE)
      BY <1>1, FiguresFact
<1> HIDE DEF d
<1>4. Figures(s) = <<d>>
  <2> DEFINE u == <<d>>
  <2>1. u \in Seq(Nat) /\ Len(u) = 1 /\ u[1] = d
        BY <1>2
  <2> HIDE DEF u
  <2>2. \A i \in 1 .. Len(Figures(s)) : Figures(s)[i] = u[i]
        BY <1>3, <2>1
  <2>3. Figures(s) = u
        BY <1>3, <2>1, <2>2, SeqEqual
  <2> QED BY <2>3 DEF u
<1>5. Positional(<<d>>, BASE) = d
      BY <1>2, PositionalOne
<1> QED BY <1>1, <1>3, <1>4, <1>5 DEF s, d

(* The empty string.                                                       *)
LEMMA NumberNone ==
    <<>> \in Seq(Digits) /\ NumberOf(<<>>) = 0
<1> DEFINE s == <<>>
<1>1. s \in Seq(Digits) /\ Len(s) = 0
      OBVIOUS
<1> HIDE DEF s
<1>2. /\ Figures(s) \in Seq(Nat) /\ Len(Figures(s)) = 0
      /\ NumberOf(s) = Positional(Figures(s), BASE)
      BY <1>1, FiguresFact
<1>3. NumberOf(s) = 0
  <2>1. BASE \in Nat /\ \A i \in 1 .. Len(Figures(s)) : Figures(s)[i] = 0
        BY <1>2, BaseFact
  <2> QED BY <1>2, <2>1, PositionalZero
<1> QED BY <1>1, <1>3 DEF s

(* A string of zeros.                                                      *)
LEMMA NumberZeros ==
    ASSUME NEW n \in Nat
    PROVE  Zeros(n) \in Seq(Digits) /\ Len(Zeros(n)) = n /\ NumberOf(Zeros(n)) = 0
           /\ \A i \in 1 .. n : Zeros(n)[i] = "0"
<1> DEFINE s == Zeros(n)
<1>1. s \in [1 .. n -> Digits] /\ \A i \in 1 .. n : s[i] = "0"
      BY HexFact DEF Zeros
<1> HIDE DEF s
<1>2. s \in Seq(Digits) /\ Len(s) = n
      BY <1>1
<1>3. /\ Figures(s) \in Seq(Nat) /\ \A i \in 1 .. Len(Figures(s)) : Figures(s)[i] = 0
      /\ NumberOf(s) = Positional(Figures(s), BASE)
  <2>1. \A i \in 1 .. n : DigitVal(s[i]) = 0
        BY <1>1, DigitFact
  <2> QED BY <1>2, <2>1, FiguresFact
<1>4. BASE \in Nat
      BY BaseFact
<1>5. NumberOf(s) = 0
      BY <1>3, <1>4, PositionalZero
<1> QED BY <1>1, <1>2, <1>5 DEF s
-----------------------------------------------------------------------------
(* The digits                                                              *)
Converting == pc \in {"digit", "divide", "write"}

(* What is left and what is written make up the amount; after a digit      *)
(* something is left, so that none is written in vain.                     *)
Counting ==
    /\ wire \in Wires /\ out \in Seq(Digits) /\ Len(out) <= ZIL_UINT128_BUF_LEN - 3
    /\ Converting =>
         /\ Amount = Val(rDiv) * Power(BASE, Len(out)) + NumberOf(Written)
         /\ Len(out) > 0 => Val(rDiv) > 0

(* The digits of the amount without leading zeros.                         *)
Spelled ==
    ~Converting =>
        /\ Len(Written) > 0 /\ (Len(Written) > 1 => Written[1] # "0")
        /\ NumberOf(Written) = Amount

(* One element before a sequence.                                         *)
LEMMA OneBefore ==
    ASSUME NEW S, NEW w \in Seq(S), Len(w) = 1, NEW r \in Seq(S)
    PROVE  /\ w \o r \in Seq(S) /\ Len(w \o r) = Len(r) + 1 /\ (w \o r)[1] = w[1]
           /\ \A i \in 1 .. Len(r) : (w \o r)[i + 1] = r[i]
<1>1. Len(r) \in Nat
      BY LenProperties
<1>2. /\ w \o r \in Seq(S) /\ Len(w \o r) = Len(w) + Len(r)
      /\ \A i \in 1 .. Len(w) + Len(r) : (w \o r)[i] = IF i <= Len(w) THEN w[i] ELSE r[i - Len(w)]
      BY ConcatProperties
<1>3. Len(w \o r) = Len(r) + 1
      BY <1>1, <1>2
<1>4. (w \o r)[1] = w[1]
  <2>1. 1 \in 1 .. Len(w) + Len(r) /\ 1 <= Len(w)
        BY <1>1
  <2> QED BY <1>2, <2>1
<1>5. ASSUME NEW i \in 1 .. Len(r)
      PROVE  (w \o r)[i + 1] = r[i]
  <2>1. i + 1 \in 1 .. Len(w) + Len(r) /\ ~(i + 1 <= Len(w)) /\ (i + 1) - Len(w) = i
        BY <1>1
  <2> QED BY <1>2, <2>1
<1>6. w \o r \in Seq(S)
      BY <1>2
<1> QED BY <1>6, <1>3, <1>4, <1>5

(* reverseString keeps the length and the digits.                          *)
LEMMA ReverseFact ==
    ASSUME NEW s \in Seq(Digits)
    PROVE  /\ Reverse(s) \in Seq(Digits) /\ Len(Reverse(s)) = Len(s) /\ Len(s) \in Nat
           /\ \A i \in 1 .. Len(s) : Reverse(s)[i] = s[(Len(s) - i) + 1]
<1> DEFINE n == Len(s)
<1>1. n \in Nat /\ \A i \in 1 .. n : s[i] \in Digits
      BY LenProperties, ElementOfSeq
<1>2. Reverse(s) = [i \in 1 .. n |-> s[(n - i) + 1]]
      BY DEF Reverse
<1> HIDE DEF n
<1>3. \A i \in 1 .. n : (n - i) + 1 \in 1 .. n
      BY <1>1
<1>4. Reverse(s) \in [1 .. n -> Digits] /\ \A i \in 1 .. n : Reverse(s)[i] = s[(n - i) + 1]
      BY <1>1, <1>2, <1>3
<1>5. Reverse(s) \in Seq(Digits) /\ Len(Reverse(s)) = n
      BY <1>1, <1>4
<1> QED BY <1>1, <1>4, <1>5 DEF n

(* The digit that is written last comes first.                             *)
LEMMA ReverseAppend ==
    ASSUME NEW s \in Seq(Digits), NEW c \in Digits
    PROVE  Reverse(Append(s, c)) = <<c>> \o Reverse(s)
<1> DEFINE n == Len(s)
           a == Append(s, c)
           r == Reverse(s)
           u == Reverse(a)
           v == <<c>> \o r
<1>1. /\ n \in Nat /\ a \in Seq(Digits) /\ Len(a) = n + 1 /\ a[n + 1] = c
      /\ \A i \in 1 .. n : a[i] = s[i]
      BY LenProperties, AppendProperties
<1>2. r \in Seq(Digits) /\ Len(r) = n /\ \A i \in 1 .. n : r[i] = s[(n - i) + 1]
      BY ReverseFact
<1> HIDE DEF a
<1>3. u \in Seq(Digits) /\ Len(u) = n + 1 /\ \A i \in 1 .. n + 1 : u[i] = a[((n + 1) - i) + 1]
      BY <1>1, ReverseFact
<1> HIDE DEF u, r, n
<1>4. <<c>> \in Seq(Digits) /\ Len(<<c>>) = 1 /\ <<c>>[1] = c
      BY NumberOne
<1>5. v \in Seq(Digits) /\ Len(v) = n + 1 /\ v[1] = c /\ \A i \in 1 .. n : v[i + 1] = r[i]
  <2> DEFINE w == <<c>>
  <2>1. w \in Seq(Digits) /\ Len(w) = 1 /\ w[1] = c
        BY <1>4
  <2> HIDE DEF w
  <2>2. /\ w \o r \in Seq(Digits) /\ Len(w \o r) = Len(r) + 1 /\ (w \o r)[1] = w[1]
        /\ \A i \in 1 .. Len(r) : (w \o r)[i + 1] = r[i]
    <3>1. r \in Seq(Digits)
          BY <1>2
    <3> QED BY <2>1, <3>1, OneBefore, ZenonT(60)
  <2> QED BY <1>2, <2>1, <2>2 DEF w
<1> HIDE DEF v
<1>6. ASSUME NEW i \in 1 .. n + 1 PROVE u[i] = v[i]
  <2>1. CASE i = 1
    <3>1. ((n + 1) - 1) + 1 = n + 1 /\ 1 \in 1 .. n + 1
          BY <1>1
    <3> QED BY <1>1, <1>3, <1>5, <2>1, <3>1
  <2>2. CASE i # 1
    <3> DEFINE j == i - 1
    <3>1. j \in 1 .. n /\ ((n + 1) - i) + 1 = (n - j) + 1 /\ (n - j) + 1 \in 1 .. n /\ j + 1 = i
          BY <1>1, <2>2
    <3>2. u[i] = a[(n - j) + 1] /\ a[(n - j) + 1] = s[(n - j) + 1]
          BY <1>1, <1>3, <3>1
    <3>3. v[j + 1] = r[j] /\ r[j] = s[(n - j) + 1]
          BY <1>2, <1>5, <3>1
    <3> QED BY <3>1, <3>2, <3>3
  <2> QED BY <2>1, <2>2
<1>7. Len(u) = Len(v) /\ \A i \in 1 .. Len(u) : u[i] = v[i]
      BY <1>1, <1>3, <1>5, <1>6
<1>8. u = v
      BY <1>3, <1>5, <1>7, SeqEqual
<1> QED BY <1>8 DEF u, v, a, r

(* The amount is the number of a pair of words.                            *)
LEMMA AmountFact ==
    ASSUME wire \in Wires
    PROVE  /\ Loaded(Swapped(wire)) \in U128 /\ Val(Loaded(Swapped(wire))) = Amount
           /\ Amount \in Nat /\ Amount < Power(2, 2 * W)
<1>1. /\ Loaded(Swapped(wire)) \in U128 /\ Val(Loaded(Swapped(wire))) = Amount
      BY LoadedFact DEF Amount, R
<1>2. Amount \in Nat /\ Amount < B * B
      BY <1>1, ValFact
<1> QED BY <1>1, <1>2, WordFact

(* No more digits are written than there is room for.                      *)
LEMMA RoomFact ==
    ASSUME Words, Counting, Converting
    PROVE  Len(out) \in Nat /\ Len(out) + 1 <= ZIL_UINT128_BUF_LEN - 3
<1> DEFINE n == Len(out)
           r == Val(rDiv)
           P == Power(BASE, n)
           BUF == ZIL_UINT128_BUF_LEN
<1>1. n \in Nat /\ BASE \in Nat \ {0} /\ r \in Nat /\ BUF \in Nat /\ BUF - 3 >= 1
  <2>1. n \in Nat
        BY LenProperties DEF Counting
  <2>2. r \in Nat
        BY ValFact DEF Words
  <2> HIDE DEF n, r
  <2> QED BY <2>1, <2>2, BaseFact, QaAssumption, DisplayAssumption
<1>2. CASE n = 0
      BY <1>1, <1>2
<1>3. CASE n > 0
  <2>1. /\ Amount = r * P + NumberOf(Written) /\ r > 0
        /\ NumberOf(Written) \in Nat /\ Amount \in Nat
    <3>1. Written \in Seq(Digits)
          BY ReverseFact DEF Written, Counting
    <3>2. NumberOf(Written) \in Nat
          BY <3>1, NumberConcat
    <3> QED BY <1>3, <3>2, AmountFact DEF Counting
  <2>2. Amount < Power(BASE, BUF - 3)
    <3>1. Amount < Power(2, 2 * W) /\ Power(2, 2 * W) \in Nat
      <4>1. 2 * W \in Nat
            BY WordFact
      <4> QED BY <4>1, AmountFact, Doubling DEF Counting
    <3>2. Power(2, 2 * W) <= Power(BASE, BUF - 3)
          BY DisplayAssumption
    <3>3. Power(BASE, BUF - 3) \in Nat
      <4>1. BUF - 3 \in Nat
            BY <1>1
      <4> HIDE DEF BUF
      <4> QED BY <1>1, <4>1, PowerFact
    <3> HIDE DEF BUF
    <3> QED BY <2>1, <3>1, <3>2, <3>3
  <2>3. P \in Nat /\ P <= Amount
    <3>1. P \in Nat
          BY <1>1, PowerFact
    <3> HIDE DEF P, r
    <3>2. P <= r * P /\ r * P \in Nat
          BY <1>1, <2>1, <3>1
    <3> QED BY <2>1, <3>1, <3>2
  <2>4. n < BUF - 3
    <3> SUFFICES ASSUME n >= BUF - 3 PROVE FALSE
        BY <1>1
    <3>1. BUF - 3 \in Nat /\ BUF - 3 <= n
          BY <1>1
    <3> HIDE DEF n, BUF
    <3>2. Power(BASE, BUF - 3) <= Power(BASE, n) /\ Power(BASE, BUF - 3) \in Nat
          BY <1>1, <3>1, PowerGrows, PowerFact
    <3> QED BY <2>1, <2>2, <2>3, <3>2
  <2> QED BY <1>1, <2>4
<1> QED BY <1>1, <1>2, <1>3

(* A digit is written.                                                     *)
LEMMA WriteFact ==
    ASSUME Words, DivisionDone, Counting, Write
    PROVE  Words' /\ Dividing' /\ DivisionDone' /\ Counting' /\ Spelled'
<1> DEFINE n == Len(out)
           r == Val(rDiv)
           q == Val(resDiv)
           m == Val(resMod)
           c == HEXDIGITS[resMod[2] + 1]
           P == Power(BASE, n)
           N == NumberOf(Written)
<1>1. /\ pc = "write" /\ out' = Append(out, c) /\ rDiv' = resDiv
      /\ pc' = IF resDiv = Zero THEN "text" ELSE "digit"
      /\ UNCHANGED <<wire, copyd, adder, resDiv, resMod>>
      BY DEF Write, loop
<1>2. Words' /\ Dividing' /\ DivisionDone'
      BY <1>1 DEF Words, Dividing, DivisionDone
<1>3. /\ Converting /\ wire \in Wires /\ out \in Seq(Digits)
      /\ Amount = r * P + N /\ (n > 0 => r > 0)
      BY <1>1 DEF Counting, Converting
<1>4. r = BASE * q + m /\ m < BASE /\ r \in Nat /\ q \in Nat /\ m \in Nat
      BY <1>1, ValFact DEF DivisionDone, Words
<1>5. BASE \in 2 .. 10 /\ BASE < B /\ n \in Nat /\ n + 1 <= ZIL_UINT128_BUF_LEN - 3
  <2>1. BASE \in 2 .. 10 /\ BASE \in 1 .. B - 1 /\ B \in Nat
        BY BaseFact, WordFact
  <2>2. n \in Nat /\ n + 1 <= ZIL_UINT128_BUF_LEN - 3
        BY <1>3, RoomFact
  <2> HIDE DEF n
  <2> QED BY <2>1, <2>2
<1>6. resMod[2] = m
  <2> DEFINE a == resMod[1]
             b == resMod[2]
  <2>1. a \in 0 .. B - 1 /\ b \in 0 .. B - 1 /\ m = B * a + b /\ B \in Nat
        BY ValFact, WordFact DEF Words
  <2> HIDE DEF a, b, m
  <2>2. a = 0
    <3>1. CASE a >= 1
      <4>1. B * a >= B /\ B * a \in Nat
            BY <2>1, <3>1
      <4>2. m >= B
            BY <2>1, <4>1
      <4> QED BY <1>4, <1>5, <2>1, <4>2
    <3> QED BY <2>1, <3>1
  <2>3. B * a = 0
        BY <2>1, <2>2
  <2>4. m = b
        BY <2>1, <2>3
  <2> QED BY <2>4 DEF b
<1>7. c \in Digits /\ DigitVal(c) = m /\ (c = "0" => m = 0)
  <2>0. c = HEXDIGITS[m + 1]
        BY <1>6
  <2>1. m \in 0 .. 9 /\ c = HEXDIGITS[m + 1]
    <3> HIDE DEF m, c
    <3> QED BY <1>4, <1>5, <2>0
  <2> HIDE DEF m, c
  <2> QED BY <2>1, DigitFact
<1> HIDE DEF c
<1>8. /\ Written \in Seq(Digits) /\ Len(Written) = n /\ Written' = <<c>> \o Written
      /\ out' \in Seq(Digits) /\ Len(out') = n + 1
  <2>1. Written \in Seq(Digits) /\ Len(Written) = n
        BY <1>3, ReverseFact DEF Written
  <2>2. Reverse(Append(out, c)) = <<c>> \o Reverse(out)
        BY <1>3, <1>7, ReverseAppend
  <2>3. Append(out, c) \in Seq(Digits) /\ Len(Append(out, c)) = n + 1
        BY <1>3, <1>7, AppendProperties
  <2> QED BY <1>1, <2>1, <2>2, <2>3 DEF Written
<1>9. /\ Len(Written') = n + 1 /\ Written'[1] = c
      /\ N \in Nat /\ NumberOf(Written') = m * P + N
  <2> DEFINE s == <<c>>
             w == Written
  <2>1. s \in Seq(Digits) /\ Len(s) = 1 /\ NumberOf(s) = m /\ s[1] = c
        BY <1>7, NumberOne
  <2>2. w \in Seq(Digits) /\ Len(w) = n
        BY <1>8
  <2> HIDE DEF s, w
  <2>3. Len(s \o w) = Len(w) + 1 /\ (s \o w)[1] = s[1]
        BY <2>1, <2>2, OneBefore
  <2>5. NumberOf(w) \in Nat /\ NumberOf(s \o w) = NumberOf(s) * Power(BASE, Len(w)) + NumberOf(w)
        BY <2>1, <2>2, NumberConcat
  <2>6. Len(s \o w) = n + 1 /\ (s \o w)[1] = c /\ NumberOf(s \o w) = m * P + NumberOf(w)
        BY <2>1, <2>2, <2>3, <2>5
  <2> QED BY <1>8, <2>5, <2>6 DEF s, w
<1>10. P \in Nat /\ Power(BASE, n + 1) = BASE * P /\ BASE \in Nat
  <2>1. BASE \in Nat
        BY <1>5
  <2> HIDE DEF n
  <2> QED BY <1>5, <2>1, PowerFact
<1>11. Amount = q * (BASE * P) + (m * P + N)
  <2> HIDE DEF q, m, P, N, r
  <2>1. (BASE * q + m) * P = q * (BASE * P) + m * P /\ q * (BASE * P) \in Nat /\ m * P \in Nat
        BY <1>4, <1>10
  <2> QED BY <1>3, <1>4, <1>9, <2>1
<1>12. Amount' = Amount /\ Val(rDiv') = q
       BY <1>1 DEF Amount
<1>13. CASE resDiv = Zero
  <2>1. q = 0 /\ pc' = "text"
        BY <1>1, <1>13, BaseFact
  <2>2. Amount = m * P + N
    <3> HIDE DEF q, m, P, N
    <3>1. 0 * (BASE * P) = 0 /\ m * P \in Nat
          BY <1>4, <1>10
    <3> QED BY <1>9, <1>11, <2>1, <3>1
  <2>3. n + 1 > 1 => c # "0"
    <3> SUFFICES ASSUME n > 0, c = "0" PROVE FALSE
        BY <1>5
    <3>1. m = 0 /\ r > 0
          BY <1>3, <1>7
    <3> HIDE DEF q, m, r
    <3>2. BASE * 0 + 0 = 0
          BY <1>10
    <3> QED BY <1>4, <2>1, <3>1, <3>2
  <2>4. n + 1 > 0
        BY <1>5
  <2>5. Spelled'
        BY <1>9, <1>12, <2>2, <2>3, <2>4 DEF Spelled, NumberOf, Positional, DigitVal
  <2>6. Counting'
        BY <1>1, <1>3, <1>5, <1>8, <2>1 DEF Counting, Converting
  <2> QED BY <1>2, <2>5, <2>6
<1>14. CASE resDiv # Zero
  <2>1. q > 0 /\ pc' = "digit"
    <3>1. /\ resDiv[1] \in 0 .. B - 1 /\ resDiv[2] \in 0 .. B - 1 /\ resDiv = <<resDiv[1], resDiv[2]>>
          /\ q = B * resDiv[1] + resDiv[2] /\ B \in Nat \ {0}
          BY ValFact, WordFact DEF Words
    <3>2. CASE q = 0
      <4> DEFINE a == resDiv[1]
                 b == resDiv[2]
      <4> HIDE DEF a, b, q
      <4>1. a >= 1 => B * a >= B /\ B * a \in Nat
            BY <3>1 DEF a
      <4>2. B * a \in Nat
            BY <3>1 DEF a
      <4>3. b = 0 /\ B * a = 0
            BY <3>1, <3>2, <4>2 DEF a, b
      <4>4. a = 0
            BY <3>1, <4>1, <4>3 DEF a
      <4>5. resDiv = <<0, 0>>
            BY <3>1, <4>3, <4>4 DEF a, b
      <4> QED BY <1>14, <4>5 DEF Zero
    <3>3. CASE q # 0
      <4> HIDE DEF q
      <4> QED BY <1>1, <1>4, <1>14, <3>3
    <3> QED BY <3>2, <3>3
  <2>2. /\ Amount' = Val(rDiv') * Power(BASE, Len(out')) + NumberOf(Written')
        BY <1>8, <1>9, <1>10, <1>11, <1>12
  <2>3. Converting' /\ Val(rDiv') > 0
        BY <1>12, <2>1 DEF Converting
  <2>4. wire' \in Wires /\ out' \in Seq(Digits) /\ Len(out') <= ZIL_UINT128_BUF_LEN - 3
        BY <1>1, <1>3, <1>5, <1>8
  <2>5. Counting'
        BY <2>2, <2>3, <2>4 DEF Counting, Val, NumberOf, Positional, DigitVal
  <2>6. Spelled'
        BY <2>3 DEF Spelled
  <2> QED BY <1>2, <2>5, <2>6
<1> QED BY <1>13, <1>14
-----------------------------------------------------------------------------
(* Strings                                                                 *)
Chars == Digits \cup {".", " ", "Z", "I", "L"}
Unit == <<" ", "Z", "I", "L">>

(* The characters that are no digits.                                      *)
LEMMA CharFact ==
    /\ Digits \subseteq Chars /\ "." \in Chars \ Digits
    /\ Unit \in Seq(Chars) /\ Len(Unit) = 4 /\ \A i \in 1 .. 4 : Unit[i] \in Chars \ (Digits \cup {"."})
    /\ <<".">> \in Seq(Chars) /\ Len(<<".">>) = 1 /\ <<".">>[1] = "."
<1>1. Digits \subseteq Chars /\ "." \in Chars \ Digits
      BY DEF Chars, Digits
<1>2. Unit \in Seq(Chars) /\ Len(Unit) = 4
      BY DEF Unit, Chars
<1>3. \A i \in 1 .. 4 : Unit[i] \in Chars \ (Digits \cup {"."})
  <2>1. Unit[1] = " " /\ Unit[2] = "Z" /\ Unit[3] = "I" /\ Unit[4] = "L"
        BY DEF Unit
  <2>2. {" ", "Z", "I", "L"} \subseteq Chars \ (Digits \cup {"."})
        BY DEF Chars, Digits
  <2>3. \A i \in 1 .. 4 : i = 1 \/ i = 2 \/ i = 3 \/ i = 4
        OBVIOUS
  <2> QED BY <2>1, <2>2, <2>3
<1>4. <<".">> \in Seq(Chars) /\ Len(<<".">>) = 1 /\ <<".">>[1] = "."
      BY DEF Chars
<1> QED BY <1>1, <1>2, <1>3, <1>4

(* What lies in a sequence from a place on.                                *)
LEMMA PartFact ==
    ASSUME NEW S, NEW s \in Seq(S), NEW u \in Seq(S), NEW m \in Nat,
           m + Len(u) <= Len(s), \A i \in 1 .. Len(u) : s[m + i] = u[i]
    PROVE  SubSeq(s, m + 1, m + Len(u)) = u
<1> DEFINE n == Len(u)
           v == SubSeq(s, m + 1, m + n)
<1>1. n \in Nat /\ Len(s) \in Nat /\ \A i \in 1 .. Len(s) : s[i] \in S
      BY LenProperties, ElementOfSeq
<1>2. m + n <= Len(s) /\ \A i \in 1 .. n : s[m + i] = u[i]
      OBVIOUS
<1> HIDE DEF n
<1>3. /\ v \in Seq(S) /\ Len(v) = (IF m + 1 <= m + n THEN (m + n) - (m + 1) + 1 ELSE 0)
      /\ \A i \in 1 .. (m + n) - (m + 1) + 1 : v[i] = s[(m + 1) + i - 1]
  <2>1. m + 1 \in Int /\ m + n \in Int /\ \A i \in m + 1 .. m + n : s[i] \in S
        BY <1>1, <1>2
  <2> QED BY <2>1, SubSeqProperties
<1> HIDE DEF v
<1>4. Len(v) = n /\ \A i \in 1 .. n : v[i] = s[m + i]
  <2>1. /\ (IF m + 1 <= m + n THEN (m + n) - (m + 1) + 1 ELSE 0) = n /\ (m + n) - (m + 1) + 1 = n
        /\ \A i \in 1 .. n : (m + 1) + i - 1 = m + i
        BY <1>1
  <2> QED BY <1>3, <2>1
<1>5. Len(v) = Len(u) /\ \A i \in 1 .. Len(v) : v[i] = u[i]
      BY <1>2, <1>4 DEF n
<1>6. v \in Seq(S)
      BY <1>3
<1>7. v = u
      BY <1>5, <1>6, SeqEqual
<1> QED BY <1>7 DEF v, n

(* strlcat and strlcpy where there is room.                                *)
LEMMA StrlcatFact ==
    ASSUME NEW S, NEW o \in Seq(S), NEW s \in Seq(S), NEW n \in Nat, Len(o) + Len(s) < n
    PROVE  /\ Strlcat(o, s, n) = o \o s
           /\ o \o s \in Seq(S) /\ Len(o \o s) = Len(o) + Len(s) /\ Len(o \o s) \in Nat
<1>1. Len(o) \in Nat /\ Len(s) \in Nat
      BY LenProperties
<1>2. ~(Len(o) >= n) /\ Len(s) <= n - 1 - Len(o) /\ Len(o) + Len(s) \in Nat
      BY <1>1
<1>3. SubSeq(s, 1, Len(s)) = s
      BY SubSeqFull
<1>4. Strlcat(o, s, n) = o \o s
      BY <1>2, <1>3 DEF Strlcat
<1>5. o \o s \in Seq(S) /\ Len(o \o s) = Len(o) + Len(s)
      BY ConcatProperties
<1> QED BY <1>2, <1>4, <1>5

(* The last of some places.                                                *)
LEMMA MaxFact ==
    ASSUME NEW n \in Nat, NEW I \in SUBSET (1 .. n), I # {}
    PROVE  Max(I) \in I /\ \A i \in I : i <= Max(I)
<1> DEFINE T == { k \in Nat : \A J \in SUBSET (1 .. k) : J # {} => \E x \in J : \A y \in J : x >= y }
<1>1. 0 \in T
  <2>1. 1 .. 0 = {}
        OBVIOUS
  <2>2. \A J \in SUBSET {} : J = {}
        OBVIOUS
  <2> QED BY <2>1, <2>2
<1>2. ASSUME NEW k \in T PROVE k + 1 \in T
  <2>1. k \in Nat /\ k + 1 \in Nat
        OBVIOUS
  <2>2. ASSUME NEW J \in SUBSET (1 .. k + 1), J # {}
        PROVE  \E x \in J : \A y \in J : x >= y
    <3>1. CASE k + 1 \in J
          BY <2>1, <3>1
    <3>2. CASE k + 1 \notin J
      <4>1. J \in SUBSET (1 .. k)
            BY <2>1, <3>2
      <4> QED BY <2>2, <4>1
    <3> QED BY <3>1, <3>2
  <2> QED BY <2>1, <2>2
<1>3. T = Nat
  <2>1. T \in SUBSET Nat
        OBVIOUS
  <2> HIDE DEF T
  <2> QED BY <1>1, <1>2, <2>1, Induction
<1>4. \E x \in I : \A y \in I : x >= y
      BY <1>3
<1>5. Max(I) \in I /\ \A y \in I : Max(I) >= y
      BY <1>4 DEF Max
<1> QED BY <1>5

(* The cleaned copy of a number is the number.                             *)
LEMMA CleanseFact ==
    ASSUME NEW s \in Seq(Digits), Len(s) > 0, Len(s) > 1 => s[1] # "0"
    PROVE  Cleanse(s) = s
<1> DEFINE n == Len(s)
           Q(f) == f = [i \in 0 .. n |->
                          IF i = 0 THEN <<>>
                          ELSE IF s[i] \in Digits /\ (s[i] # "0" \/ f[i - 1] # <<>>)
                               THEN Append(f[i - 1], s[i]) ELSE f[i - 1]]
           e == [i \in 0 .. n |-> IF s[1] = "0" THEN <<>> ELSE SubSeq(s, 1, i)]
           h == CHOOSE f : Q(f)
<1>1. n \in Nat /\ n > 0 /\ (n > 1 => s[1] # "0") /\ \A i \in 1 .. n : s[i] \in Digits
      BY LenProperties, ElementOfSeq
<1>2. Cleanse(s) = IF h[n] = <<>> THEN <<"0">> ELSE h[n]
      BY DEF Cleanse
<1>3. SubSeq(s, 1, n) = s
      BY SubSeqFull
<1> HIDE DEF n
<1>4. e[0] = <<>>
  <2>1. SubSeq(s, 1, 0) = <<>>
        BY SubSeqEmpty
  <2>2. 0 \in 0 .. n
        BY <1>1
  <2> QED BY <2>1, <2>2
<1>5. ASSUME NEW i \in 1 .. n
      PROVE  e[i] = IF s[i] \in Digits /\ (s[i] # "0" \/ e[i - 1] # <<>>)
                    THEN Append(e[i - 1], s[i]) ELSE e[i - 1]
  <2>1. i \in 0 .. n /\ i - 1 \in 0 .. n /\ s[i] \in Digits
        BY <1>1
  <2>2. CASE s[1] = "0"
    <3>1. i = 1 /\ s[i] = "0"
          BY <1>1, <2>2
    <3>2. e[i] = <<>> /\ e[i - 1] = <<>>
          BY <2>1, <2>2
    <3> HIDE DEF e
    <3> QED BY <3>1, <3>2
  <2>3. CASE s[1] # "0"
    <3> DEFINE u == SubSeq(s, 1, i - 1)
               c == s[i]
    <3>1. e[i] = SubSeq(s, 1, i) /\ e[i - 1] = u
          BY <2>1, <2>3
    <3>2. SubSeq(s, 1, i) = u \o <<c>>
      <4>1. 1 \in 1 .. Len(s) /\ i \in 1 .. Len(s)
            BY <1>1 DEF n
      <4> QED BY <4>1, SubSeqRecursiveSecond
    <3>3. u \in Seq(Digits) /\ (i > 1 => Len(u) > 0)
      <4>1. 1 \in Int /\ i - 1 \in Int /\ \A j \in 1 .. i - 1 : s[j] \in Digits
            BY <1>1
      <4>2. u \in Seq(Digits) /\ Len(u) = IF 1 <= i - 1 THEN (i - 1) - 1 + 1 ELSE 0
            BY <4>1, SubSeqProperties
      <4> HIDE DEF u
      <4>3. i > 1 => Len(u) > 0
            BY <4>2
      <4> QED BY <4>2, <4>3
    <3>4. Append(u, c) = u \o <<c>>
          BY <2>1, <3>3, AppendIsConcat
    <3>5. c # "0" \/ u # <<>>
      <4>1. CASE i = 1
            BY <2>3, <4>1
      <4>2. CASE i # 1
        <5>1. Len(u) > 0
              BY <1>1, <3>3, <4>2
        <5>2. Len(<<>>) = 0
              OBVIOUS
        <5> HIDE DEF u
        <5> QED BY <5>1, <5>2
      <4> QED BY <4>1, <4>2
    <3> HIDE DEF e, u
    <3> QED BY <2>1, <3>1, <3>2, <3>4, <3>5
  <2> QED BY <2>2, <2>3
<1>6. Q(e)
  <2>1. e = [i \in 0 .. n |-> e[i]]
        OBVIOUS
  <2> HIDE DEF e
  <2>2. \A i \in 0 .. n : i = 0 \/ i \in 1 .. n
        BY <1>1
  <2>3. \A i \in 0 .. n : e[i] = IF i = 0 THEN <<>>
                                ELSE IF s[i] \in Digits /\ (s[i] # "0" \/ e[i - 1] # <<>>)
                                     THEN Append(e[i - 1], s[i]) ELSE e[i - 1]
    <3> TAKE i \in 0 .. n
    <3>1. CASE i = 0
          BY <1>4, <3>1, Zenon
    <3>2. CASE i # 0
          BY <1>5, <2>2, <3>2, Zenon
    <3> QED BY <3>1, <3>2, Zenon
  <2> QED BY <2>1, <2>3, Zenon
<1>7. Q(h)
  <2> HIDE DEF Q, e
  <2> QED BY <1>6
<1> HIDE DEF h
<1>8. h[0] = <<>> /\ \A i \in 1 .. n :
        h[i] = IF s[i] \in Digits /\ (s[i] # "0" \/ h[i - 1] # <<>>)
               THEN Append(h[i - 1], s[i]) ELSE h[i - 1]
  <2>1. 0 \in 0 .. n /\ \A i \in 1 .. n : i \in 0 .. n /\ i # 0
        BY <1>1
  <2> QED BY <1>7, <2>1, Zenon
<1> HIDE DEF e
<1> DEFINE T == { i \in 0 .. n : h[i] = e[i] }
<1>9. T = 0 .. n
  <2>1. 0 \in T
        BY <1>1, <1>4, <1>8
  <2>2. ASSUME NEW i \in 0 .. n - 1, i \in T
        PROVE  i + 1 \in T
    <3> DEFINE j == i + 1
    <3>1. j \in 1 .. n /\ j - 1 = i /\ j \in 0 .. n /\ h[i] = e[i]
          BY <1>1, <2>2
    <3> HIDE DEF j
    <3>2. h[j] = e[j]
          BY <1>5, <1>8, <3>1, Zenon
    <3>3. j \in T
          BY <3>1, <3>2
    <3> QED BY <3>3 DEF j
  <2>3. T \in SUBSET (0 .. n)
        OBVIOUS
  <2> HIDE DEF T
  <2> QED BY <1>1, <2>1, <2>2, <2>3, BoundedInduction
<1>10. h[n] = e[n]
  <2>1. n \in T
    <3> HIDE DEF T
    <3> QED BY <1>1, <1>9
  <2> QED BY <2>1
<1>11. e[n] = IF s[1] = "0" THEN <<>> ELSE s
  <2>1. n \in 0 .. n
        BY <1>1
  <2> QED BY <1>3, <2>1 DEF e
<1>12. CASE s[1] = "0"
  <2>0. n = 1
        BY <1>1, <1>12
  <2>1. Len(s) = 1 /\ s[1] = "0"
        BY <1>12, <2>0 DEF n
  <2>2. s = <<"0">>
    <3> DEFINE u == <<"0">>
    <3>1. u \in Seq(Digits) /\ Len(u) = 1 /\ u[1] = "0"
          BY HexFact
    <3> HIDE DEF u
    <3>2. \A i \in 1 .. Len(s) : s[i] = u[i]
          BY <2>1, <3>1
    <3>3. s = u
          BY <2>1, <3>1, <3>2, SeqEqual
    <3> QED BY <3>3 DEF u
  <2> QED BY <1>2, <1>10, <1>11, <1>12, <2>2
<1>13. CASE s[1] # "0"
  <2>1. s # <<>>
        BY <1>1 DEF n
  <2> QED BY <1>2, <1>10, <1>11, <1>13, <2>1
<1> QED BY <1>12, <1>13
-----------------------------------------------------------------------------
(* The decimal point                                                       *)
Dotted(w, f) == (w \o <<".">>) \o f

(* The elements of two sequences, one after the other.                     *)
LEMMA ConcatFact ==
    ASSUME NEW S, NEW s \in Seq(S), NEW t \in Seq(S)
    PROVE  /\ s \o t \in Seq(S) /\ Len(s) \in Nat /\ Len(t) \in Nat /\ Len(s \o t) = Len(s) + Len(t)
           /\ \A i \in 1 .. Len(s) : (s \o t)[i] = s[i]
           /\ \A i \in 1 .. Len(t) : (s \o t)[Len(s) + i] = t[i]
<1>1. Len(s) \in Nat /\ Len(t) \in Nat
      BY LenProperties
<1>2. /\ s \o t \in Seq(S) /\ Len(s \o t) = Len(s) + Len(t)
      /\ \A i \in 1 .. Len(s) + Len(t) : (s \o t)[i] = IF i <= Len(s) THEN s[i] ELSE t[i - Len(s)]
      BY ConcatProperties
<1>3. s \o t \in Seq(S) /\ Len(s \o t) = Len(s) + Len(t)
      BY <1>2
<1>4. ASSUME NEW i \in 1 .. Len(s)
      PROVE  (s \o t)[i] = s[i]
  <2>1. i \in 1 .. Len(s) + Len(t) /\ i <= Len(s)
        BY <1>1
  <2> QED BY <1>2, <2>1
<1>5. ASSUME NEW i \in 1 .. Len(t)
      PROVE  (s \o t)[Len(s) + i] = t[i]
  <2>1. Len(s) + i \in 1 .. Len(s) + Len(t) /\ ~(Len(s) + i <= Len(s)) /\ (Len(s) + i) - Len(s) = i
        BY <1>1
  <2> QED BY <1>2, <2>1
<1> QED BY <1>1, <1>3, <1>4, <1>5

(* The characters of a number with a point.                                *)
LEMMA DottedFact ==
    ASSUME NEW w \in Seq(Digits), NEW f \in Seq(Digits)
    PROVE  /\ Dotted(w, f) \in Seq(Chars) /\ Len(Dotted(w, f)) = Len(w) + 1 + Len(f)
           /\ Len(w) \in Nat /\ Len(f) \in Nat
           /\ \A i \in 1 .. Len(w) : Dotted(w, f)[i] = w[i]
           /\ Dotted(w, f)[Len(w) + 1] = "."
           /\ \A i \in 1 .. Len(f) : Dotted(w, f)[Len(w) + 1 + i] = f[i]
<1> DEFINE d == <<".">>
           u == w \o d
           m == Len(w)
<1>1. w \in Seq(Chars) /\ f \in Seq(Chars) /\ d \in Seq(Chars) /\ Len(d) = 1 /\ d[1] = "."
      BY CharFact, SeqMonotonic
<1>2. m \in Nat /\ Len(f) \in Nat
      BY LenProperties
<1>3. Dotted(w, f) = u \o f
      BY DEF Dotted
<1> HIDE DEF d
<1>4. /\ u \in Seq(Chars) /\ Len(u) = m + 1 /\ \A i \in 1 .. m : u[i] = w[i]
      /\ u[m + 1] = "."
  <2>1. /\ u \in Seq(Chars) /\ Len(u) = Len(w) + Len(d)
        /\ \A i \in 1 .. Len(w) : u[i] = w[i]
        /\ \A i \in 1 .. Len(d) : u[Len(w) + i] = d[i]
    <3>1. w \in Seq(Chars) /\ d \in Seq(Chars)
          BY <1>1
    <3>2. u \in Seq(Chars) /\ Len(u) = Len(w) + Len(d)
          BY <3>1, ConcatFact
    <3>3. \A i \in 1 .. Len(w) : u[i] = w[i]
          BY <3>1, ConcatFact
    <3>4. \A i \in 1 .. Len(d) : u[Len(w) + i] = d[i]
          BY <3>1, ConcatFact
    <3> QED BY <3>2, <3>3, <3>4
  <2>2. 1 \in 1 .. Len(d)
        BY <1>1
  <2> QED BY <1>1, <2>1, <2>2
<1> HIDE DEF u, m
<1>5. /\ u \o f \in Seq(Chars) /\ Len(u \o f) = Len(u) + Len(f)
      /\ \A i \in 1 .. Len(u) : (u \o f)[i] = u[i]
      /\ \A i \in 1 .. Len(f) : (u \o f)[Len(u) + i] = f[i]
  <2>1. u \in Seq(Chars) /\ f \in Seq(Chars)
        BY <1>1, <1>4
  <2>2. u \o f \in Seq(Chars) /\ Len(u \o f) = Len(u) + Len(f)
        BY <2>1, ConcatFact
  <2>3. \A i \in 1 .. Len(u) : (u \o f)[i] = u[i]
        BY <2>1, ConcatFact
  <2>4. \A i \in 1 .. Len(f) : (u \o f)[Len(u) + i] = f[i]
        BY <2>1, ConcatFact
  <2> QED BY <2>2, <2>3, <2>4
<1>6. \A i \in 1 .. m : i \in 1 .. Len(u)
      BY <1>2, <1>4
<1>7. m + 1 \in 1 .. Len(u)
      BY <1>2, <1>4
<1>8. \A i \in 1 .. m : Dotted(w, f)[i] = w[i]
      BY <1>3, <1>4, <1>5, <1>6
<1>9. Dotted(w, f)[m + 1] = "."
      BY <1>3, <1>4, <1>5, <1>7
<1>10. \A i \in 1 .. Len(f) : Dotted(w, f)[m + 1 + i] = f[i]
       BY <1>3, <1>4, <1>5
<1>11. Dotted(w, f) \in Seq(Chars) /\ Len(Dotted(w, f)) = m + 1 + Len(f)
       BY <1>3, <1>4, <1>5
<1> QED BY <1>2, <1>8, <1>9, <1>10, <1>11 DEF m

(* A text with the point where a number of Zil has it.                     *)
Places(t, w, f, a) ==
    /\ t = Dotted(w, f)
    /\ Len(w) > 0 /\ (Len(w) > 1 => w[1] # "0")
    /\ Len(f) = QA_ZIL_SHIFT /\ Len(w) + 1 + Len(f) < ZIL_UINT128_BUF_LEN
    /\ NumberOf(w \o f) = a

(* ToZil puts the point where it belongs, and keeps the digits.            *)
LEMMA WithPointFact ==
    ASSUME NEW s \in Seq(Digits), Len(s) > 0, Len(s) > 1 => s[1] # "0",
           Len(s) <= ZIL_UINT128_BUF_LEN - 3
    PROVE  \E w, f \in Seq(Digits) : Places(WithPoint(s, AMOUNT_LEN), w, f, NumberOf(s))
<1> DEFINE n == Len(s)
           D == QA_ZIL_SHIFT
           A == AMOUNT_LEN
           BUF == ZIL_UINT128_BUF_LEN
           d == <<".">>
<1>1. /\ n \in Nat /\ n > 0 /\ n <= BUF - 3 /\ D \in Nat /\ D > 0 /\ BUF \in Nat /\ D + 2 < BUF
      /\ A = BUF + 4 /\ A \in Nat /\ (n > 1 => s[1] # "0")
      BY LenProperties, QaAssumption, DisplayAssumption DEF AMOUNT_LEN
<1>2. s \in Seq(Chars) /\ d \in Seq(Chars) /\ Len(d) = 1
      BY CharFact, SeqMonotonic
<1>3. BASE \in Nat
      BY BaseFact
<1>4. CASE n <= D
  <2> DEFINE z == Zeros(D - n)
             o == <<"0", ".">>
             w == <<"0">>
             f == z \o s
             e == <<>>
  <2>1. /\ o \in Seq(Chars) /\ Len(o) = 2 /\ e \in Seq(Chars) /\ Len(e) = 0 /\ o = w \o d
        /\ w \in Seq(Chars) /\ w \in Seq(Digits) /\ Len(w) = 1 /\ NumberOf(w) = 0
    <3>1. o \in Seq(Chars) /\ Len(o) = 2
          BY DEF Chars, Digits
    <3>2. e \in Seq(Chars) /\ Len(e) = 0
          OBVIOUS
    <3>3. o = w \o d
          OBVIOUS
    <3>4. w \in Seq(Digits) /\ Len(w) = 1 /\ NumberOf(w) = 0
          BY HexFact, DigitFact, NumberOne
    <3>5. w \in Seq(Chars)
          BY <3>4, CharFact, SeqMonotonic
    <3> QED BY <3>1, <3>2, <3>3, <3>4, <3>5
  <2>2. z \in Seq(Digits) /\ Len(z) = D - n /\ NumberOf(z) = 0 /\ D - n \in Nat
    <3>1. D - n \in Nat
          BY <1>1, <1>4
    <3> QED BY <3>1, NumberZeros
  <2>3. z \in Seq(Chars)
        BY <2>2, CharFact, SeqMonotonic
  <2>4. WithPoint(s, A) = Strlcat(Strlcat(Strlcat(e, o, A), z, A), s, A)
        BY <1>4 DEF WithPoint
  <2> HIDE DEF n, D, A, BUF, d, z, o, w, e
  <2>5. Strlcat(e, o, A) = o
    <3>1. Len(e) + Len(o) < A
          BY <1>1, <2>1
    <3>2. Strlcat(e, o, A) = e \o o
      <4>1. e \in Seq(Chars) /\ o \in Seq(Chars) /\ A \in Nat
            BY <1>1, <2>1
      <4> QED BY <3>1, <4>1, StrlcatFact, Zenon
    <3> QED BY <2>1, <3>2, ConcatEmptySeq DEF e
  <2>6. Strlcat(o, z, A) = o \o z /\ o \o z \in Seq(Chars) /\ Len(o \o z) = 2 + (D - n)
    <3>1. Len(o) + Len(z) < A
          BY <1>1, <2>1, <2>2
    <3>2. Strlcat(o, z, A) = o \o z /\ o \o z \in Seq(Chars) /\ Len(o \o z) = Len(o) + Len(z)
          BY ZenonT(40), <1>1, <2>1, <2>3, <3>1, StrlcatFact
    <3> QED BY <2>1, <2>2, <3>2
  <2>7. Strlcat(o \o z, s, A) = (o \o z) \o s
    <3>1. Len(o \o z) + Len(s) < A
          BY <1>1, <2>2, <2>6 DEF n
    <3> DEFINE u == o \o z
    <3>2. u \in Seq(Chars) /\ Len(u) + Len(s) < A
          BY <2>6, <3>1
    <3> HIDE DEF u
    <3>3. Strlcat(u, s, A) = u \o s
          BY SMTT(30), <1>1, <1>2, <3>2, StrlcatFact
    <3> QED BY <3>3 DEF u
  <2>8. (o \o z) \o s = Dotted(w, f)
    <3>1. (o \o z) \o s = o \o (z \o s)
          BY SMTT(30), <1>2, <2>1, <2>3, ConcatAssociative
    <3> QED BY <2>1, <3>1 DEF Dotted, d
  <2>9. WithPoint(s, A) = Dotted(w, f)
        BY <2>4, <2>5, <2>6, <2>7, <2>8
  <2>10. f \in Seq(Digits) /\ Len(f) = D /\ NumberOf(f) = NumberOf(s) /\ NumberOf(f) \in Nat
    <3>1. f \in Seq(Digits) /\ Len(f) = Len(z) + Len(s)
          BY <2>2, ConcatProperties
    <3>2. (D - n) + n = D
          BY <1>1
    <3>3. NumberOf(s) \in Nat /\ NumberOf(f) = NumberOf(z) * Power(BASE, Len(s)) + NumberOf(s)
          BY <2>2, NumberConcat
    <3>4. Power(BASE, n) \in Nat
          BY <1>1, <1>3, PowerFact
    <3>5. 0 * Power(BASE, n) + NumberOf(s) = NumberOf(s)
          BY <3>3, <3>4
    <3> QED BY <2>2, <3>1, <3>2, <3>3, <3>5 DEF n
  <2> HIDE DEF f
  <2>11. NumberOf(w \o f) = NumberOf(s)
    <3>1. NumberOf(w \o f) = NumberOf(w) * Power(BASE, Len(f)) + NumberOf(f)
          BY <2>1, <2>10, NumberConcat
    <3>2. Power(BASE, D) \in Nat
          BY <1>1, <1>3, PowerFact
    <3>3. 0 * Power(BASE, D) + NumberOf(f) = NumberOf(f)
          BY <2>10, <3>2
    <3> QED BY <2>1, <2>10, <3>1, <3>3
  <2>12. Len(w) > 0 /\ ~(Len(w) > 1) /\ Len(w) + 1 + Len(f) < BUF
         BY <1>1, <2>1, <2>10
  <2>13. Places(WithPoint(s, A), w, f, NumberOf(s))
         BY <2>9, <2>10, <2>11, <2>12 DEF Places, D, BUF
  <2> QED BY <2>1, <2>10, <2>13 DEF A
<1>5. CASE n > D
  <2> DEFINE k == n - D
             w == SubSeq(s, 1, k)
             f == SubSeq(s, k + 1, n)
  <2>1. k \in Nat /\ k > 0 /\ k <= n /\ k + D = n
        BY <1>1, <1>5
  <2>2. WithPoint(s, A) = Strlcat(Strlcat(w, d, A), f, A)
        BY <1>1, <1>5 DEF WithPoint
  <2> HIDE DEF k
  <2>3. /\ w \in Seq(Digits) /\ Len(w) = k /\ w[1] = s[1]
        /\ f \in Seq(Digits) /\ Len(f) = D
    <3>1. \A i \in 1 .. n : s[i] \in Digits
          BY ElementOfSeq
    <3> HIDE DEF n, D
    <3>2. 1 \in Int /\ k \in Int /\ k + 1 \in Int /\ n \in Int
          /\ (\A i \in 1 .. k : s[i] \in Digits) /\ \A i \in k + 1 .. n : s[i] \in Digits
          BY <1>1, <2>1, <3>1
    <3>3. /\ w \in Seq(Digits) /\ Len(w) = (IF 1 <= k THEN k - 1 + 1 ELSE 0)
          /\ \A i \in 1 .. k - 1 + 1 : w[i] = s[1 + i - 1]
          BY <3>2, SubSeqProperties
    <3>4. f \in Seq(Digits) /\ Len(f) = (IF k + 1 <= n THEN n - (k + 1) + 1 ELSE 0)
          BY <3>2, SubSeqProperties
    <3> HIDE DEF w, f
    <3>5. /\ (IF 1 <= k THEN k - 1 + 1 ELSE 0) = k /\ 1 \in 1 .. k - 1 + 1 /\ 1 + 1 - 1 = 1
          /\ (IF k + 1 <= n THEN n - (k + 1) + 1 ELSE 0) = D
          BY <1>1, <2>1
    <3> QED BY <3>3, <3>4, <3>5
  <2>4. w \o f = s
    <3>1. 1 \in 1 .. n + 1 /\ k \in 1 - 1 .. n /\ n \in k .. n
          BY <1>1, <2>1
    <3>2. w \o f = SubSeq(s, 1, n)
          BY <3>1, ConcatAdjacentSubSeq
    <3> QED BY <3>2, SubSeqFull
  <2> HIDE DEF n, D, A, BUF, d, w, f
  <2>5. w \in Seq(Chars) /\ f \in Seq(Chars)
        BY <2>3, CharFact, SeqMonotonic
  <2>6. Strlcat(w, d, A) = w \o d /\ w \o d \in Seq(Chars) /\ Len(w \o d) = k + 1
    <3>1. Len(w) + Len(d) < A
          BY <1>1, <1>2, <2>1, <2>3
    <3>2. Strlcat(w, d, A) = w \o d /\ w \o d \in Seq(Chars) /\ Len(w \o d) = Len(w) + Len(d)
          BY ZenonT(40), <1>1, <1>2, <2>5, <3>1, StrlcatFact
    <3> QED BY <1>2, <2>3, <3>2
  <2>7. Strlcat(w \o d, f, A) = (w \o d) \o f
    <3> DEFINE u == w \o d
    <3>1. u \in Seq(Chars) /\ Len(u) = k + 1
          BY <2>6
    <3> HIDE DEF u
    <3>2. Len(u) + Len(f) < A
          BY <1>1, <2>1, <2>3, <3>1
    <3>3. Strlcat(u, f, A) = u \o f
          BY <1>1, <2>5, <3>1, <3>2, StrlcatFact
    <3> QED BY <3>3 DEF u
  <2>8. WithPoint(s, A) = Dotted(w, f)
        BY <2>2, <2>6, <2>7 DEF Dotted, d
  <2>9. Len(w) > 0 /\ (Len(w) > 1 => w[1] # "0") /\ Len(w) + 1 + Len(f) < BUF
        BY <1>1, <2>1, <2>3
  <2>10. Places(WithPoint(s, A), w, f, NumberOf(s))
         BY <2>3, <2>4, <2>8, <2>9 DEF Places, D, BUF
  <2> QED BY <2>3, <2>10 DEF A
<1> QED BY <1>1, <1>4, <1>5
-----------------------------------------------------------------------------
(* The zeros at the end                                                    *)

(* The figures after the point up to the last that is no zero.             *)
Kept(f, k) == SubSeq(f, 1, k)

(* The beginning of the figures after the point.                           *)
LEMMA KeptFact ==
    ASSUME NEW f \in Seq(Digits), NEW k \in 0 .. Len(f)
    PROVE  /\ Kept(f, k) \in Seq(Digits) /\ Len(Kept(f, k)) = k
           /\ \A i \in 1 .. k : Kept(f, k)[i] = f[i]
<1> DEFINE g == Kept(f, k)
           n == Len(f)
<1>1. n \in Nat /\ \A i \in 1 .. n : f[i] \in Digits
      BY LenProperties, ElementOfSeq
<1>2. k \in 0 .. n
      OBVIOUS
<1> HIDE DEF n
<1>3. /\ g \in Seq(Digits) /\ Len(g) = (IF 1 <= k THEN k - 1 + 1 ELSE 0)
      /\ \A i \in 1 .. k - 1 + 1 : g[i] = f[1 + i - 1]
  <2>1. 1 \in Int /\ k \in Int /\ \A i \in 1 .. k : f[i] \in Digits
        BY <1>1, <1>2
  <2> QED BY <2>1, SubSeqProperties DEF Kept
<1> HIDE DEF g
<1>4. /\ (IF 1 <= k THEN k - 1 + 1 ELSE 0) = k /\ k - 1 + 1 = k
      /\ \A i \in 1 .. k : 1 + i - 1 = i
      BY <1>1, <1>2
<1>5. g \in Seq(Digits) /\ Len(g) = k /\ \A i \in 1 .. k : g[i] = f[i]
      BY <1>3, <1>4
<1> QED BY <1>5 DEF g

(* What remove_trailing_zeroes leaves, and the zeros it removed.           *)
Stripped(t, w, f, k) ==
    /\ t = IF k = 0 THEN w ELSE Dotted(w, Kept(f, k))
    /\ k > 0 => f[k] # "0"
    /\ \A j \in k + 1 .. Len(f) : f[j] = "0"

(* remove_trailing_zeroes keeps the figures up to the last one that is no  *)
(* zero, and the point only with them.                                     *)
LEMMA StripFact ==
    ASSUME NEW w \in Seq(Digits), NEW f \in Seq(Digits)
    PROVE  \E k \in 0 .. Len(f) : Stripped(StripZeros(Dotted(w, f)), w, f, k)
<1> DEFINE t == Dotted(w, f)
           m == Len(w)
           n == Len(f)
           I == { i \in 1 .. Len(t) : t[i] # "0" }
           last == Max(I)
           k == last - (m + 1)
<1>1. /\ t \in Seq(Chars) /\ Len(t) = m + 1 + n /\ m \in Nat /\ n \in Nat
      /\ t[m + 1] = "."
      BY DottedFact
<1>2. \A i \in 1 .. m : t[i] = w[i]
      BY DottedFact
<1>3. \A i \in 1 .. n : t[m + 1 + i] = f[i] /\ f[i] \in Digits
      BY DottedFact, ElementOfSeq
<1>4. StripZeros(t) = LET l == IF I # {} THEN last ELSE 0
                      IN  SubSeq(t, 1, IF l > 0 /\ t[l] = "." THEN l - 1 ELSE l)
      BY DEF StripZeros, SelectLastInSeq
<1> HIDE DEF t, m, n
<1>5. m + 1 \in I
      BY <1>1
<1>6. last \in I /\ \A i \in I : i <= last
  <2>1. I \in SUBSET (1 .. Len(t)) /\ I # {} /\ Len(t) \in Nat
        BY <1>1, <1>5
  <2> HIDE DEF I
  <2> QED BY <2>1, MaxFact
<1>7. last \in 1 .. m + 1 + n /\ t[last] # "0" /\ last >= m + 1
  <2>1. last \in I /\ m + 1 <= last
        BY <1>5, <1>6
  <2> HIDE DEF last
  <2> QED BY <1>1, <2>1
<1>8. \A i \in last + 1 .. m + 1 + n : t[i] = "0"
  <2> SUFFICES ASSUME NEW i \in last + 1 .. m + 1 + n, t[i] # "0"
               PROVE  FALSE
      OBVIOUS
  <2>1. i \in 1 .. Len(t) /\ i > last
    <3> HIDE DEF last
    <3> QED BY <1>1, <1>7
  <2>2. i \in I
        BY <2>1
  <2>3. i <= last
        BY <1>6, <2>2
  <2> HIDE DEF last
  <2> QED BY <1>7, <2>1, <2>3
<1>9. StripZeros(t) = SubSeq(t, 1, IF t[last] = "." THEN last - 1 ELSE last)
  <2>1. I # {} /\ last > 0
    <3>1. I # {}
          BY <1>5
    <3> HIDE DEF last, I
    <3> QED BY <1>1, <1>7, <3>1
  <2> HIDE DEF last, I
  <2> QED BY <1>4, <2>1
<1> HIDE DEF last
<1>10. k \in 0 .. n /\ last = m + 1 + k
       BY <1>1, <1>7
<1>11. \A j \in k + 1 .. n : f[j] = "0"
  <2> TAKE j \in k + 1 .. n
  <2>1. j \in 1 .. n /\ m + 1 + j \in last + 1 .. m + 1 + n
        BY <1>1, <1>10
  <2> QED BY <1>3, <1>8, <2>1
<1> HIDE DEF k
<1>12. w \in Seq(Chars)
       BY CharFact, SeqMonotonic
<1>13. CASE k = 0
  <2>1. last = m + 1 /\ last - 1 = 0 + m /\ t[last] = "."
        BY <1>1, <1>10, <1>13
  <2>2. SubSeq(t, 0 + 1, 0 + m) = w
    <3>1. 0 + Len(w) <= Len(t) /\ 0 \in Nat
          BY <1>1 DEF m
    <3>2. \A i \in 1 .. Len(w) : t[0 + i] = w[i]
      <4>1. \A i \in 1 .. m : 0 + i = i
            BY <1>1
      <4> QED BY <1>2, <4>1 DEF m
    <3> QED BY <1>1, <1>12, <3>1, <3>2, PartFact, Zenon DEF m
  <2>3. StripZeros(t) = w
    <3>1. 0 + 1 = 1
          OBVIOUS
    <3> QED BY <1>9, <2>1, <2>2, <3>1
  <2>4. ~(k > 0)
        BY <1>13
  <2>5. Stripped(StripZeros(t), w, f, k)
        BY <1>11, <1>13, <2>3, <2>4 DEF Stripped, n
  <2> QED BY <1>10, <2>5 DEF t, n
<1>14. CASE k # 0
  <2> DEFINE g == Kept(f, k)
             u == Dotted(w, g)
  <2>1. g \in Seq(Digits) /\ Len(g) = k /\ \A i \in 1 .. k : g[i] = f[i]
        BY <1>10, KeptFact DEF n
  <2>2. /\ u \in Seq(Chars) /\ Len(u) = m + 1 + k
        /\ u[m + 1] = "."
        BY <2>1, DottedFact DEF m
  <2>3. \A i \in 1 .. m : u[i] = w[i]
        BY <2>1, DottedFact DEF m
  <2>4. \A i \in 1 .. k : u[m + 1 + i] = g[i]
        BY ZenonT(40), <2>1, DottedFact DEF m
  <2> HIDE DEF g, u
  <2>5. t[last] = f[k] /\ f[k] # "0" /\ f[k] # "."
    <3>1. k \in 1 .. n
          BY <1>1, <1>10, <1>14
    <3>2. t[last] = f[k] /\ f[k] \in Digits
          BY <1>3, <1>10, <3>1
    <3> QED BY <1>7, <3>2, CharFact
  <2>6. \A i \in 1 .. Len(u) : t[0 + i] = u[i]
    <3> TAKE i \in 1 .. Len(u)
    <3>1. 0 + i = i /\ i \in 1 .. m + 1 + k
          BY <1>1, <1>10, <2>2
    <3>2. CASE i \in 1 .. m
          BY <1>2, <2>3, <3>1, <3>2
    <3>3. CASE i = m + 1
          BY <1>1, <2>2, <3>1, <3>3
    <3>4. CASE i > m + 1
      <4> DEFINE j == i - (m + 1)
      <4>1. j \in 1 .. k /\ j \in 1 .. n /\ i = m + 1 + j
            BY <1>1, <1>10, <3>1, <3>4
      <4> HIDE DEF j
      <4>2. t[i] = f[j] /\ u[i] = g[j] /\ g[j] = f[j]
            BY <1>3, <2>1, <2>4, <4>1
      <4> QED BY <3>1, <4>2
    <3>5. i \in 1 .. m \/ i = m + 1 \/ i > m + 1
          BY <1>1, <1>10, <3>1
    <3> QED BY <3>2, <3>3, <3>4, <3>5, Zenon
  <2>7. 0 + Len(u) <= Len(t) /\ 0 \in Nat /\ 0 + Len(u) = last /\ 0 + 1 = 1
        BY <1>1, <1>10, <2>2
  <2>8. SubSeq(t, 0 + 1, 0 + Len(u)) = u
        BY <1>1, <2>2, <2>6, <2>7, PartFact, Zenon
  <2>9. StripZeros(t) = u
        BY <1>9, <2>5, <2>7, <2>8
  <2>10. Stripped(StripZeros(t), w, f, k)
         BY <1>11, <1>14, <2>5, <2>9 DEF Stripped, n, u, g
  <2> QED BY <1>10, <2>10 DEF t, n
<1> QED BY <1>13, <1>14

(* What ShownIsSigned says of a text and an amount.                        *)
Reads(t, a) ==
    LET n     == Len(t) - 4
        point == SelectInSeq(t, LAMBDA c : c = ".")
        whole == SubSeq(t, 1, IF point > 0 THEN point - 1 ELSE n)
        frac  == IF point > 0 THEN SubSeq(t, point + 1, n) ELSE <<>>
    IN  /\ SubSeq(t, n + 1, Len(t)) = <<" ", "Z", "I", "L">>
        /\ ToSet(whole \o frac) \subseteq Digits
        /\ NumberOf(whole \o frac \o Zeros(QA_ZIL_SHIFT - Len(frac))) = a
        /\ whole # <<>> /\ (Len(whole) > 1 => whole[1] # "0")
        /\ point > 0 => frac # <<>> /\ Last(frac) # "0" /\ Len(frac) <= QA_ZIL_SHIFT

(* The same, once its parts are known.                                     *)
LEMMA ReadsParts ==
    ASSUME NEW t, NEW a, NEW w \in Seq(Digits), NEW g \in Seq(Digits), NEW p \in Nat,
           SelectInSeq(t, LAMBDA c : c = ".") = p,
           SubSeq(t, (Len(t) - 4) + 1, Len(t)) = Unit,
           SubSeq(t, 1, IF p > 0 THEN p - 1 ELSE Len(t) - 4) = w,
           (IF p > 0 THEN SubSeq(t, p + 1, Len(t) - 4) ELSE <<>>) = g,
           NumberOf((w \o g) \o Zeros(QA_ZIL_SHIFT - Len(g))) = a,
           Len(w) > 0, Len(w) > 1 => w[1] # "0",
           p > 0 => Len(g) > 0 /\ g[Len(g)] # "0" /\ Len(g) <= QA_ZIL_SHIFT
    PROVE  Reads(t, a)
<1>1. ToSet(w \o g) \subseteq Digits
  <2> DEFINE u == w \o g
  <2>1. u \in Seq(Digits)
        BY ConcatProperties
  <2> HIDE DEF u
  <2>2. DOMAIN u = 1 .. Len(u) /\ \A i \in 1 .. Len(u) : u[i] \in Digits
        BY <2>1, LenProperties, ElementOfSeq
  <2>3. ToSet(u) \subseteq Digits
        BY <2>2 DEF ToSet
  <2> QED BY <2>3 DEF u
<1>2. w # <<>> /\ (p > 0 => g # <<>>)
      OBVIOUS
<1> QED BY <1>1, <1>2 DEF Reads, Last, Unit
-----------------------------------------------------------------------------
(* The kept figures and the removed zeros are the figures.                 *)
LEMMA TailZeros ==
    ASSUME NEW f \in Seq(Digits), NEW k \in 0 .. Len(f), \A j \in k + 1 .. Len(f) : f[j] = "0"
    PROVE  Kept(f, k) \o Zeros(Len(f) - k) = f
<1> DEFINE g == Kept(f, k)
           n == Len(f)
           z == Zeros(n - k)
           u == g \o z
<1>1. n \in Nat /\ n - k \in Nat /\ k \in 0 .. n /\ k \in Nat
      BY LenProperties
<1>2. g \in Seq(Digits) /\ Len(g) = k /\ \A i \in 1 .. k : g[i] = f[i]
      BY KeptFact
<1>3. z \in Seq(Digits) /\ Len(z) = n - k /\ \A i \in 1 .. n - k : z[i] = "0"
      BY <1>1, NumberZeros
<1>4. \A j \in k + 1 .. n : f[j] = "0"
      OBVIOUS
<1> HIDE DEF g, z
<1>5. u \in Seq(Digits) /\ Len(u) = Len(g) + Len(z)
      BY <1>2, <1>3, ConcatFact
<1>6. \A i \in 1 .. Len(g) : u[i] = g[i]
      BY <1>2, <1>3, ConcatFact
<1>7. \A i \in 1 .. Len(z) : u[Len(g) + i] = z[i]
      BY <1>2, <1>3, ConcatFact
<1> HIDE DEF u, n
<1>8. Len(u) = n
      BY <1>1, <1>2, <1>3, <1>5
<1>9. ASSUME NEW i \in 1 .. n
      PROVE  u[i] = f[i]
  <2>1. CASE i <= k
    <3>1. i \in 1 .. k
          BY <1>1, <2>1
    <3> QED BY <1>2, <1>6, <3>1
  <2>2. CASE i > k
    <3>1. i - k \in 1 .. n - k /\ k + (i - k) = i /\ i \in k + 1 .. n
          BY <1>1, <2>2
    <3>2. u[k + (i - k)] = z[i - k]
          BY <1>2, <1>3, <1>7, <3>1
    <3> QED BY <1>3, <1>4, <3>1, <3>2
  <2> QED BY <1>1, <2>1, <2>2
<1>10. u = f
       BY <1>5, <1>8, <1>9, SeqEqual DEF n
<1> QED BY <1>10 DEF u, g, z, n

(* Where the point is.                                                     *)
LEMMA PointFact ==
    ASSUME NEW t
    PROVE  /\ (\A i \in 1 .. Len(t) : t[i] # ".") => SelectInSeq(t, LAMBDA c : c = ".") = 0
           /\ \A p \in 1 .. Len(t) :
                t[p] = "." /\ (\A i \in 1 .. Len(t) : t[i] = "." => i = p)
                  => SelectInSeq(t, LAMBDA c : c = ".") = p
<1> DEFINE I == { i \in 1 .. Len(t) : t[i] = "." }
<1>1. SelectInSeq(t, LAMBDA c : c = ".") = IF I # {} THEN Min(I) ELSE 0
      BY DEF SelectInSeq
<1>2. ASSUME \A i \in 1 .. Len(t) : t[i] # "."
      PROVE  SelectInSeq(t, LAMBDA c : c = ".") = 0
  <2>1. I = {}
        BY <1>2
  <2> HIDE DEF I
  <2> QED BY <1>1, <2>1
<1>3. ASSUME NEW p \in 1 .. Len(t), t[p] = ".", \A i \in 1 .. Len(t) : t[i] = "." => i = p
      PROVE  SelectInSeq(t, LAMBDA c : c = ".") = p
  <2>1. I = {p}
        BY <1>3
  <2>2. Min({p}) = p
    <3>1. p <= p
          OBVIOUS
    <3> QED BY <3>1 DEF Min
  <2> HIDE DEF I
  <2> QED BY <1>1, <2>1, <2>2
<1> QED BY <1>2, <1>3

(* The text that is shown can be read.                                     *)
LEMMA ReadsFact ==
    ASSUME NEW t, NEW a, NEW w \in Seq(Digits), NEW f \in Seq(Digits), Places(t, w, f, a),
           NEW k \in 0 .. Len(f), NEW r, Stripped(r, w, f, k)
    PROVE  Reads(Strlcat(r, Unit, AMOUNT_LEN), a)
<1> DEFINE m == Len(w)
           n == Len(f)
           g == Kept(f, k)
           l == IF k = 0 THEN m ELSE m + 1 + k
           A == AMOUNT_LEN
           s == r \o Unit
<1>1. /\ m \in Nat /\ m > 0 /\ (m > 1 => w[1] # "0") /\ n = QA_ZIL_SHIFT /\ n \in Nat
      /\ m + 1 + n < ZIL_UINT128_BUF_LEN /\ NumberOf(w \o f) = a
      /\ A = ZIL_UINT128_BUF_LEN + 4 /\ A \in Nat /\ ZIL_UINT128_BUF_LEN \in Nat
      BY LenProperties, QaAssumption DEF Places, AMOUNT_LEN
<1>2. k \in 0 .. n /\ k \in Nat
      BY LenProperties
<1>3. g \in Seq(Digits) /\ Len(g) = k /\ \A i \in 1 .. k : g[i] = f[i]
      BY KeptFact
<1>4. /\ r = IF k = 0 THEN w ELSE Dotted(w, g)
      /\ k > 0 => f[k] # "0"
      BY DEF Stripped
<1>5. g \o Zeros(n - k) = f
      BY TailZeros DEF Stripped
<1>6. w \in Seq(Chars)
      BY CharFact, SeqMonotonic
<1>7. \A i \in 1 .. m : w[i] \in Digits /\ w[i] # "."
      BY ElementOfSeq, CharFact
<1>8. \A i \in 1 .. k : g[i] \in Digits /\ g[i] # "."
      BY <1>3, ElementOfSeq, CharFact
<1> HIDE DEF m, n, g, A
<1>9. r \in Seq(Chars) /\ Len(r) = l /\ l \in Nat /\ \A i \in 1 .. m : r[i] = w[i]
  <2>1. CASE k = 0
        BY <1>1, <1>4, <1>6, <2>1 DEF m
  <2>2. CASE k # 0
    <3>1. Dotted(w, g) \in Seq(Chars) /\ Len(Dotted(w, g)) = m + 1 + k
          BY <1>3, DottedFact DEF m
    <3>2. \A i \in 1 .. m : Dotted(w, g)[i] = w[i]
          BY <1>3, DottedFact DEF m
    <3> QED BY <1>1, <1>2, <1>4, <2>2, <3>1, <3>2
  <2> QED BY <2>1, <2>2
<1>10. k # 0 => r[m + 1] = "." /\ \A i \in 1 .. k : r[m + 1 + i] = g[i]
  <2> SUFFICES ASSUME k # 0 PROVE r[m + 1] = "." /\ \A i \in 1 .. k : r[m + 1 + i] = g[i]
      OBVIOUS
  <2>1. Dotted(w, g)[m + 1] = "."
        BY <1>3, DottedFact DEF m
  <2>2. \A i \in 1 .. k : Dotted(w, g)[m + 1 + i] = g[i]
        BY <1>3, DottedFact DEF m
  <2> QED BY <1>4, <2>1, <2>2
<1>11. m <= l /\ l <= m + 1 + n
       BY <1>1, <1>2
<1>12. Unit \in Seq(Chars) /\ Len(Unit) = 4 /\ \A i \in 1 .. 4 : Unit[i] # "."
       BY CharFact
<1>13. Strlcat(r, Unit, A) = s /\ s \in Seq(Chars) /\ Len(s) = l + 4
  <2>1. Len(r) + Len(Unit) < A
    <3> HIDE DEF l
    <3> QED BY <1>1, <1>9, <1>11, <1>12
  <2>2. r \in Seq(Chars)
        BY <1>9
  <2>3. Strlcat(r, Unit, A) = s /\ s \in Seq(Chars) /\ Len(s) = Len(r) + Len(Unit)
        BY ZenonT(40), <1>1, <1>12, <2>1, <2>2, StrlcatFact
  <2> QED BY <1>9, <1>12, <2>3
<1>14. \A i \in 1 .. l : s[i] = r[i]
  <2>1. r \in Seq(Chars)
        BY <1>9
  <2>2. \A i \in 1 .. Len(r) : s[i] = r[i]
        BY <1>12, <2>1, ConcatFact
  <2> QED BY <1>9, <2>2
<1>15. \A i \in 1 .. 4 : s[l + i] = Unit[i]
  <2>1. r \in Seq(Chars)
        BY <1>9
  <2>2. \A i \in 1 .. Len(Unit) : s[Len(r) + i] = Unit[i]
    <3>1. Unit \in Seq(Chars)
          BY <1>12
    <3> QED BY <2>1, <3>1, ConcatFact
  <2> QED BY <1>9, <1>12, <2>2
<1> HIDE DEF s
<1>16. SubSeq(s, (Len(s) - 4) + 1, Len(s)) = Unit
  <2> HIDE DEF l
  <2>1. l + Len(Unit) <= Len(s) /\ l \in Nat /\ \A i \in 1 .. Len(Unit) : s[l + i] = Unit[i]
        BY <1>9, <1>12, <1>13, <1>15
  <2>2. SubSeq(s, l + 1, l + Len(Unit)) = Unit
        BY <1>12, <1>13, <2>1, PartFact
  <2>3. (Len(s) - 4) + 1 = l + 1 /\ Len(s) = l + Len(Unit)
        BY <1>9, <1>12, <1>13
  <2> QED BY <2>2, <2>3
<1>17. SubSeq(s, 1, m) = w
  <2>1. \A i \in 1 .. m : s[0 + i] = w[i]
    <3> TAKE i \in 1 .. m
    <3>1. 0 + i = i /\ i \in 1 .. l
          BY <1>1, <1>9, <1>11
    <3> QED BY <1>9, <1>14, <3>1
  <2>2. 0 + m <= Len(s) /\ 0 \in Nat /\ 0 + 1 = 1 /\ 0 + m = m
        BY <1>1, <1>9, <1>11, <1>13
  <2>3. SubSeq(s, 0 + 1, 0 + m) = w
        BY <1>6, <1>13, <2>1, <2>2, PartFact, Zenon DEF m
  <2> QED BY <2>2, <2>3
<1>18. NumberOf((w \o g) \o Zeros(n - k)) = a
  <2>1. Zeros(n - k) \in Seq(Digits)
    <3>1. n - k \in Nat
          BY <1>1, <1>2
    <3> QED BY <3>1, NumberZeros
  <2>2. (w \o g) \o Zeros(n - k) = w \o (g \o Zeros(n - k))
    <3> DEFINE z == Zeros(n - k)
    <3>1. z \in Seq(Digits)
          BY <2>1
    <3> HIDE DEF z
    <3>2. (w \o g) \o z = w \o (g \o z)
      <4>1. g \in Seq(Digits)
            BY <1>3
      <4> QED BY SMTT(30), <3>1, <4>1, ConcatAssociative
    <3> QED BY <3>2 DEF z
  <2> QED BY <1>1, <1>5, <2>2
<1>19. CASE k = 0
  <2>1. l = m /\ Len(s) = m + 4
        BY <1>13, <1>19
  <2>2. SelectInSeq(s, LAMBDA c : c = ".") = 0
    <3>1. \A i \in 1 .. Len(s) : s[i] # "."
      <4> TAKE i \in 1 .. Len(s)
      <4>1. CASE i \in 1 .. m
            BY <1>7, <1>9, <1>14, <2>1, <4>1
      <4>2. CASE i \notin 1 .. m
        <5>1. i - m \in 1 .. 4 /\ m + (i - m) = i
              BY <1>1, <2>1, <4>2
        <5> QED BY <1>12, <1>15, <2>1, <5>1
      <4> QED BY <4>1, <4>2
    <3> QED BY <3>1, PointFact
  <2>3. g = <<>>
        BY <1>3, <1>19
  <2>4. Len(s) - 4 = m /\ 0 \in Nat /\ ~(0 > 0)
        BY <1>1, <2>1
  <2>5. SubSeq(s, 1, IF 0 > 0 THEN 0 - 1 ELSE Len(s) - 4) = w
        BY <1>17, <2>4
  <2>6. (IF 0 > 0 THEN SubSeq(s, 0 + 1, Len(s) - 4) ELSE <<>>) = g
        BY <2>3, <2>4
  <2>7. NumberOf((w \o g) \o Zeros(QA_ZIL_SHIFT - Len(g))) = a
        BY <1>1, <1>3, <1>18
  <2>8. Reads(s, a)
        BY <1>1, <1>3, <1>16, <2>2, <2>4, <2>5, <2>6, <2>7, ReadsParts, Zenon DEF m
  <2> QED BY <1>13, <2>8 DEF A
<1>20. CASE k # 0
  <2> DEFINE p == m + 1
  <2>1. l = p + k /\ Len(s) = p + k + 4 /\ p \in Nat /\ p > 0 /\ p - 1 = m /\ k > 0
        /\ Len(s) - 4 = p + k
        BY <1>1, <1>2, <1>13, <1>20
  <2>2. /\ r[p] = "." /\ \A i \in 1 .. k : r[p + i] = g[i]
        BY <1>10, <1>20
  <2> HIDE DEF l
  <2>3. s[p] = "."
    <3>1. p \in 1 .. l
          BY <1>1, <1>2, <2>1
    <3> QED BY <1>14, <2>2, <3>1
  <2>4. \A i \in 1 .. k : s[p + i] = g[i]
    <3> TAKE i \in 1 .. k
    <3>1. p + i \in 1 .. l
          BY <1>1, <1>2, <2>1
    <3> QED BY <1>14, <2>2, <3>1
  <2>5. \A i \in 1 .. m : s[i] = w[i]
    <3> TAKE i \in 1 .. m
    <3>1. i \in 1 .. l
          BY <1>1, <1>2, <2>1
    <3> QED BY <1>9, <1>14, <3>1
  <2>6. \A i \in 1 .. 4 : s[(p + k) + i] # "."
        BY <1>12, <1>15, <2>1
  <2>7. SelectInSeq(s, LAMBDA c : c = ".") = p
    <3>1. ASSUME NEW i \in 1 .. Len(s), s[i] = ".", i # p
          PROVE  FALSE
      <4>1. CASE i \in 1 .. m
            BY <1>7, <2>5, <3>1, <4>1
      <4>2. CASE i > p /\ i <= p + k
        <5>1. i - p \in 1 .. k /\ p + (i - p) = i
              BY <1>2, <2>1, <4>2
        <5> QED BY <1>8, <2>4, <3>1, <5>1
      <4>3. CASE i > p + k
        <5>1. i - (p + k) \in 1 .. 4 /\ (p + k) + (i - (p + k)) = i
          <6>1. i \in Int /\ i <= p + k + 4
                BY <2>1
          <6> HIDE DEF p
          <6> QED BY <1>2, <2>1, <4>3, <6>1
        <5> QED BY <2>6, <3>1, <5>1
      <4>4. i \in 1 .. m \/ (i > p /\ i <= p + k) \/ i > p + k
            BY <1>1, <1>2, <2>1, <3>1
      <4> QED BY <4>1, <4>2, <4>3, <4>4
    <3>2. p \in 1 .. Len(s)
          BY <1>2, <2>1
    <3> HIDE DEF p
    <3> QED BY <2>3, <3>1, <3>2, PointFact
  <2>8. SubSeq(s, p + 1, p + k) = g
    <3>1. g \in Seq(Chars)
          BY <1>3, CharFact, SeqMonotonic
    <3>2. p + Len(g) <= Len(s) /\ \A i \in 1 .. Len(g) : s[p + i] = g[i]
          BY <1>2, <1>3, <2>1, <2>4
    <3> HIDE DEF p
    <3>3. SubSeq(s, p + 1, p + Len(g)) = g
          BY <1>13, <2>1, <3>1, <3>2, PartFact
    <3> QED BY <1>3, <3>3
  <2>9. SubSeq(s, 1, IF p > 0 THEN p - 1 ELSE Len(s) - 4) = w
        BY <1>17, <2>1
  <2>10. (IF p > 0 THEN SubSeq(s, p + 1, Len(s) - 4) ELSE <<>>) = g
        BY <2>1, <2>8
  <2>11. NumberOf((w \o g) \o Zeros(QA_ZIL_SHIFT - Len(g))) = a
        BY <1>1, <1>3, <1>18
  <2>12. Len(g) > 0 /\ g[Len(g)] # "0" /\ Len(g) <= QA_ZIL_SHIFT
    <3>1. k \in 1 .. k
          BY <1>2, <2>1
    <3> QED BY <1>1, <1>2, <1>3, <1>4, <2>1, <3>1
  <2> HIDE DEF p
  <2>13. Reads(s, a)
         BY <1>1, <1>3, <1>16, <2>1, <2>7, <2>9, <2>10, <2>11, <2>12, ReadsParts, Zenon DEF m
  <2> QED BY <1>13, <2>13 DEF A
<1> QED BY <1>19, <1>20
-----------------------------------------------------------------------------
(* The invariant                                                           *)

(* Where the text stands on its way to the screen; nothing fails.          *)
Texts ==
    /\ pc \in {"digit", "divide", "write", "text", "cleansed", "pointed", "done"}
    /\ pc = "cleansed" => shown = Written
    /\ pc = "pointed" => \E w, f \in Seq(Digits) : Places(shown, w, f, Amount)
    /\ pc = "done" => Reads(shown, Amount)

Inv == Words /\ Dividing /\ DivisionDone /\ Counting /\ Spelled /\ Texts

(* The invariant holds when the conversion starts.                         *)
LEMMA InitFact ==
    ASSUME Init
    PROVE  Inv
<1>1. /\ pc = "digit" /\ wire \in Wires /\ rDiv = Loaded(Swapped(wire)) /\ out = <<>>
      /\ copyd = Zero /\ adder = Zero /\ resDiv = Zero /\ resMod = Zero
      BY DEF Init
<1>2. rDiv \in U128 /\ Val(rDiv) = Amount /\ Amount \in Nat
      BY <1>1, AmountFact
<1>3. Words
      BY <1>1, <1>2, BaseFact DEF Words
<1>4. out \in Seq(Digits) /\ Len(out) = 0 /\ Written = <<>>
  <2>1. out \in Seq(Digits) /\ Len(out) = 0
        BY <1>1
  <2>2. Len(Reverse(out)) = 0 /\ Reverse(out) \in Seq(Digits)
        BY <2>1, ReverseFact
  <2>3. Reverse(out) = <<>>
        BY <2>2, EmptySeq
  <2> QED BY <2>1, <2>3 DEF Written
<1>5. Amount = Val(rDiv) * Power(BASE, Len(out)) + NumberOf(Written)
  <2>1. Power(BASE, 0) = 1
        BY BaseFact, PowerFact
  <2>2. NumberOf(Written) = 0
        BY <1>4, NumberNone
  <2>3. Amount = Amount * 1 + 0
        BY <1>2
  <2> QED BY <1>2, <1>4, <2>1, <2>2, <2>3
<1>6. Len(out) <= ZIL_UINT128_BUF_LEN - 3
  <2>1. \A n, m \in Nat : n > 0 /\ n + 2 < m => 0 <= m - 3
        OBVIOUS
  <2> QED BY <1>4, <2>1, QaAssumption, DisplayAssumption
<1>7. Counting
      BY <1>1, <1>4, <1>5, <1>6 DEF Counting
<1>8. Dividing /\ DivisionDone /\ Spelled /\ Texts
      BY <1>1 DEF Dividing, DivisionDone, Spelled, Texts, Converting
<1> QED BY <1>3, <1>7, <1>8 DEF Inv

(* The steps that leave wire, digits and dividend alone.                   *)
LEMMA StillCounting ==
    ASSUME Inv, UNCHANGED <<wire, rDiv, out>>, Converting <=> Converting'
    PROVE  Counting' /\ Spelled'
<1>1. /\ wire' = wire /\ Amount' = Amount /\ Written' = Written /\ out' = out
      /\ Val(rDiv') = Val(rDiv)
      BY DEF Amount, Written
<1>2. Counting'
      BY <1>1 DEF Inv, Counting, NumberOf, Positional, DigitVal, Val
<1>3. Spelled'
      BY <1>1 DEF Inv, Spelled, NumberOf, Positional, DigitVal
<1> QED BY <1>2, <1>3

(* A round of tostring128 begins.                                          *)
LEMMA DigitStep ==
    ASSUME Inv, Digit
    PROVE  Inv'
<1>1. /\ pc = "digit" /\ UNCHANGED <<wire, rDiv, out, shown>>
      BY DEF Digit
<1>2. RoomForDigit
  <2>1. Converting
        BY <1>1 DEF Converting
  <2>2. Len(out) \in Nat /\ Len(out) + 1 <= ZIL_UINT128_BUF_LEN - 3 /\ ZIL_UINT128_BUF_LEN \in Nat
        BY <2>1, RoomFact, QaAssumption DEF Inv
  <2> QED BY <2>2 DEF RoomForDigit
<1>3. Words' /\ Dividing' /\ DivisionDone'
      BY <1>2, DigitDivides DEF Inv
<1>4. pc' \in {"write", "divide"}
      BY <1>2 DEF Digit
<1>5. Converting /\ Converting'
      BY <1>1, <1>4 DEF Converting
<1>6. Counting' /\ Spelled'
      BY <1>1, <1>5, StillCounting
<1>7. Texts'
      BY <1>4 DEF Texts
<1> QED BY <1>3, <1>6, <1>7 DEF Inv

(* A round of divmod128.                                                   *)
LEMMA DivideStep ==
    ASSUME Inv, Divide
    PROVE  Inv'
<1>1. /\ pc = "divide" /\ UNCHANGED <<pc, wire, rDiv, out, shown>>
      BY DEF Divide
<1>2. Words' /\ Dividing'
      BY DivideFact DEF Inv
<1>3. Converting /\ Converting'
      BY <1>1 DEF Converting
<1>4. Counting' /\ Spelled'
      BY <1>1, <1>3, StillCounting
<1>5. DivisionDone' /\ Texts'
      BY <1>1 DEF DivisionDone, Texts
<1> QED BY <1>2, <1>4, <1>5 DEF Inv

(* The end of divmod128.                                                   *)
LEMMA DividedStep ==
    ASSUME Inv, Divided
    PROVE  Inv'
<1>1. /\ pc = "divide" /\ pc' = "write" /\ UNCHANGED <<wire, rDiv, out, shown>>
      BY DEF Divided
<1>2. Words' /\ Dividing' /\ DivisionDone'
      BY DividedFact DEF Inv
<1>3. Converting /\ Converting'
      BY <1>1 DEF Converting
<1>4. Counting' /\ Spelled'
      BY <1>1, <1>3, StillCounting
<1>5. Texts'
      BY <1>1 DEF Texts
<1> QED BY <1>2, <1>4, <1>5 DEF Inv

(* The end of a round of tostring128.                                      *)
LEMMA WriteStep ==
    ASSUME Inv, Write
    PROVE  Inv'
<1>1. pc' \in {"text", "digit"}
      BY DEF Write
<1>2. Words' /\ Dividing' /\ DivisionDone' /\ Counting' /\ Spelled'
      BY WriteFact DEF Inv
<1>3. Texts'
      BY <1>1 DEF Texts
<1> QED BY <1>2, <1>3 DEF Inv

(* What the steps of the text share.                                       *)
LEMMA TextStep ==
    ASSUME Inv, UNCHANGED <<wire, rDiv, loop, out>>, pc \in {"text", "cleansed", "pointed"},
           pc' \in {"cleansed", "pointed", "done"}
    PROVE  /\ Words' /\ Dividing' /\ DivisionDone' /\ Counting' /\ Spelled'
           /\ Written' = Written /\ Amount' = Amount
<1>1. Words'
      BY DEF Inv, Words, loop
<1>2. Dividing' /\ DivisionDone'
      BY DEF Dividing, DivisionDone
<1>3. ~Converting /\ ~Converting'
      BY DEF Converting
<1>4. Counting' /\ Spelled'
      BY <1>3, StillCounting
<1> QED BY <1>1, <1>2, <1>4 DEF Written, Amount

(* The digits as qa_to_zil finds them.                                     *)
LEMMA WrittenFact ==
    ASSUME Inv, ~Converting
    PROVE  /\ Written \in Seq(Digits) /\ Len(Written) > 0 /\ (Len(Written) > 1 => Written[1] # "0")
           /\ NumberOf(Written) = Amount /\ Len(Written) = Len(out) /\ Len(Written) \in Nat
           /\ Len(Written) <= ZIL_UINT128_BUF_LEN - 3 /\ Len(Written) < ZIL_UINT128_BUF_LEN
           /\ ZIL_UINT128_BUF_LEN \in Nat
<1>1. out \in Seq(Digits) /\ Len(out) <= ZIL_UINT128_BUF_LEN - 3 /\ ZIL_UINT128_BUF_LEN \in Nat
      BY QaAssumption DEF Inv, Counting
<1>2. Written \in Seq(Digits) /\ Len(Written) = Len(out) /\ Len(Written) \in Nat
      BY <1>1, ReverseFact DEF Written
<1>3. /\ Len(Written) > 0 /\ (Len(Written) > 1 => Written[1] # "0")
      /\ NumberOf(Written) = Amount
      BY DEF Inv, Spelled
<1>4. Len(Written) < ZIL_UINT128_BUF_LEN
      BY <1>1, <1>2
<1> QED BY <1>1, <1>2, <1>3, <1>4

(* cleanse_input.                                                          *)
LEMMA CleanseStep ==
    ASSUME Inv, CleanseInput
    PROVE  Inv'
<1>1. pc = "text" /\ UNCHANGED <<wire, rDiv, loop, out>>
      BY DEF CleanseInput, Text
<1>2. FitsBuffer(out)
  <2>1. ~Converting
        BY <1>1 DEF Converting
  <2> QED BY <2>1, WrittenFact DEF FitsBuffer
<1>3. pc' = "cleansed" /\ shown' = Cleanse(Written)
      BY <1>2 DEF CleanseInput, Text
<1>4. Cleanse(Written) = Written
  <2>1. ~Converting
        BY <1>1 DEF Converting
  <2> QED BY <2>1, WrittenFact, CleanseFact
<1>5. /\ Words' /\ Dividing' /\ DivisionDone' /\ Counting' /\ Spelled'
      /\ Written' = Written /\ Amount' = Amount
      BY <1>1, <1>3, TextStep
<1>6. Texts'
      BY <1>3, <1>4, <1>5 DEF Texts
<1> QED BY <1>5, <1>6 DEF Inv

(* ToZil up to the zeros at the end.                                       *)
LEMMA ToZilStep ==
    ASSUME Inv, ToZil
    PROVE  Inv'
<1>1. pc = "cleansed" /\ UNCHANGED <<wire, rDiv, loop, out>>
      BY DEF ToZil, Text
<1>2. ~Converting /\ shown = Written
      BY <1>1 DEF Converting, Inv, Texts
<1>3. FitsBuffer(shown)
      BY <1>2, WrittenFact DEF FitsBuffer
<1>4. pc' = "pointed" /\ shown' = WithPoint(Written, AMOUNT_LEN)
      BY <1>2, <1>3 DEF ToZil, Text
<1>5. \E w, f \in Seq(Digits) : Places(shown', w, f, Amount)
      BY <1>2, <1>4, WrittenFact, WithPointFact
<1>6. /\ Words' /\ Dividing' /\ DivisionDone' /\ Counting' /\ Spelled'
      /\ Written' = Written /\ Amount' = Amount
      BY <1>1, <1>4, TextStep
<1>7. \E w, f \in Seq(Digits) : Places(shown', w, f, Amount')
      BY <1>5, <1>6
<1>8. Texts'
      BY <1>4, <1>7 DEF Texts, Places, NumberOf, Positional, DigitVal
<1> QED BY <1>6, <1>8 DEF Inv

(* remove_trailing_zeroes and the unit.                                    *)
LEMMA RemoveStep ==
    ASSUME Inv, RemoveZeros
    PROVE  Inv'
<1>1. pc = "pointed" /\ UNCHANGED <<wire, rDiv, loop, out>>
      BY DEF RemoveZeros, Text
<1>2. PICK w, f \in Seq(Digits) : Places(shown, w, f, Amount)
      BY <1>1 DEF Inv, Texts
<1>3. shown = Dotted(w, f) /\ FitsBuffer(shown)
      BY <1>2, DottedFact DEF Places, FitsBuffer
<1>4. pc' = "done" /\ shown' = Strlcat(StripZeros(shown), Unit, AMOUNT_LEN)
      BY <1>3 DEF RemoveZeros, Text, Unit
<1>5. PICK k \in 0 .. Len(f) : Stripped(StripZeros(shown), w, f, k)
      BY <1>3, StripFact
<1>6. Reads(shown', Amount)
      BY <1>2, <1>4, <1>5, ReadsFact
<1>7. /\ Words' /\ Dividing' /\ DivisionDone' /\ Counting' /\ Spelled'
      /\ Written' = Written /\ Amount' = Amount
      BY <1>1, <1>4, TextStep
<1>8. Reads(shown', Amount')
      BY <1>6, <1>7
<1>9. Texts'
      BY <1>4, <1>8 DEF Texts
<1> QED BY <1>7, <1>9 DEF Inv

(* The invariant holds throughout.                                         *)
LEMMA Invariance == Spec => []Inv
<1>1. Init => Inv
      BY InitFact
<1>2. Inv /\ [Next]_vars => Inv'
  <2> SUFFICES ASSUME Inv, [Next]_vars PROVE Inv'
      OBVIOUS
  <2>1. CASE UNCHANGED vars
    <3>1. UNCHANGED <<pc, wire, rDiv, copyd, adder, resDiv, resMod, out, shown>>
          BY <2>1 DEF vars, loop
    <3>2. Counting' /\ Spelled'
      <4>1. Converting <=> Converting'
            BY <3>1 DEF Converting
      <4> QED BY <3>1, <4>1, StillCounting
    <3>3. Words' /\ Dividing' /\ DivisionDone'
          BY <3>1 DEF Inv, Words, Dividing, DivisionDone, Shifting, Val
    <3>4. Written' = Written /\ Amount' = Amount
          BY <3>1 DEF Written, Amount
    <3>5. Texts'
          BY <3>1, <3>4 DEF Inv, Texts
    <3> QED BY <3>2, <3>3, <3>5 DEF Inv
  <2>2. CASE Digit        BY <2>2, DigitStep
  <2>3. CASE Divide       BY <2>3, DivideStep
  <2>4. CASE Divided      BY <2>4, DividedStep
  <2>5. CASE Write        BY <2>5, WriteStep
  <2>6. CASE CleanseInput BY <2>6, CleanseStep
  <2>7. CASE ToZil        BY <2>7, ToZilStep
  <2>8. CASE RemoveZeros  BY <2>8, RemoveStep
  <2> QED BY <2>1, <2>2, <2>3, <2>4, <2>5, <2>6, <2>7, <2>8 DEF Next
<1> QED BY <1>1, <1>2, PTL DEF Spec
-----------------------------------------------------------------------------
(* Numbers keep to two words, and every character written is a digit.      *)
THEOREM TypeCorrect == Spec => []TypeOK
<1>1. Inv => TypeOK
  <2> SUFFICES ASSUME Inv PROVE TypeOK
      OBVIOUS
  <2>1. out \in Seq(Digits)
        BY DEF Inv, Counting
  <2>2. DOMAIN out = 1 .. Len(out) /\ \A i \in 1 .. Len(out) : out[i] \in Digits
        BY <2>1, LenProperties, ElementOfSeq
  <2>3. ToSet(out) \subseteq Digits
        BY <2>2 DEF ToSet
  <2> QED BY <2>3 DEF Inv, Words, Texts, TypeOK
<1> QED BY <1>1, Invariance, PTL

(* divmod128: in every round of its loop quotient and rest give the        *)
(* dividend back, and one subtraction a round is enough.                   *)
THEOREM DivisionExact == Spec => []DivisionIsExact
<1>1. Inv => DivisionIsExact
  <2> SUFFICES ASSUME Inv, pc = "divide" PROVE DivisionIsExact
      BY DEF DivisionIsExact
  <2>1. Val(rDiv) = BASE * Val(resDiv) + Val(resMod)
        BY DEF Inv, Dividing
  <2>2. CASE Shifting
    <3>1. PICK k \in 0 .. 2 * W - 1, c \in Nat :
            /\ Val(adder) = Power(2, k) /\ Val(copyd) = Power(2, k) * BASE
            /\ Val(resMod) < 2 * Val(copyd)
          BY <2>2 DEF Shifting
    <3> DEFINE p == Power(2, k)
    <3>2. p \in Nat \ {0} /\ BASE \in Nat
      <4>1. k \in Nat
            BY WordFact
      <4> QED BY <4>1, Doubling, BaseFact
    <3> HIDE DEF p
    <3>3. p * BASE = BASE * p /\ p # 0
          BY <3>2
    <3> QED BY <2>1, <3>1, <3>3 DEF DivisionIsExact, p
  <2>3. CASE Val(adder) = 0 /\ Val(resMod) < BASE
        BY <2>1, <2>3 DEF DivisionIsExact
  <2> QED BY <2>2, <2>3 DEF Inv, Dividing
<1> QED BY <1>1, Invariance, PTL

(* tostring128 and qa_to_zil: no amount fails to be converted, for want of *)
(* room or at an assertion, and the buffer is as long as it has to be.     *)
THEOREM AmountsFit == Spec => []EveryAmountFits
<1>1. Inv => EveryAmountFits
  <2> SUFFICES ASSUME Inv PROVE EveryAmountFits
      OBVIOUS
  <2>1. out \in Seq(Digits) /\ Len(out) <= ZIL_UINT128_BUF_LEN - 3 /\ ZIL_UINT128_BUF_LEN \in Nat
        BY QaAssumption DEF Inv, Counting
  <2>2. Len(out) < ZIL_UINT128_BUF_LEN
    <3>1. Len(out) \in Nat
          BY <2>1, LenProperties
    <3> QED BY <2>1, <3>1
  <2> QED BY <2>2 DEF Inv, Texts, EveryAmountFits
<1> QED BY <1>1, Invariance, PTL

(* The text on the screen reads back as the amount that is signed, and is  *)
(* its only spelling.                                                      *)
THEOREM ShownSigned == Spec => []ShownIsSigned
<1>1. Inv => ShownIsSigned
      BY DEF Inv, Texts, Reads, ShownIsSigned
<1> QED BY <1>1, Invariance, PTL
=============================================================================
