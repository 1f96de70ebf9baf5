---------------------------- MODULE VarintProofs ----------------------------
(***************************************************************************)
(* Proofs about Varint, for all widths of bytes, words and bitpos and      *)
(* encodings of every length.                                              *)
(***************************************************************************)
EXTENDS Varint, Arithmetic

(* The bytes that fit into each word.                                      *)
N32 == W \div G
N64 == L \div G

(* What has been read, and its number.                                     *)
Counted ==
    /\ target \in {"varint32", "uint32", "uint64"}
    /\ n \in Nat /\ exact \in Nat /\ exact < Power(2, G * n)

(* A tag or length, as long as its bytes are within the word.              *)
Short ==
    target = "varint32" =>
        /\ pc = "read" /\ n <= N32 => bitpos = G * n /\ result = exact
        /\ pc = "ok" /\ n <= N32 + 1 => result = exact
        /\ pc = "error" /\ n <= N32 + 1 => exact >= Power(2, W)

(* An integer of the transaction.                                          *)
Long ==
    target # "varint32" =>
        /\ n <= N64 + 1 /\ bitpos = G * n
        /\ result = exact % Power(2, L)
        /\ pc = "ok" /\ target = "uint32" => result < Power(2, W)

IInv == Counted /\ Short /\ Long

-----------------------------------------------------------------------------
(* Where the bytes of a word lie in it.                                    *)
LEMMA Widths ==
    /\ G \in Nat \ {0} /\ W \in Nat /\ L \in Nat /\ P \in Nat /\ W < L
    /\ N32 \in Nat /\ G * N32 < W /\ W < G * N32 + G /\ LastPos = G * N32
    /\ N64 \in Nat /\ L = G * N64 + 1
    /\ Power(2, P) \in Nat /\ L + G <= Power(2, P)
<1>1. /\ G \in Nat \ {0} /\ W \in Nat /\ L \in Nat /\ P \in Nat /\ W < L
      /\ W % G # 0 /\ L % G = 1 /\ L + G <= Power(2, P)
      BY VarintAssumption
<1>2. N32 \in Nat /\ W % G \in 0 .. G - 1 /\ W = G * N32 + (W % G)
      BY <1>1, DivFact DEF N32
<1>3. N64 \in Nat /\ L = G * N64 + 1
      BY <1>1, DivFact DEF N64
<1>4. LastPos = G * N32
      BY <1>1, <1>2 DEF LastPos, N32
<1>5. G * N32 \in Nat
      BY <1>1, <1>2
<1>6. Power(2, P) \in Nat
      BY <1>1, Doubling
<1> QED BY <1>1, <1>2, <1>3, <1>4, <1>5, <1>6

(* The payload of a byte.                                                  *)
LEMMA PayloadFact ==
    ASSUME NEW byte \in Bytes
    PROVE  Payload(byte) \in Nat /\ Payload(byte) < Power(2, G)
<1>1. G \in Nat /\ G + 1 \in Nat
      BY Widths
<1>2. Power(2, G) \in Nat \ {0} /\ Power(2, G + 1) \in Nat
      BY <1>1, Doubling
<1>3. byte \in Nat
      BY <1>2 DEF Bytes
<1>4. byte % Power(2, G) \in 0 .. Power(2, G) - 1
      BY <1>2, <1>3, DivFact
<1> QED BY SMTT(30), <1>2, <1>4 DEF Payload

(* One byte more: where it lies, and what it does to the number.           *)
LEMMA ByteFact ==
    ASSUME IInv, NEW byte \in Bytes, Reads(byte)
    PROVE  LET k == G * n
               x == Power(2, k) * Payload(byte)
           IN  /\ n' = n + 1 /\ target' = target /\ pc = "read"
               /\ k \in Nat /\ G * n' = k + G
               /\ x \in Nat /\ Payload(byte) * Power(2, k) = x
               /\ exact' = exact + x /\ Counted'
<1> DEFINE k == G * n
           c == Payload(byte)
           x == Power(2, k) * c
<1>1. G \in Nat /\ n \in Nat /\ exact \in Nat /\ exact < Power(2, k)
      BY Widths DEF IInv, Counted
<1>2. k \in Nat /\ G * (n + 1) = k + G
      BY <1>1
<1>3. c \in Nat /\ c < Power(2, G)
      BY PayloadFact
<1>4. n' = n + 1 /\ target' = target /\ pc = "read" /\ exact' = exact + c * Power(2, k)
      BY DEF Reads
<1> HIDE DEF k, c
<1>5. x \in Nat /\ c * Power(2, k) = x /\ exact + x < Power(2, k + G)
      BY <1>1, <1>2, <1>3, Stacked
<1>6. exact' = exact + x
      BY <1>4, <1>5
<1>7. Counted'
  <2>1. n' \in Nat /\ exact' \in Nat /\ target' \in {"varint32", "uint32", "uint64"}
        BY <1>1, <1>4, <1>5, <1>6 DEF IInv, Counted
  <2>2. exact' < Power(2, G * n')
        BY <1>2, <1>4, <1>5, <1>6
  <2> QED BY <2>1, <2>2 DEF Counted
<1> QED BY <1>2, <1>4, <1>5, <1>6, <1>7 DEF k, c

(* A byte that lies within a word is added to it.                          *)
LEMMA Within ==
    ASSUME NEW e \in Nat, NEW k \in Nat, NEW c \in Nat, NEW w \in Nat, w <= L,
           e < Power(2, k), Power(2, k) * c < Power(2, w), k <= w
    PROVE  Or(e, (Power(2, k) * c) % Power(2, w)) = e + Power(2, k) * c
<1> DEFINE x == Power(2, k) * c
<1>1. x \in Nat
      BY Doubling
<1>2. x % Power(2, w) = x
  <2>1. x < Power(2, w)
        OBVIOUS
  <2> HIDE DEF x
  <2> QED BY <1>1, <2>1, NoHighBits
<1>3. L \in Nat /\ Power(2, w) <= Power(2, L) /\ Power(2, k) <= Power(2, L)
  <2>1. L \in Nat /\ k <= L
        BY Widths
  <2> QED BY <2>1, PowerGrows
<1>4. /\ Power(2, k) \in Nat /\ Power(2, w) \in Nat /\ Power(2, L) \in Nat
      BY <1>3, Doubling
<1>5. e < Power(2, L) /\ Power(2, k) * c < Power(2, L)
  <2>1. x < Power(2, w)
        OBVIOUS
  <2> HIDE DEF x
  <2>2. e < Power(2, L) /\ x < Power(2, L)
        BY <1>1, <1>3, <1>4, <2>1
  <2> QED BY <2>2 DEF x
<1>6. BitOr(e, Power(2, k) * c, L) = e + Power(2, k) * c
      BY <1>3, <1>5, BitOrDisjoint
<1> QED BY <1>2, <1>6 DEF Or

-----------------------------------------------------------------------------
LEMMA InitIInv == Init => IInv
<1> SUFFICES ASSUME Init PROVE IInv
    OBVIOUS
<1>1. G \in Nat /\ G * 0 = 0 /\ Power(2, 0) = 1 /\ N32 \in Nat /\ N64 \in Nat /\ L \in Nat
      BY Widths, Doubling
<1>2. 0 % Power(2, L) = 0
  <2>1. 0 < Power(2, L)
        BY <1>1, Doubling
  <2> QED BY <1>1, <2>1, NoHighBits
<1> QED BY <1>1, <1>2 DEF Init, IInv, Counted, Short, Long

(* pb_decode_varint32_eof.                                                 *)
LEMMA NextByte32 ==
    ASSUME IInv, NEW byte \in Bytes, Byte32(byte)
    PROVE  IInv'
<1> DEFINE k == G * n
           c == Payload(byte)
           x == Power(2, k) * c
<1>1. target = "varint32" /\ Reads(byte)
      BY DEF Byte32
<1>2. /\ n' = n + 1 /\ target' = target /\ pc = "read"
      /\ k \in Nat /\ G * n' = k + G
      /\ x \in Nat /\ c * Power(2, k) = x
      /\ exact' = exact + x /\ Counted'
      BY <1>1, ByteFact
<1>3. /\ G \in Nat \ {0} /\ W \in Nat /\ L \in Nat /\ W < L
      /\ N32 \in Nat /\ G * N32 < W /\ W < G * N32 + G /\ LastPos = G * N32
      /\ Power(2, P) \in Nat /\ L + G <= Power(2, P)
      BY Widths
<1>4. n \in Nat /\ exact \in Nat /\ exact < Power(2, k)
      BY DEF IInv, Counted
<1>5. c \in Nat /\ c < Power(2, G)
      BY PayloadFact
<1>6. Long'
      BY <1>1, <1>2 DEF Long
<1>7. Short'
  <2>1. CASE n > N32
        BY <1>2, <1>3, <1>4, <2>1 DEF Short
  <2> SUFFICES ASSUME n <= N32 PROVE Short'
      BY <1>3, <1>4, <2>1
  <2>2. bitpos = k /\ result = exact
        BY <1>1, <1>2 DEF IInv, Short
  <2>3. k <= G * N32 /\ k < W
        BY <1>3, <1>4
  <2>4. /\ result' = Or(exact, (c * Power(2, k)) % Power(2, W))
        /\ bitpos' = (k + G) % Power(2, P)
        /\ pc' = IF More(byte) THEN "read" ELSE IF LastTooBig(byte) THEN "error" ELSE "ok"
    <3>1. ~(bitpos >= W)
          BY <1>2, <1>3, <2>2, <2>3
    <3> QED BY <3>1, <2>2 DEF Byte32, Shifted, Advanced
  <2>5. x < Power(2, W) => result' = exact'
    <3> HAVE x < Power(2, W)
    <3>1. Or(exact, x % Power(2, W)) = exact + x
          BY <1>2, <1>3, <1>4, <1>5, <2>3, Within
    <3> QED BY <1>2, <2>4, <3>1
  <2>6. CASE n < N32
    <3>1. k + G <= G * N32
      <4>1. n + 1 <= N32
            BY <1>3, <1>4, <2>6
      <4>2. G * (n + 1) <= G * N32
            BY <1>3, <1>4, <4>1
      <4> QED BY <1>2, <4>2
    <3>2. k + G <= W /\ k + G < Power(2, P) /\ k + G \in Nat
          BY <1>2, <1>3, <3>1
    <3>3. bitpos' = G * n'
      <4>1. k + G \in 0 .. Power(2, P) - 1
            BY <1>3, <3>2
      <4>2. (k + G) % Power(2, P) = k + G
            BY <1>3, <4>1
      <4> QED BY <1>2, <2>4, <4>2
    <3>4. x < Power(2, W)
      <4>1. exact + x < Power(2, k + G)
            BY <1>2, <1>3, <1>4, <1>5, Stacked
      <4>2. Power(2, k + G) <= Power(2, W)
            BY <1>3, <3>2, PowerGrows
      <4>3. Power(2, k + G) \in Nat /\ Power(2, W) \in Nat
            BY <1>3, <3>2, Doubling
      <4> QED BY <1>2, <1>4, <4>1, <4>2, <4>3
    <3>5. ~LastTooBig(byte)
      <4>1. k # G * N32
            BY <1>2, <1>3, <3>1
      <4> QED BY <1>3, <2>2, <4>1 DEF LastTooBig
    <3> QED BY <1>1, <1>2, <2>4, <2>5, <3>3, <3>4, <3>5 DEF Short
  <2>7. CASE n = N32
    <3>1. k = LastPos /\ W - k \in Nat /\ k + (W - k) = W
          BY <1>2, <1>3, <2>3, <2>7
    <3>2. Power(2, W) = Power(2, k) * Power(2, W - k)
          BY <1>2, <3>1, PowerSum
    <3>3. Power(2, k) \in Nat /\ Power(2, W - k) \in Nat /\ Power(2, W) \in Nat
          BY <1>2, <1>3, <3>1, Doubling
    <3>4. CASE LastTooBig(byte)
      <4>1. c >= Power(2, W - k)
            BY <2>2, <3>1, <3>4 DEF LastTooBig
      <4>2. x >= Power(2, W)
            BY <1>5, <3>2, <3>3, <4>1
      <4>3. exact' >= Power(2, W)
            BY <1>2, <1>4, <3>3, <4>2
      <4> QED BY <1>1, <1>2, <1>3, <2>4, <2>7, <3>4, <4>3 DEF Short
    <3>5. CASE ~LastTooBig(byte)
      <4>1. c < Power(2, W - k)
            BY <1>5, <2>2, <3>1, <3>3, <3>5 DEF LastTooBig
      <4>2. exact + x < Power(2, W)
            BY <1>2, <1>4, <1>5, <3>1, <4>1, Stacked
      <4>3. result' = exact'
            BY <1>2, <1>4, <2>5, <3>3, <4>2
      <4> QED BY <1>1, <1>2, <1>3, <2>4, <2>7, <3>5, <4>3 DEF Short
    <3> QED BY <3>4, <3>5
  <2> QED BY <1>3, <1>4, <2>6, <2>7
<1> QED BY <1>2, <1>6, <1>7 DEF IInv

(* pb_decode_varint and pb_dec_uvarint.                                    *)
LEMMA NextByte64 ==
    ASSUME IInv, NEW byte \in Bytes, Byte64(byte)
    PROVE  IInv'
<1> DEFINE k == G * n
           c == Payload(byte)
           x == Power(2, k) * c
<1>1. target # "varint32" /\ ~TooLong /\ Reads(byte)
      BY DEF Byte64
<1>2. /\ n' = n + 1 /\ target' = target /\ pc = "read"
      /\ k \in Nat /\ G * n' = k + G
      /\ x \in Nat /\ c * Power(2, k) = x
      /\ exact' = exact + x /\ Counted'
      BY <1>1, ByteFact
<1>3. /\ G \in Nat \ {0} /\ W \in Nat /\ L \in Nat /\ W < L
      /\ N64 \in Nat /\ L = G * N64 + 1
      /\ Power(2, P) \in Nat /\ L + G <= Power(2, P)
      BY Widths
<1>4. n \in Nat /\ exact \in Nat /\ exact < Power(2, k)
      BY DEF IInv, Counted
<1>5. c \in Nat /\ c < Power(2, G)
      BY PayloadFact
<1>6. bitpos = k /\ result = exact % Power(2, L)
      BY <1>1 DEF IInv, Long
<1>7. k < L /\ n <= N64
  <2>1. k < L
        BY <1>1, <1>2, <1>3, <1>6 DEF TooLong
  <2>2. n <= N64
    <3> SUFFICES ASSUME n >= N64 + 1 PROVE FALSE
        BY <1>3, <1>4
    <3>1. G * n >= G * (N64 + 1) /\ G * (N64 + 1) = G * N64 + G
          BY <1>3, <1>4
    <3> QED BY <1>2, <1>3, <2>1, <3>1
  <2> QED BY <2>1, <2>2
<1>8. result = exact
  <2>1. k <= L
        BY <1>2, <1>3, <1>7
  <2>2. exact % Power(2, L) = exact
        BY <1>2, <1>3, <1>4, <2>1, NoHighBits
  <2> QED BY <1>6, <2>2
<1>9. bitpos' = G * n'
  <2>1. bitpos' = (k + G) % Power(2, P)
        BY <1>6 DEF Byte64, Advanced
  <2>2. k + G \in 0 .. Power(2, P) - 1
        BY <1>2, <1>3, <1>7
  <2>3. (k + G) % Power(2, P) = k + G
        BY <1>3, <2>2
  <2> QED BY <1>2, <2>1, <2>3
<1>10. /\ result' = Or(exact, x % Power(2, L))
       /\ pc' = IF More(byte) THEN "read" ELSE IF TooLarge(result') THEN "error" ELSE "ok"
      BY <1>2, <1>6, <1>8 DEF Byte64, Shifted
<1>11. result' = exact' % Power(2, L)
  <2>1. CASE n < N64
    <3>1. k + G <= L
      <4>1. n + 1 <= N64
            BY <1>3, <1>4, <2>1
      <4>2. G * (n + 1) <= G * N64
            BY <1>3, <1>4, <4>1
      <4> QED BY <1>2, <1>3, <4>2
    <3>2. exact + x < Power(2, k + G)
          BY <1>2, <1>3, <1>4, <1>5, Stacked
    <3>3. /\ Power(2, k + G) <= Power(2, L) /\ Power(2, k + G) \in Nat /\ Power(2, L) \in Nat
      <4>1. k + G \in Nat
            BY <1>2, <1>3
      <4> QED BY <1>3, <3>1, <4>1, PowerGrows, Doubling
    <3>4. x < Power(2, L) /\ exact' < Power(2, L) /\ exact' \in Nat
          BY <1>2, <1>4, <3>2, <3>3
    <3>5. exact' % Power(2, L) = exact'
          BY <1>3, <3>4, NoHighBits
    <3>6. Or(exact, x % Power(2, L)) = exact + x
          BY <1>2, <1>3, <1>4, <1>5, <1>7, <3>4, Within
    <3> QED BY <1>2, <1>10, <3>5, <3>6
  <2>2. CASE n = N64
    <3> DEFINE b == c % 2
               h == c \div 2
    <3>1. k + 1 = L
          BY <1>2, <1>3, <2>2
    <3>2. b \in {0, 1} /\ h \in Nat /\ c = 2 * h + b
      <4>1. b \in 0 .. 1 /\ h \in Nat /\ c = 2 * h + b
            BY <1>5, DivFact
      <4> QED BY <4>1
    <3> HIDE DEF b, h
    <3>3. Power(2, k) \in Nat \ {0} /\ Power(2, L) = 2 * Power(2, k) /\ Power(2, 1) = 2
          BY <1>2, <3>1, Doubling
    <3>4. x = Power(2, L) * h + Power(2, k) * b
          BY <1>5, <3>2, <3>3
    <3>5. exact + Power(2, k) * b < Power(2, L) /\ Power(2, k) * b \in Nat
      <4>1. b \in Nat /\ b < Power(2, 1) /\ 1 \in Nat
            BY <3>2, <3>3
      <4> QED BY <1>2, <1>4, <3>1, <4>1, Stacked
    <3>6. Power(2, L) \in Nat \ {0}
          BY <3>3
    <3>7. x % Power(2, L) = Power(2, k) * b
      <4>1. Power(2, k) * b \in 0 .. Power(2, L) - 1
            BY <1>4, <3>5, <3>6
      <4> QED BY <3>2, <3>4, <3>6, <4>1, DivUnique
    <3>8. (exact + x) % Power(2, L) = exact + Power(2, k) * b
      <4>1. exact + Power(2, k) * b \in 0 .. Power(2, L) - 1
            BY <1>4, <3>5, <3>6
      <4>2. (Power(2, L) * h + (exact + Power(2, k) * b)) % Power(2, L) = exact + Power(2, k) * b
            BY <3>2, <3>6, <4>1, DivUnique
      <4>3. Power(2, L) * h \in Nat
            BY <3>2, <3>6
      <4>4. exact + x = Power(2, L) * h + (exact + Power(2, k) * b)
            BY <1>4, <3>4, <3>5, <4>3
      <4> QED BY <4>2, <4>4
    <3>9. Or(exact, (Power(2, k) * b) % Power(2, L)) = exact + Power(2, k) * b
      <4>1. Power(2, k) * b < Power(2, L) /\ b \in Nat /\ L <= L /\ k <= L
            BY <1>3, <1>4, <1>7, <1>2, <3>2, <3>5, <3>6
      <4> QED BY <1>2, <1>3, <1>4, <4>1, Within
    <3>10. (Power(2, k) * b) % Power(2, L) = Power(2, k) * b
      <4>1. Power(2, k) * b < Power(2, L)
            BY <1>4, <3>5, <3>6
      <4> QED BY <1>3, <3>5, <4>1, NoHighBits
    <3> QED BY <1>2, <1>10, <3>7, <3>8, <3>9, <3>10
  <2> QED BY <1>3, <1>4, <1>7, <2>1, <2>2
<1>12. pc' = "ok" /\ target' = "uint32" => result' < Power(2, W)
  <2> HAVE pc' = "ok" /\ target' = "uint32"
  <2>1. result' = result' % Power(2, W)
        BY <1>2, <1>10 DEF TooLarge
  <2>2. Power(2, W) \in Nat \ {0} /\ Power(2, L) \in Nat \ {0}
        BY <1>3, Doubling
  <2>3. exact' \in Nat
        BY <1>2, <1>4
  <2>4. result' \in Nat
        BY <1>11, <2>2, <2>3
  <2> QED BY <2>1, <2>2, <2>4
<1>13. Long'
      BY <1>2, <1>3, <1>4, <1>7, <1>9, <1>11, <1>12 DEF Long
<1>14. Short'
      BY <1>1, <1>2 DEF Short
<1> QED BY <1>2, <1>13, <1>14 DEF IInv

LEMMA NextIInv == ASSUME IInv, [Next]_vars PROVE IInv'
<1>1. ASSUME NEW byte \in Bytes, Byte32(byte) PROVE IInv'
      BY <1>1, NextByte32
<1>2. ASSUME NEW byte \in Bytes, Byte64(byte) PROVE IInv'
      BY <1>2, NextByte64
<1>3. CASE Overlong
      BY <1>3 DEF Overlong, IInv, Counted, Short, Long
<1>4. CASE EndOfStream
      BY <1>4 DEF EndOfStream, IInv, Counted, Short, Long
<1>5. CASE UNCHANGED vars
      BY <1>5 DEF vars, IInv, Counted, Short, Long
<1> QED BY <1>1, <1>2, <1>3, <1>4, <1>5 DEF Next

-----------------------------------------------------------------------------
(* The word is the number the bytes say as long as they are within it.     *)
THEOREM Decoded == Spec => []IInv
<1>1. Init => IInv
      BY InitIInv
<1>2. IInv /\ [Next]_vars => IInv'
      BY NextIInv
<1> QED BY <1>1, <1>2, PTL DEF Spec

(* A tag or length of no more bytes than its word needs is what its bytes  *)
(* say, or it is refused because that is too large                         *)
(* (pb_decode_varint32_eof).                                               *)
THEOREM ShortExact == Spec => []ShortIsExact
<1>1. IInv => ShortIsExact
      BY DEF IInv, Short, ShortIsExact, N32
<1> QED BY <1>1, Decoded, PTL

(* An integer is what its bytes say, as far as the long word goes, and     *)
(* fits its field (pb_decode_varint, pb_dec_uvarint).                      *)
THEOREM LongExact == Spec => []LongIsExact
<1>1. IInv => LongIsExact
  <2> SUFFICES ASSUME IInv, target # "varint32", pc = "ok"
               PROVE  /\ result = exact % Power(2, L)
                      /\ target = "uint32" /\ exact < Power(2, L) => exact < Power(2, W)
      BY DEF LongIsExact
  <2>1. result = exact % Power(2, L) /\ (target = "uint32" => result < Power(2, W))
        BY DEF IInv, Long
  <2>2. exact \in Nat /\ L \in Nat
        BY Widths DEF IInv, Counted
  <2>3. exact < Power(2, L) => exact % Power(2, L) = exact
        BY <2>2, NoHighBits
  <2> QED BY <2>1, <2>3
<1> QED BY <1>1, Decoded, PTL

(* No integer takes more bytes than the long word (pb_decode_varint).      *)
THEOREM LongIsBounded == Spec => []LongEnds
<1>1. IInv => LongEnds
      BY DEF IInv, Long, LongEnds, N64
<1> QED BY <1>1, Decoded, PTL
=============================================================================
