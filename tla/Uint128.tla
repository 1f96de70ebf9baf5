------------------------------- MODULE Uint128 -------------------------------
(***************************************************************************)
(* The 128-bit unsigned numbers of uint256.c, as far as the app uses them: *)
(* pairs of words <<upper, lower>>, elements[0] and elements[1].           *)
(***************************************************************************)
EXTENDS Binary

CONSTANT W     \* bits in a word: 64 in the code

ASSUME WordAssumption == W \in Nat \ {0, 1}

Word == 0 .. Power(2, W) - 1
U128 == Word \X Word

(* The number that a pair stands for.                                      *)
Val(x) == x[1] * Power(2, W) + x[2]

Zero == <<0, 0>>
One  == <<0, 1>>

(* Arithmetic of a word wraps.                                             *)
Wrap(n) == n % Power(2, W)

Shiftl128(x, v) ==
    IF v >= 2 * W THEN Zero
    ELSE IF v >= W THEN <<Wrap(x[2] * Power(2, v - W)), 0>>
    ELSE <<Wrap(Wrap(x[1] * Power(2, v)) + x[2] \div Power(2, W - v)), Wrap(x[2] * Power(2, v))>>

(* Mutant: the bit that leaves the upper word is lost.                     *)
Shiftr128_NoCarry(x, v) == <<x[1] \div Power(2, v), x[2] \div Power(2, v)>>

Shiftr128(x, v) ==
    IF v >= 2 * W THEN Zero
    ELSE IF v >= W THEN <<0, x[1] \div Power(2, v - W)>>
    ELSE <<x[1] \div Power(2, v), Wrap(Wrap(x[1] * Power(2, W - v)) + x[2] \div Power(2, v))>>

(* The bits of a word without its leading zeros.                           *)
BitLength(w) == CHOOSE n \in 0 .. W : w < Power(2, n) /\ (n > 0 => w >= Power(2, n - 1))

Bits128(x) == IF x[1] # 0 THEN W + BitLength(x[1]) ELSE BitLength(x[2])

Gt128(x, y) == IF x[1] = y[1] THEN x[2] > y[2] ELSE x[1] > y[1]

Gte128(x, y) == Gt128(x, y) \/ x = y

(* Mutant: the words are signed.                                           *)
Minus128_Signed(x, y) == <<x[1] - y[1], x[2] - y[2]>>

(* Mutant: the borrow of the lower word is forgotten.                      *)
Minus128_NoBorrow(x, y) == <<Wrap(x[1] - y[1]), Wrap(x[2] - y[2])>>

Minus128(x, y) ==
    LET low == Wrap(x[2] - y[2])
    IN  <<Wrap(x[1] - y[1] - (IF low > x[2] THEN 1 ELSE 0)), low>>

Or128(x, y) == <<BitOr(x[1], y[1], W), BitOr(x[2], y[2], W)>>
=============================================================================
