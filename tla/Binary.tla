------------------------------- MODULE Binary -------------------------------
(***************************************************************************)
(* Powers, and numbers as words of bits: what <<, >>, & and | of C do to   *)
(* them.                                                                   *)
(***************************************************************************)
EXTENDS Integers, Sequences

(* b to the power of n.                                                    *)
Power(b, n) ==
    LET power[i \in 0 .. n] == IF i = 0 THEN 1 ELSE b * power[i - 1]
    IN  power[n]

(* Bit i of a number.                                                      *)
Bit(x, i) == (x \div Power(2, i)) % 2

(* a | b for words of w bits.                                              *)
BitOr(a, b, w) ==
    LET or[i \in 0 .. w] ==
            IF i = 0 THEN 0
            ELSE or[i - 1] + (IF Bit(a, i - 1) + Bit(b, i - 1) > 0 THEN Power(2, i - 1) ELSE 0)
    IN  or[w]

(* The number that a sequence of figures writes, the highest one first.    *)
Positional(s, base) ==
    LET first[n \in 0 .. Len(s)] == IF n = 0 THEN 0 ELSE first[n - 1] * base + s[n]
    IN  first[Len(s)]
=============================================================================
