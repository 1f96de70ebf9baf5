---------------------------- MODULE AmountDisplay ----------------------------
(***************************************************************************)
(* What the user sees of an amount or a gas price.  The 16 bytes of the    *)
(* transaction become a uint128_t, tostring128 writes its digits, dividing *)
(* by ten with the shift-and-subtract loop of divmod128, and qa_to_zil     *)
(* moves the decimal point.  One action is one round of a loop.            *)
(***************************************************************************)
EXTENDS Uint128, QaToZil

CONSTANTS
    BYTE,       \* bits in a byte: 8
    BASE        \* 10

(* A number of two words in figures, with "0." before and a '\0' after     *)
(* it, fits into the buffer (qatozil.h, 4), and so does 0.0...0 of a Zil.  *)
ASSUME DisplayAssumption ==
    /\ BYTE \in Nat \ {0} /\ W % BYTE = 0
    /\ BASE \in 2 .. 10 /\ BASE < Power(2, W)
    /\ QA_ZIL_SHIFT + 2 < ZIL_UINT128_BUF_LEN
    /\ Power(2, 2 * W) <= Power(BASE, ZIL_UINT128_BUF_LEN - 3)

VARIABLES
    pc,         \* where decode_amount_gasprice_callback is
    wire,       \* the bytes of the amount, most significant first
    rDiv,       \* what is left to convert
    copyd, adder, resDiv, resMod,   \* the locals of divmod128
    out,        \* digits written so far, the last digit first
    shown       \* ctx->amountStr

loop == <<copyd, adder, resDiv, resMod>>
vars == <<pc, wire, rDiv, loop, out, shown>>

WORD_BYTES == W \div BYTE
Wires == [1 .. 2 * WORD_BYTES -> 0 .. Power(2, BYTE) - 1]

HEXDIGITS == <<"0", "1", "2", "3", "4", "5", "6", "7", "8", "9", "a", "b", "c", "d", "e", "f">>

Ten == <<0, BASE>>

(* Each half is reversed by itself.                                        *)
Swapped(b) == [i \in DOMAIN b |->
    IF i <= WORD_BYTES THEN b[WORD_BYTES + 1 - i] ELSE b[3 * WORD_BYTES + 1 - i]]

(* A word in memory, least significant byte first.                         *)
WordAt(b, off) ==
    LET low[n \in 0 .. WORD_BYTES] ==      \* its n lowest bytes
            IF n = 0 THEN 0 ELSE low[n - 1] + b[off + n] * Power(2, BYTE * (n - 1))
    IN  low[WORD_BYTES]

(* The bytes seen as a uint128_t.                                          *)
Loaded(b) == <<WordAt(b, 0), WordAt(b, WORD_BYTES)>>

Init ==
    /\ pc = "digit"
    /\ wire \in Wires
    /\ rDiv = Loaded(Swapped(wire))
    /\ copyd = Zero /\ adder = Zero /\ resDiv = Zero /\ resMod = Zero
    /\ out = <<>> /\ shown = <<>>

(* How far the divisor is shifted to stand under the dividend.             *)
Aligned == Bits128(rDiv) - Bits128(Ten)

(* Mutant: room is kept for the zeros that are put before a small amount.  *)
RoomForDigit_Padded == Len(out) + QA_ZIL_SHIFT + 3 <= ZIL_UINT128_BUF_LEN

(* The room left for a digit; the terminating zero is not counted.         *)
RoomForDigit == Len(out) <= ZIL_UINT128_BUF_LEN - 1

(* A round of tostring128 up to the loop of divmod128.  With no room left  *)
(* it fails: "Error converting 128b unsigned to decimal".                  *)
Digit ==
    /\ pc = "digit"
    /\ IF ~RoomForDigit THEN pc' = "failed" /\ UNCHANGED loop
       ELSE /\ resDiv' = Zero /\ resMod' = rDiv
            /\ IF Gt128(Ten, rDiv)
                 THEN pc' = "write" /\ UNCHANGED <<copyd, adder>>
                 ELSE LET half == IF Gt128(Shiftl128(Ten, Aligned), rDiv) THEN 1 ELSE 0
                      IN  /\ pc' = "divide"
                          /\ copyd' = Shiftr128(Shiftl128(Ten, Aligned), half)
                          /\ adder' = Shiftr128(Shiftl128(One, Aligned), half)
    /\ UNCHANGED <<wire, rDiv, out, shown>>

(* A round of the loop of divmod128.                                       *)
Divide ==
    /\ pc = "divide" /\ Gte128(resMod, Ten)
    /\ IF Gte128(resMod, copyd)
         THEN resMod' = Minus128(resMod, copyd) /\ resDiv' = Or128(resDiv, adder)
         ELSE UNCHANGED <<resMod, resDiv>>
    /\ copyd' = Shiftr128(copyd, 1)
    /\ adder' = Shiftr128(adder, 1)
    /\ UNCHANGED <<pc, wire, rDiv, out, shown>>

Divided ==
    /\ pc = "divide" /\ ~Gte128(resMod, Ten)
    /\ pc' = "write"
    /\ UNCHANGED <<wire, rDiv, loop, out, shown>>

Write ==
    /\ pc = "write"
    /\ out' = Append(out, HEXDIGITS[resMod[2] + 1])
    /\ rDiv' = resDiv
    /\ pc' = IF resDiv = Zero THEN "text" ELSE "digit"
    /\ UNCHANGED <<wire, loop, shown>>

(* reverseString.                                                          *)
Written == Reverse(out)

(* sizeof(ctx->amountStr).                                                 *)
AMOUNT_LEN == ZIL_UINT128_BUF_LEN + 4

(* qa_to_zil: its cleaned copy of the digits, then the point, then what is *)
(* left without zeros at the end, with the unit; a failed assertion throws.*)
Text(step, asserted, next, text) ==
    /\ pc = step
    /\ IF asserted THEN pc' = next /\ shown' = text
                   ELSE pc' = "failed" /\ UNCHANGED shown
    /\ UNCHANGED <<wire, rDiv, loop, out>>

CleanseInput == Text("text", FitsBuffer(out), "cleansed", Cleanse(Written))

ToZil == Text("cleansed", FitsBuffer(shown), "pointed", WithPoint(shown, AMOUNT_LEN))

RemoveZeros == Text("pointed", FitsBuffer(shown), "done",
                    Strlcat(StripZeros(shown), <<" ", "Z", "I", "L">>, AMOUNT_LEN))

Next == Digit \/ Divide \/ Divided \/ Write \/ CleanseInput \/ ToZil \/ RemoveZeros

Spec == Init /\ [][Next]_vars /\ WF_vars(Next)

-----------------------------------------------------------------------------
(* The amount that the wire format means: one big-endian number.           *)
Amount == Positional(wire, Power(2, BYTE))

DigitVal(c) == (CHOOSE i \in 1 .. 16 : HEXDIGITS[i] = c) - 1

NumberOf(s) == Positional([i \in DOMAIN s |-> DigitVal(s[i])], BASE)

(* The pairs keep to their words, and every character written is a digit.  *)
TypeOK ==
    /\ pc \in {"digit", "divide", "write", "text", "cleansed", "pointed", "done", "failed"}
    /\ {rDiv, copyd, adder, resDiv, resMod} \subseteq U128
    /\ ToSet(out) \subseteq Digits

(* The shift-and-subtract loop never loses a unit: quotient and rest give  *)
(* the dividend back, the shifted divisor keeps pace with the quotient bit *)
(* it stands for, and the rest is below twice the divisor, so that one     *)
(* subtraction a round is enough.                                          *)
DivisionIsExact ==
    pc = "divide" =>
        /\ Val(rDiv) = BASE * Val(resDiv) + Val(resMod)
        /\ Val(adder) > 0 => Val(copyd) = BASE * Val(adder) /\ Val(resMod) < 2 * Val(copyd)
        /\ Val(adder) = 0 => Val(resMod) < BASE

(* Digits and '\0' fit their buffer and no conversion fails: 42 bytes are  *)
(* enough for every amount (qatozil.h, 4).                                 *)
EveryAmountFits == pc # "failed" /\ Len(out) < ZIL_UINT128_BUF_LEN

(* The text on the screen reads back as exactly the amount that is signed, *)
(* and is its only spelling: a digit before the point, no zero at the end  *)
(* after it, no leading zero, and the unit.                                *)
ShownIsSigned ==
    pc = "done" =>
        LET n     == Len(shown) - 4
            point == SelectInSeq(shown, LAMBDA c : c = ".")
            whole == SubSeq(shown, 1, IF point > 0 THEN point - 1 ELSE n)
            frac  == IF point > 0 THEN SubSeq(shown, point + 1, n) ELSE <<>>
        IN  /\ SubSeq(shown, n + 1, Len(shown)) = <<" ", "Z", "I", "L">>
            /\ ToSet(whole \o frac) \subseteq Digits
            /\ NumberOf(whole \o frac \o Zeros(QA_ZIL_SHIFT - Len(frac))) = Amount
            /\ whole # <<>> /\ (Len(whole) > 1 => whole[1] # "0")
            /\ point > 0 => frac # <<>> /\ Last(frac) # "0" /\ Len(frac) <= QA_ZIL_SHIFT

(* The loops end: every amount comes to be shown.                          *)
EveryAmountIsShown == <>(pc = "done")
=============================================================================
