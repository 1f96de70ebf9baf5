------------------------------- MODULE Varint -------------------------------
(***************************************************************************)
(* The varints of nanopb, byte by byte: pb_decode_varint32_eof, which reads *)
(* tags and lengths, and pb_decode_varint with pb_dec_uvarint, which read  *)
(* the integers of a transaction.  The widths are parameters: seven bits to *)
(* a byte, words of 32 and 64 bits.                                        *)
(***************************************************************************)
EXTENDS Binary

CONSTANTS
    G,          \* payload bits of a byte: 7
    W,          \* bits of the short word: 32
    L,          \* bits of the long word: 64
    P,          \* bits of bitpos, a uint_fast8_t: 8, or those of a wider word
    MAX_BYTES   \* bound: bytes of an encoding

(* A long word has one bit in its last byte, as 64 bits in tens of seven;  *)
(* and bitpos does not wrap before its end.                                *)
ASSUME VarintAssumption ==
    /\ G \in Nat \ {0} /\ W \in Nat /\ L \in Nat
    /\ G < W /\ W % G # 0 /\ W < L /\ L % G = 1
    /\ P \in Nat /\ L + G <= Power(2, P)
    /\ MAX_BYTES \in Nat

VARIABLES
    pc,         \* "read", and how the decoding ended
    target,     \* what is decoded
    bitpos,     \* where the next byte goes
    result,     \* the word so far
    last,       \* the last byte
    n,          \* history: bytes read
    exact       \* history: the number they say, whatever its size

vars == <<pc, target, bitpos, result, last, n, exact>>

(* Of a byte, bit G says that more follow.                                 *)
Bytes == 0 .. Power(2, G + 1) - 1
More(byte) == byte >= Power(2, G)
Payload(byte) == byte % Power(2, G)

Init ==
    /\ pc = "read"
    /\ target \in {"varint32", "uint32", "uint64"}
    /\ bitpos = 0 /\ result = 0 /\ last = 0
    /\ n = 0 /\ exact = 0

(* The first bit position of the byte that crosses the end of the word.    *)
LastPos == (W \div G) * G

(* (uintN_t) (byte & 0x7F) << bitpos                                       *)
Shifted(byte, width) == (Payload(byte) * Power(2, bitpos)) % Power(2, width)

(* result |= ...: once bitpos has wrapped, bits fall on bits.              *)
Or(a, b) == BitOr(a, b, L)

Advanced == (bitpos + G) % Power(2, P)

Reads(byte) ==
    /\ pc = "read" /\ n < MAX_BYTES
    /\ n' = n + 1 /\ last' = byte
    /\ exact' = exact + Payload(byte) * Power(2, G * n)
    /\ UNCHANGED target

(* After the first byte the end of a long word: sign extension of a        *)
(* negative number, 0xFF up to the last byte of the long word.             *)
SignExtension == IF bitpos < L - 1 THEN Power(2, G + 1) - 1 ELSE 1

Overflows(byte) ==
    Payload(byte) # 0 /\ (result < Power(2, W - 1) \/ byte # SignExtension)

(* Mutant: nobody looks at the bits that do not fit.                       *)
LastTooBig_Never(byte) == FALSE

(* The last byte was at bitpos 28, so that only its bottom bits fit.       *)
LastTooBig(byte) ==
    bitpos = LastPos /\ Payload(byte) >= Power(2, W - LastPos)

Byte32(byte) ==
    /\ target = "varint32" /\ Reads(byte)
    /\ result' = IF bitpos >= W THEN result ELSE Or(result, Shifted(byte, W))
    /\ bitpos' = Advanced
    /\ pc' = IF bitpos >= W /\ Overflows(byte) THEN "error"
             ELSE IF More(byte) THEN "read"
             ELSE IF LastTooBig(byte) THEN "error" ELSE "ok"

(* Mutant: the check comes a byte late.                                    *)
TooLong_Late == bitpos >= L + G

TooLong == bitpos >= L

(* Mutant: the value is cut to the size of the field.                      *)
TooLarge_Never(value) == FALSE

(* pb_dec_uvarint: the value must survive the cast to the field's size.    *)
TooLarge(value) == target = "uint32" /\ value # value % Power(2, W)

(* pb_decode_varint refuses before it reads a byte that goes beyond.       *)
Overlong ==
    /\ target # "varint32" /\ pc = "read" /\ TooLong
    /\ pc' = "error"
    /\ UNCHANGED <<target, bitpos, result, last, n, exact>>

Byte64(byte) ==
    /\ target # "varint32" /\ ~TooLong /\ Reads(byte)
    /\ result' = Or(result, Shifted(byte, L))
    /\ bitpos' = Advanced
    /\ pc' = IF More(byte) THEN "read" ELSE IF TooLarge(result') THEN "error" ELSE "ok"

(* The bytes of the stream end before the varint does.                     *)
EndOfStream ==
    /\ pc = "read" /\ ~(target # "varint32" /\ TooLong)
    /\ pc' = "eof"
    /\ UNCHANGED <<target, bitpos, result, last, n, exact>>

Next ==
    \/ \E byte \in Bytes : Byte32(byte) \/ Byte64(byte)
    \/ Overlong
    \/ EndOfStream

Spec == Init /\ [][Next]_vars

-----------------------------------------------------------------------------
(* A tag or length of no more bytes than a word needs is the number that   *)
(* the bytes say, and is refused if and only if that does not fit.         *)
ShortIsExact ==
    target = "varint32" /\ n <= W \div G + 1 =>
      /\ pc = "ok" => result = exact
      /\ pc = "error" => exact >= Power(2, W)

(* An integer of a transaction is the number that the bytes say, modulo    *)
(* the long word; one that the long word holds fits a uint32, or is refused *)
(* there.                                                                  *)
LongIsExact ==
    target # "varint32" /\ pc = "ok" =>
      /\ result = exact % Power(2, L)
      /\ target = "uint32" /\ exact < Power(2, L) => exact < Power(2, W)

(* No encoding is longer than the long word.                               *)
LongEnds == target # "varint32" => n <= L \div G + 1

(* Whatever is accepted as a tag or length is the number that the bytes    *)
(* say, or a negative one that was extended to the long word.              *)
AcceptedIsExact ==
    target = "varint32" /\ pc = "ok" =>
      \/ exact = result
      \/ exact % Power(2, L) = result + Power(2, L) - Power(2, W) /\ result >= Power(2, W - 1)
=============================================================================
