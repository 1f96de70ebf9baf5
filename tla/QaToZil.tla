------------------------------- MODULE QaToZil -------------------------------
(***************************************************************************)
(* qatozil.c: a decimal number of Qa as a decimal number of Zil, which is  *)
(* 10^QA_ZIL_SHIFT Qa.  A string is the sequence of its characters; its    *)
(* final '\0' takes one place of the buffer it lies in.                    *)
(***************************************************************************)
EXTENDS Integers, Sequences, SequencesExt

CONSTANTS
    QA_ZIL_SHIFT,           \* 12
    ZIL_UINT128_BUF_LEN     \* 42: the digits of a 128-bit number, "0." and '\0'

ASSUME QaAssumption ==
    /\ QA_ZIL_SHIFT \in Nat \ {0}
    /\ ZIL_UINT128_BUF_LEN \in Nat \ {0}

Digits == {"0", "1", "2", "3", "4", "5", "6", "7", "8", "9"}

(* strlcat: s after o in a buffer of n bytes, cut off where it is full.    *)
(* strlcpy is strlcat to an empty string.                                  *)
Strlcat(o, s, n) == IF Len(o) >= n THEN o
                    ELSE o \o SubSeq(s, 1, IF Len(s) <= n - 1 - Len(o) THEN Len(s) ELSE n - 1 - Len(o))

Zeros(n) == [i \in 1 .. n |-> "0"]

(* cleanse_input drops what is no digit, and zeros before any other digit. *)
Cleanse(s) ==
    LET kept[i \in 0 .. Len(s)] ==
            IF i = 0 THEN <<>>
            ELSE IF s[i] \in Digits /\ (s[i] # "0" \/ kept[i - 1] # <<>>)
                 THEN Append(kept[i - 1], s[i]) ELSE kept[i - 1]
    IN  IF kept[Len(s)] = <<>> THEN <<"0">> ELSE kept[Len(s)]

(* Mutant: zeros before the point are stripped as well.                    *)
StripZeros_PastPoint(s) ==
    LET last == SelectLastInSeq(s, LAMBDA c : c \notin {"0", "."}) IN SubSeq(s, 1, last)

(* remove_trailing_zeroes, up to and with the decimal point.               *)
StripZeros(s) ==
    LET last == SelectLastInSeq(s, LAMBDA c : c # "0")
    IN  SubSeq(s, 1, IF last > 0 /\ s[last] = "." THEN last - 1 ELSE last)

(* ToZil before the zeros are removed: the point QA_ZIL_SHIFT digits from  *)
(* the right.  strncpy copies the integer part whatever the buffer holds.  *)
WithPoint(qa, n) ==
    IF Len(qa) <= QA_ZIL_SHIFT
      THEN Strlcat(Strlcat(Strlcat(<<>>, <<"0", ".">>, n), Zeros(QA_ZIL_SHIFT - Len(qa)), n), qa, n)
      ELSE LET whole == Len(qa) - QA_ZIL_SHIFT
           IN  Strlcat(Strlcat(SubSeq(qa, 1, whole), <<".">>, n),
                       SubSeq(qa, whole + 1, Len(qa)), n)

(* The assertions on the way: a string ends within the buffer it came in.  *)
FitsBuffer(s) == Len(s) < ZIL_UINT128_BUF_LEN
=============================================================================
