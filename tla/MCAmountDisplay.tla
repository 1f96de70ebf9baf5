--------------------------- MODULE MCAmountDisplay ---------------------------
(* Amounts of four bytes of three bits, two words: from 0 to 4095 Qa, and a *)
(* Zil of 100 Qa, so that an amount has up to two digits on either side of  *)
(* the point.                                                              *)
EXTENDS AmountDisplay
=============================================================================
