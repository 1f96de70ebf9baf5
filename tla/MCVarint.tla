------------------------------ MODULE MCVarint ------------------------------
(* Bytes of three bits and the continuation bit, words of five and ten     *)
(* bits: two and four bytes, as 32 and 64 bits take five and ten; bitpos   *)
(* has four bits and wraps with the sixth byte, as it may with the 37th.   *)
EXTENDS Varint
=============================================================================
