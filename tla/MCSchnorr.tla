------------------------------ MODULE MCSchnorr ------------------------------
(* A group of seven elements, where degenerate signatures are frequent; a  *)
(* nonce keeps half of a residue; two keys of opposite points, and an      *)
(* index with the bit of a hardened element; messages of none to three     *)
(* bytes; three tries.                                                     *)
EXTENDS Schnorr

MCSeed == [element \in 2 .. 3 |-> IF element = 2 THEN 2 ELSE 5]
MCMessages == {<<>>, <<1>>, <<0, 1, 1>>}
=============================================================================
