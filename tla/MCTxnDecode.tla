----------------------------- MODULE MCTxnDecode -----------------------------
(* Values of two bytes; strings of up to two fit the screen; the tags of   *)
(* every kind of field, and one that no field has.                         *)
EXTENDS TxnDecode
=============================================================================
