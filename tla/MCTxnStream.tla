----------------------------- MODULE MCTxnStream -----------------------------
(* TxnStream with a buffer of 2 bytes and a limit of 4.  Words have 14     *)
(* values: a rest of 7 is negative, and a stream of 15 bytes has one.  A    *)
(* request out of turn announces that nothing, one byte, or too much is to *)
(* come.                                                                   *)
EXTENDS TxnStream

MCTotals == {0, 4, 5, 7, 15}
MCWithinLimit == {0, 3, 4}
=============================================================================
