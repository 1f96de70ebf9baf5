------------------------------ MODULE TxnInput ------------------------------
(***************************************************************************)
(* What the two halves of signTxn promise each other.  The decoder reads a *)
(* transaction from its first byte on and in order, from a nest of streams *)
(* of which each ends inside the one around it, and never beyond the end   *)
(* of the innermost; what it left of a stream is skipped when that is      *)
(* closed.  TxnStream gives the bytes like that, whatever chunks they come *)
(* in; TxnDecode takes them like that, whatever the message says.          *)
(***************************************************************************)
EXTENDS Integers

CONSTANTS
    Totals,     \* sizes of transactions
    MAX_LEVEL   \* how deep streams are nested

Levels == 0 .. MAX_LEVEL

VARIABLES
    status,     \* "none" while no transaction is being read
    pos,        \* position of the next byte
    level,      \* the innermost stream
    end         \* where each open stream ends

input == <<status, pos, level, end>>

At(s, p, l, e) == status = s /\ pos = p /\ level = l /\ end = e

Becomes(s, p, l, e) == status' = s /\ level' = l /\ pos' = p /\ end' = e

NoStream == [l \in Levels |-> 0]

Init ==
    \/ At("none", 0, 0, NoStream)
    \/ \E t \in Totals : At("reading", 0, 0, [NoStream EXCEPT ![0] = t])

Begin ==
    /\ status # "reading"
    /\ \E t \in Totals : Becomes("reading", 0, 0, [NoStream EXCEPT ![0] = t])

(* How many bytes the innermost stream has left to read.                   *)
Reads == 0 .. end[level] - pos

(* The next n bytes.                                                       *)
Take(n) ==
    /\ status = "reading"
    /\ Becomes("reading", pos + n, level, end)

(* A length of n bytes, and a stream of that many.                         *)
Open(n, size) ==
    /\ status = "reading" /\ level < MAX_LEVEL
    /\ Becomes("reading", pos + n, level + 1, [end EXCEPT ![level + 1] = pos + n + size])
    /\ n + size \in Reads

(* The innermost stream ends where it was said to end.                     *)
Close ==
    /\ status = "reading" /\ level > 0
    /\ Becomes("reading", end[level], level - 1, [end EXCEPT ![level] = 0])

(* The transaction is taken as decoded, with the next n bytes at most.     *)
Accept(n) ==
    /\ status = "reading" /\ level = 0
    /\ Becomes("accepted", pos + n, 0, end)

Abandon == Becomes("none", 0, 0, NoStream)

Next ==
    \/ Begin \/ Close \/ Abandon
    \/ \E n \in Reads : Take(n) \/ Accept(n)
    \/ \E n, size \in Reads : Open(n, size)

Spec == Init /\ [][Next]_input

-----------------------------------------------------------------------------
(* Every open stream lies within those around it, and the next byte is in  *)
(* all of them.                                                            *)
Nested ==
    status # "none" =>
        /\ \A l \in 0 .. level : pos <= end[l]
        /\ \A k, l \in 0 .. level : k < l => end[l] <= end[k]
        /\ end[0] \in Totals
=============================================================================
