--------------------------- MODULE SigningPromise ---------------------------
(***************************************************************************)
(* What the app promises to a host and to the user in front of it: one     *)
(* request is outstanding at a time and gets one reply; a successful reply *)
(* carries what was asked for, or a signature of the chunks up to the one  *)
(* in which a transaction ended itself; and what needs the user's approval *)
(* is released only after the user approved that very thing.  A request    *)
(* may also be dropped unanswered, when the connection or the app ends.    *)
(***************************************************************************)
EXTENDS ZilApdu

VARIABLES
    asked,      \* the outstanding request, or NoApdu
    consent,    \* what the user approved since it was asked, or Nothing
    heard       \* the last reply the host heard since its last request, or NoReply

promise == <<asked, consent, heard>>

(* The replies r may get when the user's approval stands at c.             *)
Allowed(r, c) ==
    { rep \in Replies :
        \/ rep.sw \in ErrorWords /\ rep.data = Nothing
        \/ rep = Reply(SW_USER_REJECTED, Nothing) /\ NeedsApproval(r) /\ c = Nothing
        \/ /\ rep.sw = SW_OK /\ rep.data \in Offered(r)
           /\ r \in WellFormed
           /\ NeedsApproval(r) => c = rep.data }

Init == asked = NoApdu /\ consent = Nothing /\ heard = NoReply

Ask(r) ==
    /\ asked = NoApdu
    /\ asked' = r
    /\ consent' = Nothing
    /\ heard' = NoReply

(* The user may change an opinion that has had no effect yet.              *)
Decide ==
    /\ NeedsApproval(asked)
    /\ consent' \in {Nothing} \cup Offered(asked)
    /\ UNCHANGED <<asked, heard>>

Answer ==
    /\ asked # NoApdu
    /\ heard' \in Allowed(asked, consent)
    /\ asked' = NoApdu
    /\ UNCHANGED consent

Drop ==
    /\ asked # NoApdu
    /\ asked' = NoApdu
    /\ UNCHANGED <<consent, heard>>

Next == (\E r \in Requests : Ask(r)) \/ Decide \/ Answer \/ Drop

Spec == Init /\ [][Next]_promise
=============================================================================
