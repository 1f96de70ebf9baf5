------------------------------ MODULE MCZilApp ------------------------------
(* ZilApp on small sets: two keys, and messages of which one decodes, one   *)
(* is a transaction that does not, and one may end before its last chunk.   *)
(* Where there are two, the one that decodes is also the one that may end.  *)
EXTENDS ZilApp

MCKeys == {1, 2}
MCOneKey == {1}
MCMsgs == {"good", "bad"}
MCMoreMsgs == {"good", "bad", "cut"}
MCBadMsgs == {"bad"}
MCEarlyMsgs == {"cut"}
MCGoodMsgs == {"good"}
MCNoMsgs == {}
=============================================================================
