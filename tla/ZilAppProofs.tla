---------------------------- MODULE ZilAppProofs ----------------------------
(***************************************************************************)
(* Proofs about ZilApp, for every set of keys and messages, every number   *)
(* of chunks, faults and abandoned streams, and both kinds of screens.     *)
(* What depends on the result of the last step of a streamed signature,    *)
(* which the code drops, is proved where that step does not fail.          *)
(***************************************************************************)
EXTENDS ZilApp, TLAPS

-----------------------------------------------------------------------------
(* The inductive invariant.                                                *)

(* A request on the wire is the one the host waits for; a chunk on the     *)
(* wire is one of it, and the chunks left are some of those announced.     *)
OnTheWire ==
    /\ host.phase # "idle" => host.req \in Requests /\ host.left <= host.req.left
    /\ wire # NoApdu => host.phase = "waiting" /\ wire.left = host.left
    /\ wire # NoApdu /\ ~wire.chunk => wire = host.req

(* The host is in the middle of the transaction that the device decodes.   *)
InStep == host.phase = "toContinue" \/ wire.chunk

Streaming ==
    /\ pc = "stream" => ~asynch /\ ~ReplyDue
    /\ InStep =>
        /\ pc = "stream"
        /\ host.req \in WellFormed /\ host.req.ins = "signTxn"
        /\ global.tag = "txn" /\ global.key = host.req.key /\ global.msg = host.req.msg
    /\ host.phase = "toContinue" => host.left > 0 /\ global.left = host.left
    /\ wire.chunk => global.left = wire.left + 1

(* An error is pending only for a host that waits, and the flag tells the  *)
(* approval flows from everything else.                                    *)
Flagged ==
    /\ pc # "loop" => pending = 0
    /\ pending # 0 => ReplyDue
    /\ pc = "loop" => (asynch <=> screen.flow \in Approvals)
    /\ pc = "wait" /\ screen.flow \in Approvals => asynch
    /\ pc = "exited" => screen.flow \notin Approvals /\ host.phase = "idle"

(* A reply is sent to a host that waits, and it is one that was promised.  *)
Replying ==
    /\ pc = "send" =>
        /\ ReplyDue
        /\ returnTo \in {"handler", "button"}
        /\ returnTo = "handler" => ~asynch /\ screen.flow \notin Approvals
        /\ reply.sw \notin ErrorWords
        /\ ~FinishMayFail => reply \in Promise!Allowed(host.req, consent)

(* What the flow asks about is what the host waits for, up to the chunk    *)
(* that the message ended in.                                              *)
Asked ==
    screen.flow \in Approvals =>
        /\ ReplyDue
        /\ host.req \in WellFormed /\ NeedsApproval(host.req)
        /\ global.tag = screen.flow
        /\ Displayed \in Offered(host.req)
        /\ screen.flow = "pubkey" => buf = Displayed
        /\ screen.flow = "txn" => global.left = host.left
        /\ screen.flow = "txn" /\ ~FinishMayFail => global.signature = Displayed

(* An error that a sound request is going to get, and nobody had yet.      *)
Owed ==
    IF \/ pc = "stream" /\ ~InStep
       \/ pending # 0 /\ Sound(host.req)
    THEN 1 ELSE 0

Accounted == lost + Owed <= faults + abandons

IInv == TypeOK /\ OnTheWire /\ Streaming /\ Flagged /\ Replying /\ NoSilentWait /\ Asked /\ Accounted

-----------------------------------------------------------------------------
(* Requests and status words.                                              *)

LEMMA StatusFact ==
    /\ \A e \in Thrown : StatusWord(e) \in ErrorWords
    /\ \A w \in ErrorWords : w \in Nat /\ w # 0 /\ w # SW_OK /\ w # SW_USER_REJECTED
<1>1. ASSUME NEW e \in Thrown
      PROVE  StatusWord(e) \in Nat /\ StatusWord(e) \notin {0, SW_OK, SW_USER_REJECTED}
  <2>1. e \in {27271, 27393, 27904, 28160, 1, 2}
        BY DEF Thrown, SW_WRONG_DATA_LENGTH, SW_INVALID_PARAM, SW_INS_NOT_SUPPORTED,
               SW_CLA_NOT_SUPPORTED, EXCEPTION, SYSCALL_ERROR
  <2>2. e \in {1, 2} => StatusWord(e) \in {26625, 26626}
        BY DEF StatusWord
  <2>3. e \notin {1, 2} => StatusWord(e) = e
        BY <2>1 DEF StatusWord
  <2> QED BY <2>1, <2>2, <2>3 DEF SW_OK, SW_USER_REJECTED
<1>2. \A w : w \in ErrorWords <=> \E e \in Thrown : w = StatusWord(e)
      BY DEF ErrorWords
<1> QED BY <1>1, <1>2

(* What a request is, field by field.                                      *)
LEMMA ApduFact ==
    \A i \in Ins, p \in P2, k \in Keys \cup {NoKey}, t \in Msgs \cup {NoMsg}, n \in 0 .. MaxChunks :
        /\ Apdu(i, p, k, t, n) \in Apdus
        /\ Apdu(i, p, k, t, n).rx = "ok" /\ Apdu(i, p, k, t, n).cla = TRUE
        /\ Apdu(i, p, k, t, n).dlen = TRUE /\ Apdu(i, p, k, t, n).chunk = FALSE
        /\ Apdu(i, p, k, t, n).ins = i /\ Apdu(i, p, k, t, n).p2 = p
BY DEF Apdu, Apdus, Rx

(* What the checks of the app ask of a request.                            *)
Passes(a) ==
    /\ a.rx = "ok" /\ a.cla /\ a.ins # "unknown"
    /\ a.ins = "getPublicKey" => a.p2 # "invalid"
    /\ a.ins = "getVersion" \/ a.dlen

LEMMA CheckFact ==
    \A a \in Apdus : Passes(a) <=> DispatchError(a) = 0 /\ ParameterError(a) = 0
<1> SUFFICES ASSUME NEW a \in Apdus
             PROVE  Passes(a) <=> DispatchError(a) = 0 /\ ParameterError(a) = 0
    OBVIOUS
<1>1. a.cla \in BOOLEAN /\ a.dlen \in BOOLEAN
      BY DEF Apdus
<1>2. a.rx = "ok" /\ a.cla /\ a.ins # "unknown" <=> DispatchError(a) = 0
      BY <1>1 DEF DispatchError, SW_WRONG_DATA_LENGTH, SW_CLA_NOT_SUPPORTED, SW_INS_NOT_SUPPORTED
<1>3. (a.ins = "getPublicKey" => a.p2 # "invalid") /\ (a.ins = "getVersion" \/ a.dlen)
        <=> ParameterError(a) = 0
      BY <1>1 DEF ParameterError, SW_WRONG_DATA_LENGTH, SW_INVALID_PARAM, EXCEPTION
<1> QED BY <1>2, <1>3 DEF Passes

LEMMA WellFormedFact ==
    \A r \in WellFormed : r \in Apdus /\ r.rx = "ok" /\ r.chunk = FALSE /\ Passes(r)
<1> SUFFICES ASSUME NEW r \in WellFormed
             PROVE  r \in Apdus /\ r.rx = "ok" /\ r.chunk = FALSE /\ Passes(r)
    OBVIOUS
<1>1. /\ 0 \in 0 .. MaxChunks /\ NoKey \in Keys \cup {NoKey} /\ NoMsg \in Msgs \cup {NoMsg}
      /\ "getVersion" \in Ins /\ "getPublicKey" \in Ins /\ "signHash" \in Ins /\ "signTxn" \in Ins
      /\ "DISPLAY_PUBKEY" \in P2
      BY ApduAssumption DEF Ins, P2
<1> DEFINE A == { Apdu("getPublicKey", p2, k, NoMsg, 0) : p2 \in P2 \ {"invalid"}, k \in Keys }
           B == { Apdu("signHash", "DISPLAY_PUBKEY", k, m, 0) : k \in Keys, m \in Msgs }
           C == { Apdu("signTxn", "DISPLAY_PUBKEY", k, m, n) :
                    k \in Keys, m \in Msgs, n \in 0 .. MaxChunks }
<1>2. CASE r = GetVersion
      BY <1>1, <1>2, ApduFact DEF GetVersion, Passes
<1>3. CASE r \in A
  <2>1. PICK p \in P2 \ {"invalid"}, k \in Keys : r = Apdu("getPublicKey", p, k, NoMsg, 0)
        BY <1>3
  <2> QED BY <1>1, <2>1, ApduFact DEF Passes
<1>4. CASE r \in B
  <2>1. PICK k \in Keys, m \in Msgs : r = Apdu("signHash", "DISPLAY_PUBKEY", k, m, 0)
        BY <1>4
  <2> QED BY <1>1, <2>1, ApduFact DEF Passes
<1>5. CASE r \in C
  <2>1. PICK k \in Keys, m \in Msgs, n \in 0 .. MaxChunks :
            r = Apdu("signTxn", "DISPLAY_PUBKEY", k, m, n)
        BY <1>5
  <2> QED BY <1>1, <2>1, ApduFact DEF Passes
<1>6. WellFormed = {GetVersion} \cup A \cup B \cup C
      BY DEF WellFormed
<1> HIDE DEF A, B, C
<1> QED BY <1>2, <1>3, <1>4, <1>5, <1>6

LEMMA MalformedFact ==
    \A r \in Malformed : r \in Apdus /\ r.rx # "none" /\ r.chunk = FALSE /\ ~Passes(r)
<1> SUFFICES ASSUME NEW r \in Malformed
             PROVE  r \in Apdus /\ r.rx # "none" /\ r.chunk = FALSE /\ ~Passes(r)
    OBVIOUS
<1>1. /\ 0 \in 0 .. MaxChunks /\ NoKey \in Keys \cup {NoKey} /\ NoMsg \in Msgs \cup {NoMsg}
      /\ "getVersion" \in Ins /\ "getPublicKey" \in Ins /\ "signHash" \in Ins /\ "signTxn" \in Ins
      /\ "DISPLAY_PUBKEY" \in P2 /\ "invalid" \in P2
      BY ApduAssumption DEF Ins, P2
<1> DEFINE A == { [GetVersion EXCEPT !.rx = "short"], [GetVersion EXCEPT !.rx = "badLC"],
                  [GetVersion EXCEPT !.cla = FALSE], [GetVersion EXCEPT !.ins = "unknown"] }
           B == { [Apdu("getPublicKey", p2, k, NoMsg, 0) EXCEPT !.dlen = FALSE] :
                    p2 \in P2, k \in Keys }
           C == { Apdu("getPublicKey", "invalid", k, NoMsg, 0) : k \in Keys }
           D == { [Apdu(i, "DISPLAY_PUBKEY", k, m, 0) EXCEPT !.dlen = FALSE] :
                    i \in {"signHash", "signTxn"}, k \in Keys, m \in Msgs }
<1>2. CASE r \in A
  <2>1. GetVersion \in Apdus /\ GetVersion.rx = "ok" /\ GetVersion.chunk = FALSE
    <3>1. "ok" \in Rx
          BY DEF Rx
    <3> QED BY <1>1, <3>1 DEF GetVersion, Apdu, Apdus
  <2>2. "short" \in Rx /\ "badLC" \in Rx /\ "unknown" \in Ins
        BY DEF Rx, Ins
  <2> DEFINE g == GetVersion
  <2>3. \/ r = [g EXCEPT !.rx = "short"] \/ r = [g EXCEPT !.rx = "badLC"]
        \/ r = [g EXCEPT !.cla = FALSE] \/ r = [g EXCEPT !.ins = "unknown"]
        BY <1>2
  <2> HIDE DEF g
  <2>4. g \in Apdus /\ g.rx = "ok" /\ g.chunk = FALSE
        BY <2>1 DEF g
  <2>5. r \in Apdus /\ r.rx # "none" /\ r.chunk = FALSE
    <3>1. ASSUME NEW x \in {"short", "badLC"}, r = [g EXCEPT !.rx = x]
          PROVE  r \in Apdus /\ r.rx # "none" /\ r.chunk = FALSE
          BY <2>2, <2>4, <3>1 DEF Apdus
    <3>2. CASE r = [g EXCEPT !.cla = FALSE]
          BY <2>4, <3>2 DEF Apdus
    <3>3. CASE r = [g EXCEPT !.ins = "unknown"]
          BY <2>2, <2>4, <3>3 DEF Apdus
    <3> QED BY <2>3, <3>1, <3>2, <3>3
  <2>6. r.rx # "ok" \/ ~r.cla \/ r.ins = "unknown"
        BY <2>3, <2>4 DEF Apdus
  <2> QED BY <2>5, <2>6 DEF Passes
<1>3. CASE r \in B
  <2>1. PICK p \in P2, k \in Keys : r = [Apdu("getPublicKey", p, k, NoMsg, 0) EXCEPT !.dlen = FALSE]
        BY <1>3
  <2>2. Apdu("getPublicKey", p, k, NoMsg, 0) \in Apdus
        /\ Apdu("getPublicKey", p, k, NoMsg, 0).rx = "ok"
        /\ Apdu("getPublicKey", p, k, NoMsg, 0).ins = "getPublicKey"
        /\ Apdu("getPublicKey", p, k, NoMsg, 0).chunk = FALSE
        BY <1>1 DEF Apdu, Apdus, Rx
  <2> QED BY <2>1, <2>2 DEF Apdus, Passes
<1>4. CASE r \in C
  <2>1. PICK k \in Keys : r = Apdu("getPublicKey", "invalid", k, NoMsg, 0)
        BY <1>4
  <2> QED BY <1>1, <2>1, ApduFact DEF Passes
<1>5. CASE r \in D
  <2>1. PICK i \in {"signHash", "signTxn"}, k \in Keys, m \in Msgs :
            r = [Apdu(i, "DISPLAY_PUBKEY", k, m, 0) EXCEPT !.dlen = FALSE]
        BY <1>5
  <2> DEFINE b == Apdu(i, "DISPLAY_PUBKEY", k, m, 0)
  <2>2. i \in Ins /\ i # "getVersion"
        BY <1>1
  <2>3. b \in Apdus /\ b.rx = "ok" /\ b.ins = i /\ b.chunk = FALSE
        BY <1>1, <2>2 DEF Apdu, Apdus, Rx
  <2>4. r = [b EXCEPT !.dlen = FALSE]
        BY <2>1
  <2> HIDE DEF b
  <2>5. r \in Apdus /\ r.rx = "ok" /\ r.ins # "getVersion" /\ r.chunk = FALSE /\ ~r.dlen
        BY <2>2, <2>3, <2>4 DEF Apdus
  <2> QED BY <2>2, <2>5 DEF Passes
<1>6. Malformed = A \cup B \cup C \cup D
      BY DEF Malformed
<1> HIDE DEF A, B, C, D
<1> QED BY <1>2, <1>3, <1>4, <1>5, <1>6

(* The checks of the app turn away exactly the malformed requests.         *)
LEMMA RequestFact ==
    \A r \in Requests :
        /\ r \in Apdus /\ r.chunk = FALSE /\ r # NoApdu
        /\ r \in WellFormed <=> DispatchError(r) = 0 /\ ParameterError(r) = 0
<1>1. NoApdu.rx = "none"
      BY DEF NoApdu, GetVersion, Apdu
<1> QED BY <1>1, WellFormedFact, MalformedFact, CheckFact DEF Requests

-----------------------------------------------------------------------------
(* The values of the variables.                                            *)

Whats == {"nothing", "request", "version", "pubkey", "signature", "beginning", "garbage"}

LEMMA PayloadFact ==
    /\ \A w \in Whats, k \in Keys \cup {NoKey}, m \in Msgs \cup {NoMsg} : Payload(w, k, m) \in Payloads
    /\ Nothing \in Payloads /\ Garbage \in Payloads
    /\ Payload("version", NoKey, NoMsg) \in Payloads
    /\ Payload("request", NoKey, NoMsg) \in Payloads
BY DEF Whats, Payloads, Payload, Nothing, Garbage

LEMMA ReplyFact ==
    /\ \A w \in StatusWords, d \in Payloads :
        Reply(w, d) \in Replies /\ Reply(w, d).sw = w /\ Reply(w, d).data = d
    /\ ErrorWords \subseteq StatusWords /\ SW_OK \in StatusWords /\ SW_USER_REJECTED \in StatusWords
<1>1. ErrorWords \subseteq StatusWords /\ SW_OK \in StatusWords /\ SW_USER_REJECTED \in StatusWords
      BY Zenon DEF StatusWords
<1> QED BY <1>1 DEF Replies, Reply

LEMMA ContextFact ==
    /\ ZeroedMemory \in Contexts
    /\ \A t \in {"none", "pubkey", "hash", "txn"}, a \in Apdus, s \in Payloads :
        /\ Context(t, a, s) \in Contexts
        /\ Context(t, a, s).tag = t /\ Context(t, a, s).key = a.key /\ Context(t, a, s).msg = a.msg
        /\ Context(t, a, s).left = a.left /\ Context(t, a, s).signature = s
<1>1. NoApdu \in [rx: {"none"}, cla: BOOLEAN, ins: Ins, p2: P2, dlen: BOOLEAN,
                  key: {NoKey}, msg: {NoMsg}, left: {0}, chunk: BOOLEAN]
      BY DEF NoApdu, GetVersion, Apdu, Ins, P2
<1>2. ZeroedMemory \in Contexts
      BY <1>1, PayloadFact, ApduAssumption DEF ZeroedMemory, Context, Contexts
<1> QED BY <1>2 DEF Contexts, Context, Apdus

LEMMA NoApduFact ==
    /\ NoApdu \notin Apdus /\ NoApdu.chunk = FALSE /\ NoApdu.left = 0
    /\ NoApdu.ins = "getVersion" /\ ~Sound(NoApdu)
<1>1. /\ NoApdu.rx = "none" /\ NoApdu.chunk = FALSE /\ NoApdu.left = 0
      /\ NoApdu.ins = "getVersion"
      BY DEF NoApdu, GetVersion, Apdu
<1>2. NoApdu \notin Apdus
      BY <1>1 DEF Apdus, Rx
<1> QED BY <1>1, <1>2, WellFormedFact DEF Sound

LEMMA ScreenFact ==
    /\ ui_idle \in Screens /\ ui_idle.flow = "idle" /\ "idle" \notin Approvals
    /\ Finished \in Screens /\ Finished.flow \notin Approvals
    /\ \A f \in Approvals : Flow(f) \in Screens /\ Flow(f).flow = f
    /\ \A p \in {"start", "review"}, c \in BOOLEAN, s \in Screens :
        /\ [s EXCEPT !.page = p] \in Screens /\ [s EXCEPT !.page = p].flow = s.flow
        /\ [s EXCEPT !.confirming = c] \in Screens /\ [s EXCEPT !.confirming = c].flow = s.flow
BY DEF Screens, ui_idle, Finished, Flow, Approvals

LEMMA HostFact ==
    \A h \in Hosts :
        /\ h.phase \in {"idle", "waiting", "toContinue"} /\ h.req \in Requests \cup {NoApdu}
        /\ h.left \in 0 .. MaxChunks /\ h.heard \in Replies \cup {NoReply}
BY DEF Hosts

(* The host that moves to another phase keeps the rest.                    *)
LEMMA PhaseFact ==
    ASSUME NEW h \in Hosts, NEW p \in {"idle", "waiting", "toContinue"}
    PROVE  LET g == [h EXCEPT !.phase = p]
           IN  /\ g \in Hosts /\ g.phase = p
               /\ g.req = h.req /\ g.left = h.left /\ g.heard = h.heard
BY DEF Hosts
-----------------------------------------------------------------------------
(* The host and the main loop.                                             *)

LEMMA InitIInv == Init => IInv
<1> SUFFICES ASSUME Init PROVE IInv
    OBVIOUS
<1>1. TypeOK
  <2>1. host \in Hosts
        BY ApduAssumption DEF Init, Hosts
  <2>2. /\ screen \in Screens /\ global \in Contexts /\ buf \in Payloads /\ consent \in Payloads
        /\ reply \in Replies \cup {NoReply} /\ wire \in Apdus \cup {NoApdu}
        BY PayloadFact, ContextFact, ScreenFact DEF Init
  <2>3. faults \in 0 .. MaxFaults /\ abandons \in 0 .. MaxAbandons /\ lost \in Nat
        BY AppAssumption DEF Init
  <2> QED BY <2>1, <2>2, <2>3 DEF Init, TypeOK
<1>2. OnTheWire /\ Streaming
      BY NoApduFact DEF Init, OnTheWire, Streaming, InStep
<1>3. Flagged /\ Replying /\ NoSilentWait /\ Asked
      BY ScreenFact DEF Init, Flagged, Replying, NoSilentWait, Asked, ReplyDue
<1>4. Accounted
      BY DEF Init, Accounted, Owed
<1> QED BY <1>1, <1>2, <1>3, <1>4 DEF IInv

(* What the counters count.                                                *)
LEMMA CountFact ==
    ASSUME IInv
    PROVE  /\ lost \in Nat /\ faults \in Nat /\ abandons \in Nat
           /\ lost <= faults + abandons
           /\ (pc = "stream" /\ ~InStep) \/ (pending # 0 /\ Sound(host.req))
                => lost + 1 <= faults + abandons
<1>1. lost \in Nat /\ faults \in Nat /\ abandons \in Nat
      BY AppAssumption DEF IInv, TypeOK
<1>2. Owed \in {0, 1} /\ lost + Owed <= faults + abandons
      BY DEF IInv, Accounted, Owed
<1> QED BY <1>1, <1>2 DEF Owed

LEMMA HostSendIInv ==
    ASSUME IInv, NEW r \in Requests, HostSend(r) PROVE IInv'
<1>1. /\ r \in Apdus /\ r.chunk = FALSE /\ r # NoApdu /\ r.left \in 0 .. MaxChunks
      BY RequestFact DEF Apdus
<1>2. /\ host'.phase = "waiting" /\ host'.req = r /\ host'.left = r.left
      /\ host.phase = "idle" /\ pc # "exited" /\ wire' = r /\ UNCHANGED <<device, counters>>
      BY DEF HostSend
<1>3. host' \in Hosts /\ consent' \in Payloads
      BY <1>1, PayloadFact DEF HostSend, Hosts
<1>4. TypeOK'
      BY <1>1, <1>2, <1>3 DEF IInv, TypeOK, device, counters
<1>5. ~ReplyDue /\ ~ReplyDue' /\ ~InStep' /\ ~InStep
      BY <1>1, <1>2, NoApduFact DEF IInv, OnTheWire, ReplyDue, InStep
<1>6. OnTheWire'
  <2>1. r.left <= r.left
        BY <1>1, ApduAssumption
  <2> QED BY <1>1, <1>2, <2>1 DEF OnTheWire
<1>7. Streaming' /\ Flagged' /\ NoSilentWait'
      BY <1>1, <1>2, <1>5 DEF IInv, Streaming, Flagged, NoSilentWait, device
<1>8. Replying' /\ Asked'
      BY <1>1, <1>2, <1>5 DEF IInv, Replying, Asked, device
<1>9. Accounted'
  <2>1. pending' = 0 /\ (pc' = "stream" => pc = "stream") /\ lost' = lost
        /\ faults' = faults /\ abandons' = abandons
        BY <1>2, <1>5 DEF IInv, Flagged, device, counters
  <2> QED BY <1>5, <2>1, CountFact DEF Accounted, Owed
<1> QED BY <1>4, <1>6, <1>7, <1>8, <1>9 DEF IInv

LEMMA HostContinueIInv == ASSUME IInv, HostContinue PROVE IInv'
<1>1. /\ host.phase = "toContinue" /\ host.left > 0 /\ host'.phase = "waiting"
      /\ host'.req = host.req /\ host'.left = host.left - 1 /\ host'.heard = host.heard
      /\ wire' = Chunk(host.req, host.left - 1)
      /\ UNCHANGED <<device, consent, counters>>
      BY DEF IInv, TypeOK, Hosts, HostContinue
<1>2. host.req \in Apdus /\ host.left \in Nat /\ host.left - 1 \in 0 .. MaxChunks
  <2>1. host.req \in Requests
        BY <1>1 DEF IInv, OnTheWire
  <2>2. host.left \in 0 .. MaxChunks
        BY HostFact DEF IInv, TypeOK
  <2> QED BY <1>1, <2>1, <2>2, RequestFact, ApduAssumption
<1>3. /\ wire' \in Apdus /\ wire'.chunk = TRUE /\ wire'.left = host.left - 1
      BY <1>1, <1>2 DEF Chunk, Apdus
<1>4. wire' # NoApdu
      BY <1>3, NoApduFact
<1>5. host' \in Hosts
      BY <1>2 DEF IInv, TypeOK, Hosts, HostContinue
<1>6. TypeOK'
      BY <1>1, <1>3, <1>5 DEF IInv, TypeOK, device, counters
<1>7. InStep /\ InStep' /\ ~ReplyDue /\ ~ReplyDue' /\ pc = "stream"
      BY <1>1, <1>3, <1>4 DEF IInv, Streaming, ReplyDue, InStep
<1>8. OnTheWire'
  <2>1. host.left <= host.req.left /\ host.req.left \in Nat
        BY <1>1, <1>2, ApduAssumption DEF IInv, OnTheWire, Apdus
  <2> QED BY <1>1, <1>2, <1>3, <2>1 DEF IInv, OnTheWire
<1>9. Streaming'
      BY <1>1, <1>2, <1>3, <1>7 DEF IInv, Streaming, device
<1>10. Flagged' /\ NoSilentWait' /\ Replying' /\ Asked'
      BY <1>1, <1>7 DEF IInv, Flagged, NoSilentWait, Replying, Asked, device
<1>11. Accounted'
      BY <1>1, <1>7 DEF IInv, Flagged, Accounted, Owed, device, counters
<1> QED BY <1>6, <1>8, <1>9, <1>10, <1>11 DEF IInv

LEMMA HostAbandonsIInv == ASSUME IInv, HostAbandons PROVE IInv'
<1>1. /\ host.phase = "toContinue" /\ host'.phase = "idle" /\ host'.left = host.left
      /\ abandons < MaxAbandons /\ abandons' = abandons + 1
      /\ UNCHANGED <<device, wire, consent, faults, lost>>
      BY DEF IInv, TypeOK, Hosts, HostAbandons
<1>2. host' \in Hosts
      BY DEF IInv, TypeOK, Hosts, HostAbandons
<1>3. TypeOK'
      BY <1>1, <1>2, AppAssumption DEF IInv, TypeOK, device
<1>4. wire = NoApdu /\ InStep /\ ~InStep' /\ pc = "stream" /\ ~ReplyDue /\ ~ReplyDue'
      BY <1>1, NoApduFact DEF IInv, OnTheWire, Streaming, InStep, ReplyDue
<1>5. OnTheWire'
      BY <1>1, <1>4 DEF OnTheWire
<1>6. Streaming' /\ Flagged' /\ NoSilentWait' /\ Replying' /\ Asked'
      BY <1>1, <1>4, NoApduFact DEF IInv, Streaming, Flagged, NoSilentWait, Replying, Asked, device
<1>7. Accounted'
      BY <1>1, CountFact DEF Accounted, Owed
<1> QED BY <1>3, <1>5, <1>6, <1>7 DEF IInv

(* A reply reaches the host that waits for it.                             *)
LEMMA DeliverFact ==
    ASSUME IInv, ReplyDue
    PROVE  \A rep \in Replies \cup {NoReply} : Deliver(rep) =>
               /\ host' = [host EXCEPT !.phase = "idle", !.heard = rep]
               /\ host' \in Hosts /\ host'.phase = "idle" /\ host'.heard = rep
               /\ lost' \in {lost, lost + 1}
               /\ lost' = lost + 1 => rep.sw \in ErrorWords /\ Sound(host.req)
<1>1. host \in Hosts /\ host.phase = "waiting" /\ lost \in Nat
      BY DEF IInv, TypeOK, ReplyDue
<1> SUFFICES ASSUME NEW rep \in Replies \cup {NoReply}, Deliver(rep)
             PROVE  /\ host' = [host EXCEPT !.phase = "idle", !.heard = rep]
                    /\ host' \in Hosts /\ host'.phase = "idle" /\ host'.heard = rep
                    /\ lost' \in {lost, lost + 1}
                    /\ lost' = lost + 1 => rep.sw \in ErrorWords /\ Sound(host.req)
    OBVIOUS
<1>2. /\ host' = [host EXCEPT !.phase = "idle", !.heard = rep]
      /\ lost' = IF rep.sw \in ErrorWords /\ Sound(host.req) THEN lost + 1 ELSE lost
      BY <1>1 DEF Deliver
<1>3. host' \in Hosts /\ host'.phase = "idle" /\ host'.heard = rep
      BY <1>1, <1>2 DEF Hosts
<1> QED BY <1>1, <1>2, <1>3

LEMMA LoopExchangeIInv == ASSUME IInv, LoopExchange PROVE IInv'
<1>1. /\ pc = "loop" /\ pc' = "wait" /\ pending' = 0
      /\ UNCHANGED <<asynch, buf, global, screen, reply, returnTo, wire, consent, faults, abandons>>
      BY DEF LoopExchange
<1>2. ~InStep
      BY <1>1 DEF IInv, Streaming
<1>3. CASE pending # 0 /\ ~asynch
  <2>1. ReplyDue /\ screen.flow \notin Approvals
        BY <1>1, <1>3 DEF IInv, Flagged
  <2>2. Reply(pending, Nothing) \in Replies
        BY <1>3, ReplyFact, PayloadFact DEF IInv, TypeOK
  <2>3. /\ host' \in Hosts /\ host'.phase = "idle" /\ lost' \in {lost, lost + 1}
        /\ lost' = lost + 1 => Sound(host.req)
        BY <1>3, <2>1, <2>2, DeliverFact DEF LoopExchange
  <2>4. TypeOK'
        BY <1>1, <2>3 DEF IInv, TypeOK
  <2>5. ~InStep' /\ ~ReplyDue' /\ wire' = NoApdu
        BY <1>1, <2>1, <2>3, NoApduFact DEF InStep, ReplyDue
  <2>6. OnTheWire' /\ Streaming' /\ Flagged' /\ NoSilentWait' /\ Replying' /\ Asked'
        BY <1>1, <2>1, <2>3, <2>5, NoApduFact
           DEF OnTheWire, Streaming, Flagged, NoSilentWait, Replying, Asked
  <2>7. Accounted'
        BY <1>1, <1>3, <2>3, CountFact DEF Accounted, Owed
  <2> QED BY <2>4, <2>6, <2>7 DEF IInv
<1>4. CASE ~(pending # 0 /\ ~asynch)
  <2>1. host' = host /\ lost' = lost
        BY <1>4 DEF LoopExchange
  <2>2. TypeOK'
        BY <1>1, <2>1 DEF IInv, TypeOK
  <2>3. ReplyDue' = ReplyDue /\ ~InStep'
        BY <1>1, <1>2, <2>1 DEF ReplyDue, InStep
  <2>4. OnTheWire' /\ Streaming' /\ Flagged' /\ Replying'
        BY <1>1, <2>1, <2>3 DEF IInv, OnTheWire, Streaming, Flagged, Replying, InStep
  <2>5. NoSilentWait'
        BY <1>1, <1>4, <2>3 DEF IInv, NoSilentWait, Flagged
  <2>6. Asked'
        BY <1>1, <2>1, <2>3 DEF IInv, Asked, Displayed
  <2>7. Accounted'
        BY <1>1, <2>1, CountFact DEF Accounted, Owed
  <2> QED BY <2>2, <2>4, <2>5, <2>6, <2>7 DEF IInv
<1> QED BY <1>3, <1>4

LEMMA SendReplyIInv == ASSUME IInv, SendReply PROVE IInv'
<1>1. /\ pc = "send" /\ Deliver(reply) /\ reply' = NoReply /\ returnTo' = "none"
      /\ IF returnTo = "handler" THEN pc' = "loop" /\ UNCHANGED screen
                                 ELSE pc' = "wait" /\ screen' = Finished
      /\ UNCHANGED <<asynch, pending, buf, global, wire, consent, faults, abandons>>
      BY DEF SendReply
<1>2. /\ ReplyDue /\ reply \in Replies \cup {NoReply} /\ reply.sw \notin ErrorWords
      /\ returnTo = "handler" => ~asynch /\ screen.flow \notin Approvals
      /\ pending = 0
      BY <1>1 DEF IInv, TypeOK, Replying, Flagged
<1>3. host' \in Hosts /\ host'.phase = "idle" /\ lost' = lost
      BY <1>1, <1>2, DeliverFact, CountFact
<1>4. screen' \in Screens /\ screen'.flow \notin Approvals
      BY <1>1, <1>2, ScreenFact DEF IInv, TypeOK
<1>5. TypeOK'
      BY <1>1, <1>3, <1>4 DEF IInv, TypeOK
<1>6. ~InStep' /\ ~ReplyDue' /\ wire' = NoApdu
      BY <1>1, <1>2, <1>3, NoApduFact DEF InStep, ReplyDue
<1>7. OnTheWire' /\ Streaming' /\ Flagged' /\ NoSilentWait' /\ Replying' /\ Asked'
      BY <1>1, <1>2, <1>3, <1>4, <1>6, NoApduFact
         DEF OnTheWire, Streaming, Flagged, NoSilentWait, Replying, Asked
<1>8. Accounted'
      BY <1>1, <1>2, <1>3, CountFact DEF Accounted, Owed
<1> QED BY <1>5, <1>7, <1>8 DEF IInv

-----------------------------------------------------------------------------
(* The promise, in the terms of the app.                                   *)

LEMMA PromiseFact ==
    /\ Promise!Requests = Requests /\ Promise!NoApdu = NoApdu
    /\ Promise!NoReply = NoReply /\ Promise!Nothing = Nothing
    /\ \A r : Promise!NeedsApproval(r) <=> NeedsApproval(r)
    /\ \A r : Promise!Offered(r) = Offered(r)
<1>1. Promise!Requests = Requests
      BY DEF Promise!Requests, Requests, Promise!WellFormed, WellFormed, Promise!Malformed, Malformed,
             Promise!GetVersion, GetVersion, Promise!Apdu, Apdu, Promise!P2, P2
<1>2. Promise!NoApdu = NoApdu
      BY DEF Promise!NoApdu, NoApdu, Promise!GetVersion, GetVersion, Promise!Apdu, Apdu
<1>3. Promise!Nothing = Nothing /\ Promise!NoReply = NoReply
      BY DEF Promise!NoReply, NoReply, Promise!Nothing, Nothing, Promise!Payload, Payload
<1>4. \A r : Promise!NeedsApproval(r) <=> NeedsApproval(r)
      BY DEF Promise!NeedsApproval, NeedsApproval
<1>5. \A r : Promise!Offered(r) = Offered(r)
      BY DEF Promise!Offered, Offered, Promise!MayEndEarly, MayEndEarly,
             Promise!Wanted, Wanted, Promise!Payload, Payload
<1> QED BY <1>1, <1>2, <1>3, <1>4, <1>5

(* The replies a request may get.                                          *)
LEMMA AllowedFact ==
    \A r, c :
        /\ Promise!Allowed(r, c) \subseteq Replies
        /\ \A rep \in Replies :
            rep \in Promise!Allowed(r, c) <=>
                \/ rep.sw \in ErrorWords /\ rep.data = Nothing
                \/ rep = Reply(SW_USER_REJECTED, Nothing) /\ NeedsApproval(r) /\ c = Nothing
                \/ /\ rep.sw = SW_OK /\ rep.data \in Offered(r) /\ r \in WellFormed
                   /\ NeedsApproval(r) => c = rep.data
<1>1. Promise!ErrorWords = ErrorWords
      BY DEF Promise!ErrorWords, ErrorWords, Promise!StatusWord, StatusWord, Promise!Thrown, Thrown,
             Promise!SW_WRONG_DATA_LENGTH, SW_WRONG_DATA_LENGTH,
             Promise!SW_INVALID_PARAM, SW_INVALID_PARAM,
             Promise!SW_INS_NOT_SUPPORTED, SW_INS_NOT_SUPPORTED,
             Promise!SW_CLA_NOT_SUPPORTED, SW_CLA_NOT_SUPPORTED,
             Promise!EXCEPTION, EXCEPTION, Promise!SYSCALL_ERROR, SYSCALL_ERROR
<1>2. Promise!Payloads = Payloads
      BY DEF Promise!Payloads, Payloads
<1>3. Promise!SW_OK = SW_OK /\ Promise!SW_USER_REJECTED = SW_USER_REJECTED
      BY DEF Promise!SW_OK, SW_OK, Promise!SW_USER_REJECTED, SW_USER_REJECTED
<1>4. Promise!Replies = Replies
      BY <1>1, <1>2, <1>3 DEF Promise!Replies, Replies, Promise!StatusWords, StatusWords
<1>5. Promise!WellFormed = WellFormed
      BY DEF Promise!WellFormed, WellFormed,
             Promise!GetVersion, GetVersion, Promise!Apdu, Apdu, Promise!P2, P2
<1>6. \A w, d : Promise!Reply(w, d) = Reply(w, d)
      BY DEF Promise!Reply, Reply
<1> QED BY <1>1, <1>3, <1>4, <1>5, <1>6, PromiseFact DEF Promise!Allowed

-----------------------------------------------------------------------------
(* The handlers.                                                           *)

(* An APDU that the main loop receives is the request the host waits for.  *)
LEMMA ReceiveFact ==
    ASSUME IInv, pc = "wait", wire # NoApdu
    PROVE  /\ host \in Hosts /\ host.phase = "waiting" /\ wire = host.req /\ wire.left = host.left
           /\ wire \in Requests /\ wire \in Apdus
           /\ screen.flow \notin Approvals /\ pending = 0 /\ ~InStep
<1>1. host \in Hosts /\ host.phase = "waiting" /\ wire.left = host.left /\ ~InStep
      BY DEF IInv, TypeOK, OnTheWire, Streaming, InStep
<1>2. wire = host.req /\ host.req \in Requests
      BY <1>1, RequestFact DEF IInv, TypeOK, OnTheWire, InStep, Apdus
<1>3. screen.flow \notin Approvals /\ pending = 0
      BY DEF IInv, Asked, ReplyDue, Flagged
<1> QED BY <1>1, <1>2, <1>3, RequestFact

(* An error is on its way to a host that waits, and the counters know.     *)
LEMMA ThrownIInv ==
    ASSUME IInv, NEW e \in Thrown, Throw(e),
           host' = host, host.phase = "waiting", wire' = NoApdu, consent' = consent,
           pc # "exited", screen' = screen, screen.flow \notin Approvals,
           asynch' = FALSE, global' \in Contexts, abandons' = abandons, lost' = lost,
           faults' \in 0 .. MaxFaults, faults' \in {faults, faults + 1},
           \/ ~Sound(host.req)
           \/ faults' = faults + 1
           \/ pc = "stream" /\ ~InStep
    PROVE  IInv'
<1>1. /\ pending' = StatusWord(e) /\ buf' = Garbage /\ pc' = "loop"
      /\ UNCHANGED <<reply, returnTo>>
      BY DEF Throw
<1>2. pending' \in ErrorWords /\ pending' # 0
      BY <1>1, StatusFact
<1>3. TypeOK'
      BY <1>1, <1>2, PayloadFact DEF IInv, TypeOK
<1>4. ReplyDue' /\ ~InStep'
      BY NoApduFact DEF ReplyDue, InStep
<1>5. OnTheWire' /\ Streaming' /\ Flagged' /\ NoSilentWait' /\ Replying' /\ Asked'
      BY <1>1, <1>2, <1>4, NoApduFact
         DEF IInv, OnTheWire, Streaming, Flagged, NoSilentWait, Replying, Asked
<1>6. Accounted'
  <2>1. Owed' \in {0, 1} /\ (Owed' = 1 => Sound(host.req))
        BY <1>1 DEF Owed
  <2> QED BY <2>1, CountFact DEF Accounted
<1> QED BY <1>3, <1>5, <1>6 DEF IInv

LEMMA RejectApduIInv == ASSUME IInv, RejectApdu PROVE IInv'
<1> DEFINE e == IF DispatchError(wire) # 0 THEN DispatchError(wire) ELSE ParameterError(wire)
<1>1. /\ Receives(wire) /\ e # 0 /\ Throw(e) /\ asynch' = FALSE
      /\ global' = global \/ global' = Context("txn", wire, Garbage)
      /\ UNCHANGED <<screen, host, faults, lost>>
      BY DEF RejectApdu
<1>2. pc = "wait" /\ wire # NoApdu /\ wire' = NoApdu /\ UNCHANGED <<consent, abandons>>
      BY <1>1 DEF Receives
<1>3. /\ host.phase = "waiting" /\ wire = host.req /\ wire \in Requests /\ wire \in Apdus
      /\ screen.flow \notin Approvals
      BY <1>2, ReceiveFact
<1>4. e \in Thrown
      BY <1>1 DEF DispatchError, ParameterError, Thrown
<1>5. ~Sound(host.req)
      BY <1>1, <1>3, RequestFact DEF Sound
<1>6. global' \in Contexts
      BY <1>1, <1>3, ContextFact, PayloadFact DEF IInv, TypeOK
<1>7. faults' = faults /\ faults \in 0 .. MaxFaults
      BY <1>1 DEF IInv, TypeOK
<1> HIDE DEF e
<1> QED BY <1>1, <1>2, <1>3, <1>4, <1>5, <1>6, <1>7, ThrownIInv

(* A handler replies at once.                                              *)
LEMMA RepliedIInv ==
    ASSUME IInv, NEW rep \in Replies, Send(rep, "handler"), rep.sw = SW_OK,
           rep \in Promise!Allowed(host.req, consent),
           host' = host, host.phase = "waiting", wire' = NoApdu, consent' = consent,
           screen' = screen, screen.flow \notin Approvals, pending = 0, pending' = 0,
           asynch' = FALSE, global' \in Contexts, buf' \in Payloads,
           faults' = faults, abandons' = abandons, lost' = lost
    PROVE  IInv'
<1>1. pc' = "send" /\ reply' = rep /\ returnTo' = "handler"
      BY DEF Send
<1>2. TypeOK'
      BY <1>1 DEF IInv, TypeOK
<1>3. ReplyDue' /\ ~InStep'
      BY NoApduFact DEF ReplyDue, InStep
<1>4. rep.sw \notin ErrorWords
      BY StatusFact
<1>5. Replying'
      BY <1>1, <1>3, <1>4 DEF Replying, Promise!Allowed
<1>6. OnTheWire' /\ Streaming' /\ Flagged' /\ NoSilentWait' /\ Asked'
      BY <1>1, <1>3, NoApduFact DEF IInv, OnTheWire, Streaming, Flagged, NoSilentWait, Asked
<1>7. Accounted'
      BY <1>1, CountFact DEF Accounted, Owed
<1> QED BY <1>2, <1>5, <1>6, <1>7 DEF IInv

(* What a request asks for may be offered; a transaction that may end      *)
(* early also offers its beginning.                                        *)
LEMMA OfferedFact ==
    /\ \A r : Wanted(r) \in Offered(r)
    /\ \A r : MayEndEarly(r) => Payload("beginning", r.key, r.msg) \in Offered(r)
BY DEF Offered

(* A handler asks the user about what the host waits for.                  *)
LEMMA AskedIInv ==
    ASSUME IInv, NEW f \in Approvals, AskUser(f),
           host' = host, host.phase = "waiting", wire' = NoApdu, consent' = consent,
           pending = 0, global' \in Contexts, buf' \in Payloads,
           host.req \in WellFormed, NeedsApproval(host.req),
           global'.tag = f,
           NEW d \in Offered(host.req),
           d = IF f = "pubkey" THEN Payload("pubkey", global'.key, NoMsg)
               ELSE IF f = "hash" THEN Payload("signature", global'.key, global'.msg)
               ELSE SignatureOf(global'),
           f = "pubkey" => buf' = d,
           f = "txn" => global'.left = host.left,
           f = "txn" /\ ~FinishMayFail => global'.signature = d,
           faults' = faults, abandons' = abandons, lost' = lost
    PROVE  IInv'
<1>1. /\ screen' = Flow(f) /\ asynch' = TRUE /\ pc' = "loop"
      /\ UNCHANGED <<reply, returnTo, pending>>
      BY DEF AskUser
<1>2. screen' \in Screens /\ screen'.flow = f /\ f \in Approvals
      BY <1>1, ScreenFact
<1>3. TypeOK'
      BY <1>1, <1>2 DEF IInv, TypeOK
<1>4. ReplyDue' /\ ~InStep'
      BY NoApduFact DEF ReplyDue, InStep
<1>5. Displayed' = d
      BY <1>2 DEF Displayed, Approvals, SignatureOf
<1>6. Asked'
      BY <1>2, <1>4, <1>5 DEF Asked
<1>7. OnTheWire' /\ Streaming' /\ Flagged' /\ NoSilentWait' /\ Replying'
      BY <1>1, <1>2, <1>4, NoApduFact
         DEF IInv, OnTheWire, Streaming, Flagged, NoSilentWait, Replying
<1>8. Accounted'
      BY <1>1, CountFact DEF Accounted, Owed
<1> QED BY <1>3, <1>6, <1>7, <1>8 DEF IInv

(* What a request that the handlers accept asks for.                       *)
LEMMA DispatchFact ==
    ASSUME IInv, NEW i \in Ins, Dispatches(wire, i)
    PROVE  /\ host \in Hosts /\ host.phase = "waiting" /\ wire = host.req /\ wire.left = host.left
           /\ wire \in Requests /\ wire \in Apdus /\ wire \in WellFormed /\ wire.ins = i
           /\ pc = "wait" /\ screen.flow \notin Approvals /\ pending = 0 /\ ~InStep
           /\ wire' = NoApdu /\ UNCHANGED <<consent, abandons>>
<1>1. /\ pc = "wait" /\ wire # NoApdu /\ wire' = NoApdu /\ UNCHANGED <<consent, abandons>>
      /\ DispatchError(wire) = 0 /\ ParameterError(wire) = 0 /\ wire.ins = i
      BY DEF Dispatches, Receives
<1> QED BY <1>1, ReceiveFact, RequestFact

LEMMA HandleGetVersionIInv == ASSUME IInv, HandleGetVersion PROVE IInv'
<1>1. /\ Dispatches(wire, "getVersion")
      /\ buf' = Payload("version", NoKey, NoMsg) /\ Send(Reply(SW_OK, buf'), "handler")
      /\ asynch' = FALSE /\ UNCHANGED <<pending, global, screen, host, faults, lost>>
      BY DEF HandleGetVersion
<1>2. "getVersion" \in Ins
      BY DEF Ins
<1>3. /\ host.phase = "waiting" /\ wire = host.req /\ wire \in WellFormed /\ wire.ins = "getVersion"
      /\ screen.flow \notin Approvals /\ pending = 0
      /\ wire' = NoApdu /\ UNCHANGED <<consent, abandons>>
      BY <1>1, <1>2, DispatchFact
<1>4. /\ buf' \in Payloads /\ Reply(SW_OK, buf') \in Replies /\ Reply(SW_OK, buf').sw = SW_OK
      /\ Reply(SW_OK, buf').data = buf'
      BY <1>1, PayloadFact, ReplyFact
<1>5. Wanted(host.req) = buf' /\ ~NeedsApproval(host.req)
      BY <1>1, <1>3 DEF Wanted, NeedsApproval
<1>6. Reply(SW_OK, buf') \in Promise!Allowed(host.req, consent)
      BY <1>3, <1>4, <1>5, AllowedFact, OfferedFact
<1>7. global' \in Contexts
      BY <1>1 DEF IInv, TypeOK
<1>8. Reply(SW_OK, buf') = Reply(SW_OK, buf)'
      OBVIOUS
<1> QED BY <1>1, <1>3, <1>4, <1>6, <1>7, RepliedIInv

LEMMA HandleGetPublicKeyIInv == ASSUME IInv, HandleGetPublicKey PROVE IInv'
<1>1. /\ Dispatches(wire, "getPublicKey") /\ global' = Context("pubkey", wire, Garbage)
      /\ UNCHANGED <<host, lost>>
      BY DEF HandleGetPublicKey
<1>2. "getPublicKey" \in Ins
      BY DEF Ins
<1>3. /\ host.phase = "waiting" /\ wire = host.req /\ wire \in WellFormed /\ wire \in Apdus
      /\ wire.ins = "getPublicKey" /\ pc = "wait" /\ screen.flow \notin Approvals /\ pending = 0
      /\ wire' = NoApdu /\ UNCHANGED <<consent, abandons>>
      BY <1>1, <1>2, DispatchFact
<1>4. /\ global' \in Contexts /\ global'.tag = "pubkey" /\ global'.key = wire.key
      BY <1>1, <1>3, ContextFact, PayloadFact
<1>5. Wanted(host.req) = Payload("pubkey", wire.key, NoMsg)
      BY <1>3 DEF Wanted
<1>6. Wanted(host.req) \in Payloads
  <2>1. wire.key \in Keys \cup {NoKey} /\ "pubkey" \in Whats
        BY <1>3 DEF Apdus, Whats
  <2> QED BY <1>5, <2>1, PayloadFact
<1>7. CASE /\ buf' = Wanted(host.req) /\ RepliesAtOnce(wire) /\ Send(Reply(SW_OK, buf'), "handler")
           /\ asynch' = FALSE /\ UNCHANGED <<screen, pending, faults>>
  <2>1. /\ Reply(SW_OK, buf') \in Replies /\ Reply(SW_OK, buf').sw = SW_OK
        /\ Reply(SW_OK, buf').data = Wanted(host.req)
        BY <1>6, <1>7, ReplyFact
  <2>2. ~NeedsApproval(host.req)
        BY <1>3, <1>7 DEF RepliesAtOnce, NeedsApproval
  <2>3. Reply(SW_OK, buf') \in Promise!Allowed(host.req, consent)
        BY <1>3, <1>7, <2>1, <2>2, AllowedFact, OfferedFact
  <2> QED BY <1>1, <1>3, <1>4, <1>6, <1>7, <2>1, <2>3, RepliedIInv
<1>8. CASE buf' = Wanted(host.req) /\ ~RepliesAtOnce(wire) /\ AskUser("pubkey") /\ UNCHANGED faults
  <2>1. "pubkey" \in Approvals /\ "pubkey" # "txn"
        BY DEF Approvals
  <2>2. NeedsApproval(host.req)
        BY <1>3, <1>8 DEF RepliesAtOnce, NeedsApproval
  <2> QED BY <1>1, <1>3, <1>4, <1>5, <1>6, <1>8, <2>1, <2>2, OfferedFact, AskedIInv
<1>9. CASE Fault /\ asynch' = FALSE /\ UNCHANGED screen
  <2>1. SYSCALL_ERROR \in Thrown
        BY DEF Thrown
  <2>2. faults' = faults + 1 /\ faults' \in 0 .. MaxFaults /\ Throw(SYSCALL_ERROR)
        BY <1>9, AppAssumption DEF Fault, IInv, TypeOK
  <2> QED BY <1>1, <1>3, <1>4, <1>9, <2>1, <2>2, ThrownIInv
<1> QED BY <1>1, <1>3, <1>5, <1>7, <1>8, <1>9 DEF HandleGetPublicKey

LEMMA HandleSignHashIInv == ASSUME IInv, HandleSignHash PROVE IInv'
<1>1. /\ Dispatches(wire, "signHash") /\ global' = Context("hash", wire, Garbage)
      /\ buf' = Payload("request", NoKey, NoMsg) /\ AskUser("hash")
      /\ UNCHANGED <<host, faults, lost>>
      BY DEF HandleSignHash
<1>2. "signHash" \in Ins /\ "hash" \in Approvals /\ "hash" \notin {"pubkey", "txn"}
      BY DEF Ins, Approvals
<1>3. /\ host.phase = "waiting" /\ wire = host.req /\ wire \in WellFormed /\ wire \in Apdus
      /\ wire.ins = "signHash" /\ pending = 0
      /\ wire' = NoApdu /\ UNCHANGED <<consent, abandons>>
      BY <1>1, <1>2, DispatchFact
<1>4. /\ global' \in Contexts /\ global'.tag = "hash" /\ global'.key = wire.key
      /\ global'.msg = wire.msg /\ buf' \in Payloads
      BY <1>1, <1>3, ContextFact, PayloadFact
<1>5. /\ Wanted(host.req) = Payload("signature", global'.key, global'.msg)
      /\ NeedsApproval(host.req)
      BY <1>3, <1>4 DEF Wanted, NeedsApproval
<1> QED BY <1>1, <1>2, <1>3, <1>4, <1>5, OfferedFact, AskedIInv

(* What the signature of a context may be.                                 *)
LEMMA SignatureFact ==
    \A c \in Contexts : SignatureOf(c) \in Payloads
<1> SUFFICES ASSUME NEW c \in Contexts PROVE SignatureOf(c) \in Payloads
    OBVIOUS
<1>1. c.key \in Keys \cup {NoKey} /\ c.msg \in Msgs \cup {NoMsg}
      BY DEF Contexts
<1>2. "signature" \in Whats /\ "beginning" \in Whats
      BY DEF Whats
<1> QED BY <1>1, <1>2, PayloadFact DEF SignatureOf

(* A chunk is decoded and hashed: until the next one, the end, an error.   *)
LEMMA DecodeChunkIInv ==
    ASSUME IInv, NEW ctx \in Contexts, DecodeChunk(ctx),
           pc \in {"wait", "stream"}, wire' = NoApdu, host.phase = "waiting",
           ctx.tag = "txn", ctx.key = host.req.key, ctx.msg = host.req.msg, ctx.left = host.left,
           host.req \in WellFormed, host.req.ins = "signTxn",
           screen.flow \notin Approvals, pending = 0,
           UNCHANGED <<consent, abandons, lost>>
    PROVE  IInv'
<1>1. host \in Hosts /\ host.left \in Nat
  <2>1. host \in Hosts
        BY DEF IInv, TypeOK
  <2>2. host.left \in 0 .. MaxChunks
        BY <2>1, HostFact
  <2> QED BY <2>1, <2>2, ApduAssumption
<1>2. CASE NeedsMore(ctx) /\ AskForMore(ctx)
  <2>1. /\ host' = [host EXCEPT !.phase = "toContinue"] /\ pc' = "stream" /\ global' = ctx
        /\ buf' = Payload("request", NoKey, NoMsg) /\ asynch' = FALSE /\ host.left > 0
        /\ UNCHANGED <<screen, reply, returnTo, pending, faults>>
        BY <1>2 DEF NeedsMore, AskForMore
  <2>2. /\ host' \in Hosts /\ host'.phase = "toContinue" /\ host'.req = host.req
        /\ host'.left = host.left
        BY <1>1, <2>1, PhaseFact
  <2>3. TypeOK'
        BY <2>1, <2>2, PayloadFact DEF IInv, TypeOK
  <2>4. ~ReplyDue' /\ InStep'
        BY <2>2 DEF ReplyDue, InStep
  <2>5. OnTheWire'
    <3>1. host.left <= host.req.left /\ host.req \in Requests
          BY DEF IInv, OnTheWire
    <3> QED BY <2>2, <3>1, NoApduFact DEF OnTheWire
  <2>6. Streaming'
        BY <1>1, <2>1, <2>2, <2>4, NoApduFact DEF Streaming
  <2>7. Flagged' /\ NoSilentWait' /\ Replying' /\ Asked'
        BY <2>1, <2>4 DEF IInv, Flagged, NoSilentWait, Replying, Asked
  <2>8. Accounted'
        BY <2>1, <2>4, CountFact DEF Accounted, Owed
  <2> QED BY <2>3, <2>5, <2>6, <2>7, <2>8 DEF IInv
<1>3. CASE EndsHere(ctx) /\ FinishTxn(ctx)
  <2>1. /\ AskUser("txn") /\ buf' = Payload("request", NoKey, NoMsg) /\ UNCHANGED <<host, faults>>
        /\ \/ global' = [ctx EXCEPT !.signature = SignatureOf(ctx)]
           \/ global' = ctx /\ FinishMayFail
        BY <1>3 DEF FinishTxn
  <2>2. "txn" \in Approvals /\ "txn" \notin {"pubkey", "hash"}
        BY DEF Approvals
  <2>3. SignatureOf(ctx) \in Payloads
        BY SignatureFact
  <2>4. /\ global' \in Contexts /\ global'.tag = "txn" /\ global'.left = ctx.left
        /\ global'.key = ctx.key /\ global'.msg = ctx.msg
        /\ ~FinishMayFail => global'.signature = SignatureOf(ctx)
        BY <2>1, <2>3 DEF Contexts
  <2>5. SignatureOf(global') = SignatureOf(ctx) /\ NeedsApproval(host.req)
        BY <2>4 DEF SignatureOf, NeedsApproval
  <2>6. SignatureOf(ctx) \in Offered(host.req)
    <3>1. CASE host.left = 0
          BY <3>1, OfferedFact DEF SignatureOf, Wanted
    <3>2. CASE host.left > 0
      <4>1. host.req.left \in Nat /\ host.left <= host.req.left
            BY WellFormedFact, ApduAssumption DEF IInv, OnTheWire, Apdus
      <4>2. MayEndEarly(host.req)
            BY <1>1, <1>3, <3>2, <4>1 DEF EndsHere, NeedsMore, MayEndEarly
      <4> QED BY <1>1, <3>2, <4>2, OfferedFact DEF SignatureOf
    <3> QED BY <1>1, <3>1, <3>2
  <2>7. buf' \in Payloads
        BY <2>1, PayloadFact
  <2> QED BY <2>1, <2>2, <2>4, <2>5, <2>6, <2>7, AskedIInv
<1>4. CASE ctx.msg \in BadMsgs /\ DecodeFails(ctx)
  <2>1. EXCEPTION \in Thrown
        BY DEF Thrown
  <2>2. /\ Throw(EXCEPTION) /\ asynch' = FALSE /\ global' = ctx /\ UNCHANGED <<screen, host, faults>>
        BY <1>4 DEF DecodeFails
  <2>3. ~Sound(host.req)
        BY <1>4 DEF Sound
  <2>4. faults' \in 0 .. MaxFaults
        BY <2>2 DEF IInv, TypeOK
  <2> QED BY <2>1, <2>2, <2>3, <2>4, ThrownIInv
<1>5. CASE Fault /\ global' = ctx /\ asynch' = FALSE /\ UNCHANGED <<screen, host>>
  <2>1. SYSCALL_ERROR \in Thrown
        BY DEF Thrown
  <2>2. faults' = faults + 1 /\ faults' \in 0 .. MaxFaults /\ Throw(SYSCALL_ERROR)
        BY <1>5, AppAssumption DEF Fault, IInv, TypeOK
  <2> QED BY <1>5, <2>1, <2>2, ThrownIInv
<1> QED BY <1>2, <1>3, <1>4, <1>5 DEF DecodeChunk

LEMMA HandleSignTxnIInv == ASSUME IInv, HandleSignTxn PROVE IInv'
<1> DEFINE s == IF global.tag = "txn" THEN global.signature ELSE Garbage
<1>1. Dispatches(wire, "signTxn") /\ DecodeChunk(Context("txn", wire, s)) /\ UNCHANGED lost
      BY DEF HandleSignTxn
<1>2. "signTxn" \in Ins
      BY DEF Ins
<1>3. /\ host.phase = "waiting" /\ wire = host.req /\ wire \in WellFormed /\ wire \in Apdus
      /\ wire.ins = "signTxn" /\ wire.left = host.left /\ pc = "wait"
      /\ screen.flow \notin Approvals /\ pending = 0
      /\ wire' = NoApdu /\ UNCHANGED <<consent, abandons>>
      BY <1>1, <1>2, DispatchFact
<1>4. s \in Payloads
      BY PayloadFact DEF IInv, TypeOK, Contexts
<1> HIDE DEF s
<1> DEFINE ctx == Context("txn", wire, s)
<1>5. /\ ctx \in Contexts /\ ctx.tag = "txn" /\ ctx.key = wire.key /\ ctx.msg = wire.msg
      /\ ctx.left = wire.left /\ DecodeChunk(ctx)
      BY <1>1, <1>3, <1>4, ContextFact
<1> HIDE DEF ctx
<1> QED BY <1>1, <1>3, <1>5, DecodeChunkIInv

LEMMA ContinueTxnIInv == ASSUME IInv, ContinueTxn PROVE IInv'
<1>1. /\ pc = "stream" /\ wire # NoApdu /\ wire' = NoApdu /\ UNCHANGED <<consent, abandons>>
      BY DEF ContinueTxn
<1>2. /\ host.phase = "waiting" /\ wire.left = host.left /\ wire \in Apdus /\ ~asynch
      /\ screen.flow \notin Approvals /\ pending = 0
      BY <1>1 DEF IInv, TypeOK, OnTheWire, Streaming, Flagged, Asked, ReplyDue
<1>3. CASE wire.chunk
  <2> DEFINE ctx == [global EXCEPT !.left = wire.left]
  <2>1. DecodeChunk(ctx) /\ UNCHANGED lost
        BY <1>3 DEF ContinueTxn
  <2>2. /\ host.req \in WellFormed /\ host.req.ins = "signTxn"
        /\ global.tag = "txn" /\ global.key = host.req.key /\ global.msg = host.req.msg
        BY <1>3 DEF IInv, Streaming, InStep
  <2>3. wire.left \in 0 .. MaxChunks /\ global \in Contexts
        BY <1>2 DEF IInv, TypeOK, Apdus
  <2>4. /\ ctx \in Contexts /\ ctx.tag = "txn" /\ ctx.key = host.req.key /\ ctx.msg = host.req.msg
        /\ ctx.left = host.left
        BY <1>2, <2>2, <2>3 DEF Contexts
  <2> HIDE DEF ctx
  <2> QED BY <1>1, <1>2, <2>1, <2>2, <2>4, DecodeChunkIInv
<1>4. CASE ~wire.chunk
  <2>1. Throw(EXCEPTION) /\ UNCHANGED <<global, asynch, screen, host, faults, lost>>
        BY <1>4 DEF ContinueTxn, ForeignApdu
  <2>2. EXCEPTION \in Thrown
        BY DEF Thrown
  <2>3. ~InStep
        BY <1>2, <1>4 DEF InStep
  <2>4. global' \in Contexts /\ faults' \in 0 .. MaxFaults /\ asynch' = FALSE
        BY <1>2, <2>1 DEF IInv, TypeOK
  <2> QED BY <1>1, <1>2, <2>1, <2>2, <2>3, <2>4, ThrownIInv
<1> QED BY <1>3, <1>4

-----------------------------------------------------------------------------
(* The user.                                                               *)

(* What is displayed may be offered to the host.                           *)
LEMMA AskingFact ==
    ASSUME IInv, Asking
    PROVE  /\ pc = "wait" /\ screen.flow \in Approvals /\ ReplyDue /\ pending = 0
           /\ wire = NoApdu /\ ~InStep /\ asynch
           /\ host.req \in WellFormed /\ NeedsApproval(host.req)
           /\ Displayed \in Offered(host.req) /\ Displayed \in Payloads
<1>1. pc = "wait" /\ screen.flow \in Approvals
      BY DEF Asking
<1>2. /\ ReplyDue /\ host.req \in WellFormed /\ NeedsApproval(host.req)
      /\ Displayed \in Offered(host.req) /\ pending = 0 /\ asynch
      BY <1>1 DEF IInv, Asked, Flagged
<1>3. Displayed \in Payloads
  <2>1. global.key \in Keys \cup {NoKey} /\ global.msg \in Msgs \cup {NoMsg} /\ NoMsg \in Msgs \cup {NoMsg}
        BY DEF IInv, TypeOK, Contexts
  <2>2. "pubkey" \in Whats /\ "signature" \in Whats
        BY DEF Whats
  <2>3. SignatureOf(global) \in Payloads
        BY SignatureFact DEF IInv, TypeOK
  <2> QED BY <2>1, <2>2, <2>3, PayloadFact DEF Displayed
<1>4. wire = NoApdu /\ ~InStep
      BY <1>1, <1>2 DEF ReplyDue, InStep, IInv, Streaming
<1> QED BY <1>1, <1>2, <1>3, <1>4

(* A button handler replies.                                               *)
LEMMA AnsweredIInv ==
    ASSUME IInv, Asking, NEW rep \in Replies, Send(rep, "button"),
           rep.sw \in {SW_OK, SW_USER_REJECTED},
           ~FinishMayFail => rep \in Promise!Allowed(host.req, consent)',
           consent' \in Payloads, buf' \in Payloads, screen.flow = "pubkey" => buf' = buf,
           UNCHANGED <<asynch, pending, global, screen, host, wire, counters>>
    PROVE  IInv'
<1>1. pc' = "send" /\ reply' = rep /\ returnTo' = "button"
      BY DEF Send
<1>2. TypeOK'
      BY <1>1 DEF IInv, TypeOK, counters
<1>3. ReplyDue' /\ ~InStep' /\ pending' = 0
      BY AskingFact DEF ReplyDue, InStep
<1>4. rep.sw \notin ErrorWords
      BY StatusFact
<1>5. Replying'
      BY <1>1, <1>3, <1>4 DEF Replying
<1>6. Asked'
      BY <1>3 DEF IInv, Asked, Displayed
<1>7. OnTheWire' /\ Streaming' /\ Flagged' /\ NoSilentWait'
      BY <1>1, <1>3 DEF IInv, OnTheWire, Streaming, Flagged, NoSilentWait
<1>8. Accounted'
      BY <1>1, <1>3, CountFact DEF Accounted, Owed, counters
<1> QED BY <1>2, <1>5, <1>6, <1>7, <1>8 DEF IInv

(* What approval releases, and that the user's consent covers it.          *)
LEMMA ReleaseFact ==
    ASSUME IInv, Asking, consent' = Displayed, UNCHANGED host, NEW d, d = Displayed
    PROVE  /\ Reply(SW_OK, d) \in Replies /\ Reply(SW_OK, d).sw = SW_OK
           /\ Reply(SW_OK, d) \in Promise!Allowed(host.req, consent)'
<1>1. Reply(SW_OK, d) \in Replies /\ Reply(SW_OK, d).sw = SW_OK /\ Reply(SW_OK, d).data = d
      BY AskingFact, ReplyFact
<1>2. Reply(SW_OK, d) \in Promise!Allowed(host.req, d)
      BY <1>1, AskingFact, AllowedFact
<1> QED BY <1>1, <1>2, AskingFact

LEMMA ApprovePublicKeyIInv == ASSUME IInv, ApprovePublicKey PROVE IInv'
<1>1. /\ Asking /\ screen.flow = "pubkey" /\ consent' = Displayed /\ Send(Reply(SW_OK, buf), "button")
      /\ UNCHANGED <<asynch, pending, buf, global, screen, host, wire, counters>>
      BY DEF ApprovePublicKey, Approves, counters
<1>2. buf = Displayed /\ Displayed \in Payloads
      BY <1>1, AskingFact DEF IInv, Asked
<1> DEFINE rep == Reply(SW_OK, buf)
<1>3. rep \in Replies /\ rep.sw = SW_OK /\ rep \in Promise!Allowed(host.req, consent)'
      BY <1>1, <1>2, ReleaseFact
<1>4. Send(rep, "button")
      BY <1>1
<1> HIDE DEF rep
<1> QED BY <1>1, <1>2, <1>3, <1>4, AnsweredIInv

(* A system call may throw under the button: then the error is pending and *)
(* the flow is up as before.                                               *)
LEMMA ApproveHashIInv == ASSUME IInv, ApproveHash PROVE IInv'
<1>1. /\ Asking /\ screen.flow = "hash" /\ consent' = Displayed
      /\ UNCHANGED <<asynch, global, screen, host, wire, abandons, lost>>
      BY DEF ApproveHash, Approves
<1>2. CASE /\ buf' = Payload("signature", global.key, global.msg)
           /\ Send(Reply(SW_OK, buf'), "button") /\ UNCHANGED <<pending, faults>>
  <2>1. buf' = Displayed /\ Displayed \in Payloads
        BY <1>1, <1>2, AskingFact DEF Displayed
  <2> DEFINE rep == Reply(SW_OK, Displayed)
  <2>2. rep \in Replies /\ rep.sw = SW_OK /\ rep \in Promise!Allowed(host.req, consent)'
        BY <1>1, ReleaseFact
  <2>3. Send(rep, "button")
        BY <1>2, <2>1
  <2> HIDE DEF rep
  <2> QED BY <1>1, <1>2, <2>1, <2>2, <2>3, AnsweredIInv DEF counters
<1>3. CASE Fault
  <2>1. /\ pending' = StatusWord(SYSCALL_ERROR) /\ buf' = Garbage /\ pc' = "loop"
        /\ faults' = faults + 1 /\ faults < MaxFaults /\ UNCHANGED <<reply, returnTo>>
        BY <1>3 DEF Fault, Throw
  <2>2. pending' \in ErrorWords /\ pending' # 0
        BY <2>1, StatusFact DEF Thrown
  <2>3. faults' \in 0 .. MaxFaults
        BY <2>1, AppAssumption DEF IInv, TypeOK
  <2>4. TypeOK'
        BY <1>1, <2>1, <2>2, <2>3, AskingFact, PayloadFact DEF IInv, TypeOK
  <2>5. ReplyDue' /\ ~InStep' /\ screen.flow \in Approvals /\ asynch
        BY <1>1, AskingFact DEF ReplyDue, InStep
  <2>6. Asked'
        BY <1>1, <2>5 DEF IInv, Asked, Displayed
  <2>7. OnTheWire' /\ Streaming' /\ Flagged' /\ NoSilentWait' /\ Replying'
        BY <1>1, <2>1, <2>2, <2>5 DEF IInv, OnTheWire, Streaming, Flagged, NoSilentWait, Replying
  <2>8. Accounted'
        BY <1>1, <2>1, CountFact DEF Accounted, Owed
  <2> QED BY <2>4, <2>6, <2>7, <2>8 DEF IInv
<1> QED BY <1>1, <1>2, <1>3 DEF ApproveHash

LEMMA ApproveTxnIInv == ASSUME IInv, ApproveTxn PROVE IInv'
<1>1. /\ Asking /\ screen.flow = "txn" /\ consent' = Displayed /\ buf' = global.signature
      /\ Send(Reply(SW_OK, buf'), "button")
      /\ UNCHANGED <<asynch, pending, global, screen, host, wire, counters>>
      BY DEF ApproveTxn, Approves, counters
<1>2. /\ global.signature \in Payloads /\ Displayed \in Payloads
      /\ ~FinishMayFail => global.signature = Displayed
  <2>1. ~FinishMayFail => global.signature = Displayed
        BY <1>1, AskingFact DEF IInv, Asked
  <2> QED BY <1>1, <2>1, AskingFact DEF IInv, TypeOK, Contexts
<1> DEFINE rep == Reply(SW_OK, global.signature)
<1>3. rep \in Replies /\ rep.sw = SW_OK /\ Send(rep, "button")
      BY <1>1, <1>2, ReplyFact
<1>4. ~FinishMayFail => rep \in Promise!Allowed(host.req, consent)'
      BY <1>1, <1>2, ReleaseFact
<1>5. consent' \in Payloads /\ buf' \in Payloads
      BY <1>1, <1>2, AskingFact DEF IInv, TypeOK, Contexts
<1> HIDE DEF rep
<1> QED BY <1>1, <1>3, <1>4, <1>5, AnsweredIInv

LEMMA RejectIInv == ASSUME IInv, Reject PROVE IInv'
<1> DEFINE rep == Reply(SW_USER_REJECTED, Nothing)
<1>1. /\ Asking /\ consent' = Nothing /\ Send(rep, "button")
      /\ UNCHANGED <<asynch, pending, buf, global, screen, host, wire, counters>>
      BY DEF Reject
<1>2. rep \in Replies /\ rep.sw = SW_USER_REJECTED
      BY ReplyFact, PayloadFact
<1>3. rep \in Promise!Allowed(host.req, Nothing)
      BY <1>1, <1>2, AskingFact, AllowedFact
<1>4. rep \in Promise!Allowed(host.req, consent)'
      BY <1>1, <1>3
<1>5. consent' \in Payloads /\ buf' \in Payloads
      BY <1>1, PayloadFact DEF IInv, TypeOK
<1> HIDE DEF rep
<1> QED BY <1>1, <1>2, <1>4, <1>5, AnsweredIInv

(* Turning pages stays in the flow.                                        *)
LEMMA NavigateIInv ==
    ASSUME IInv, NEW s \in Screens, Navigate(s),
           s.flow = screen.flow \/ (pc \in {"wait", "stream"} /\ screen.flow \notin Approvals
                                                             /\ s.flow \notin Approvals)
    PROVE  IInv'
<1>1. /\ screen' = s
      /\ UNCHANGED <<pc, asynch, pending, buf, global, reply, returnTo, host, wire, consent, counters>>
      BY DEF Navigate
<1>2. TypeOK'
      BY <1>1 DEF IInv, TypeOK, counters
<1>3. ReplyDue' = ReplyDue /\ InStep' = InStep
      BY <1>1 DEF ReplyDue, InStep
<1>4. OnTheWire' /\ Streaming' /\ Flagged' /\ Replying'
      BY <1>1, <1>3 DEF IInv, OnTheWire, Streaming, Flagged, Replying
<1>5. NoSilentWait'
      BY <1>1, <1>3 DEF IInv, NoSilentWait
<1>6. Asked'
      BY <1>1, <1>3 DEF IInv, Asked, Displayed
<1>7. Accounted'
      BY <1>1, <1>3 DEF IInv, Accounted, Owed, counters
<1> QED BY <1>2, <1>4, <1>5, <1>6, <1>7 DEF IInv

LEMMA TurnsPageIInv ==
    ASSUME IInv, ContinueReview \/ AskRejection \/ GoBack \/ DismissStatus PROVE IInv'
<1>1. screen \in Screens
      BY DEF IInv, TypeOK
<1>2. CASE ContinueReview
  <2> DEFINE s == [screen EXCEPT !.page = "review"]
  <2>1. s \in Screens /\ s.flow = screen.flow /\ Navigate(s)
        BY <1>1, <1>2 DEF ContinueReview, Screens
  <2> HIDE DEF s
  <2> QED BY <2>1, NavigateIInv
<1>3. CASE AskRejection
  <2> DEFINE s == [screen EXCEPT !.confirming = TRUE]
  <2>1. s \in Screens /\ s.flow = screen.flow /\ Navigate(s)
        BY <1>1, <1>3 DEF AskRejection, Screens
  <2> HIDE DEF s
  <2> QED BY <2>1, NavigateIInv
<1>4. CASE GoBack
  <2> DEFINE s == [screen EXCEPT !.confirming = FALSE]
  <2>1. s \in Screens /\ s.flow = screen.flow /\ Navigate(s)
        BY <1>1, <1>4 DEF GoBack, Screens
  <2> HIDE DEF s
  <2> QED BY <2>1, NavigateIInv
<1>5. CASE DismissStatus
  <2>1. /\ pc \in {"wait", "stream"} /\ screen.flow \notin Approvals /\ Navigate(ui_idle)
        BY <1>5 DEF DismissStatus, Approvals
  <2> QED BY <2>1, ScreenFact, NavigateIInv
<1> QED BY <1>2, <1>3, <1>4, <1>5

-----------------------------------------------------------------------------
(* The ends of a session, and its start.                                   *)

LEMMA DisconnectFact ==
    ASSUME IInv, Disconnect
    PROVE  /\ host' \in Hosts /\ host'.phase = "idle" /\ wire' = NoApdu
           /\ ~ReplyDue' /\ ~InStep' /\ OnTheWire'
<1>1. host \in Hosts
      BY DEF IInv, TypeOK
<1>2. host' = [host EXCEPT !.phase = "idle"] /\ wire' = NoApdu
      BY DEF Disconnect
<1>3. host' \in Hosts /\ host'.phase = "idle"
      BY <1>1, <1>2, PhaseFact
<1> QED BY <1>2, <1>3, NoApduFact DEF ReplyDue, InStep, OnTheWire

LEMMA ResetIInv == ASSUME IInv, Reset PROVE IInv'
<1>1. /\ pc' = "loop" /\ asynch' = FALSE /\ pending' = 0 /\ reply' = NoReply /\ returnTo' = "none"
      /\ screen' = ui_idle /\ UNCHANGED <<buf, global, consent, counters>>
      BY DEF Reset, Restart
<1>2. /\ host' \in Hosts /\ host'.phase = "idle" /\ wire' = NoApdu
      /\ ~ReplyDue' /\ ~InStep' /\ OnTheWire'
      BY DisconnectFact DEF Reset
<1>3. screen' \in Screens /\ screen'.flow \notin Approvals
      BY <1>1, ScreenFact
<1>4. TypeOK'
      BY <1>1, <1>2, <1>3 DEF IInv, TypeOK, counters
<1>5. Streaming' /\ Flagged' /\ NoSilentWait' /\ Replying' /\ Asked'
      BY <1>1, <1>2, <1>3, NoApduFact DEF Streaming, Flagged, NoSilentWait, Replying, Asked
<1>6. Accounted'
      BY <1>1, CountFact DEF Accounted, Owed, counters
<1> QED BY <1>2, <1>4, <1>5, <1>6 DEF IInv

LEMMA QuitIInv == ASSUME IInv, Quit PROVE IInv'
<1>1. /\ pc \in {"wait", "stream"} /\ screen.flow = "idle" /\ pc' = "exited"
      /\ UNCHANGED <<asynch, pending, buf, global, screen, reply, returnTo, consent, counters>>
      BY DEF Quit
<1>2. /\ host' \in Hosts /\ host'.phase = "idle" /\ wire' = NoApdu
      /\ ~ReplyDue' /\ ~InStep' /\ OnTheWire'
      BY DisconnectFact DEF Quit
<1>3. screen'.flow \notin Approvals /\ pending' = 0
      BY <1>1 DEF Approvals, IInv, Flagged
<1>4. TypeOK'
      BY <1>1, <1>2 DEF IInv, TypeOK, counters
<1>5. Streaming' /\ Flagged' /\ NoSilentWait' /\ Replying' /\ Asked'
      BY <1>1, <1>2, <1>3, NoApduFact DEF Streaming, Flagged, NoSilentWait, Replying, Asked
<1>6. Accounted'
      BY <1>1, <1>3, CountFact DEF Accounted, Owed, counters
<1> QED BY <1>2, <1>4, <1>5, <1>6 DEF IInv

LEMMA LaunchIInv == ASSUME IInv, Launch PROVE IInv'
<1>1. /\ pc = "exited" /\ pc' = "loop" /\ asynch' = FALSE /\ pending' = 0
      /\ reply' = NoReply /\ returnTo' = "none" /\ screen' = ui_idle
      /\ buf' = Nothing /\ global' = ZeroedMemory /\ UNCHANGED <<host, wire, consent, counters>>
      BY DEF Launch, Restart
<1>2. host.phase = "idle" /\ ~InStep
      BY <1>1 DEF IInv, Flagged, Streaming
<1>3. ~ReplyDue' /\ ~InStep' /\ screen' \in Screens /\ screen'.flow \notin Approvals
      BY <1>1, <1>2, ScreenFact DEF ReplyDue, InStep
<1>4. TypeOK'
      BY <1>1, <1>3, PayloadFact, ContextFact DEF IInv, TypeOK, counters
<1>5. OnTheWire' /\ Streaming' /\ Flagged' /\ NoSilentWait' /\ Replying' /\ Asked'
      BY <1>1, <1>2, <1>3
         DEF IInv, OnTheWire, InStep, Streaming, Flagged, NoSilentWait, Replying, Asked
<1>6. Accounted'
      BY <1>1, CountFact DEF Accounted, Owed, counters
<1> QED BY <1>4, <1>5, <1>6 DEF IInv

-----------------------------------------------------------------------------
LEMMA NextIInv == IInv /\ [Next]_vars => IInv'
<1> SUFFICES ASSUME IInv, [Next]_vars PROVE IInv'
    OBVIOUS
<1>1. CASE Device
      BY <1>1, LoopExchangeIInv, SendReplyIInv, RejectApduIInv, HandleGetVersionIInv,
         HandleGetPublicKeyIInv, HandleSignHashIInv, HandleSignTxnIInv, ContinueTxnIInv DEF Device
<1>2. CASE User
      BY <1>2, ApprovePublicKeyIInv, ApproveHashIInv, ApproveTxnIInv, RejectIInv, TurnsPageIInv
         DEF User, Decide
<1>3. CASE Host
      BY <1>3, HostSendIInv, HostContinueIInv, HostAbandonsIInv DEF Host
<1>4. CASE Reset \/ Quit \/ Launch
      BY <1>4, ResetIInv, QuitIInv, LaunchIInv
<1>5. CASE UNCHANGED vars
  <2>1. /\ UNCHANGED <<pc, asynch, pending, buf, global, screen, reply, returnTo>>
        /\ UNCHANGED <<host, wire, consent, faults, abandons, lost>>
        BY <1>5 DEF vars, device, counters
  <2>2. ReplyDue' = ReplyDue /\ InStep' = InStep
        BY <2>1 DEF ReplyDue, InStep
  <2>3. TypeOK' /\ OnTheWire' /\ Streaming' /\ Flagged' /\ Replying' /\ NoSilentWait'
        BY <2>1, <2>2 DEF IInv, TypeOK, OnTheWire, Streaming, Flagged, Replying, NoSilentWait
  <2>4. Asked' /\ Accounted'
        BY <2>1, <2>2 DEF IInv, Asked, Displayed, Accounted, Owed
  <2> QED BY <2>3, <2>4 DEF IInv
<1> QED BY <1>1, <1>2, <1>3, <1>4, <1>5 DEF Next

-----------------------------------------------------------------------------
(* The theorems.                                                           *)

(* The state of the app is inductive: who waits for whom, what is pending, *)
(* displayed and prepared, and how many errors are owed.                   *)
THEOREM Invariant == Spec => []IInv
<1>1. Init => IInv
      BY InitIInv
<1>2. IInv /\ [Next]_vars => IInv'
      BY NextIInv
<1> QED BY <1>1, <1>2, PTL DEF Spec

(* Every variable has its type.                                            *)
THEOREM TypeCorrect == Spec => []TypeOK
<1>1. IInv => TypeOK
      BY DEF IInv
<1> QED BY <1>1, Invariant, PTL

(* Loop, handlers and buttons transmit only to a host that waits for it.   *)
THEOREM RepliesAreDue == Spec => []NoStrayReply
<1>1. IInv => NoStrayReply
      BY DEF IInv, Replying, Flagged, NoStrayReply
<1> QED BY <1>1, Invariant, PTL

(* No host is left waiting in front of the main menu.                      *)
THEOREM NeverSilent == Spec => []NoSilentWait
<1>1. IInv => NoSilentWait
      BY DEF IInv
<1> QED BY <1>1, Invariant, PTL

(* Each abandoned stream and each exception costs at most one sound        *)
(* request an error.                                                       *)
THEOREM ErrorsAreCaused == Spec => []OneErrorPerCause
<1>1. IInv => OneErrorPerCause
  <2> SUFFICES ASSUME IInv PROVE OneErrorPerCause
      OBVIOUS
  <2> QED BY CountFact DEF OneErrorPerCause
<1> QED BY <1>1, Invariant, PTL

(* A chunk is asked for only while the host has one to give.               *)
THEOREM ChunksAreOwed == Spec => []ChunksInStep
<1>1. IInv => ChunksInStep
      BY DEF IInv, Streaming, ChunksInStep
<1> QED BY <1>1, Invariant, PTL

(* What a flow asks about and what its buttons release are one, and what   *)
(* the host waits for, or its beginning in the chunks the host has sent,   *)
(* where every signature comes to its end.                                 *)
THEOREM ScreenIsTrue == ASSUME ~FinishMayFail PROVE Spec => []ContextMatchesScreen
<1>1. IInv => ContextMatchesScreen
      BY DEF IInv, Asked, ContextMatchesScreen
<1> QED BY <1>1, Invariant, PTL

-----------------------------------------------------------------------------
(* The app implements SigningPromise.                                      *)

LEMMA InitPromise == Init => Promise!Init
<1> SUFFICES ASSUME Init PROVE Promise!Init
    OBVIOUS
<1>1. host.phase = "idle" /\ host.heard = NoReply /\ consent = Nothing
      BY DEF Init
<1> QED BY <1>1, PromiseFact DEF Promise!Init

(* The host asks.                                                          *)
LEMMA AskPromise ==
    ASSUME NEW r \in Requests, HostSend(r) PROVE Promise!Next
<1>1. /\ host.phase = "idle" /\ host'.phase = "waiting" /\ host'.req = r
      /\ host'.heard = NoReply /\ consent' = Nothing
      BY DEF HostSend
<1>2. Promise!Ask(r)
      BY <1>1, PromiseFact DEF Promise!Ask
<1> QED BY <1>2, PromiseFact DEF Promise!Next

(* The connection or the client goes away.                                 *)
LEMMA DropPromise ==
    ASSUME IInv, host'.phase = "idle", host'.heard = host.heard, consent' = consent
    PROVE  [Promise!Next]_Promise!promise
<1>1. CASE host.phase = "idle"
      BY <1>1 DEF Promise!promise
<1>2. CASE host.phase # "idle"
  <2>1. host.req # NoApdu
        BY <1>2, RequestFact DEF IInv, OnTheWire
  <2>2. Promise!Drop
        BY <1>2, <2>1, PromiseFact DEF Promise!Drop
  <2> QED BY <2>2 DEF Promise!Next
<1> QED BY <1>1, <1>2

(* A reply is heard that the request may get.                              *)
LEMMA AnswerPromise ==
    ASSUME IInv, ReplyDue, NEW rep \in Replies, rep \in Promise!Allowed(host.req, consent),
           host'.phase = "idle", host'.heard = rep, consent' = consent
    PROVE  [Promise!Next]_Promise!promise
<1>1. host.phase = "waiting" /\ host.req # NoApdu
      BY RequestFact DEF ReplyDue, IInv, OnTheWire
<1>2. Promise!Answer
      BY <1>1, PromiseFact DEF Promise!Answer
<1> QED BY <1>2 DEF Promise!Next

(* The user decides.                                                       *)
LEMMA DecidePromise ==
    ASSUME IInv, Asking, consent' \in {Displayed, Nothing}, host' = host
    PROVE  [Promise!Next]_Promise!promise
<1>1. host.phase = "waiting"
      BY AskingFact DEF ReplyDue
<1>2. Promise!Decide
      BY <1>1, AskingFact, PromiseFact DEF Promise!Decide
<1> QED BY <1>2 DEF Promise!Next

(* Whatever else happens, the host keeps its request.                      *)
LEMMA StutterPromise ==
    ASSUME consent' = consent, host'.heard = host.heard, host'.req = host.req,
           host'.phase = "idle" <=> host.phase = "idle"
    PROVE  [Promise!Next]_Promise!promise
BY DEF Promise!promise

LEMMA DevicePromise ==
    ASSUME ~FinishMayFail, IInv, Device PROVE [Promise!Next]_Promise!promise
<1>1. CASE LoopExchange
  <2>1. CASE pending # 0 /\ ~asynch
    <3> DEFINE rep == Reply(pending, Nothing)
    <3>1. pc = "loop" /\ ReplyDue /\ pending \in ErrorWords /\ consent' = consent /\ Deliver(rep)
          BY <1>1, <2>1 DEF LoopExchange, IInv, Flagged, TypeOK
    <3>2. rep \in Replies /\ rep.sw \in ErrorWords /\ rep.data = Nothing
          BY <3>1, ReplyFact, PayloadFact
    <3>3. rep \in Promise!Allowed(host.req, consent)
          BY <3>2, AllowedFact
    <3> HIDE DEF rep
    <3>4. host'.phase = "idle" /\ host'.heard = rep
          BY <3>1, <3>2, DeliverFact
    <3> QED BY <3>1, <3>2, <3>3, <3>4, AnswerPromise
  <2>2. CASE ~(pending # 0 /\ ~asynch)
        BY <1>1, <2>2, StutterPromise DEF LoopExchange
  <2> QED BY <2>1, <2>2
<1>2. CASE SendReply
  <2>1. /\ ReplyDue /\ reply \in Promise!Allowed(host.req, consent)
        /\ consent' = consent /\ Deliver(reply)
        BY <1>2 DEF SendReply, IInv, Replying
  <2>2. reply \in Replies
        BY <2>1, AllowedFact
  <2>3. host'.phase = "idle" /\ host'.heard = reply
        BY <2>1, <2>2, DeliverFact
  <2> QED BY <2>1, <2>2, <2>3, AnswerPromise
<1>3. CASE RejectApdu
      BY <1>3, StutterPromise DEF RejectApdu, Receives
<1>4. CASE HandleGetVersion
      BY <1>4, StutterPromise DEF HandleGetVersion, Dispatches, Receives
<1>5. CASE HandleGetPublicKey
      BY <1>5, StutterPromise DEF HandleGetPublicKey, Dispatches, Receives
<1>6. CASE HandleSignHash
      BY <1>6, StutterPromise DEF HandleSignHash, Dispatches, Receives
<1>7. ASSUME NEW ctx, DecodeChunk(ctx), consent' = consent
      PROVE  [Promise!Next]_Promise!promise
  <2>1. host \in Hosts
        BY DEF IInv, TypeOK
  <2>2. host' = host \/ (host.phase = "waiting" /\ host' = [host EXCEPT !.phase = "toContinue"])
        BY <1>7 DEF DecodeChunk, AskForMore, FinishTxn, DecodeFails
  <2>3. /\ [host EXCEPT !.phase = "toContinue"].phase = "toContinue"
        /\ [host EXCEPT !.phase = "toContinue"].req = host.req
        /\ [host EXCEPT !.phase = "toContinue"].heard = host.heard
        BY <2>1, PhaseFact
  <2>4. /\ host'.heard = host.heard /\ host'.req = host.req
        /\ host'.phase = "idle" <=> host.phase = "idle"
        BY <2>2, <2>3
  <2> QED BY <1>7, <2>4, StutterPromise
<1>8. CASE HandleSignTxn
      BY <1>7, <1>8 DEF HandleSignTxn, Dispatches, Receives
<1>9. CASE ContinueTxn
  <2>1. CASE wire.chunk
        BY <1>7, <1>9, <2>1 DEF ContinueTxn
  <2>2. CASE ~wire.chunk
        BY <1>9, <2>2, StutterPromise DEF ContinueTxn, ForeignApdu
  <2> QED BY <2>1, <2>2
<1> QED BY <1>1, <1>2, <1>3, <1>4, <1>5, <1>6, <1>8, <1>9 DEF Device

LEMMA StepPromise ==
    ASSUME ~FinishMayFail, IInv, [Next]_vars PROVE [Promise!Next]_Promise!promise
<1>1. CASE Device
      BY <1>1, DevicePromise
<1>2. CASE Decide
  <2>1. Asking /\ consent' \in {Displayed, Nothing} /\ host' = host
        BY <1>2 DEF Decide, ApprovePublicKey, ApproveHash, ApproveTxn, Approves, Reject
  <2> QED BY <2>1, DecidePromise
<1>3. CASE ContinueReview \/ AskRejection \/ GoBack \/ DismissStatus
  <2>1. host' = host /\ consent' = consent
        BY <1>3 DEF ContinueReview, AskRejection, GoBack, DismissStatus, Navigate
  <2> QED BY <2>1, StutterPromise
<1>4. CASE \E r \in Requests : HostSend(r)
      BY <1>4, AskPromise
<1>5. CASE HostContinue
  <2>1. /\ host.phase = "toContinue" /\ host'.phase = "waiting" /\ host'.req = host.req
        /\ host'.heard = host.heard /\ consent' = consent
        BY <1>5 DEF HostContinue, IInv, TypeOK, Hosts
  <2> QED BY <2>1, StutterPromise
<1>6. CASE HostAbandons \/ Reset \/ Quit
  <2>1. host' = [host EXCEPT !.phase = "idle"] /\ consent' = consent
        BY <1>6 DEF HostAbandons, Reset, Quit, Disconnect
  <2>2. host \in Hosts
        BY DEF IInv, TypeOK
  <2>3. host'.phase = "idle" /\ host'.heard = host.heard
        BY <2>1, <2>2, PhaseFact
  <2> QED BY <2>1, <2>3, DropPromise
<1>7. CASE Launch
      BY <1>7, StutterPromise DEF Launch
<1>8. CASE UNCHANGED vars
      BY <1>8, StutterPromise DEF vars
<1> QED BY <1>1, <1>2, <1>3, <1>4, <1>5, <1>6, <1>7, <1>8 DEF Next, User, Host

(* The app keeps its promise to host and user, for all keys, messages and  *)
(* numbers of chunks, and wherever a message ends itself, where every      *)
(* signature comes to its end: one answer for each request, and nothing is *)
(* released but what was approved.                                         *)
THEOREM PromiseKept == ASSUME ~FinishMayFail PROVE Spec => KeepsPromise
<1>1. Init => Promise!Init
      BY InitPromise
<1>2. IInv /\ [Next]_vars => [Promise!Next]_Promise!promise
      BY StepPromise
<1> QED BY <1>1, <1>2, Invariant, PTL DEF Spec, KeepsPromise, Promise!Spec
=============================================================================
