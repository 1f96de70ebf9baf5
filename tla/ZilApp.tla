------------------------------- MODULE ZilApp -------------------------------
(***************************************************************************)
(* The app as a whole: the main loop of main.c, its four command handlers, *)
(* the screens and button handlers they install, and the environment they  *)
(* run in (the host, the transport below io_exchange, the user, USB power).*)
(*                                                                         *)
(* The device has one thread.  Everything between two io_exchange calls is *)
(* one step; other actors run while the thread is blocked in io_exchange.  *)
(* Button handlers run inside the io_exchange of zil_main.                 *)
(***************************************************************************)
EXTENDS ZilApdu

CONSTANTS
    HasNbgl,        \* TRUE: the touch screens (HAVE_NBGL), FALSE: the buttons (HAVE_BAGL)
    FinishMayFail,  \* TRUE: the last step of a streamed signature may return 0
    MaxFaults,      \* bound: system calls that throw
    MaxAbandons     \* bound: streams the host walks away from

ASSUME AppAssumption ==
    /\ HasNbgl \in BOOLEAN
    /\ FinishMayFail \in BOOLEAN
    /\ MaxFaults \in Nat
    /\ MaxAbandons \in Nat

VARIABLES
    pc,         \* where the thread is
    asynch,     \* flags & IO_ASYNCH_REPLY
    pending,    \* the status word CATCH_OTHER left in the buffer (tx = 2), 0 if tx = 0
    buf,        \* contents of G_io_apdu_buffer
    global,     \* the union of command contexts
    screen,     \* what is displayed
    reply,      \* at pc = "send": what io_exchange_with_code sends
    returnTo,   \* at pc = "send": who called it
    host,       \* the host's side of the exchange
    wire,       \* the APDU on its way to the device, or NoApdu
    consent,    \* history: what the user approved since the last request
    faults,     \* history: system calls that threw
    abandons,   \* history: streams the host walked away from
    lost        \* history: sound requests that were answered with an error

device == <<pc, asynch, pending, buf, global, screen, reply, returnTo>>
counters == <<faults, abandons, lost>>
vars == <<device, host, wire, consent, counters>>

-----------------------------------------------------------------------------
(* State.                                                                  *)

Contexts == [tag: {"none", "pubkey", "hash", "txn"}, key: Keys \cup {NoKey},
             msg: Msgs \cup {NoMsg}, left: 0 .. MaxChunks, signature: Payloads]

Context(tag, a, sig) ==
    [tag |-> tag, key |-> a.key, msg |-> a.msg, left |-> a.left, signature |-> sig]

Garbage == Payload("garbage", NoKey, NoMsg)
ZeroedMemory == Context("none", NoApdu, Garbage)

Approvals == {"pubkey", "hash", "txn"}
Screens == [flow: {"idle", "status"} \cup Approvals,
            page: {"start", "review"}, confirming: BOOLEAN]

(* A BAGL flow holds its pages, approve and reject in one ring: "review".  *)
(* An NBGL one begins with a start page.                                   *)
Flow(f) == [flow |-> f, page |-> IF HasNbgl THEN "start" ELSE "review", confirming |-> FALSE]
ui_idle == [flow |-> "idle", page |-> "review", confirming |-> FALSE]

(* Mutant: the button handler forgets to leave its flow.                   *)
Finished_StaysUp == screen

(* What a button handler displays after its reply.                         *)
Finished == [ui_idle EXCEPT !.flow = IF HasNbgl THEN "status" ELSE "idle"]

Hosts == [phase: {"idle", "waiting", "toContinue"}, req: Requests \cup {NoApdu},
          left: 0 .. MaxChunks, heard: Replies \cup {NoReply}]

Init ==
    /\ pc = "loop"
    /\ asynch = FALSE
    /\ pending = 0
    /\ buf = Nothing
    /\ global = ZeroedMemory
    /\ screen = ui_idle
    /\ reply = NoReply
    /\ returnTo = "none"
    /\ host = [phase |-> "idle", req |-> NoApdu, left |-> 0, heard |-> NoReply]
    /\ wire = NoApdu
    /\ consent = Nothing
    /\ faults = 0 /\ abandons = 0 /\ lost = 0

-----------------------------------------------------------------------------
(* The host, a synchronous client.                                         *)

HostSend(r) ==
    /\ host.phase = "idle" /\ pc # "exited"
    /\ host' = [phase |-> "waiting", req |-> r, left |-> r.left, heard |-> NoReply]
    /\ wire' = r
    /\ consent' = Nothing
    /\ UNCHANGED <<device, counters>>

HostContinue ==
    /\ host.phase = "toContinue" /\ host.left > 0
    /\ host' = [host EXCEPT !.phase = "waiting", !.left = @ - 1]
    /\ wire' = Chunk(host.req, host.left - 1)
    /\ UNCHANGED <<device, consent, counters>>

(* The client stops between two chunks; the device is not told.            *)
HostAbandons ==
    /\ host.phase = "toContinue" /\ abandons < MaxAbandons
    /\ host' = [host EXCEPT !.phase = "idle"]
    /\ abandons' = abandons + 1
    /\ UNCHANGED <<device, wire, consent, faults, lost>>

(* A request that deserves its success: only the user may turn it down.    *)
Sound(r) == r \in WellFormed /\ ~(r.ins = "signTxn" /\ r.msg \in BadMsgs)

(* The transport hands rep to the host; nobody hears it unless it waits.   *)
Deliver(rep) ==
    IF host.phase = "waiting"
    THEN /\ host' = [host EXCEPT !.phase = "idle", !.heard = rep]
         /\ lost' = IF rep.sw \in ErrorWords /\ Sound(host.req) THEN lost + 1 ELSE lost
    ELSE UNCHANGED <<host, lost>>

(* The connection is gone: a request without a reply is over.              *)
Disconnect ==
    /\ host' = [host EXCEPT !.phase = "idle"]
    /\ wire' = NoApdu

-----------------------------------------------------------------------------
(* Building blocks of the handlers.                                        *)

(* io_exchange_with_code, up to the transmission itself.                   *)
Send(rep, caller) ==
    /\ pc' = "send"
    /\ reply' = rep
    /\ returnTo' = caller

(* Mutant: the exception is sent as it is.                                 *)
Throw_Raw(e) ==
    /\ pending' = e
    /\ buf' = Garbage
    /\ pc' = "loop"
    /\ UNCHANGED <<reply, returnTo>>

(* THROW up to CATCH_OTHER of zil_main, which leaves flags alone and puts  *)
(* the status word over the first bytes of the buffer.                     *)
Throw(e) ==
    /\ pending' = StatusWord(e)
    /\ buf' = Garbage
    /\ pc' = "loop"
    /\ UNCHANGED <<reply, returnTo>>

Fault ==
    /\ faults < MaxFaults
    /\ faults' = faults + 1
    /\ Throw(SYSCALL_ERROR)

(* A handler installs an approval flow and leaves the reply to a button.   *)
AskUser(flow) ==
    /\ screen' = Flow(flow)
    /\ asynch' = TRUE
    /\ pc' = "loop"
    /\ UNCHANGED <<reply, returnTo, pending>>

-----------------------------------------------------------------------------
(* zil_main: send what is pending unless the flag says not to, then wait.  *)

LoopExchange ==
    /\ pc = "loop"
    /\ IF pending # 0 /\ ~asynch
         THEN Deliver(Reply(pending, Nothing))
         ELSE UNCHANGED <<host, lost>>
    /\ pending' = 0
    /\ pc' = "wait"
    /\ UNCHANGED <<asynch, buf, global, screen, reply, returnTo, wire, consent, faults, abandons>>

(* io_exchange of zil_main returned with an APDU; flags are cleared, and   *)
(* what follows, up to the next io_exchange, is the same step.             *)
Receives(a) ==
    /\ pc = "wait" /\ wire # NoApdu
    /\ a = wire
    /\ wire' = NoApdu
    /\ UNCHANGED <<consent, abandons>>

(* The first check of zil_main that the APDU fails, or 0.                  *)
DispatchError(a) ==
    IF a.rx # "ok" THEN SW_WRONG_DATA_LENGTH
    ELSE IF ~a.cla THEN SW_CLA_NOT_SUPPORTED
    ELSE IF a.ins = "unknown" THEN SW_INS_NOT_SUPPORTED
    ELSE 0

(* Mutant: the handlers do not look at the length of their data.           *)
ParameterError_NoLength(a) ==
    IF a.ins = "getPublicKey" /\ a.p2 = "invalid" THEN SW_INVALID_PARAM ELSE 0

(* The first check of its handler that the APDU fails, or 0.               *)
ParameterError(a) ==
    IF a.ins = "getPublicKey" /\ a.p2 = "invalid" THEN SW_INVALID_PARAM
    ELSE IF a.ins = "getVersion" \/ a.dlen THEN 0
    ELSE IF a.ins = "signHash" THEN EXCEPTION
    ELSE SW_WRONG_DATA_LENGTH

RejectApdu ==
    \E a \in {wire} :
        LET e == IF DispatchError(a) # 0 THEN DispatchError(a) ELSE ParameterError(a)
        IN  /\ Receives(a)
            /\ e # 0
            /\ Throw(e)
            /\ asynch' = FALSE
            \* handleSignTxn stores the key index before its second length check
            /\ \/ UNCHANGED global
               \/ a.ins = "signTxn" /\ DispatchError(a) = 0
                  /\ global' = Context("txn", a, Garbage)
            /\ UNCHANGED <<screen, host, faults, lost>>

Dispatches(a, ins) ==
    Receives(a) /\ DispatchError(a) = 0 /\ ParameterError(a) = 0 /\ a.ins = ins

HandleGetVersion ==
    \E a \in {wire} :
        /\ Dispatches(a, "getVersion")
        /\ buf' = Payload("version", NoKey, NoMsg)
        /\ Send(Reply(SW_OK, buf'), "handler")
        /\ asynch' = FALSE
        /\ UNCHANGED <<pending, global, screen, host, faults, lost>>

(* Mutant: only the flow that shows the raw key asks the user.             *)
RepliesAtOnce_Address(a) == a.p2 # "DISPLAY_PUBKEY"

RepliesAtOnce(a) == a.p2 = "DISPLAY_NONE"

HandleGetPublicKey ==
    \E a \in {wire} :
        /\ Dispatches(a, "getPublicKey")
        /\ global' = Context("pubkey", a, Garbage)
        /\ \/ /\ buf' = Payload("pubkey", a.key, NoMsg)
              /\ IF RepliesAtOnce(a)
                   THEN Send(Reply(SW_OK, buf'), "handler") /\ asynch' = FALSE
                        /\ UNCHANGED <<screen, pending>>
                   ELSE AskUser("pubkey")
              /\ UNCHANGED faults
           \/ Fault /\ asynch' = FALSE /\ UNCHANGED screen
        /\ UNCHANGED <<host, lost>>

HandleSignHash ==
    \E a \in {wire} :
        /\ Dispatches(a, "signHash")
        /\ global' = Context("hash", a, Garbage)
        /\ buf' = Payload("request", NoKey, NoMsg)
        /\ AskUser("hash")
        /\ UNCHANGED <<host, faults, lost>>

(* The signature covers the chunks that were read.                         *)
SignatureOf(ctx) == Payload(IF ctx.left = 0 THEN "signature" ELSE "beginning", ctx.key, ctx.msg)

(* deriveAndSignFinish and what follows it in handleSignTxn.  Nobody looks *)
(* at its result: after a 0 the signature field is what it was.  Nor does  *)
(* anybody look whether chunks are left.                                   *)
FinishTxn(ctx) ==
    /\ global' \in {[ctx EXCEPT !.signature = SignatureOf(ctx)]}
                      \cup {failed \in {ctx} : FinishMayFail}
    /\ AskUser("txn")
    /\ buf' = Payload("request", NoKey, NoMsg)
    /\ UNCHANGED <<host, faults>>

(* istream_callback has used up a chunk: it asks the host for the next one *)
(* and blocks in an io_exchange of its own.                                *)
AskForMore(ctx) ==
    /\ host' = IF host.phase = "waiting" THEN [host EXCEPT !.phase = "toContinue"] ELSE host
    /\ pc' = "stream"
    /\ global' = ctx
    /\ buf' = Payload("request", NoKey, NoMsg)
    /\ asynch' = FALSE
    /\ UNCHANGED <<screen, reply, returnTo, pending, faults>>

(* Mutant: a transaction that does not decode is dropped without a word.   *)
DecodeFails_Silently(ctx) ==
    /\ pc' = "loop" /\ asynch' = FALSE
    /\ global' = ctx
    /\ UNCHANGED <<pending, buf, reply, returnTo, screen, host, faults>>

(* pb_decode returned false, or one of its callbacks failed.               *)
DecodeFails(ctx) ==
    /\ Throw(EXCEPTION) /\ asynch' = FALSE
    /\ global' = ctx
    /\ UNCHANGED <<screen, host, faults>>

(* Mutant: one chunk too many.                                             *)
NeedsMore_OneTooMany(ctx) == ctx.left >= 0

NeedsMore(ctx) == ctx.left > 0

(* pb_decode returns true at the end of the announced bytes, and before it *)
(* at a tag of 0, which may stand in any chunk.                            *)
EndsHere(ctx) == IF NeedsMore(ctx) THEN ctx.msg \in EarlyMsgs ELSE ctx.msg \notin BadMsgs

(* pb_decode and the signature run over the chunk just received, until     *)
(* they need another one, come to the end, or fail.                        *)
DecodeChunk(ctx) ==
    \/ NeedsMore(ctx) /\ AskForMore(ctx)
    \/ EndsHere(ctx) /\ FinishTxn(ctx)
    \/ ctx.msg \in BadMsgs /\ DecodeFails(ctx)
    \/ /\ Fault
       /\ global' = ctx /\ asynch' = FALSE
       /\ UNCHANGED <<screen, host>>

HandleSignTxn ==
    \E a \in {wire} :
        /\ Dispatches(a, "signTxn")
        /\ DecodeChunk(Context("txn", a, IF global.tag = "txn" THEN global.signature ELSE Garbage))
        /\ UNCHANGED lost

(* Mutant: the error is sent, but the callback asks again.                 *)
ForeignApdu_StaysInStream ==
    /\ Deliver(Reply(StatusWord(EXCEPTION), Nothing))
    /\ UNCHANGED <<device, faults>>

(* FAIL on the lengths of what is no continuation APDU.                    *)
ForeignApdu ==
    /\ Throw(EXCEPTION)
    /\ UNCHANGED <<global, asynch, screen, host, faults, lost>>

(* The nested io_exchange returned.  Only lengths are looked at; a first   *)
(* APDU that happens to have those of a continuation is TxnStream's Stray  *)
(* and is left out here.                                                   *)
ContinueTxn ==
    /\ pc = "stream" /\ wire # NoApdu
    /\ wire' = NoApdu
    /\ IF wire.chunk
         THEN DecodeChunk([global EXCEPT !.left = wire.left]) /\ UNCHANGED lost
         ELSE ForeignApdu
    /\ UNCHANGED <<consent, abandons>>

(* The transmission of io_exchange_with_code, and the return to its caller. *)
SendReply ==
    /\ pc = "send"
    /\ Deliver(reply)
    /\ IF returnTo = "handler"
         THEN pc' = "loop" /\ UNCHANGED screen
         ELSE pc' = "wait" /\ screen' = Finished
    /\ reply' = NoReply
    /\ returnTo' = "none"
    /\ UNCHANGED <<asynch, pending, buf, global, wire, consent, faults, abandons>>

-----------------------------------------------------------------------------
(* The user, on an approval flow.  Texts are displayed from the context.   *)

Asking == pc = "wait" /\ screen.flow \in Approvals

(* What signTxn displays was decoded from the chunks that were signed.     *)
Displayed == CASE screen.flow = "pubkey" -> Payload("pubkey", global.key, NoMsg)
               [] screen.flow = "hash"   -> Payload("signature", global.key, global.msg)
               [] OTHER                  -> SignatureOf(global)

Approves(flow) ==
    /\ Asking /\ screen = [flow |-> flow, page |-> "review", confirming |-> FALSE]
    /\ consent' = Displayed
    /\ UNCHANGED <<asynch, global, screen, host, wire, abandons, lost>>

(* The reply is whatever the handler left in the buffer.                   *)
ApprovePublicKey ==
    /\ Approves("pubkey")
    /\ Send(Reply(SW_OK, buf), "button")
    /\ UNCHANGED <<pending, buf, faults>>

ApproveHash ==
    /\ Approves("hash")
    /\ \/ /\ buf' = Payload("signature", global.key, global.msg)
          /\ Send(Reply(SW_OK, buf'), "button")
          /\ UNCHANGED <<pending, faults>>
       \/ Fault

ApproveTxn ==
    /\ Approves("txn")
    /\ buf' = global.signature
    /\ Send(Reply(SW_OK, buf'), "button")
    /\ UNCHANGED <<pending, faults>>

(* The touch screens ask again before a signature is turned down.          *)
MayReject == IF HasNbgl /\ screen.flow # "pubkey" THEN screen.confirming ELSE TRUE

Reject ==
    /\ Asking /\ MayReject
    /\ consent' = Nothing
    /\ Send(Reply(SW_USER_REJECTED, Nothing), "button")
    /\ UNCHANGED <<asynch, pending, buf, global, screen, host, wire, counters>>

Navigate(s) ==
    /\ screen' = s
    /\ UNCHANGED <<pc, asynch, pending, buf, global, reply, returnTo, host, wire, consent, counters>>

ContinueReview == Asking /\ screen.page = "start" /\ ~screen.confirming
                  /\ Navigate([screen EXCEPT !.page = "review"])
AskRejection   == Asking /\ ~MayReject /\ Navigate([screen EXCEPT !.confirming = TRUE])
GoBack         == Asking /\ screen.confirming /\ Navigate([screen EXCEPT !.confirming = FALSE])
DismissStatus  == pc \in {"wait", "stream"} /\ screen.flow = "status" /\ Navigate(ui_idle)

-----------------------------------------------------------------------------
(* Mutants: tx outlives zil_main; main does not return to the menu.        *)
Restart_KeepsTx ==
    /\ pc' = "loop" /\ asynch' = FALSE
    /\ reply' = NoReply /\ returnTo' = "none"
    /\ screen' = ui_idle
    /\ UNCHANGED pending

Restart_KeepsScreen ==
    /\ pc' = "loop" /\ asynch' = FALSE /\ pending' = 0
    /\ reply' = NoReply /\ returnTo' = "none"
    /\ UNCHANGED screen

(* The body of the loop in main, up to the first io_exchange.              *)
Restart ==
    /\ pc' = "loop" /\ asynch' = FALSE /\ pending' = 0
    /\ reply' = NoReply /\ returnTo' = "none"
    /\ screen' = ui_idle

(* EXCEPTION_IO_RESET, out of any io_exchange: main starts zil_main again. *)
(* Neither the union nor the buffer is cleared.                            *)
Reset ==
    /\ pc # "exited"
    /\ Disconnect
    /\ Restart
    /\ UNCHANGED <<buf, global, consent, counters>>

(* "Quit" of the main menu, which stays up while a transaction streams in. *)
Quit ==
    /\ pc \in {"wait", "stream"} /\ screen.flow = "idle"
    /\ Disconnect
    /\ pc' = "exited"
    /\ UNCHANGED <<asynch, pending, buf, global, screen, reply, returnTo, consent, counters>>

(* The user opens the app again.                                           *)
Launch ==
    /\ pc = "exited"
    /\ Restart
    /\ buf' = Nothing
    /\ global' = ZeroedMemory
    /\ UNCHANGED <<host, wire, consent, counters>>

-----------------------------------------------------------------------------
Device ==
    \/ LoopExchange \/ SendReply
    \/ RejectApdu \/ HandleGetVersion \/ HandleGetPublicKey \/ HandleSignHash
    \/ HandleSignTxn \/ ContinueTxn

Decide == ApprovePublicKey \/ ApproveHash \/ ApproveTxn \/ Reject

(* Buttons and touches, which io_event passes on to the flow.              *)
User == Decide \/ ContinueReview \/ AskRejection \/ GoBack \/ DismissStatus

Host == (\E r \in Requests : HostSend(r)) \/ HostContinue \/ HostAbandons

Next == Device \/ User \/ Host \/ Reset \/ Quit \/ Launch

Spec == Init /\ [][Next]_vars

(* The processor runs; a client that was asked for a chunk sends it or     *)
(* gives up; and the user in front of an approval flow keeps turning the   *)
(* pages and, however often a reject is taken back, decides in the end.    *)
Fairness ==
    /\ WF_vars(Device)
    /\ WF_vars(HostContinue)
    /\ WF_vars(ContinueReview)
    /\ SF_vars(Decide)

FairSpec == Spec /\ Fairness

-----------------------------------------------------------------------------
(* Properties.                                                             *)

(* Every variable has its type.                                            *)
TypeOK ==
    /\ pc \in {"loop", "wait", "stream", "send", "exited"}
    /\ asynch \in BOOLEAN
    /\ pending \in ErrorWords \cup {0}
    /\ buf \in Payloads
    /\ global \in Contexts
    /\ screen \in Screens
    /\ reply \in Replies \cup {NoReply}
    /\ returnTo \in {"none", "handler", "button"}
    /\ host \in Hosts
    /\ wire \in Apdus \cup {NoApdu}
    /\ consent \in Payloads
    /\ faults \in 0 .. MaxFaults
    /\ abandons \in 0 .. MaxAbandons
    /\ lost \in Nat

(* The host waits and its APDU has arrived: a reply is due.                *)
ReplyDue == host.phase = "waiting" /\ wire = NoApdu

(* The device transmits a reply only to a host that waits for one: nothing *)
(* is sent twice, after a reset, or for a request that is over, whichever  *)
(* of the main loop, a handler or a button sends it (main.c, 192 and 256). *)
NoStrayReply ==
    pc = "send" \/ (pc = "loop" /\ pending # 0) => ReplyDue

(* Blocked in the main loop with a reply due, the device has asked the     *)
(* user: no path through a handler, an exception or a reset leaves the host *)
(* waiting in front of the main menu (the flag of main.c, 256-260).        *)
NoSilentWait ==
    pc \in {"loop", "wait"} /\ ReplyDue =>
        \/ screen.flow \in Approvals /\ asynch
        \/ pc = "loop" /\ pending # 0

(* While an approval flow is up, the union of contexts and the APDU buffer, *)
(* which later commands, chunks and error words overwrite, still hold what  *)
(* the host is waiting for, up to the last chunk it sent (signTxn.c, 477),  *)
(* and the buttons would release just what is displayed.                    *)
ContextMatchesScreen ==
    screen.flow \in Approvals /\ pc # "exited" =>
        /\ ReplyDue
        /\ global.tag = screen.flow
        /\ Displayed \in Offered(host.req)
        /\ screen.flow = "pubkey" => buf = Displayed
        /\ screen.flow = "txn" => global.signature = Displayed /\ global.left = host.left

(* A client that walks away in the middle of a stream, or a system call    *)
(* that throws, costs at most one sound request an error: the device is in *)
(* step again with the one after it (signTxn.c, 239-284).                  *)
OneErrorPerCause == lost <= faults + abandons

(* A chunk is asked for only while the host has one left to give.          *)
ChunksInStep ==
    /\ host.phase = "toContinue" => host.left > 0
    /\ pc = "stream" /\ wire # NoApdu /\ wire.chunk => global.left = wire.left + 1

(* Every request is answered, or its connection ends.                      *)
RequestsSettle == host.phase # "idle" ~> host.phase = "idle"

(* No approval flow stays up for good.                                     *)
ApprovalsClose == screen.flow \in Approvals ~> screen.flow \notin Approvals

(* The app keeps the promise of SigningPromise: a stream of chunks is one  *)
(* request, and the device's steps are asking, deciding and one answer.    *)
Promise == INSTANCE SigningPromise WITH
    asked <- IF host.phase = "idle" THEN NoApdu ELSE host.req,
    heard <- host.heard

KeepsPromise == Promise!Spec

-----------------------------------------------------------------------------
(* What the comments of the repository say of the program.                 *)

(* main.c, 231-233: an exception is converted to an error code and sent in *)
(* the next io_exchange call.                                              *)
ErrorIsSentNext ==
    [][pc = "loop" /\ pc' = "wait" /\ pending # 0 =>
         host'.heard = Reply(pending, Nothing)]_vars
=============================================================================
