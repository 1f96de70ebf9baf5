------------------------------- MODULE ZilApdu -------------------------------
(***************************************************************************)
(* The APDUs exchanged by the host and the Zilliqa app: the requests a     *)
(* host sends, the replies the app gives, and the status words.  Payload   *)
(* bytes are abstracted to the key index and the message they carry.       *)
(***************************************************************************)
EXTENDS Naturals

CONSTANTS
    Keys,       \* key indices a request may name
    Msgs,       \* hashes and transactions a host may ask to have signed
    BadMsgs,    \* the transactions of Msgs that pb_decode does not accept
    EarlyMsgs,  \* those that pb_decode may take to end before their last chunk: at a 0 tag
    NoKey,      \* the key index of what names no key
    NoMsg,      \* the message of what carries no message
    MaxChunks   \* bound: continuation APDUs of one streamed transaction

ASSUME ApduAssumption ==
    /\ BadMsgs \subseteq Msgs /\ EarlyMsgs \subseteq Msgs
    /\ NoKey \notin Keys
    /\ NoMsg \notin Msgs
    /\ MaxChunks \in Nat

-----------------------------------------------------------------------------
(* Status words, in decimal: zilliqa.h writes them in hexadecimal.         *)

SW_OK                == 36864   \* 0x9000
SW_USER_REJECTED     == 27013   \* 0x6985
SW_WRONG_DATA_LENGTH == 27271   \* 0x6A87
SW_INVALID_PARAM     == 27393   \* 0x6B01
SW_INS_NOT_SUPPORTED == 27904   \* 0x6D00
SW_CLA_NOT_SUPPORTED == 28160   \* 0x6E00

(* What assert and FAIL throw, and what a failing os_ or cx_ system call   *)
(* throws: neither is a status word yet.                                   *)
EXCEPTION     == 1
SYSCALL_ERROR == 2

Thrown == { SW_WRONG_DATA_LENGTH, SW_INVALID_PARAM, SW_INS_NOT_SUPPORTED,
            SW_CLA_NOT_SUPPORTED, EXCEPTION, SYSCALL_ERROR }

(* The switch of CATCH_OTHER: a code 0x6... or 0x9... is sent as it is,    *)
(* any other becomes 0x6800 | (e & 0x7FF).                                 *)
StatusWord(e) ==
    IF (e \div 4096) % 16 \in {6, 9} THEN e % 65536 ELSE 26624 + (e % 2048)

ErrorWords == { StatusWord(e) : e \in Thrown }

-----------------------------------------------------------------------------
(* Requests.  rx, cla and dlen say whether the checks of zil_main and of   *)
(* the handler on the length and class bytes pass; left is the number of   *)
(* continuation APDUs the sender announces (hostBytesLeft, in chunks);     *)
(* chunk tells the continuation layout from that of a first APDU.          *)

Ins == {"getVersion", "getPublicKey", "signTxn", "signHash", "unknown"}
P2  == {"DISPLAY_PUBKEY", "DISPLAY_ADDRESS", "DISPLAY_NONE", "invalid"}
Rx  == {"short", "badLC", "ok"}

Apdus == [rx: Rx, cla: BOOLEAN, ins: Ins, p2: P2, dlen: BOOLEAN,
          key: Keys \cup {NoKey}, msg: Msgs \cup {NoMsg},
          left: 0 .. MaxChunks, chunk: BOOLEAN]

Apdu(ins, p2, key, msg, left) ==
    [rx |-> "ok", cla |-> TRUE, ins |-> ins, p2 |-> p2, dlen |-> TRUE,
     key |-> key, msg |-> msg, left |-> left, chunk |-> FALSE]

GetVersion == Apdu("getVersion", "DISPLAY_PUBKEY", NoKey, NoMsg, 0)

WellFormed ==
    {GetVersion}
    \cup { Apdu("getPublicKey", p2, k, NoMsg, 0) : p2 \in P2 \ {"invalid"}, k \in Keys }
    \cup { Apdu("signHash", "DISPLAY_PUBKEY", k, m, 0) : k \in Keys, m \in Msgs }
    \cup { Apdu("signTxn", "DISPLAY_PUBKEY", k, m, n) :
               k \in Keys, m \in Msgs, n \in 0 .. MaxChunks }

(* One representative of each check that turns a request away.             *)
Malformed ==
    { [GetVersion EXCEPT !.rx = "short"],
      [GetVersion EXCEPT !.rx = "badLC"],
      [GetVersion EXCEPT !.cla = FALSE],
      [GetVersion EXCEPT !.ins = "unknown"] }
    \cup { [Apdu("getPublicKey", p2, k, NoMsg, 0) EXCEPT !.dlen = FALSE] : p2 \in P2, k \in Keys }
    \cup { Apdu("getPublicKey", "invalid", k, NoMsg, 0) : k \in Keys }
    \cup { [Apdu(i, "DISPLAY_PUBKEY", k, m, 0) EXCEPT !.dlen = FALSE] :
               i \in {"signHash", "signTxn"}, k \in Keys, m \in Msgs }

Requests == WellFormed \cup Malformed

(* The absence of an APDU.                                                 *)
NoApdu == [GetVersion EXCEPT !.rx = "none"]

(* The continuation APDU after which n more follow.                        *)
Chunk(r, n) == [r EXCEPT !.left = n, !.chunk = TRUE]

(* The handler asks the user before it replies.                            *)
NeedsApproval(r) ==
    \/ r.ins \in {"signHash", "signTxn"}
    \/ r.ins = "getPublicKey" /\ r.p2 # "DISPLAY_NONE"

-----------------------------------------------------------------------------
(* Contents of G_io_apdu_buffer, and replies: contents with a status word. *)

(* "beginning" is a signature of the first chunks of a transaction.        *)

Payloads == [what: {"nothing", "request", "version", "pubkey", "signature", "beginning", "garbage"},
             key: Keys \cup {NoKey}, msg: Msgs \cup {NoMsg}]

Payload(what, key, msg) == [what |-> what, key |-> key, msg |-> msg]
Nothing == Payload("nothing", NoKey, NoMsg)

StatusWords == ErrorWords \cup {SW_OK, SW_USER_REJECTED}
Replies == [sw: StatusWords, data: Payloads]

Reply(sw, data) == [sw |-> sw, data |-> data]
NoReply == [sw |-> 0, data |-> Nothing]

(* What r asks for.                                                        *)
Wanted(r) ==
    CASE r.ins = "getVersion"   -> Payload("version", NoKey, NoMsg)
      [] r.ins = "getPublicKey" -> Payload("pubkey", r.key, NoMsg)
      [] OTHER                  -> Payload("signature", r.key, r.msg)

(* A transaction in chunks whose message may end before the last of them.  *)
MayEndEarly(r) == r.ins = "signTxn" /\ r.msg \in EarlyMsgs /\ r.left > 0

(* What the user may be asked about, and a successful reply to r carry.    *)
Offered(r) == {Wanted(r)} \cup { Payload("beginning", t.key, t.msg) : t \in {u \in {r} : MayEndEarly(u)} }
=============================================================================
