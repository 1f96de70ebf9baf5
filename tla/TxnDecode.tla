------------------------------ MODULE TxnDecode ------------------------------
(***************************************************************************)
(* How signTxn reads a transaction: nanopb's field loop with the callbacks *)
(* of signTxn.c, from the bytes of the message to the values on the        *)
(* screen.  Bytes are their positions in the transaction: a value is where *)
(* it was read, and what a byte says is chosen when it is read.            *)
(*                                                                         *)
(* What the chunks of the host and istream_callback do is TxnStream's; the *)
(* integers of the message and its has_ flags are decoded into a struct    *)
(* that nobody reads, so that only their bytes count here.                 *)
(***************************************************************************)
EXTENDS PbFields

CONSTANTS
    PUB_ADDR_BYTES_LEN,         \* 20
    ZIL_AMOUNT_GASPRICE_BYTES,  \* 16
    TXN_DISP_CODE_MAX_LEN,      \* 500
    TXN_DISP_DATA_MAX_LEN,      \* 500
    RAW_VALUE_LEN,              \* 10, the buffer of decode_callback_field
    FIXED64_LEN,                \* 8
    FIXED32_LEN,                \* 4
    TAGS,                       \* bound: the tags that occur in messages
    MAX_VARINT,                 \* bound: bytes of a varint
    MAX_TXN                     \* bound: bytes of a transaction

toaddr == 3
amount == 5
gasprice == 6
code == 8
data == 9
Shown == {toaddr, amount, gasprice, code, data}

WT_VARINT == 0
WT_64BIT == 1
WT_STRING == 2
WT_32BIT == 5
WT_INVALID == 3    \* and 4, 6, 7
Wires == {WT_VARINT, WT_64BIT, WT_STRING, WT_32BIT, WT_INVALID}

ASSUME DecodeAssumption ==
    /\ FIXED32_LEN \in Nat \ {0} /\ FIXED64_LEN \in Nat \ {0}
    /\ FIXED32_LEN <= FIXED64_LEN /\ FIXED64_LEN <= RAW_VALUE_LEN
    /\ RAW_VALUE_LEN \in Nat
    /\ PUB_ADDR_BYTES_LEN \in Nat /\ PUB_ADDR_BYTES_LEN > RAW_VALUE_LEN
    /\ ZIL_AMOUNT_GASPRICE_BYTES \in Nat /\ ZIL_AMOUNT_GASPRICE_BYTES > RAW_VALUE_LEN
    /\ TXN_DISP_CODE_MAX_LEN \in Nat /\ TXN_DISP_DATA_MAX_LEN \in Nat
    /\ TXN_DISP_CODE_MAX_LEN > RAW_VALUE_LEN /\ TXN_DISP_DATA_MAX_LEN > RAW_VALUE_LEN
    /\ TAGS \subseteq Nat \ {0} /\ MAX_VARINT \in Nat \ {0} /\ MAX_TXN \in Nat

VARIABLES
    pc,         \* where pb_decode is
    total,      \* history: bytes of the transaction
    pos,        \* bytes read from it
    left,       \* bytes_left of the stream and of the open substreams
    iter,       \* the iterators of the message and of the open submessage
    wire,       \* wire type of the field at hand
    shown,      \* the strings for display, by tag
    meant,      \* history: the last value of each field, as the format has it
    improper    \* history: in what the message departs from the format

vars == <<pc, total, pos, left, iter, wire, shown, meant, improper>>

InSubmessage == Len(iter) = 2

Fieldtable == IF InSubmessage THEN ByteArray_fields ELSE ProtoTransactionCoreInfo_fields

Top(s) == s[Len(s)]

Pop(s) == SubSeq(s, 1, Len(s) - 1)

Field == Fieldtable[Top(iter).pos]

(* The submessage at hand: a field of the transaction.                     *)
OuterTag == ProtoTransactionCoreInfo_fields[iter[1].pos].tag

(* A string for display: empty, the n bytes from position p on, or the     *)
(* error for a value too large.  A screen shows the characters before the  *)
(* first '\0', which may be one of the bytes: "seen" of them.              *)
Empty == [from |-> 0, size |-> 0, seen |-> 0]
Text(p, n, s) == [from |-> p, size |-> n, seen |-> s]
TooLarge == [from |-> 0, size |-> -1, seen |-> 16]

Init ==
    /\ pc = "loop"
    /\ total \in 0 .. MAX_TXN
    /\ pos = 0 /\ left = <<total>>
    /\ iter = <<IterBegin(ProtoTransactionCoreInfo_fields)>> /\ wire = 0
    /\ shown = [t \in Shown |-> Empty]
    /\ meant = [t \in Shown |-> <<>>]
    /\ improper = {}

-----------------------------------------------------------------------------
(* Streams                                                                 *)

(* pb_read and pb_readbyte refuse to read past bytes_left.                 *)
Read(n) ==
    /\ n <= Top(left)
    /\ pos' = pos + n
    /\ left' = [left EXCEPT ![Len(left)] = @ - n]

(* Mutant: the length of a substream is not held against its parent.       *)
SubstreamFits_Unchecked(n, size) == n <= Top(left)

SubstreamFits(n, size) == n + size <= Top(left)

(* pb_make_string_substream after a length of n bytes.                     *)
MakeSubstream(n, size) ==
    /\ SubstreamFits(n, size)
    /\ pos' = pos + n
    /\ left' = Append([left EXCEPT ![Len(left)] = @ - n - size], size)

(* Mutant: what a submessage left unread is not skipped.                   *)
AfterClose_NoSkip(p, rest) == p

AfterClose(p, rest) == p + rest

Lengths == 1 .. MAX_VARINT

Sizes == 0 .. total

(* An error ends the decoding; nothing is done with what was decoded.      *)
Fail == pc' = "failed" /\ UNCHANGED <<total, pos, left, iter, wire, shown, meant, improper>>

-----------------------------------------------------------------------------
(* pb_decode_noinit and pb_dec_submessage                                  *)

AfterMessage == IF InSubmessage THEN "loop" ELSE "done"

(* The loop is left after a read of n bytes: a submessage is closed.       *)
LeaveMessage(n, reasons) ==
    /\ pc' = AfterMessage
    /\ improper' = reasons
    /\ IF InSubmessage
         THEN /\ pos' = AfterClose(pos + n, Top(left) - n)
              /\ left' = Pop(left) /\ iter' = Pop(iter)
         ELSE /\ pos' = pos + n
              /\ left' = [left EXCEPT ![1] = @ - n] /\ UNCHANGED iter
    /\ UNCHANGED <<total, wire, shown, meant>>

EndOfMessage ==
    /\ pc = "loop" /\ Top(left) = 0
    /\ LeaveMessage(0, improper)

(* A tag of 0 ends a message, an extension of nanopb.                      *)
EndTag(n) ==
    /\ pc = "loop" /\ n <= Top(left)
    /\ LeaveMessage(n, improper \cup {IF InSubmessage THEN "innerEndTag" ELSE "endTag"})

(* The wire type the format prescribes for a field.                        *)
ProperWire(f) == IF f.ltype = "uvarint" THEN WT_VARINT ELSE WT_STRING

(* pb_decode_tag, pb_field_iter_find, and the branch on what was found.    *)
DecodeTag(n, tag, w) ==
    /\ pc = "loop" /\ Read(n)
    /\ LET found == IterFind(Fieldtable, Top(iter), tag)
           field == Fieldtable[found.pos]
       IN  /\ iter' = [iter EXCEPT ![Len(iter)] = found]
           /\ IF field.tag = tag
                THEN /\ pc' = "field"
                     /\ improper' = IF w = ProperWire(field) THEN improper
                                    ELSE improper \cup {"wire"}
                ELSE pc' = "skip" /\ UNCHANGED improper
    /\ wire' = w
    /\ UNCHANGED <<total, shown, meant>>

(* pb_skip_field: an unknown field, or one without a callback.  A string   *)
(* of m bytes has a length of n bytes before it.                           *)
SkipField(n, m) ==
    /\ pc = "skip"
    /\ \/ wire = WT_VARINT /\ Read(n)
       \/ wire = WT_64BIT /\ Read(FIXED64_LEN)
       \/ wire = WT_32BIT /\ Read(FIXED32_LEN)
       \/ wire = WT_STRING /\ Read(n + m)
    /\ pc' = "loop"
    /\ UNCHANGED <<total, iter, wire, shown, meant, improper>>

(* pb_dec_uvarint: decode_static_field does not look at the wire type.     *)
DecodeUvarint(n) ==
    /\ pc = "field" /\ Field.ltype = "uvarint"
    /\ Read(n) /\ pc' = "loop"
    /\ UNCHANGED <<total, iter, wire, shown, meant, improper>>

(* pb_dec_submessage, which does not look at it either.                    *)
EnterSubmessage(n, size) ==
    /\ pc = "field" /\ Field.ltype = "submessage"
    /\ MakeSubstream(n, size)
    /\ iter' = Append(iter, IterBegin(ByteArray_fields))
    /\ pc' = "loop"
    /\ UNCHANGED <<total, wire, shown, meant, improper>>

-----------------------------------------------------------------------------
(* decode_callback_field and the callbacks                                 *)

(* Mutant: the argument of gasprice's callback is that of amount.          *)
CallbackAt_NoArg(outer, inner) ==
    IF inner # 0 THEN 0
    ELSE CASE outer = TxnOffsets[3].start -> toaddr
           [] outer \in {TxnOffsets[5].start, TxnOffsets[6].start} -> amount
           [] outer = TxnOffsets[8].start -> code
           [] outer = TxnOffsets[9].start -> data
           [] OTHER -> 0

(* The callbacks that sign_deserialize_stream puts in place and that       *)
(* pb_message_set_to_defaults leaves alone, by their place in the struct:  *)
(* the string for display they write, or 0 for none.                       *)
CallbackAt(outer, inner) ==
    IF inner # 0 THEN 0
    ELSE CASE outer = TxnOffsets[3].start -> toaddr
           [] outer = TxnOffsets[5].start -> amount
           [] outer = TxnOffsets[6].start -> gasprice
           [] outer = TxnOffsets[8].start -> code
           [] outer = TxnOffsets[9].start -> data
           [] OTHER -> 0

Callback == CallbackAt(iter[1].pData, IF InSubmessage THEN iter[2].pData ELSE 0)

IsCallback == pc = "field" /\ Field.atype = "callback"

(* The format: the last of several values of a field counts.               *)
ValueMeant(tag, p, n) ==
    IF tag \in Shown THEN [meant EXCEPT ![tag] = <<p, n>>] ELSE meant

MeantTag == IF InSubmessage THEN OuterTag ELSE Field.tag

NoCallback ==
    /\ IsCallback /\ Callback = 0
    /\ pc' = "skip"
    /\ UNCHANGED <<total, pos, left, iter, wire, shown, meant, improper>>

OpenValue(n, size) ==
    /\ IsCallback /\ Callback # 0 /\ wire = WT_STRING
    /\ MakeSubstream(n, size)
    /\ pc' = "callback"
    /\ meant' = ValueMeant(MeantTag, pos + n, size)
    /\ UNCHANGED <<total, iter, wire, shown, improper>>

(* The substream is used up: out of the loop of callbacks.                 *)
NextCallback ==
    IF Top(left)' = 0 THEN "close" ELSE "callback"

FitsDisplay(tag, n) ==
    n + 1 <= IF tag = code THEN TXN_DISP_CODE_MAX_LEN ELSE TXN_DISP_DATA_MAX_LEN

(* Mutant: a value too large is left in the stream.                        *)
Consumed_OnlyShown(tag, n) == IF FitsDisplay(tag, n) THEN n ELSE 0

Consumed(tag, n) == n

(* decode_and_store_in_ctx takes what there is.                            *)
StoreText(seen) ==
    /\ pc = "callback" /\ Callback \in {code, data}
    /\ LET n == Top(left)
       IN  /\ seen <= n
           /\ Read(Consumed(Callback, n))
           /\ shown' = [shown EXCEPT ![Callback] =
                          IF FitsDisplay(Callback, n) THEN Text(pos, n, seen) ELSE TooLarge]
    /\ pc' = NextCallback
    /\ UNCHANGED <<total, iter, wire, meant, improper>>

ValueLen(tag) == IF tag = toaddr THEN PUB_ADDR_BYTES_LEN ELSE ZIL_AMOUNT_GASPRICE_BYTES

(* decode_toaddr_callback and decode_amount_gasprice_callback take one     *)
(* address or amount, and are called again for what a value has more.      *)
StoreValue ==
    /\ pc = "callback" /\ Callback \in {toaddr, amount, gasprice}
    /\ Read(ValueLen(Callback))
    /\ shown' = [shown EXCEPT ![Callback] = Text(pos, ValueLen(Callback), ValueLen(Callback))]
    /\ pc' = NextCallback
    /\ UNCHANGED <<total, iter, wire, meant, improper>>

CloseValue ==
    /\ pc = "close"
    /\ left' = Pop(left) /\ pc' = "loop"
    /\ UNCHANGED <<total, pos, iter, wire, shown, meant, improper>>

(* A value that is no string goes through a buffer, which the callback     *)
(* reads once; it is too short for an address or an amount.                *)
RawValue(n, seen) ==
    /\ IsCallback /\ Callback \in {code, data}
    /\ \/ wire = WT_VARINT /\ n <= RAW_VALUE_LEN
       \/ wire = WT_64BIT /\ n = FIXED64_LEN
       \/ wire = WT_32BIT /\ n = FIXED32_LEN
    /\ Read(n) /\ seen <= n
    /\ shown' = [shown EXCEPT ![Callback] = Text(pos, n, seen)]
    /\ pc' = "loop"
    /\ UNCHANGED <<total, iter, wire, meant, improper>>

(* What reading on takes at least: a fixed number of bytes, or one byte of *)
(* a varint.                                                               *)
Needed ==
    CASE pc = "callback" -> IF Callback \in {code, data} THEN 0 ELSE ValueLen(Callback)
      [] (pc = "skip" \/ IsCallback) /\ wire = WT_64BIT -> FIXED64_LEN
      [] (pc = "skip" \/ IsCallback) /\ wire = WT_32BIT -> FIXED32_LEN
      [] OTHER -> 1

(* The end of a stream within a value, a wire type that does not exist, an *)
(* address or amount that is no string.                                    *)
EndOfStream ==
    /\ \/ pc \in {"skip", "field", "callback"} /\ Top(left) < Needed
       \/ pc = "skip" /\ wire = WT_INVALID
       \/ IsCallback /\ Callback # 0 /\ wire # WT_STRING
            /\ (wire = WT_INVALID \/ Callback \notin {code, data})
    /\ Fail

(* A varint that overflows or is cut short, a string longer than what is   *)
(* left, a host that sends no proper chunk.                                *)
Error ==
    /\ pc \in {"loop", "skip", "field", "callback"}
    /\ pc = "loop" => Top(left) > 0
    /\ Fail

Step ==
    \/ EndOfMessage
    \/ \E n \in Lengths : EndTag(n) \/ DecodeUvarint(n)
    \/ \E n \in Lengths, tag \in TAGS, w \in Wires : DecodeTag(n, tag, w)
    \/ \E n \in Lengths, m \in Sizes : SkipField(n, m) \/ EnterSubmessage(n, m) \/ OpenValue(n, m)
    \/ NoCallback
    \/ \E seen \in Sizes : StoreText(seen)
    \/ StoreValue
    \/ CloseValue
    \/ \E n \in Lengths \cup {FIXED64_LEN, FIXED32_LEN}, seen \in Sizes : RawValue(n, seen)
    \/ EndOfStream

Next == Step \/ Error

(* The host goes on sending; no error comes to the rescue of a loop.       *)
Spec == Init /\ [][Next]_vars /\ WF_vars(Step)

-----------------------------------------------------------------------------
(* The pages of ui_display_sign_txn_flow besides amount, gas price and     *)
(* address.                                                                *)
Pages ==
    IF shown[code].seen = 0
      THEN IF shown[data].seen = 0 THEN {} ELSE {data}
      ELSE {code, data}

SumTo(s) == LET sum[i \in 0 .. Len(s)] == IF i = 0 THEN 0 ELSE sum[i - 1] + s[i] IN sum[Len(s)]

(* Every variable has its type: no stream of the nest has less than nothing *)
(* left.                                                                   *)
TypeOK ==
    /\ pc \in {"loop", "skip", "field", "callback", "close", "done", "failed"}
    /\ total \in 0 .. MAX_TXN /\ pos \in Nat
    /\ left \in Seq(Nat) /\ Len(left) \in 1 .. 3
    /\ Len(iter) \in 1 .. 2 /\ wire \in Wires
    /\ \A t \in Shown : shown[t].size \in -1 .. total /\ shown[t].seen \in Nat
    /\ \A t \in Shown : Len(meant[t]) \in {0, 2}
    /\ improper \subseteq {"endTag", "innerEndTag", "wire"}

(* In whatever order the fields come, the iterator is at the member of the *)
(* struct, and the has_ flag, of the field it found.                       *)
IterInStep ==
    /\ iter[1].pData = TxnOffsets[iter[1].pos].start
    /\ HasSize(TxnMembers[iter[1].pos]) = 1 => iter[1].pSize = TxnOffsets[iter[1].pos].has

(* What is on the screen when a message of the right format was accepted.  *)
(* Of an address or an amount, the end of the last value given, which may  *)
(* be longer by a multiple of the bytes shown, and of no other length      *)
(* (pb_decode.c, 794-798, over signTxn.c, 334 and 372).  Of code and data, *)
(* the last value, or word that it is too large; it has a page if there is *)
(* anything in it and no '\0'.  A '\0' in it ends the text, and as its     *)
(* first byte it may cost it its page (signTxn.c, 135).                    *)
ShownIsMeant ==
    pc = "done" /\ improper = {} =>
      /\ \A t \in {toaddr, amount, gasprice} :
            IF meant[t] = <<>> THEN shown[t] = Empty
            ELSE LET from == meant[t][1]  size == meant[t][2]  len == ValueLen(t)
                 IN  /\ size > 0 /\ size % len = 0
                     /\ shown[t] = Text(from + size - len, len, len)
      /\ \A t \in {code, data} :
            IF meant[t] = <<>> THEN shown[t] = Empty
            ELSE LET from == meant[t][1]  size == meant[t][2]
                     fits == size < IF t = code THEN TXN_DISP_CODE_MAX_LEN ELSE TXN_DISP_DATA_MAX_LEN
                 IN  /\ shown[t] = IF fits THEN Text(from, size, shown[t].seen) ELSE TooLarge
                     /\ size > 0 /\ (fits => shown[t].seen = size) => t \in Pages

(* The decoder as its input sees it.  Nothing counts after an error.       *)
Status ==
    CASE pc = "done" -> "accepted" [] pc = "failed" -> "none" [] OTHER -> "reading"

NextByte == IF pc = "failed" THEN 0 ELSE pos

Innermost == IF pc = "failed" THEN 0 ELSE Len(left) - 1

(* What the stream at a level and those inside it have left.               *)
Unread(l) == SumTo(SubSeq(left, l + 1, Len(left)))

Ends == [l \in 0 .. 2 |-> IF pc # "failed" /\ l <= Innermost THEN pos + Unread(l) ELSE 0]

Input == INSTANCE TxnInput WITH
    Totals <- 0 .. MAX_TXN, MAX_LEVEL <- 2,
    status <- Status, pos <- NextByte, level <- Innermost, end <- Ends

(* Whatever the message says, the decoder takes its bytes as TxnInput has  *)
(* them: every submessage and every value ends where its length says, what *)
(* was left of one is skipped when it is closed, and a transaction is      *)
(* accepted outside of them only (pb_decode.c, pb_close_string_substream,  *)
(* under the callbacks of signTxn.c).                                      *)
TakesInput == Input!Spec

(* The decoder comes to an end: callbacks that are called as long as there *)
(* are bytes left take some of them.                                       *)
DecodingEnds == <>(pc \in {"done", "failed"})

-----------------------------------------------------------------------------
(* signTxn.c calls the flow without pages for code and data the flow of    *)
(* transactions with neither.                                              *)
SimpleFlowShowsAll ==
    pc = "done" /\ Pages = {} => \A t \in {code, data} : meant[t] = <<>> \/ meant[t][2] = 0
=============================================================================
