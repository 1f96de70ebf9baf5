------------------------------ MODULE TxnStream ------------------------------
(***************************************************************************)
(* signTxn on a transaction that does not fit in one APDU.  The decoder    *)
(* reads it through istream_callback, which serves it from a buffer and    *)
(* fetches the next chunk from the host when the buffer is used up; every  *)
(* chunk is hashed for the signature when it arrives, before it is decoded.*)
(*                                                                         *)
(* Bytes are told apart by their position in the transaction only: the     *)
(* decoder reads at will, within the limits pb_read enforces.  A read with *)
(* no destination, which pb_read makes 16 bytes at a time, is a row of     *)
(* reads, and a read of no bytes changes nothing.                          *)
(***************************************************************************)
EXTENDS Integers

CONSTANTS
    TXN_BUF_SIZE,       \* size of StreamData.buf
    ZIL_MAX_TXN_SIZE,   \* largest transaction accepted
    WORD,               \* how many values the four bytes of a number have
    Totals,             \* bound: sizes of transactions: the first chunk and the rest announced
    KeyIndices,         \* bound: key indices in requests that come out of turn
    MaxEmpty            \* bound: empty continuations that a client sends in one read

ASSUME StreamAssumption ==
    /\ TXN_BUF_SIZE \in Nat \ {0}
    /\ ZIL_MAX_TXN_SIZE \in Nat
    /\ WORD \in Nat /\ ZIL_MAX_TXN_SIZE + TXN_BUF_SIZE < WORD \div 2
    /\ Totals \subseteq Nat
    /\ KeyIndices \subseteq 0 .. WORD - 1
    /\ MaxEmpty \in Nat

VARIABLES
    mode,           \* where sign_deserialize_stream is
    total,          \* history: size of the transaction
    toSend,         \* history: bytes that the host has yet to send of what it is sending
    strayed,        \* history: the first APDU of another request was taken for a chunk
    hostBytesLeft,  \* sd->hostBytesLeft
    len,            \* sd->len
    nextIdx,        \* sd->nextIdx
    base,           \* history: position of sd->buf[0] in what came in
    hashed,         \* bytes fed to the hash of the signature
    decoded,        \* history: bytes handed to the decoder
    bytesLeft,      \* bytes_left of the stream and of its substreams
    level,          \* the innermost open (sub)stream
    field,          \* "begun" once a byte was read since a substream was opened or closed
    count,          \* at "read" and "ask": the argument of the outermost callback
    want,           \* and what it still has to copy
    depth,          \* how deep it has called itself
    empties,        \* history: and how many of these calls were made with an empty chunk
    signed          \* bytes under the signature in ctx->signature

buffer == <<len, nextIdx, base>>
decoder == <<bytesLeft, level, field, count>>
calls == <<want, depth, empties>>
host == <<toSend, strayed>>
vars == <<mode, total, host, hostBytesLeft, buffer, hashed, decoded, decoder, calls, signed>>

(* The transaction, a bytes field or a submessage of it, and the bytes     *)
(* field of the submessage: ByteArray has no submessage of its own.        *)
Levels == 0 .. 2

Min2(a, b) == IF a < b THEN a ELSE b

Init ==
    /\ mode = "idle"
    /\ total = 0 /\ toSend = 0 /\ strayed = FALSE /\ hostBytesLeft = 0
    /\ len = 0 /\ nextIdx = 0 /\ base = 0
    /\ hashed = 0 /\ decoded = 0
    /\ bytesLeft = [l \in Levels |-> 0] /\ level = 0 /\ field = "next"
    /\ count = 0 /\ want = 0 /\ depth = 0 /\ empties = 0
    /\ signed = 0

-----------------------------------------------------------------------------
(* Four bytes as an int: the upper half of their values is negative.       *)
Signed(w) == IF w < WORD \div 2 THEN w ELSE w - WORD

(* The assertion on the rest announced with a first chunk of n bytes, which *)
(* handleSignTxn has put into an int.                                      *)
FirstAccepted(rest, n) == Signed(rest) <= ZIL_MAX_TXN_SIZE - n

(* Mutant: the assertion leaves no room for the chunk just received.       *)
SizeAccepted_Strict(rest, n) == rest < ZIL_MAX_TXN_SIZE - n

(* The same assertion after a continuation: there the rest is unsigned.    *)
SizeAccepted(rest, n) == rest <= ZIL_MAX_TXN_SIZE - n

(* Mutant: the hash goes on where the last transaction left it.            *)
HashInit_Missing == hashed

(* zil_ecschnorr_sign_init starts a new hash: bytes of this transaction.   *)
HashInit == 0

(* Mutant: bytes_left of the stream counts the first chunk only.           *)
StreamSize_FirstChunk(rest, n) == n

(* bytes_left of the stream: a sum of two int, made unsigned.              *)
StreamSize(rest, n) == (rest + n) % WORD

(* The first APDU: n bytes, and the rest of t announced.                   *)
Start(t, n) ==
    /\ mode \in {"idle", "done", "error", "refused", "ranOut"}
    /\ total' = t /\ toSend' = t - n /\ strayed' = FALSE
    /\ len' = n /\ nextIdx' = 0 /\ base' = 0
    /\ hostBytesLeft' = Signed(t - n)
    /\ decoded' = 0
    /\ IF FirstAccepted(t - n, n)
         THEN /\ mode' = "decode"
              /\ hashed' = HashInit + n
              /\ bytesLeft' = [l \in Levels |-> IF l = 0 THEN StreamSize(t - n, n) ELSE 0]
              /\ level' = 0 /\ field' = "next"
              /\ count' = 0 /\ want' = 0 /\ depth' = 0 /\ empties' = 0
         ELSE mode' = "refused" /\ UNCHANGED <<hashed, decoder, calls>>
    /\ UNCHANGED signed

(* Mutant: a read in a substream is held against the whole stream.         *)
ReadAllowed_Outer(n) == n <= bytesLeft[0] + bytesLeft[level]

ReadAllowed(n) == n <= bytesLeft[level]

(* pb_read or pb_readbyte, up to the call of istream_callback.             *)
Read(n) ==
    /\ mode = "decode"
    /\ ReadAllowed(n)
    /\ mode' = "read"
    /\ count' = n /\ want' = n /\ depth' = 0 /\ empties' = 0
    /\ UNCHANGED <<total, host, hostBytesLeft, buffer, hashed, decoded,
                   bytesLeft, level, field, signed>>

(* What one call of istream_callback copies.                               *)
CopyLen == IF len > nextIdx THEN Min2(len - nextIdx, want) ELSE 0

(* Mutant: the recursive call asks for all of it again.                    *)
StillWanted_All == IF CopyLen = want THEN 0 ELSE want

StillWanted == want - CopyLen

Copy ==
    /\ mode = "read"
    /\ nextIdx' = nextIdx + CopyLen
    /\ want' = StillWanted
    /\ decoded' = decoded + CopyLen
    /\ UNCHANGED <<total, host, hostBytesLeft, len, base, hashed, level, count, depth, empties, signed>>

(* All calls of istream_callback return, and pb_read takes the bytes off.  *)
ReadReturns ==
    /\ Copy
    /\ want' = 0
    /\ bytesLeft' = [bytesLeft EXCEPT ![level] = @ - count]
    /\ field' = "begun"
    /\ mode' = "decode"

AskHost ==
    /\ Copy
    /\ want' > 0
    /\ mode' = IF nextIdx' # len THEN "broken"
               ELSE IF hostBytesLeft # 0 THEN "ask" ELSE "ranOut"
    /\ UNCHANGED <<bytesLeft, field>>

(* zil_ecschnorr_sign_continue.                                            *)
HashContinue(n) == hashed + n

FirstIdx == 0

(* The buffer takes a chunk of n bytes after which as many are announced,  *)
(* and istream_callback calls itself.                                      *)
TakeChunk(n, announced) ==
    IF SizeAccepted(announced, n)
      THEN /\ len' = n /\ nextIdx' = FirstIdx /\ base' = base + len
           /\ hostBytesLeft' = announced
           /\ hashed' = HashContinue(n)
           /\ depth' = depth + 1
           /\ mode' = "read"
      ELSE mode' = "refused" /\ UNCHANGED <<buffer, hostBytesLeft, hashed, depth>>

(* A continuation APDU of n bytes; an empty one is taken like any other.   *)
HostChunk(n) ==
    /\ mode = "ask"
    /\ n <= toSend
    /\ n = 0 => empties < MaxEmpty
    /\ toSend' = toSend - n
    /\ empties' = IF n = 0 THEN empties + 1 ELSE empties
    /\ TakeChunk(n, toSend - n)
    /\ UNCHANGED <<total, strayed, decoded, decoder, want, signed>>

(* The client went away, and the first APDU of its next request passes for *)
(* a continuation: only lengths are looked at.  Its key index i is read as *)
(* the rest to come, and its next four bytes as the length n of the chunk: *)
(* the rest of another transaction, or the first bytes of a hash.          *)
Stray(i, n) ==
    /\ mode = "ask"
    /\ toSend' \in {n, 0}
    /\ strayed' = TRUE
    /\ TakeChunk(n, i)
    /\ UNCHANGED <<total, decoded, decoder, want, empties, signed>>

(* The nested io_exchange unwinds: the connection is gone, or an APDU came  *)
(* whose lengths are not those of a continuation.                          *)
Interrupted ==
    /\ mode = "ask"
    /\ mode' \in {"idle", "error"}
    /\ UNCHANGED <<total, host, hostBytesLeft, buffer, hashed, decoded, decoder, calls, signed>>

(* Mutant: the substream is not taken off its parent.                      *)
Reserve_Twice(b, size) == [b EXCEPT ![level + 1] = size]

Reserve(b, size) == [b EXCEPT ![level] = @ - size, ![level + 1] = size]

(* pb_make_string_substream with a length that the parent has left.        *)
OpenSubstream(size) ==
    /\ mode = "decode" /\ field = "begun"
    /\ level + 1 \in Levels
    /\ size <= bytesLeft[level]
    /\ bytesLeft' = Reserve(bytesLeft, size)
    /\ level' = level + 1
    /\ field' = "next"
    /\ UNCHANGED <<mode, total, host, hostBytesLeft, buffer, hashed, decoded,
                   count, calls, signed>>

(* Mutant: the decoder takes up the field it has just closed.              *)
FieldAfterClose_Kept == "begun"

(* The next field begins with a tag of its own.                            *)
FieldAfterClose == "next"

(* pb_close_string_substream, once what was left of it has been read.      *)
CloseSubstream ==
    /\ mode = "decode" /\ level > 0
    /\ bytesLeft[level] = 0
    /\ level' = level - 1
    /\ field' = FieldAfterClose
    /\ UNCHANGED <<mode, total, host, hostBytesLeft, buffer, hashed, decoded,
                   bytesLeft, count, calls, signed>>

(* pb_decode is through with the transaction, or met a tag of 0, which     *)
(* ends a message early; then the signature is made.                       *)
Finish ==
    /\ mode = "decode" /\ level = 0
    /\ bytesLeft[0] = 0 \/ field = "begun"
    /\ mode' = "done"
    /\ signed' = hashed
    /\ UNCHANGED <<total, host, hostBytesLeft, buffer, hashed, decoded, decoder, calls>>

(* pb_decode returns false, or a field callback fails.                     *)
DecoderFails ==
    /\ mode = "decode"
    /\ mode' = "error"
    /\ UNCHANGED <<total, host, hostBytesLeft, buffer, hashed, decoded, decoder, calls, signed>>

-----------------------------------------------------------------------------
(* The client sends chunks that fit, and announces in four bytes what is   *)
(* to follow the first one.                                                *)
FirstChunks(t) == {n \in 0 .. Min2(TXN_BUF_SIZE, t) : t - n < WORD}
NextChunks     == 0 .. TXN_BUF_SIZE

Command == \E t \in Totals : \E n \in FirstChunks(t) : Start(t, n)
HostSends == \E n \in NextChunks : HostChunk(n)
OutOfTurn == \E i \in KeyIndices, n \in NextChunks \ {0} : Stray(i, n)
Decoder ==
    \/ \E n \in 1 .. total : Read(n)
    \/ \E size \in 0 .. total : OpenSubstream(size)
    \/ ReadReturns \/ AskHost \/ CloseSubstream \/ Finish \/ DecoderFails

Next == Command \/ HostSends \/ OutOfTurn \/ Decoder \/ Interrupted

Spec == Init /\ [][Next]_vars

(* The processor runs; the client sends the chunk it is asked for, not only *)
(* empty ones, and one that has nothing more to send goes on to its next   *)
(* request.                                                                *)
FairSpec ==
    /\ Spec
    /\ WF_vars(Decoder) /\ WF_vars(HostSends)
    /\ WF_vars(toSend = 0 /\ (OutOfTurn \/ Interrupted))

-----------------------------------------------------------------------------
Running == mode \in {"decode", "read", "ask"}

(* Every variable has its type, and no read is larger than its stream.     *)
TypeOK ==
    /\ mode \in {"idle", "decode", "read", "ask", "done", "error", "refused", "ranOut", "broken"}
    /\ total \in Nat /\ toSend \in Nat /\ strayed \in BOOLEAN /\ hostBytesLeft \in Int
    /\ len \in Nat /\ nextIdx \in Nat /\ base \in Nat
    /\ hashed \in Nat /\ decoded \in Nat /\ signed \in Nat
    /\ bytesLeft \in [Levels -> Nat] /\ level \in Levels /\ field \in {"next", "begun"}
    /\ count \in Nat /\ want \in Nat /\ depth \in Nat /\ empties \in Nat

(* The buffer is used up when istream_callback asks for more (the assertion *)
(* of signTxn.c, 235), and the stream never runs dry ("Ran out of data to  *)
(* stream from host") while the decoder stays within the size the host     *)
(* announced, wherever chunk borders cut its reads and its substreams.     *)
NeverRunsOut ==
    /\ mode # "broken"
    /\ mode = "ranOut" => strayed

(* The byte the decoder gets next is the one that was hashed at the same   *)
(* place: none is skipped, repeated, read before it is hashed, or left     *)
(* over from the transaction before; not even when another request was     *)
(* taken for a chunk.                                                      *)
HashFollowsDecoder ==
    Running =>
        /\ base + nextIdx = decoded
        /\ base + len = hashed
        /\ mode = "ask" => nextIdx = len

(* Nothing is decoded, and shown, that is not signed, even when a request  *)
(* was taken for a chunk.  The decoder's end is that of the stream, which  *)
(* is the transaction unless its size exceeds a word; then, and when the   *)
(* host keeps to what it announced, the signature covers it exactly.       *)
SignsWhatWasDecoded ==
    mode = "done" =>
        /\ decoded <= signed
        /\ bytesLeft[0] = 0 => decoded = total % WORD
        /\ ~strayed => signed <= total /\ (bytesLeft[0] = 0 /\ total < WORD => signed = total)

(* No transaction within the limit is turned away, in its first chunk or   *)
(* in a later one.  One above it gets past the first check only when its   *)
(* rest is negative as an int, and then not past the second: no more of it *)
(* is decoded than came with the first APDU.                               *)
RefusedIfTooLarge ==
    /\ mode = "refused" => total > ZIL_MAX_TXN_SIZE \/ strayed
    /\ (Running \/ mode = "done") /\ total > ZIL_MAX_TXN_SIZE /\ ~strayed =>
          total >= WORD \div 2 /\ decoded <= TXN_BUF_SIZE

(* "Sign the txn, also deserializes parts of it" (signTxn.c, 434): it is   *)
(* the transaction that is signed.  The code does not keep to that: a tag  *)
(* of 0 ends the message, and what the host had yet to send is not signed. *)
SignsTheTxn == mode = "done" /\ ~strayed => signed = total

(* istream_callback calls itself at most once for each byte it was asked   *)
(* for and once for each empty chunk: the stack is bounded by the size of  *)
(* a read and by the number of empty chunks, which the code does not limit, *)
(* and not by the size of the transaction.                                 *)
RecursionBounded == mode \in {"read", "ask"} => depth <= count + empties

(* The stream as its decoder sees it: a read is one step, whatever chunks  *)
(* it takes.                                                               *)
Ahead == IF mode \in {"read", "ask"} THEN count - want ELSE 0

Position == base + nextIdx - Ahead

LeftFrom(l) ==
    CASE l = 0 -> bytesLeft[0] + bytesLeft[1] + bytesLeft[2]
      [] l = 1 -> bytesLeft[1] + bytesLeft[2]
      [] l = 2 -> bytesLeft[2]

Counted == Running \/ mode = "done"

Status == IF Running THEN "reading" ELSE IF mode = "done" THEN "accepted" ELSE "none"

NextByte == IF Counted THEN Position ELSE 0

Innermost == IF Counted THEN level ELSE 0

Ends == [l \in Levels |-> IF Counted /\ l <= level THEN Position + LeftFrom(l) ELSE 0]

Sizes == {t % WORD : t \in Totals}

Input == INSTANCE TxnInput WITH
    MAX_LEVEL <- 2, Totals <- Sizes, status <- Status, pos <- NextByte, level <- Innermost, end <- Ends

(* Whatever chunks the host cuts a transaction into, and whatever it sends *)
(* out of turn, the decoder gets the bytes of TxnInput: in order, none     *)
(* twice, none beyond the end of a substream, the next one at the end of   *)
(* the substream it closed (signTxn.c, 221-285, under pb_decode.c).        *)
GivesInput == Input!Spec

(* The handler comes to an end: it does not ask the host for ever.         *)
StreamEnds == Running ~> ~Running
=============================================================================
