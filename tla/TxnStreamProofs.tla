--------------------------- MODULE TxnStreamProofs ---------------------------
(***************************************************************************)
(* Proofs about TxnStream, for every buffer size, limit and transaction.   *)
(* The safety properties follow from an account of every byte: what came   *)
(* in is what is hashed and ends with the buffer, and what the streams     *)
(* have left is what the decoder has not got.                              *)
(***************************************************************************)
EXTENDS TxnStream, Arithmetic

(* Bytes that the stream has in all.                                       *)
Size == total % WORD

(* Bytes the open streams and their parents have left.                     *)
Rest == bytesLeft[0] + bytesLeft[1] + bytesLeft[2]

(* A host whose chunks are those of one transaction: its count agrees with *)
(* the device's, and of a transaction above the limit only the first chunk *)
(* was taken.                                                              *)
HostAccount ==
    /\ hostBytesLeft = Signed(toSend) /\ toSend = total - hashed /\ toSend < WORD
    /\ total > ZIL_MAX_TXN_SIZE => total >= WORD \div 2 /\ hashed <= TXN_BUF_SIZE

(* The host, the buffer and the hash.                                      *)
BufferAccount ==
    /\ ~strayed => HostAccount
    /\ base + len = hashed
    /\ nextIdx <= len /\ base + nextIdx = decoded

(* The streams and the decoder.                                            *)
StreamAccount ==
    /\ \A l \in Levels : l > level => bytesLeft[l] = 0
    /\ mode \in {"decode", "done"} => Rest = Size - decoded
    /\ mode = "done" => level = 0 /\ signed = hashed

(* A read in progress, and how deep it has called itself.                  *)
ReadAccount ==
    /\ 1 <= want /\ want <= count /\ count <= bytesLeft[level]
    /\ Rest = Size - decoded + count - want
    /\ mode = "ask" => nextIdx = len /\ depth <= count - want + empties
    /\ mode = "read" => depth <= count - want + empties
                        \/ (depth <= count - want + empties + 1 /\ nextIdx < len)

Account ==
    /\ Counted => BufferAccount /\ StreamAccount
    /\ mode \in {"read", "ask"} => ReadAccount
    /\ mode = "refused" => total > ZIL_MAX_TXN_SIZE \/ strayed

IInv == TypeOK /\ NeverRunsOut /\ Account

-----------------------------------------------------------------------------
(* The initial state has accounts of nothing.                              *)
LEMMA InitIInv == Init => IInv
<1> SUFFICES ASSUME Init PROVE IInv
    OBVIOUS
<1>1. TypeOK
  <2>1. strayed \in BOOLEAN
        BY Zenon DEF Init
  <2> QED BY <2>1 DEF Init, TypeOK, Levels
<1>2. NeverRunsOut /\ Account
      BY DEF Init, NeverRunsOut, Account, Counted, Running
<1> QED BY <1>1, <1>2 DEF IInv

(* The buffer gives out no more than it holds and no more than is wanted,  *)
(* and less than is wanted only when it has given out all.                 *)
LEMMA CopyLenFact ==
    ASSUME TypeOK, nextIdx <= len
    PROVE  /\ CopyLen \in Nat
           /\ CopyLen <= want /\ nextIdx + CopyLen <= len
           /\ CopyLen < want => nextIdx + CopyLen = len
           /\ nextIdx < len /\ want >= 1 => CopyLen >= 1
BY DEF TypeOK, CopyLen, Min2

(* What a stream of so many bytes has; one that is above a word loses it.  *)
LEMMA SizeFact ==
    ASSUME NEW t \in Nat
    PROVE  /\ t % WORD \in Nat /\ t % WORD <= t
           /\ t < WORD => t % WORD = t
           /\ t >= WORD /\ t - WORD < WORD => t % WORD = t - WORD
<1> USE StreamAssumption
<1>1. WORD \in Nat \ {0}
      OBVIOUS
<1>2. t % WORD \in 0 .. WORD - 1
      BY <1>1, DivMod
<1>3. ASSUME t < WORD PROVE t % WORD = t
      BY <1>3, <1>1
<1>4. ASSUME t >= WORD, t - WORD < WORD PROVE t % WORD = t - WORD
  <2>1. (WORD * 1 + (t - WORD)) % WORD = t - WORD
        BY <1>1, <1>4, ModUnique
  <2>2. WORD * 1 + (t - WORD) = t
        BY <1>1
  <2> QED BY <2>1, <2>2
<1>5. t % WORD <= t
  <2>1. CASE t < WORD
        BY <1>3, <2>1
  <2>2. CASE t >= WORD
        BY <1>1, <1>2, <2>2
  <2> QED BY <1>1, <2>1, <2>2
<1> QED BY <1>2, <1>3, <1>4, <1>5

(* The host that is asked for more of a transaction above the limit still  *)
(* has more than the limit to send.                                        *)
LEMMA AskedRest ==
    ASSUME IInv, mode = "ask", ~strayed, total > ZIL_MAX_TXN_SIZE
    PROVE  toSend > ZIL_MAX_TXN_SIZE
<1> USE StreamAssumption
<1>1. /\ TypeOK /\ HostAccount /\ base + len = hashed /\ base + nextIdx = decoded
      /\ nextIdx = len /\ 1 <= want /\ count <= bytesLeft[level]
      /\ Rest = Size - decoded + count - want
      BY DEF IInv, Account, Counted, Running, BufferAccount, ReadAccount
<1>2. bytesLeft[level] <= Rest
      BY <1>1 DEF Rest, TypeOK, Levels
<1>3. /\ {total, toSend, hashed, decoded, base, len, want, count} \subseteq Nat
      /\ bytesLeft[level] \in Nat /\ Rest \in Nat /\ Size \in Nat
  <2>1. Size \in Nat
        BY <1>1, SizeFact DEF Size, TypeOK
  <2> QED BY <1>1, <2>1 DEF Rest, TypeOK, Levels
<1>4. Size > hashed
      BY <1>1, <1>2, <1>3
<1>5. toSend = total - hashed /\ toSend < WORD /\ total >= WORD \div 2 /\ hashed <= TXN_BUF_SIZE
      BY <1>1 DEF HostAccount
<1>6. total < WORD
  <2> SUFFICES ASSUME total >= WORD PROVE FALSE
      BY <1>3
  <2>1. total - WORD < WORD
        BY <1>3, <1>5
  <2>2. Size = total - WORD
        BY <1>3, <2>1, SizeFact DEF Size
  <2> QED BY <1>3, <1>4, <1>5, <2>2
<1> QED BY <1>3, <1>5, <1>6

(* Every action keeps the accounts.                                        *)
LEMMA NextIInv == IInv /\ [Next]_vars => IInv'
<1> SUFFICES ASSUME IInv, [Next]_vars PROVE IInv'
    OBVIOUS
<1> USE StreamAssumption
<1> USE DEF IInv, TypeOK, NeverRunsOut, Account, Counted, Running, BufferAccount,
        StreamAccount, ReadAccount, Rest, Levels
<1>0. Size \in Nat /\ Size <= total
      BY SizeFact DEF Size
<1>a. total' = total => Size' = Size
      BY DEF Size
<1>1. ASSUME NEW t \in Totals, NEW n \in FirstChunks(t), Start(t, n)
      PROVE  IInv'
  <2>1. t \in Nat /\ n \in Nat /\ n <= t /\ t - n < WORD /\ n <= TXN_BUF_SIZE
        BY <1>1 DEF FirstChunks, Min2
  <2>2. /\ strayed' = FALSE /\ total' = t /\ toSend' = t - n /\ hostBytesLeft' = Signed(t - n)
        /\ len' = n /\ nextIdx' = 0 /\ base' = 0 /\ decoded' = 0 /\ signed' = signed
        BY <1>1, Zenon DEF Start
  <2>3. Signed(t - n) \in Int /\ strayed' \in BOOLEAN
    <3>1. strayed' \in BOOLEAN
          BY <2>2, Zenon
    <3> QED BY <2>1, <3>1 DEF Signed
  <2>4. CASE FirstAccepted(t - n, n)
    <3>1. /\ bytesLeft' = [l \in Levels |-> IF l = 0 THEN t % WORD ELSE 0]
          /\ mode' = "decode" /\ hashed' = n /\ level' = 0 /\ field' = "next"
          /\ count' = 0 /\ want' = 0 /\ depth' = 0 /\ empties' = 0
      <4>1. (t - n) + n = t
            BY <2>1
      <4>2. StreamSize(t - n, n) = t % WORD
            BY <4>1 DEF StreamSize
      <4>3. 0 + n = n
            BY <2>1
      <4> QED BY <1>1, <2>4, <4>2, <4>3, Zenon DEF Start, HashInit
    <3>2. t % WORD \in Nat
          BY <2>1, SizeFact
    <3>3. TypeOK'
          BY <2>1, <2>2, <2>3, <3>1, <3>2
    <3>4. Size' = t % WORD
          BY <2>2 DEF Size
    <3>5. HostAccount'
          BY <2>1, <2>2, <2>4, <3>1 DEF HostAccount, FirstAccepted, Signed
    <3>6. (BufferAccount /\ StreamAccount)'
          BY <2>1, <2>2, <3>1, <3>2, <3>4, <3>5
    <3> QED BY <3>1, <3>3, <3>6
  <2>5. CASE ~FirstAccepted(t - n, n)
    <3>1. mode' = "refused" /\ UNCHANGED <<hashed, decoder, calls>>
          BY <1>1, <2>5, Zenon DEF Start
    <3>2. total' > ZIL_MAX_TXN_SIZE
          BY <2>1, <2>2, <2>5 DEF FirstAccepted, Signed
    <3>3. TypeOK'
          BY <2>1, <2>2, <2>3, <3>1 DEF decoder, calls
    <3> QED BY <3>1, <3>2, <3>3
  <2> QED BY <2>4, <2>5
<1>2. ASSUME NEW n \in NextChunks, HostChunk(n)
      PROVE  IInv'
  <2>1. /\ n \in Nat /\ toSend' = toSend - n /\ toSend' \in Nat /\ empties' \in Nat
        /\ empties' = IF n = 0 THEN empties + 1 ELSE empties
        BY <1>2 DEF NextChunks, HostChunk
  <2>2. CASE SizeAccepted(toSend - n, n)
    <3>1. ~strayed => total <= ZIL_MAX_TXN_SIZE
          BY <1>2, <2>1, <2>2, AskedRest DEF HostChunk, SizeAccepted
    <3>2. Signed(toSend - n) = toSend - n
          BY <2>1, <2>2 DEF SizeAccepted, Signed
    <3>3. /\ len' = n /\ nextIdx' = 0 /\ base' = base + len /\ hostBytesLeft' = toSend - n
          /\ hashed' = hashed + n /\ depth' = depth + 1 /\ mode' = "read" /\ mode = "ask"
          /\ UNCHANGED <<total, strayed, decoded, decoder, want, signed>>
          BY <1>2, <2>2 DEF HostChunk, TakeChunk, HashContinue, FirstIdx
    <3>4. Size' = Size
          BY <3>3 DEF Size
    <3>5. ~strayed' => HostAccount'
          BY <2>1, <3>1, <3>2, <3>3 DEF HostAccount
    <3>6. TypeOK' /\ BufferAccount'
          BY <2>1, <3>3, <3>5 DEF decoder
    <3>7. (StreamAccount /\ ReadAccount)'
          BY <2>1, <3>3, <3>4 DEF decoder
    <3> QED BY <3>3, <3>6, <3>7
  <2>3. CASE ~SizeAccepted(toSend - n, n)
    <3>1. strayed \/ total > ZIL_MAX_TXN_SIZE
          BY <1>2, <2>1, <2>3 DEF HostChunk, SizeAccepted, HostAccount
    <3> QED BY <1>2, <2>1, <2>3, <3>1 DEF HostChunk, TakeChunk, decoder, buffer
  <2> QED BY <2>2, <2>3
<1>3. ASSUME NEW i \in KeyIndices, NEW n \in NextChunks \ {0}, Stray(i, n)
      PROVE  IInv'
  <2>1. i \in Nat /\ n \in Nat /\ n >= 1 /\ toSend' \in Nat /\ strayed'
        BY <1>3 DEF NextChunks, Stray
  <2>2. CASE SizeAccepted(i, n)
    <3>1. /\ len' = n /\ nextIdx' = 0 /\ base' = base + len /\ hostBytesLeft' = i
          /\ hashed' = hashed + n /\ depth' = depth + 1 /\ mode' = "read" /\ mode = "ask"
          /\ UNCHANGED <<total, decoded, decoder, want, empties, signed>>
          BY <1>3, <2>2 DEF Stray, TakeChunk, HashContinue, FirstIdx
    <3>2. Size' = Size
          BY <3>1 DEF Size
    <3>3. strayed' \in BOOLEAN
          BY <1>3, Zenon DEF Stray
    <3> QED BY <2>1, <3>1, <3>2, <3>3 DEF decoder
  <2>3. CASE ~SizeAccepted(i, n)
    <3>1. strayed' \in BOOLEAN
          BY <1>3, Zenon DEF Stray
    <3> QED BY <1>3, <2>1, <2>3, <3>1 DEF Stray, TakeChunk, decoder, buffer
  <2> QED BY <2>2, <2>3
<1>4. ASSUME NEW n \in 1 .. total, Read(n)
      PROVE  IInv'
      BY <1>4, <1>a DEF Read, ReadAllowed, buffer, host, HostAccount
<1>5. ASSUME NEW size \in 0 .. total, OpenSubstream(size)
      PROVE  IInv'
  <2>1. /\ level \in {0, 1} /\ level' = level + 1 /\ size \in Nat
        /\ bytesLeft' = [bytesLeft EXCEPT ![level] = @ - size, ![level + 1] = size]
        /\ size <= bytesLeft[level]
    <3>1. bytesLeft' = [bytesLeft EXCEPT ![level] = @ - size, ![level + 1] = size]
          BY <1>5, Zenon DEF OpenSubstream, Reserve
    <3> QED BY <1>5, <3>1 DEF OpenSubstream
  <2>2. CASE level = 0
    <3>1. /\ bytesLeft'[0] = bytesLeft[0] - size /\ bytesLeft'[1] = size
          /\ bytesLeft'[2] = bytesLeft[2] /\ bytesLeft' \in [Levels -> Nat]
          BY <2>1, <2>2
    <3>2. TypeOK' /\ mode' = "decode"
          BY <1>5, <1>a, <2>1, <2>2, <3>1 DEF OpenSubstream, buffer, host, calls, HostAccount
    <3>3. (BufferAccount /\ StreamAccount)'
          BY <1>5, <1>a, <2>1, <2>2, <3>1 DEF OpenSubstream, buffer, host, calls, HostAccount
    <3> QED BY <3>2, <3>3
  <2>3. CASE level = 1
        BY <1>5, <1>a, <2>1, <2>3 DEF OpenSubstream, buffer, host, calls, HostAccount
  <2> QED BY <2>1, <2>2, <2>3
<1>6. CASE ReadReturns
  <2>1. /\ mode = "read" /\ mode' = "decode" /\ want = CopyLen
        /\ nextIdx' = nextIdx + CopyLen /\ decoded' = decoded + CopyLen /\ want' = 0
        /\ bytesLeft' = [bytesLeft EXCEPT ![level] = @ - count] /\ field' = "begun"
        /\ UNCHANGED <<total, toSend, strayed, hostBytesLeft, len, base, hashed, level, count,
                       depth, empties, signed>>
        BY <1>6, CopyLenFact DEF ReadReturns, Copy, StillWanted, host
  <2>2. TypeOK' /\ Rest' = Rest - count
        BY <2>1, CopyLenFact
  <2>3. BufferAccount'
        BY <2>1, CopyLenFact DEF HostAccount
  <2>4. StreamAccount'
    <3>1. Rest = Size - decoded + count - want /\ want \in Nat /\ decoded' = decoded + want
          BY <2>1
    <3>2. Rest' = Size' - decoded'
          BY <1>0, <1>a, <2>1, <2>2, <3>1
    <3> QED BY <2>1, <3>2
  <2> QED BY <2>1, <2>2, <2>3, <2>4
<1>7. CASE AskHost
  <2>1. /\ mode = "read" /\ want' = want - CopyLen /\ want' > 0
        /\ nextIdx' = nextIdx + CopyLen /\ decoded' = decoded + CopyLen
        /\ mode' = IF nextIdx' # len THEN "broken"
                   ELSE IF hostBytesLeft # 0 THEN "ask" ELSE "ranOut"
        /\ UNCHANGED <<total, toSend, strayed, hostBytesLeft, len, base, hashed, level, count,
                       depth, empties, signed, bytesLeft, field>>
        BY <1>7 DEF AskHost, Copy, StillWanted, host
  <2>2. nextIdx' = len /\ TypeOK'
        BY <2>1, CopyLenFact
  <2>3. BufferAccount' /\ decoded' = hashed
        BY <2>1, <2>2, CopyLenFact DEF HostAccount
  <2>4. StreamAccount' /\ (mode' = "ask" => ReadAccount')
    <3>1. Rest' = Rest /\ Rest = Size - decoded + count - want /\ CopyLen \in Nat
          BY <2>1, CopyLenFact
    <3>2. Rest' = Size' - decoded' + count' - want'
          BY <1>0, <1>a, <2>1, <3>1
    <3>3. StreamAccount'
          BY <2>1
    <3>4. depth <= count - want' + empties
          BY <2>1, CopyLenFact
    <3>5. 1 <= want' /\ want' <= count' /\ count' <= bytesLeft'[level']
          BY <2>1, <3>1
    <3>6. mode' = "ask" => ReadAccount'
          BY <2>1, <2>2, <3>2, <3>4, <3>5
    <3> QED BY <3>3, <3>6
  <2>5. Size > hashed
    <3>1. bytesLeft[level] <= Rest
          OBVIOUS
    <3> QED BY <1>0, <2>1, <2>2, <2>3, <3>1, CopyLenFact
  <2>6. ~strayed => hostBytesLeft # 0
    <3>1. ASSUME ~strayed PROVE hostBytesLeft # 0
      <4>1. hostBytesLeft = Signed(toSend) /\ toSend = total - hashed /\ toSend < WORD
            BY <2>1, <3>1 DEF HostAccount
      <4>2. toSend > 0
            BY <1>0, <2>5, <4>1
      <4> QED BY <4>1, <4>2 DEF Signed
    <3> QED BY <3>1
  <2> QED BY <2>1, <2>2, <2>3, <2>4, <2>6
<1>8. CASE CloseSubstream
  <2>1. \A l \in Levels : l > level' => l = level \/ l > level
        BY <1>8 DEF CloseSubstream
  <2>2. bytesLeft' = bytesLeft /\ bytesLeft[level] = 0
        BY <1>8 DEF CloseSubstream
  <2>3. \A l \in Levels : l > level' => bytesLeft'[l] = 0
        BY <2>1, <2>2, <1>8 DEF CloseSubstream
  <2>4. level' \in Levels /\ field' \in {"next", "begun"}
        BY <1>8 DEF CloseSubstream, FieldAfterClose
  <2>5. TypeOK'
        BY <1>8, <2>4 DEF CloseSubstream, buffer, host, calls, HostAccount
  <2>6. (BufferAccount /\ StreamAccount)'
        BY <1>8, <1>a, <2>3 DEF CloseSubstream, buffer, host, calls, HostAccount
  <2> QED BY <1>8, <2>5, <2>6 DEF CloseSubstream
<1>9. CASE Finish
      BY <1>9, <1>a DEF Finish, buffer, decoder, host, calls, HostAccount
<1>10. CASE DecoderFails
      BY <1>10, <1>a DEF DecoderFails, buffer, decoder, host, calls, HostAccount
<1>11. CASE Interrupted
      BY <1>11, <1>a DEF Interrupted, buffer, decoder, host, calls, HostAccount
<1>12. CASE UNCHANGED vars
      BY <1>12, <1>a DEF vars, buffer, decoder, host, calls, HostAccount
<1> QED BY <1>1, <1>2, <1>3, <1>4, <1>5, <1>6, <1>7, <1>8, <1>9, <1>10, <1>11, <1>12
        DEF Next, Command, HostSends, OutOfTurn, Decoder

(* The account of every byte holds in every reachable state.               *)
THEOREM Accounted == Spec => []IInv
<1>1. Init => IInv
      BY InitIInv
<1>2. IInv /\ [Next]_vars => IInv'
      BY NextIInv
<1> QED BY <1>1, <1>2, PTL DEF Spec

-----------------------------------------------------------------------------
(* The stream never runs dry, and no callback finds its buffer half read.  *)
THEOREM NeverDry == Spec => []NeverRunsOut
<1>1. IInv => NeverRunsOut
      BY DEF IInv
<1> QED BY <1>1, Accounted, PTL

(* What is hashed is what is decoded, byte for byte and in order.          *)
THEOREM HashInStep == Spec => []HashFollowsDecoder
<1>1. IInv => HashFollowsDecoder
      BY DEF IInv, Account, Counted, BufferAccount, ReadAccount, HashFollowsDecoder, Running
<1> QED BY <1>1, Accounted, PTL

(* The signature covers what was decoded, and a transaction decoded to its *)
(* end is signed as a whole, unless its size exceeds a word.               *)
THEOREM DecodedIsSigned == Spec => []SignsWhatWasDecoded
<1>1. IInv => SignsWhatWasDecoded
  <2> SUFFICES ASSUME IInv, mode = "done"
               PROVE  /\ decoded <= signed
                      /\ bytesLeft[0] = 0 => decoded = Size
                      /\ ~strayed =>
                            signed <= total /\ (bytesLeft[0] = 0 /\ total < WORD => signed = total)
      BY DEF SignsWhatWasDecoded, Size
  <2>1. BufferAccount /\ StreamAccount /\ TypeOK
        BY DEF IInv, Account, Counted
  <2>2. bytesLeft[1] = 0 /\ bytesLeft[2] = 0
        BY <2>1 DEF StreamAccount, Levels
  <2>3. Rest = Size - decoded /\ signed = hashed
        BY <2>1 DEF StreamAccount
  <2>4. /\ bytesLeft[0] \in Nat /\ {total, toSend, hashed, decoded, base, len, nextIdx} \subseteq Nat
        /\ Size \in Nat /\ (total < WORD => Size = total)
    <3>1. TypeOK
          BY <2>1
    <3> QED BY <3>1, SizeFact DEF TypeOK, Levels, Size
  <2>5. decoded <= signed
        BY <2>1, <2>3, <2>4 DEF BufferAccount
  <2>6. bytesLeft[0] = 0 => decoded = Size
        BY <2>2, <2>3, <2>4 DEF Rest
  <2>7. ~strayed => signed <= total
        BY <2>1, <2>3, <2>4 DEF BufferAccount, HostAccount
  <2> QED BY <2>3, <2>4, <2>5, <2>6, <2>7
<1> QED BY <1>1, Accounted, PTL

(* Only a transaction above the limit is refused, and one above it gets no *)
(* further than its first chunk.                                           *)
THEOREM SizeLimit == Spec => []RefusedIfTooLarge
<1>1. IInv => RefusedIfTooLarge
  <2> SUFFICES ASSUME IInv, Counted, total > ZIL_MAX_TXN_SIZE, ~strayed
               PROVE  total >= WORD \div 2 /\ decoded <= TXN_BUF_SIZE
      BY DEF RefusedIfTooLarge, IInv, Account, Counted
  <2>1. TypeOK /\ BufferAccount
        BY DEF IInv, Account
  <2>2. HostAccount /\ decoded <= hashed
        BY <2>1 DEF TypeOK, BufferAccount
  <2> QED BY <2>1, <2>2, StreamAssumption DEF HostAccount, TypeOK
<1> QED BY <1>1, Accounted, PTL

(* The recursion of istream_callback is bounded by the size of the read    *)
(* and the number of empty chunks.                                         *)
THEOREM StackBound == Spec => []RecursionBounded
<1>1. IInv => RecursionBounded
      BY DEF IInv, TypeOK, Account, ReadAccount, RecursionBounded
<1> QED BY <1>1, Accounted, PTL

(* Every counter keeps to its range.                                       *)
THEOREM TypeCorrect == Spec => []TypeOK
<1>1. IInv => TypeOK
      BY DEF IInv
<1> QED BY <1>1, Accounted, PTL

-----------------------------------------------------------------------------
(* TxnStream implements TxnInput.  A read of the decoder is one step of    *)
(* TxnInput, taken when its last byte is copied; what happens below it,    *)
(* chunks that come in turn or out of it, are steps that do not show.      *)

(* Nothing is being read.                                                  *)
LEMMA NoInput ==
    ASSUME ~Counted
    PROVE  Input!At("none", 0, 0, Input!NoStream)
<1>1. Ends = Input!NoStream
      BY DEF Ends, Input!NoStream, Levels, Input!Levels
<1> QED BY <1>1 DEF Input!At, Status, NextByte, Innermost, Counted

(* The stream in terms of its position, while a transaction is read.       *)
LEMMA InputFact ==
    ASSUME IInv, Counted
    PROVE  /\ Position \in Int /\ level \in Levels
           /\ NextByte = Position /\ Innermost = level
           /\ bytesLeft[level] \in Nat /\ Ends[level] = Position + bytesLeft[level]
           /\ Input!Reads = 0 .. bytesLeft[level]
           /\ \A l \in Levels : LeftFrom(l) \in Nat /\ (l > level => LeftFrom(l) = 0)
           /\ Ends = [l \in Levels |-> IF l <= level THEN Position + LeftFrom(l) ELSE 0]
<1>1. /\ TypeOK /\ BufferAccount /\ StreamAccount
      /\ mode \in {"read", "ask"} => ReadAccount
      BY DEF IInv, Account
<1>2. level \in Levels /\ NextByte = Position /\ Innermost = level
      BY <1>1 DEF TypeOK, NextByte, Innermost
<1>3. Position \in Int
      BY <1>1 DEF TypeOK, Position, Ahead
<1>4. /\ LeftFrom(level) = bytesLeft[level]
      /\ \A l \in Levels : LeftFrom(l) \in Nat /\ (l > level => LeftFrom(l) = 0)
      BY <1>1 DEF TypeOK, LeftFrom, StreamAccount, Levels
<1>5. Ends = [l \in Levels |-> IF l <= level THEN Position + LeftFrom(l) ELSE 0]
      BY DEF Ends
<1>6. bytesLeft[level] \in Nat
      BY <1>1, <1>2 DEF TypeOK
<1>7. Ends[level] = Position + bytesLeft[level]
      BY <1>2, <1>4, <1>5, <1>6 DEF Levels
<1>8. Ends[Innermost] - NextByte = bytesLeft[level]
      BY <1>2, <1>3, <1>6, <1>7
<1>9. Input!Reads = 0 .. bytesLeft[level]
      BY <1>8 DEF Input!Reads
<1> QED BY <1>2, <1>3, <1>4, <1>5, <1>6, <1>7, <1>9

(* A function that differs from another in one place.                      *)
LEMMA ExceptFact ==
    ASSUME NEW S, NEW f, NEW g, NEW i, NEW v,
           f = [l \in S |-> f[l]], g = [l \in S |-> g[l]],
           \A l \in S : g[l] = IF l = i THEN v ELSE f[l]
    PROVE  g = [f EXCEPT ![i] = v]
<1>1. [f EXCEPT ![i] = v] = [l \in S |-> IF l = i THEN v ELSE f[l]]
      OBVIOUS
<1>2. g = [l \in S |-> IF l = i THEN v ELSE f[l]]
      OBVIOUS
<1> QED BY <1>1, <1>2

(* A step that leaves the streams and the place where the next read begins *)
(* alone does not show.                                                    *)
LEMMA Hidden ==
    ASSUME IInv, IInv', Running, Running', Position' = Position,
           bytesLeft' = bytesLeft, level' = level
    PROVE  UNCHANGED Input!input
<1>1. Counted /\ Counted'
      BY DEF Counted
<1>2. LeftFrom(0)' = LeftFrom(0) /\ LeftFrom(1)' = LeftFrom(1) /\ LeftFrom(2)' = LeftFrom(2)
      BY DEF LeftFrom
<1>3. Ends' = Ends
      BY <1>1, <1>2 DEF Ends, Levels
<1> QED BY <1>1, <1>3 DEF Input!input, Status, NextByte, Innermost

(* Every step of the stream is one of TxnInput or does not show.           *)
LEMMA NextInput == IInv /\ IInv' /\ [Next]_vars => [Input!Next]_Input!input
<1> SUFFICES ASSUME IInv, IInv', [Next]_vars PROVE Input!Next \/ UNCHANGED Input!input
    OBVIOUS
<1> USE StreamAssumption
<1>0. /\ TypeOK /\ TypeOK'
      /\ Counted => BufferAccount /\ StreamAccount
      /\ mode \in {"read", "ask"} => ReadAccount
      BY DEF IInv, Account
<1>a. ASSUME ~Counted' PROVE Input!Next
  <2>1. Ends' = Input!NoStream
        BY <1>a DEF Ends, Input!NoStream, Levels, Input!Levels
  <2>2. Input!Abandon
        BY <1>a, <2>1 DEF Input!Abandon, Input!Becomes, Status, NextByte, Innermost, Counted
  <2> QED BY <2>2 DEF Input!Next
<1>1. ASSUME NEW t \in Totals, NEW n \in FirstChunks(t), Start(t, n)
      PROVE  Input!Next
  <2>1. t \in Nat /\ n \in Nat /\ n <= t
        BY <1>1 DEF FirstChunks, Min2
  <2>2. CASE FirstAccepted(t - n, n)
    <3>1. /\ mode' = "decode" /\ level' = 0 /\ Position' = 0
          /\ bytesLeft' = [l \in Levels |-> IF l = 0 THEN t % WORD ELSE 0]
      <4>1. (t - n) + n = t
            BY <2>1
      <4>2. StreamSize(t - n, n) = t % WORD
            BY <4>1 DEF StreamSize
      <4>3. /\ mode' = "decode" /\ level' = 0 /\ base' = 0 /\ nextIdx' = 0
            /\ bytesLeft' = [l \in Levels |-> IF l = 0 THEN t % WORD ELSE 0]
            BY <1>1, <2>2, <4>2, Zenon DEF Start
      <4> QED BY <4>3 DEF Position, Ahead
    <3>2. t % WORD \in Nat /\ t % WORD \in Sizes
          BY <2>1, SizeFact DEF Sizes
    <3>3. LeftFrom(0)' = t % WORD
      <4> DEFINE z == t % WORD
      <4>1. bytesLeft' = [l \in Levels |-> IF l = 0 THEN z ELSE 0] /\ z \in Nat
            BY <3>1, <3>2
      <4> HIDE DEF z
      <4>2. LeftFrom(0)' = z
            BY <4>1 DEF LeftFrom, Levels
      <4> QED BY <4>2 DEF z
    <3>4. Ends' = [Input!NoStream EXCEPT ![0] = t % WORD]
      <4> DEFINE z == t % WORD
      <4>1. LeftFrom(0)' = z /\ z \in Nat
            BY <3>2, <3>3
      <4> HIDE DEF z
      <4>2. Ends' = [Input!NoStream EXCEPT ![0] = z]
            BY <3>1, <4>1 DEF Ends, Counted, Running, Levels, Input!NoStream, Input!Levels
      <4> QED BY <4>2 DEF z
    <3>5. Status # "reading" /\ Status' = "reading" /\ NextByte' = 0 /\ Innermost' = 0
          BY <1>1, <3>1 DEF Start, Status, NextByte, Innermost, Counted, Running
    <3>6. Input!Begin
          BY <3>2, <3>4, <3>5 DEF Input!Begin, Input!Becomes
    <3> QED BY <3>6 DEF Input!Next
  <2>3. CASE ~FirstAccepted(t - n, n)
        BY <1>1, <2>3, <1>a DEF Start, Counted, Running
  <2> QED BY <2>2, <2>3
<1>2. ASSUME NEW n \in NextChunks, HostChunk(n)
      PROVE  Input!Next \/ UNCHANGED Input!input
  <2>1. CASE SizeAccepted(toSend - n, n)
    <3>1. /\ Running /\ Running' /\ bytesLeft' = bytesLeft /\ level' = level
          /\ Position' = Position
          BY <1>0, <1>2, <2>1 DEF HostChunk, TakeChunk, FirstIdx, decoder, Running, Position,
             Ahead, TypeOK, ReadAccount
    <3> QED BY <3>1, Hidden
  <2>2. CASE ~SizeAccepted(toSend - n, n)
        BY <1>2, <2>2, <1>a DEF HostChunk, TakeChunk, Counted, Running
  <2> QED BY <2>1, <2>2
<1>3. ASSUME NEW i \in KeyIndices, NEW n \in NextChunks \ {0}, Stray(i, n)
      PROVE  Input!Next \/ UNCHANGED Input!input
  <2>1. CASE SizeAccepted(i, n)
    <3>1. /\ Running /\ Running' /\ bytesLeft' = bytesLeft /\ level' = level
          /\ Position' = Position
          BY <1>0, <1>3, <2>1 DEF Stray, TakeChunk, FirstIdx, decoder, Running, Position,
             Ahead, TypeOK, ReadAccount
    <3> QED BY <3>1, Hidden
  <2>2. CASE ~SizeAccepted(i, n)
        BY <1>3, <2>2, <1>a DEF Stray, TakeChunk, Counted, Running
  <2> QED BY <2>1, <2>2
<1>4. ASSUME NEW n \in 1 .. total, Read(n)
      PROVE  UNCHANGED Input!input
  <2>1. /\ Running /\ Running' /\ bytesLeft' = bytesLeft /\ level' = level
        /\ Position' = Position
        BY <1>0, <1>4 DEF Read, buffer, Running, Position, Ahead, TypeOK
  <2> QED BY <2>1, Hidden
<1>5. CASE AskHost
  <2>1. CASE mode' = "ask"
    <3>1. /\ Running /\ Running' /\ bytesLeft' = bytesLeft /\ level' = level
          /\ Position' = Position
          BY <1>0, <1>5, <2>1, CopyLenFact DEF AskHost, Copy, StillWanted, Running, Position,
             Ahead, TypeOK, Counted, BufferAccount
    <3> QED BY <3>1, Hidden
  <2>2. CASE mode' # "ask"
        BY <1>5, <2>2, <1>a DEF AskHost, Counted, Running
  <2> QED BY <2>1, <2>2
<1>6. CASE ReadReturns
  <2>1. /\ mode = "read" /\ mode' = "decode" /\ level' = level
        /\ Position' = Position + count
        /\ bytesLeft' = [bytesLeft EXCEPT ![level] = @ - count]
        /\ count \in Nat /\ count <= bytesLeft[level]
    <3>1. /\ mode = "read" /\ mode' = "decode" /\ want = CopyLen
          /\ nextIdx' = nextIdx + want /\ level' = level /\ base' = base
          /\ bytesLeft' = [bytesLeft EXCEPT ![level] = @ - count]
          BY <1>0, <1>6, CopyLenFact DEF ReadReturns, Copy, StillWanted, TypeOK, Counted,
             Running, BufferAccount
    <3>2. ReadAccount /\ {base, nextIdx, want, count} \subseteq Nat
          BY <1>0, <3>1 DEF TypeOK
    <3>3. Position' = Position + count
          BY <3>1, <3>2 DEF Position, Ahead
    <3> QED BY <3>1, <3>2, <3>3 DEF ReadAccount
  <2>2. Counted /\ Counted' /\ Status = "reading" /\ Status' = "reading"
        BY <2>1 DEF Counted, Running, Status
  <2>3. \A l \in Levels : l <= level => LeftFrom(l)' = LeftFrom(l) - count
        BY <1>0, <2>1 DEF TypeOK, Levels, LeftFrom
  <2>4. Ends' = Ends
        BY <2>1, <2>2, <2>3, InputFact DEF Ends
  <2>5. count \in Input!Reads
        BY <2>1, <2>2, InputFact
  <2>6. Input!Take(count)
        BY <2>1, <2>2, <2>4, InputFact DEF Input!Take, Input!Becomes, NextByte, Innermost
  <2> QED BY <2>5, <2>6 DEF Input!Next
<1>7. ASSUME NEW size \in 0 .. total, OpenSubstream(size)
      PROVE  Input!Next
  <2>1. /\ mode = "decode" /\ mode' = "decode" /\ level \in {0, 1} /\ level' = level + 1
        /\ size \in Nat /\ size <= bytesLeft[level] /\ Position' = Position
        BY <1>0, <1>7 DEF OpenSubstream, Levels, buffer, Position, Ahead, TypeOK
  <2>2. bytesLeft' = [bytesLeft EXCEPT ![level] = @ - size, ![level + 1] = size]
        BY <1>7, Zenon DEF OpenSubstream, Reserve
  <2>3. Counted /\ Counted' /\ Status = "reading" /\ Status' = "reading"
        BY <2>1 DEF Counted, Running, Status
  <2>4. Ends = [l \in Levels |-> Ends[l]] /\ Ends' = [l \in Levels |-> Ends'[l]]
        BY DEF Ends
  <2>5. Ends' = [Ends EXCEPT ![level + 1] = Position + 0 + size]
    <3>1. /\ bytesLeft \in [Levels -> Nat] /\ Position \in Int
          /\ \A l \in Levels : l > level => bytesLeft[l] = 0
          BY <1>0, <2>3, InputFact DEF TypeOK, StreamAccount
    <3>2. CASE level = 0
      <4>1. /\ bytesLeft'[0] = bytesLeft[0] - size /\ bytesLeft'[1] = size
            /\ bytesLeft'[2] = 0 /\ bytesLeft[1] = 0 /\ bytesLeft[2] = 0
            BY <2>1, <2>2, <3>1, <3>2 DEF Levels
      <4>2. /\ LeftFrom(0)' = LeftFrom(0) /\ LeftFrom(1)' = size
            /\ LeftFrom(0) \in Int
            BY <2>1, <3>1, <3>2, <4>1 DEF LeftFrom, Levels
      <4>3. \A l \in Levels : Ends'[l] = IF l = 1 THEN Position + 0 + size ELSE Ends[l]
            BY <2>1, <2>3, <3>1, <3>2, <4>2 DEF Ends, Levels
      <4> QED BY <3>2, <4>3, <2>4, ExceptFact
    <3>3. CASE level = 1
      <4>1. /\ bytesLeft'[0] = bytesLeft[0] /\ bytesLeft'[1] = bytesLeft[1] - size
            /\ bytesLeft'[2] = size /\ bytesLeft[2] = 0
            BY <2>1, <2>2, <3>1, <3>3 DEF Levels
      <4>2. /\ LeftFrom(0)' = LeftFrom(0) /\ LeftFrom(1)' = LeftFrom(1)
            /\ LeftFrom(2)' = size
            /\ LeftFrom(0) \in Int /\ LeftFrom(1) \in Int
            BY <2>1, <3>1, <3>3, <4>1 DEF LeftFrom, Levels
      <4>3. \A l \in Levels : Ends'[l] = IF l = 2 THEN Position + 0 + size ELSE Ends[l]
            BY <2>1, <2>3, <3>1, <3>3, <4>2 DEF Ends, Levels
      <4> QED BY <3>3, <4>3, <2>4, ExceptFact
    <3> QED BY <2>1, <3>2, <3>3
  <2>6. 0 + size \in Input!Reads /\ 0 \in Input!Reads /\ size \in Input!Reads
        BY <2>1, <2>3, InputFact
  <2>7. Input!Open(0, size)
        BY <2>1, <2>3, <2>5, <2>6, InputFact DEF Input!Open, Input!Becomes, NextByte, Innermost
  <2> QED BY <2>6, <2>7 DEF Input!Next
<1>8. CASE CloseSubstream
  <2>1. /\ mode = "decode" /\ mode' = "decode" /\ level \in {1, 2} /\ level' = level - 1
        /\ bytesLeft[level] = 0 /\ bytesLeft' = bytesLeft /\ Position' = Position
        BY <1>0, <1>8 DEF CloseSubstream, Levels, buffer, Position, Ahead, TypeOK
  <2>2. Counted /\ Counted' /\ Status = "reading" /\ Status' = "reading"
        BY <2>1 DEF Counted, Running, Status
  <2>3. \A l \in Levels : LeftFrom(l)' = LeftFrom(l)
        BY <2>1 DEF LeftFrom, Levels
  <2>4. Ends[level] = Position
        BY <2>1, <2>2, InputFact
  <2>5. \A l \in Levels : Ends'[l] = IF l = level THEN 0 ELSE Ends[l]
        BY <2>1, <2>2, <2>3 DEF Ends, Levels
  <2>6. Ends' = [Ends EXCEPT ![level] = 0]
    <3>1. Ends = [l \in Levels |-> Ends[l]] /\ Ends' = [l \in Levels |-> Ends'[l]]
          BY DEF Ends
    <3> QED BY <2>5, <3>1, ExceptFact
  <2>7. Input!Close
        BY <2>1, <2>2, <2>4, <2>6, InputFact DEF Input!Close, Input!Becomes, NextByte, Innermost
  <2> QED BY <2>7 DEF Input!Next
<1>9. CASE Finish
  <2>1. /\ mode = "decode" /\ mode' = "done" /\ level = 0 /\ level' = 0
        /\ bytesLeft' = bytesLeft /\ Position' = Position /\ Position \in Int
        BY <1>0, <1>9 DEF Finish, decoder, buffer, Position, Ahead, TypeOK
  <2>2. Counted /\ Counted' /\ Status = "reading" /\ Status' = "accepted"
        BY <2>1 DEF Counted, Running, Status
  <2>3. LeftFrom(0)' = LeftFrom(0) /\ LeftFrom(1)' = LeftFrom(1) /\ LeftFrom(2)' = LeftFrom(2)
        BY <2>1 DEF LeftFrom
  <2>4. Ends' = Ends
        BY <2>1, <2>2, <2>3 DEF Ends, Levels
  <2>5. 0 \in Input!Reads
        BY <2>2, InputFact
  <2>6. Input!Accept(0)
        BY <2>1, <2>2, <2>4 DEF Input!Accept, Input!Becomes, NextByte, Innermost
  <2> QED BY <2>5, <2>6 DEF Input!Next
<1>10. CASE DecoderFails
       BY <1>10, <1>a DEF DecoderFails, Counted, Running
<1>11. CASE Interrupted
       BY <1>11, <1>a DEF Interrupted, Counted, Running
<1>12. CASE UNCHANGED vars
       BY <1>12 DEF vars, buffer, decoder, calls, Input!input, Status, NextByte, Innermost, Ends,
          Counted, Running, Position, Ahead, LeftFrom
<1> QED BY <1>1, <1>2, <1>3, <1>4, <1>5, <1>6, <1>7, <1>8, <1>9, <1>10, <1>11, <1>12
        DEF Next, Command, HostSends, OutOfTurn, Decoder

(* The stream gives its decoder the bytes of TxnInput.                     *)
THEOREM InputIsGiven == Spec => GivesInput
<1>1. Init => Input!Init
  <2> SUFFICES ASSUME Init PROVE Input!Init
      OBVIOUS
  <2>1. ~Counted
        BY DEF Init, Counted, Running
  <2> QED BY <2>1, NoInput DEF Input!Init
<1>2. IInv /\ IInv' /\ [Next]_vars => [Input!Next]_Input!input
      BY NextInput
<1> QED BY <1>1, <1>2, Accounted, PTL DEF Spec, GivesInput, Input!Spec

(* Only transactions of the host are decoded.                              *)
OfHost == Counted => total \in Totals

LEMMA HostsTotal == Spec => []OfHost
<1>1. Init => OfHost
      BY DEF Init, OfHost, Counted, Running
<1>2. OfHost /\ [Next]_vars => OfHost'
  <2> SUFFICES ASSUME OfHost, [Next]_vars PROVE OfHost'
      OBVIOUS
  <2>1. CASE Command
        BY <2>1 DEF Command, Start, OfHost
  <2>2. CASE HostSends \/ OutOfTurn \/ Decoder \/ Interrupted
    <3>1. Running /\ total' = total
          BY <2>2 DEF HostSends, HostChunk, OutOfTurn, Stray, Decoder, Read, OpenSubstream,
             ReadReturns, AskHost, Copy, CloseSubstream, Finish, DecoderFails, Interrupted, Running
    <3> QED BY <3>1 DEF OfHost, Counted
  <2>3. CASE UNCHANGED vars
        BY <2>3 DEF vars, OfHost, Counted, Running
  <2> QED BY <2>1, <2>2, <2>3 DEF Next
<1> QED BY <1>1, <1>2, PTL DEF Spec

(* So the next byte stays within every open stream, and each of those      *)
(* within the ones around it, of a stream of the size the host announced   *)
(* (pb_make_string_substream and pb_read of pb_decode.c).                  *)
THEOREM StreamsNest == Spec => []Input!Nested
<1>1. IInv /\ OfHost => Input!Nested
  <2> SUFFICES ASSUME IInv, OfHost, Counted PROVE Input!Nested
      BY DEF Input!Nested, Status, Counted
  <2>1. /\ TypeOK /\ BufferAccount /\ StreamAccount
        /\ mode \in {"read", "ask"} => ReadAccount
        BY DEF IInv, Account
  <2>2. \A l \in 0 .. level : l \in Levels /\ Ends[l] = Position + LeftFrom(l)
        BY <2>1, InputFact DEF TypeOK, Levels
  <2>3. \A l \in 0 .. level : LeftFrom(l) \in Nat
        BY <2>2, InputFact
  <2>4. \A k, l \in 0 .. level : k < l => LeftFrom(l) <= LeftFrom(k)
    <3>1. level \in 0 .. 2 /\ \A l \in 0 .. 2 : bytesLeft[l] \in Nat
          BY <2>1 DEF TypeOK, Levels
    <3> QED BY <3>1 DEF LeftFrom
  <2>5. Ends[0] = Size /\ Size \in Sizes
    <3>1. Ends[0] = Position + Rest /\ 0 \in 0 .. level
          BY <2>1, <2>2 DEF LeftFrom, Rest, TypeOK, Levels
    <3>2. Ahead \in Int /\ Rest = Size - decoded + Ahead
      <4>0. Size \in Nat
            BY <2>1, SizeFact DEF Size, TypeOK
      <4>1. CASE mode \in {"read", "ask"}
            BY <2>1, <4>0, <4>1 DEF ReadAccount, Ahead, TypeOK
      <4>2. CASE mode \in {"decode", "done"}
            BY <2>1, <4>0, <4>2 DEF StreamAccount, Ahead, TypeOK
      <4> QED BY <4>1, <4>2 DEF Counted, Running
    <3>3. base \in Nat /\ nextIdx \in Nat /\ decoded \in Nat /\ base + nextIdx = decoded
          BY <2>1 DEF BufferAccount, TypeOK
    <3>4. Position = decoded - Ahead
          BY <3>2, <3>3 DEF Position
    <3>5. Size \in Sizes /\ Size \in Nat
      <4>1. total \in Totals /\ total \in Nat
            BY <2>1 DEF OfHost, TypeOK
      <4> QED BY <4>1, SizeFact DEF Size, Sizes
    <3> QED BY <3>1, <3>2, <3>3, <3>4, <3>5
  <2>6. Position \in Int /\ NextByte = Position /\ Innermost = level
        BY InputFact
  <2> QED BY <2>2, <2>3, <2>4, <2>5, <2>6 DEF Input!Nested
<1> QED BY <1>1, Accounted, HostsTotal, PTL
=============================================================================
