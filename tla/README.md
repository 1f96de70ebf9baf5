# Verification of the Zilliqa app for Ledger devices

TLA+ models of the Zilliqa app (`src/` of this repository), TLC runs that check
them on small instances, and TLAPS proofs about them for all values of their
constants. `PROJECT.json` lists components, runs, mutants, hazards and theorems,
and maps every modelled definition to its source lines.

    cd tla
    tlc -config MCZilApp_bagl.cfg MCZilApp.tla      # any run of PROJECT.json
    tlapm ZilAppProofs.tla                          # any proof module

## 1. The system

The app runs on one thread of a hardware wallet. A host sends request APDUs, one
at a time; the app answers each with one response APDU, often only after the
user pressed a button. `io_exchange` is the only call that blocks, and everything
asynchronous (buttons, USB events, tickers) runs inside it as callbacks.

| Component | Source | State it keeps | Operations | Model |
|---|---|---|---|---|
| Main loop | `main.c` | `rx`, `tx`, `flags`, the APDU buffer, the screen | exchange, dispatch, convert exceptions to status words, restart on reset, quit | `ZilApp` |
| getVersion | `getVersion.c` | none | reply at once | `ZilApp` |
| getPublicKey | `getPublicKey.c` | its member of `global`; the reply waits in the APDU buffer | derive, show, approve or reject, or reply at once (`P2_DISPLAY_NONE`) | `ZilApp` |
| signHash | `signHash.c` | its member of `global` | show, sign when approved, or reject | `ZilApp` |
| signTxn | `signTxn.c` | its member of `global`: the hash state, the signature, `StreamData`, the strings to display | receive in chunks, sign and decode meanwhile, show, release the signature or reject | `ZilApp` (chunks), `TxnStream` (bytes), `TxnDecode` (fields and strings) |
| nanopb | `pb_decode.c`, `pb_common.c` | streams with `bytes_left`, a field iterator | fields, substreams, callbacks, varints | `TxnStream` (reads), `TxnDecode` (fields), `PbFields` (tables, iterator), `Varint` |
| Schnorr signer | `schnorr.c`, `zilliqa.c` | nonce, running hash | init, continue, finish; retry | `Schnorr` |
| Keys | `zilliqa.c`, `getPublicKey.c` | none: derived anew in every call | derive, compress, address | `Schnorr` (keys), `Bech32` (address) |
| Qa to Zil | `qatozil.c` | none | clean, point, strip zeros | `QaToZil`, `AmountDisplay` |
| 128-bit arithmetic | `uint256.c` | none | shift, compare, subtract, divide, print | `Uint128`, `AmountDisplay` |
| bech32 | `bech32_addr.c` | none | convert bits, checksum, decode | `Bech32` |
| pb_encode, icons, build files, tests | | | | not modelled: unused by the app, or not program state |

How they interact: `zil_main` calls a handler through `lookupHandler`; the handler
fills its member of the union `global`, prepares the APDU buffer or not, and
either replies itself (`io_exchange_with_code`), throws a status word that
`zil_main` sends, or installs a flow of screens and sets `IO_ASYNCH_REPLY`. The
flow's buttons later call `do_approve` or `do_reject`, from inside the
`io_exchange` of `zil_main`. `signTxn` alone calls `io_exchange` a second time
from within its handler (`istream_callback`), to fetch the next chunk while
nanopb is decoding; each chunk goes to the decoder and to the running hash of
the signature.

What is hard here, and what correctness means for each part:

* three places send replies (loop, handlers, buttons) and exceptions cut across
  them: **one reply for each request, never one without a request**;
* one union, one APDU buffer and one flags word are shared by everything, and
  screens display from the union by reference: **what is approved is what is
  shown, and what is released is what was approved**;
* a power loss unwinds any `io_exchange` and `main` starts over, with the memory
  as it was: **nothing of the old session can be approved or sent**;
* the nested receive loop knows only about lengths: **a client that goes away in
  the middle costs one error, after which both sides are in step**, and
  **whatever is taken for a chunk, the buffer and the streams stay sound**;
* buffer, host and decoder each count bytes, the host's count signed at one place
  and unsigned at another: **every byte decoded is hashed, once and in order,
  wherever the chunk borders fall and whatever the host announces**;
* the message may end itself before its last chunk: **what is shown, signed and
  released is then the part that came in, and nothing else** (that it is a part
  at all is a finding);
* fields come in any order, several times, unknown, nested or cut short, and the
  decoder finds members of a struct by adding up distances: **no byte is lost on
  the way, and the screen shows the last values of the message, with the
  exceptions that section 2 names for TxnDecode**;
* amounts and addresses are converted in fixed buffers with hand-written
  arithmetic: **what is shown reads back as exactly what is signed**;
* waiting for a user or a host must end when they act: **every request is
  settled, every flow closes, every stream, decoding and conversion ends**.

## 2. Modules

| Module | What it is |
|---|---|
| `ZilApdu` | Requests, replies, buffer contents and status words, shared by the next two. A request keeps the facts that checks and properties tell apart: whether each length and class check passes, the instruction, `P2`, key index, message, chunks to follow. |
| `SigningPromise` | The abstract specification: one outstanding request, the user's consent to it, one answer that must be `Allowed`. |
| `ZilApp` | `zil_main`, the four handlers, both sets of screens (`HasNbgl`), the buttons, reset, quit; with the host, the user and the transport below `io_exchange` as environment. |
| `MCZilApp` | Its instances. |
| `ZilAppProofs` | Proofs of its safety properties and of the promise. |
| `TxnInput` | The abstract specification between the two halves of `signTxn`: bytes in order from properly nested streams. |
| `TxnStream` | `istream_callback`, `pb_read` and substreams, with the client that cuts the transaction into chunks. It gives what `TxnInput` promises. |
| `MCTxnStream` | Its instance. |
| `TxnStreamProofs` | Proofs of its safety properties, that it implements `TxnInput`, and that `TxnInput` nests its streams. |
| `PbFields` | The field tables of `txn.pb.c`, computed from the struct layouts as the macros of `pb.h` do, and the iterator of `pb_common.c`. |
| `TxnDecode`, `MCTxnDecode` | nanopb's field loop with the callbacks of `signTxn.c`; its instances. It takes what `TxnInput` promises. |
| `TxnDecodeProofs` | Proofs of its safety properties, and that it takes `TxnInput`. |
| `Varint`, `MCVarint` | `pb_decode_varint32_eof`, `pb_decode_varint`, `pb_dec_uvarint`, byte by byte; its instances. |
| `VarintProofs` | Proofs of its safety properties. |
| `Binary` | Powers, the bits of a number and the number that figures write, shared by `Varint`, `Uint128`, `AmountDisplay` and `Bech32`. |
| `Arithmetic` | Lemmas: induction, functions defined by recursion, powers, division, bits, figures. |
| `Uint128`, `QaToZil` | The 128-bit operators and the string functions, pure. |
| `AmountDisplay`, `MCAmountDisplay` | From the bytes of an amount to the text on the screen, loop by loop; its instance. |
| `AmountProofs` | Proofs of its safety properties. |
| `Bech32`, `MCBech32` | From the digest of a public key to the address on the screen and back; its instance. |
| `Bech32Proofs` | Proofs of its safety properties, for every digest and every mistake. |
| `Schnorr`, `MCSchnorr` | Key derivation, the signer and its callers over a small group; its instance. |
| `SchnorrProofs` | Proofs of its safety properties, for every odd order. |

The modules do not share state: each takes the part of `signTxn` that another one
leaves open. `ZilApp` counts chunks, `TxnStream` their bytes; `TxnStream` lets
the decoder read anything that nanopb's checks permit, `TxnDecode` says what it
reads; `TxnDecode` says which bytes a string is made from, `AmountDisplay` and
`Bech32` how. `TxnStream` and `TxnDecode` both model `pb_read` and substreams, on
either side of `istream_callback`, and `TxnInput` is where they meet: the first
implements it whatever chunks the host sends and whatever a decoder asks for, the
second whatever the message says.

### ZilApp

State corresponds to the code as follows: `asynch` is `flags & IO_ASYNCH_REPLY`;
`pending` is the status word that `CATCH_OTHER` left in the buffer (`tx = 2`), 0
for `tx = 0`; `buf` is what `G_io_apdu_buffer` holds; `global` is the union, with
a `tag` for the member last written; `screen` is the flow and page displayed;
`pc` says which `io_exchange` the thread is in: about to enter that of the loop
(`loop`), blocked there (`wait`), blocked in that of the stream (`stream`), or
transmitting in `io_exchange_with_code` (`send`, with `reply` and the caller in
`returnTo`). `consent`, `faults`, `abandons` and `lost` are history variables.

Everything the thread does between two `io_exchange` calls is one action: from
the return of `io_exchange` through the checks of `zil_main`, the handler and the
exception handler, up to the next call. `Throw` is the `THROW` up to
`CATCH_OTHER`; it leaves `asynch` as it is, because `zil_main` clears `flags`
only when an APDU has come in.

Environment, modelled from its use and marked external in the map:

* the transport takes no request while one is unanswered, and the client
  (`tests/functional/apps/zilliqa.py`) sends one at a time; it may walk away
  between two chunks (`HostAbandons`) and start again with any request;
* a first APDU that arrives in the nested loop fails its length checks. One that
  happens to have the lengths of a continuation is `Stray` in `TxnStream`; it is
  left out here, and `KeepsPromise` says nothing of it;
* a message that is in `EarlyMsgs` may end in any chunk (`EndsHere`): at a tag of
  0, `pb_decode` returns true with chunks still announced, and `signTxn.c`,
  477-479, finishes the signature over what came in. The flow is then up for
  the `"beginning"` of the transaction (`SignatureOf`), which `SigningPromise`
  allows as an answer to such a request only (`Offered`): `ContextMatchesScreen`
  says that what is displayed, what the buttons release and the chunks the host
  has sent are one. The client takes `SW_OK` for the request to go on; if it
  sends its next chunk then, that is a malformed request to the main loop;
* a system call may throw (`Fault`), at most `MaxFaults` times; the bound makes
  "the system call works in the end" part of the liveness assumption;
* the user of BAGL screens finds approve and reject in one ring of pages; NBGL
  screens have a start page, and ask for confirmation before a signature is
  turned down;
* `FinishMayFail` lets the last step of a streamed signature return 0 (r or s is
  0 modulo the order). The code drops that result (`signTxn.c`, 479), so what is
  released can be called right only without it: it is FALSE in the runs and in the
  theorems about released signatures, and either in the other theorems.

### TxnStream

Bytes are told apart by their position in the transaction. The decoder is any
sequence of reads and of opened and closed substreams that nanopb's checks
permit, so the properties do not depend on what fields the transaction has.
`mode` is `decode` between reads, `read` in `istream_callback`, `ask` in its
`io_exchange`, and then one of the ends: `done`, `error` (the decoder or a
callback fails), `refused` (the size assertion), `ranOut` and `broken` (the
`FAIL` and the `assert` of `istream_callback`, which the properties exclude).
A new command may start after any end but these two, on the state that is left.

The rest that the host announces is four bytes, of `WORD` values. `handleSignTxn`
puts it into an `int`, so a value of the upper half is negative (`Signed`) and
passes the first check of the size (`FirstAccepted`), and `bytes_left` is the sum
of this `int` and the length of the chunk, made unsigned (`StreamSize`): with a
rest of -100 and a chunk of 200 bytes, 200 are hashed and a stream of 100 is
decoded. After a continuation the rest is unsigned (`SizeAccepted`).
`SignsWhatWasDecoded` and `RefusedIfTooLarge` say what holds all the same: no byte
is decoded that is not signed, and of a transaction above the limit no more is
decoded than came with the first APDU. That what is signed is the transaction does
not hold (`SignsTheTxn`, see the findings).

A continuation may be empty: `istream_callback` takes it and calls itself again,
as often as the client likes. `empties` counts such calls within a read, and
`RecursionBounded` has it in its bound: the recursion is limited by the size of
the read and by the client, not by the code.

A client may go away in the middle of a stream, and the first APDU of its next
request may have the lengths of a continuation, which is all that is looked at.
`Stray` is that: the key index is read as the rest to come, the next four bytes
as the length of the chunk. `toSend` is what the client has left to give,
`hostBytesLeft` what the device believes; they part with `strayed`. What is
decoded and signed then is a mixture of two requests, which no property calls
right: the properties say that the buffer, the hash and the nest of streams are
sound all the same, and `RefusedIfTooLarge` that nothing is refused without a
reason. `GivesInput` holds of such streams too.

### TxnDecode and PbFields

A byte is its position: `total`, `pos` and `left` (the `bytes_left` of the stream
and of the open substreams, a stack) count, and a string for display is the range
it was read from, or the error for a value that is too large. What a byte says,
the tag, wire type or length, is chosen when it is read. `pc` is the place in
`pb_decode_noinit` (`loop`), in `decode_field` (`field`), in `pb_skip_field`
(`skip`), in a callback and after it. `iter` holds the iterators of the message
and of the open submessage, with `pData` as an offset into the struct; which
callback is called is decided by that offset, as in the code, so an iterator that
is out of step shows in the strings. `meant` and `improper` are history: what a
reader of the protobuf format would take the message to say (the last value of a
repeated field counts), and in what the message departs from the format (a wire
type the schema does not give to the field, a 0 tag at the end), where that
question has no answer.

A screen ends a text at the first `'\0'`, which may be a byte of the value: `seen`
is how many characters come before it, chosen when the value is read. An address
or amount is read in pieces of 20 or 16 bytes, by one call of its callback after
the other as long as the substream has bytes (`pb_decode.c`, 794-798), and each
call writes over the string of the one before. `ShownIsMeant` says of an accepted
message of the right format what is left of this on the screen: of an address or
an amount, the last 20 or 16 bytes of its last value, whose length is then a
multiple of that (an address of 40 bytes is accepted, and its end is shown); of
code and data, the last value up to its first `'\0'`, or the error that it is too
large, and a page for it if it is not empty and holds no `'\0'`. That a value
which begins with one may get no page is a finding.

The integers of the message are decoded into a struct that nothing reads, so only
their bytes count. `Error` stands for every failure of a read that depends on
bytes (varints, lengths that do not fit, the host's chunks).

### Varint

The widths are parameters: payload bits of a byte, of the short and of the long
word, 7, 32 and 64 in the code, and those of `bitpos`, a `uint_fast8_t` (8 or as
many as the compiler likes). What the constants must share with those of the
code is stated as `VarintAssumption`: the short word ends inside a byte, the long
word has one bit in its last byte, and `bitpos` does not wrap before that.
`exact` is history: the number the bytes say. `bitpos` does wrap in
`pb_decode_varint32_eof`, which puts no limit to the bytes without value that may
follow; the bits of such bytes then fall on those of the word.

### AmountDisplay, Uint128, QaToZil

Widths are parameters here too. One action is one round of `tostring128` or of
the loop in `divmod128`, or one of the three passes of `qa_to_zil`. The two
halves of the amount are swapped separately, as the callback does, and read as
words of a little-endian machine.

### Bech32

Real widths: a 30-bit checksum is the set of its bits. The conversion starts
with the digest of a public key, of which `pubkeyToZilAddress` takes the last 20
bytes, and ends in the buffer that `getPublicKey` shows and sends. One action is
one round of a loop over symbols. The environment is a reader who types the
address into a wallet that uses `bech32_addr_decode`, in small or capital
letters, with at most one wrong character.

### Schnorr

The curve is represented by the group of its base point, BIP 32 by a function of
the last element of the path (`Seed`), SHA-256 by a random oracle that draws a
digest for a new input and remembers it. `PathElement` sets the bit of a
hardened element, so that index i and index i + 2^31 name one key. Points are
compressed in two places, for the answer of `getPublicKey` and for the hash, and
`SignatureVerifies` needs them to agree: `Verifies` is Zilliqa's verification
equation under the key that `getPublicKey` answers. The nonce is the first 32 of
the 40 bytes of a residue, so it may be 0, which the curve refuses before anything
is hashed (`NonceIsCommitted`); any residue
may come up: nothing is said of its secrecy. `T` (`K` and `H`) survives from one
message to the next, as it does in the union of contexts; a stream may be given
up between two chunks.

## 3. Runs

| Run | Question | Instance |
|---|---|---|
| `app_bagl` | Does the app keep its promise with buttons? The safety properties and the refinement of `SigningPromise`. | 2 keys, 2 messages (one does not decode, one may end in any chunk), 2 continuation chunks, 1 fault, 1 abandoned stream |
| `app_nbgl` | The same promise with touch screens; and is every request settled, every flow closed? | 1 key, 3 messages (one of them may end early), 1 chunk |
| `txn_stream` | Is every byte that is decoded hashed, once and in order, and taken from sound streams, whatever the host announces and whatever is taken for a chunk, and does the stream end? | buffer of 2 bytes, limit 4, words of 14 values, transactions of 0, 4, 5, 7 and 15 bytes, key indices 0, 1 and 6, one empty chunk in a read |
| `txn_decode` | Does the screen show the last values as stated above, are the bytes taken as `TxnInput` has them, does the decoder end? | values of 2 bytes, strings of up to 2 characters, transactions of up to 8 bytes, 8 tags, 5 wire types |
| `varint` | Is a tag or length decoded to the number it says or refused, and an integer to that number modulo the long word? | bytes of 3 bits, words of 5 and 10, `bitpos` of 4, up to 7 bytes: every encoding |
| `amount_display` | Does the text read back as exactly the amount? Do the loops end? | words of 6 bits, bytes of 3, 100 Qa to the Zil: every amount |
| `bech32` | Does the text read back as the address of the key, and is any single mistake noticed? | 3 digests of 32 bytes, 11 wrong characters at every place |
| `schnorr` | Does every complete signature verify under the key that was answered, and do the retries end? | group of order 7, 2 keys with opposite points, 3 indices, 3 messages, 3 tries |
| `app_error_unsent`, `txn_stream_prefix`, `txn_decode_flow`, `varint_overlong` | The findings below. | as the runs they belong to, some with fewer keys, tags or transactions |

Bounds. Two keys and two messages are enough for one to be taken for the other;
one request is outstanding at a time, so a third adds nothing. Two continuation
chunks give a first, a middle and a last APDU. One fault and one abandoned stream
already combine with every other event, and resets, quits, launches, requests
and rejections are not bounded. In `app_bagl` the message that decodes is also the
one that may end early, in the first or the second of its three chunks, and in
`app_nbgl` it is one of its own. In `txn_stream` a transaction of 4 bytes takes two
buffers or up to four one-byte chunks, with an empty one before or between them,
and a read may span all of them; 5 is the first size above the limit, 7 the first
with a rest that is negative (if the first chunk is empty), and one of 15 bytes
announces the most that four bytes hold, so that its stream has one byte and its
first chunk up to two. A stray request announces that nothing more is to come, one
byte, or more than the limit. The proofs cover every other size.

In `txn_decode` tags and lengths take one byte (`MAX_VARINT`), since `Varint`
covers longer ones. 8 bytes hold two addresses (a repeated field, and a step
around the table), or an amount in its submessage with an end tag, unread bytes
or another field after it. The tags are one of each kind of field, every field
that is shown, and one that no field has; `code` and `data` take values just
below, at and above the size of their strings. In `varint` seven bytes reach
beyond the end of both words, and two bytes beyond the wrap of `bitpos`. In
`amount_display` both words have several bytes and several digits, and amounts lie
below, at and above one Zil; the buffer is as tight as that of the code. In
`schnorr` the group is so small that degenerate signatures and nonces of 0, which
nobody will see on the curve, are frequent.

Fairness. `ZilApp`: the processor runs (`WF(Device)`); a client asked for a
chunk sends it (`WF(HostContinue)`; it may also abandon, which settles the
request); the user turns the start page (`WF(ContinueReview)`) and decides in
the end even if a rejection is taken back again and again (`SF(Decide)`). The
user's part is an assumption about people, not about the code: without it a
request may stay open for ever, by design ("everything is frozen until the user
decides", `main.c`, 76-77). `TxnStream`: the processor runs, the client sends
what it is asked for and not an endless row of empty chunks, which the code
would take, and one that has nothing more to send goes on to its next request or
leaves, which it does by `Stray` or `Interrupted`; without that a device that
was told too large a rest would wait for ever. `TxnDecode`: the host goes on
sending, so the decoder takes its next step; errors are not fair and cannot be
what ends a loop. `AmountDisplay`: a sequential computation, `WF(Next)`.
`Schnorr`: the processor runs while a message is signed in one go; a stream
waits for its host, and nothing is promised of its end. No fairness is assumed
of resets, quits or new requests. `Varint` and `Bech32` have safety properties
only.

Deadlock is not checked where the program comes to its end: the runs of one
decoding, one conversion, one varint, one address.

## 4. Findings

* `app_error_unsent`: `signHash`'s `do_approve` derives and signs inside the
  button handler. If a system call throws there, `zil_main` catches the exception
  while `flags` still holds `IO_ASYNCH_REPLY`, so the next `io_exchange` waits
  instead of sending the status word, contrary to `main.c`, 231-233. The flow
  stays up and the request is answered when the user presses a button again:
  `NoSilentWait` and `RequestsSettle` hold all the same.
* `txn_stream_prefix`: a tag of 0 ends the message for `pb_decode`, wherever it
  stands. `sign_deserialize_stream` finishes the signature without a look at what
  the host has announced, so the user is asked about, and `SW_OK` carries the
  signature of, the chunks up to this one, where the comment in 434 promises to
  "sign the txn".
* `txn_decode_flow`: whether code and data get a page is decided by the first
  character of their strings. Code or data that begins with a zero byte is signed
  in the flow "without Smart Contract code nor data"; the trace has code.
* `varint_overlong`: the upper bits of the byte that crosses bit 32 are checked
  only if it is the last byte. With bytes of no value after it, the bits are
  dropped and the rest is taken for the tag or length. Where `bitpos` has eight
  bits, the 38th byte and those after it even add bits to a word that was
  complete.

Seen while modelling, with no run of their own:

* The size limit is checked on a signed number at first. With a rest of 2^31 or
  more in the first APDU, the `assert` of `signTxn.c`, 442, holds, and the first
  chunk of a transaction above the limit is decoded. If the message ends in it, it
  is signed and shown; if not, the check after the next chunk refuses it. That
  this is all that gets through is what `RefusedIfTooLarge` says.
* `sign_deserialize_stream` ignores the result of `deriveAndSignFinish`, where its
  comment (436) promises that the signature is populated. With a result of 0, an
  event of negligible probability, the user is asked to approve and `SW_OK` goes
  out with no signature.
* "Generate a random k from [1, ..., order-1]" (`schnorr.c`, 80) is a residue from 0
  on in the code (88-92). With 0, an event of negligible probability, the curve
  throws, and there is no second draw; that no such nonce is committed to is part
  of `NonceIsCommitted`.
* The header comment of `getPublicKey.c` (8-9, 16-17) has the key generated after
  the approval, while the handler derives and shows it before
  (`ContextMatchesScreen` holds of the flow as it is).
* `txn.proto` makes the data of a `ByteArray` required, while the check for required
  fields is compiled only with `PROTO2_SUPPORT`, which the Makefile does not
  define, so an amount without data is accepted and shown as an empty string.

## 5. Proofs

All theorems hold for every value of the constants that satisfies the
assumptions stated where they are declared; what a theorem assumes beyond that
is in its statement. The assumptions say no more than the code does:
`ApduAssumption`, `AppAssumption`, `StreamAssumption`, `SchnorrAssumption` give
the constants their types (and the order of the group is odd, and the size limit
with a buffer above it is less than half of what four bytes hold);
`DecodeAssumption` also says that the fields for display are longer than
`RAW_VALUE_LEN`, the 10 bytes that `decode_callback_field` has for a value that
is not a string, which is so for addresses of 20 bytes, amounts of 16 and
strings of 500; `VarintAssumption` and `DisplayAssumption` say how the widths of
the code, 7, 32, 64 and 8 bits of payload, words and `bitpos`, 8 and 64 of bytes
and halves, and the 42 bytes of a number are related; `Bech32Assumption` that a
digest is 32 bytes of which the address is the last 20, that the prefix is three
small letters and that a mistake is a printable character. TLC evaluates them
for the instances.

`ZilAppProofs`: `TypeOK`, `NoStrayReply`, `NoSilentWait`, `OneErrorPerCause` and
`ChunksInStep`; and, where the last step of a streamed signature does not fail
(`~FinishMayFail`), `ContextMatchesScreen` and
`KeepsPromise`, for any keys and messages, any number of chunks, faults and
abandoned streams, whichever messages end early and in which chunk, with either
kind of screens. (That a signature may be of the beginning of a transaction is
part of what `KeepsPromise` states, not excluded by it.) The invariant that is
inductive, `IInv`, says who waits for whom: an APDU on the wire is the host's
current request or a chunk of it (`OnTheWire`); host and device are in step
within a stream (`Streaming`); the flag tells approval flows from everything
else, and a pending status word has a host waiting for it (`Flagged`); what is
being transmitted is among what was promised (`Replying`); what the flow asks
about is what the host waits for, up to the chunk the message ended in
(`Asked`); and every error that a sound request got or is going to get has a
cause of its own (`Accounted`). `OneErrorPerCause` needs the last with its
`Owed`: an error that is on its way must be counted before it is sent.
`KeepsPromise` is proved step by step: sending is `Ask`, a button is `Decide`, a
delivery is `Answer`, a reset, a quit or a client that leaves is `Drop`,
everything else stutters.

`TxnStreamProofs`, for every buffer size, limit, range of four bytes, number of
empty chunks and set of transactions, those with a negative rest included:
`NeverRunsOut`, `HashFollowsDecoder`, `SignsWhatWasDecoded`, `RefusedIfTooLarge`
and `RecursionBounded`. The invariant is an account of every byte: the bytes that
came in are those that are hashed and end with the buffer; the buffer's index
stands where the decoder stands; and what the open streams have left is what of
the stream the decoder has not got, corrected for a read in progress, where the
stream is the transaction modulo the word (`SizeFact`). As long as nothing
strayed, the host's count agrees with the device's as well, modulo the word, and
of a transaction above the limit only the first chunk was taken. `NeverRunsOut`
needs all of it: a read that is not satisfied by the buffer is within
`bytes_left`, so the stream has more bytes than were sent, so the host announced
more; where the rest is negative the stream may be shorter than its first chunk,
and then the buffer is enough. That the next chunk of one above the limit is
refused is `AskedRest`.

`GivesInput` follows from the same invariant. A read that takes several chunks is
one `Take`, at the step at which the decoder gets its bytes. `StreamsNest`: what
implements `TxnInput` stays within properly nested streams.

`TxnDecodeProofs`, for every size of values, strings and transactions and every
set of tags: `TypeOK`, `IterInStep`, `ShownIsMeant` and `TakesInput`. The
invariant has a part for each thing that could get out of step. `IterInv`: the
iterators are those of the tables; that each of the steps of the iterator, which
only adds a distance, keeps it so is `FindKeeps`, from the offsets that the
macros of `pb.h` compute (`OffsetsFact`, `FieldsFact`). `StreamInv`: what was
read and what the open streams have left is the whole transaction, and there are
as many streams as messages and values being read. `ReadingInv`: a callback is
called for the field whose tag came in. `ValuesInv`: as long as the message keeps
to the format, a string for display is what its last value says, except for the
one that is being read; an address or an amount may have been read in part, by a
number of calls, and what is left of it says where its last piece is (`Awaited`).
`ShownIsMeant` is its last part, at the end. For
`TakesInput` a byte of the message is a byte of `TxnInput`, and the levels of its
nest are where the substreams end (`InputFact`).

`VarintProofs`, for every width of bytes, words and `bitpos` and encodings of any
length: `ShortIsExact`, `LongIsExact` and `LongEnds`. The invariant is that the
word is what the bytes say, modulo its width where bits were shifted out, and that
`bitpos` is the number of bits so far as long as it cannot have wrapped; each byte
then adds its payload above the bits that are there, so that the `|` of the code
is a sum (`Stacked`).

`AmountProofs`, for words and bytes of every width, every base up to 10, every
number of decimals and every size of the buffer that `DisplayAssumption` allows:
`TypeOK`, `DivisionIsExact`, `EveryAmountFits` and `ShownIsSigned`. It goes from
the bits to the screen in three stages.

* The 128-bit operators: `MinusFact`, `LeftFact`, `HalfFact`, `GtFact`,
  `BitsFact` and `OrFact` say what each of them does to the number that a pair of
  words stands for.
* The division (`Dividing`): `adder` is a power of two, `copyd` the same power
  times the base, the quotient has only bits above it, and the rest is below
  twice the divisor. That is stronger than `DivisionIsExact`, which is not
  inductive: that the `|` of quotient and `adder` adds needs the bits to be apart.
  For the digits (`Counting`), the amount is what is left to divide, times the
  base to the number of digits, plus the number that the digits write. Once a
  digit is written something is left to divide or nothing is, and the highest
  digit is not zero; so the digits are no more than those of the largest pair,
  which the buffer holds.
* The strings (`Spelled`, `Texts`): cleaning the digits changes nothing
  (`CleanseFact`), the point divides them into two parts (`WithPointFact`), and
  what is stripped are zeros at the end of the second (`StripFact`), so the number
  stays the same (`ReadsFact`).

`Bech32Proofs`, for every digest, every place and every printable character typed
there: `FitsBuffer`, `ReadsBack` and `MistakeIsCaught`. Nothing of the 2^160
addresses or of the 42 places is enumerated. `IInv` says that what was shown is
`Text(address)`, that what was typed reads as it but for one character
(`TypedBy`), and that the checksum has run over what is not still to go into it
(`Pending`), so that at the end of a loop `chk` is `Run` of all its symbols.

* The checksum. A round is linear in the bits of the word (`StepLinear`) and one
  to one (`StepInjective`, from the lowest bits of the generators,
  `GeneratorEnds`); so two runs that differ in one symbol never meet again
  (`OneWrong`), and the six check symbols of `bech32_encode` are those that bring
  the run to the constant of `bech32_decode` (`Verified`).
* The groups of bits. A round of `convert_bits` keeps the number that the figures
  in and out write, plus the bits it holds back (`RegroupFact`); 20 bytes make 32
  symbols with nothing over, and as a number is written by one sequence of
  figures only (`PositionalUnique`), converting back gives the bytes
  (`AddressFact`).
* The characters. `charset_rev` undoes `charset` in either case (`CharFact`), and a
  character that is another one in small letters is another symbol or none
  (`OnlyChar`). A mistake in the prefix gives another prefix, one in the separator
  none or another one, one that is a separator a string too short or a prefix too
  long, and a capital among small letters or a small letter among capitals is
  refused by itself; every other
  mistake is one wrong symbol (`WrongText`).

`Arithmetic` has what these proofs share. The induction theorems of the library
take an operator as a parameter, which the provers cannot instantiate; here a set
takes the place of the formula (`Induction`, from the well-founded order of the
numbers) and a function that of the step (`RecursiveFunction`), and what a
recursive function computes can be proved of every input. `Power` is such a
function because `^` means nothing to the provers.

`SchnorrProofs`, for every odd order of the group, derivation of keys, message,
cut into chunks and number of tries: `TypeOK`, `SignatureVerifies`,
`ReturnsSigned` and `NonceIsCommitted`. The invariant says what was hashed, byte
for byte, and that a complete signature satisfies its equation. The heart is
`SignedSum`: the verifier adds what the signer subtracted, and gets back the
nonce, by two facts about remainders (`DivMod`, `ModUnique`); then the points
agree in both encodings, so the digest is the one the oracle remembered. Neither
the primality of the order nor a property of the digest is used.

Only model-checked: liveness under fairness (`RequestsSettle`, `ApprovalsClose`,
`StreamEnds`, `DecodingEnds`, `EveryAmountIsShown`, `SigningEnds`), which is outside
the prover's reach. Every invariant and every action property of the passing runs
has a theorem; two of them, `ContextMatchesScreen` and `KeepsPromise`, for
`~FinishMayFail` only, as the code ignores that failure.

## 6. What is not modelled

* Fields of kinds the message does not have: nanopb's repeated, oneof, pointer and
  extension fields, its signed, fixed, string and bytes decoders, and its encoder;
  `segwit_*`; 256-bit arithmetic. Nothing in the app calls them.
* What the stack canary, logging and the layout of the screens do.
* The contents of what a stray chunk makes the decoder see: `TxnStream` follows the
  counts, `ZilApp` leaves the event out.
* The SDK: `io_exchange`, BIP 32, the curve, SHA-256 and the random numbers are the
  environment, as the code uses them.

## 7. Plan

1. Done: every component that the app calls, with its runs; the abstract
   specifications `SigningPromise` and `TxnInput`; proofs of the safety properties
   of every component, and of the three refinements.
2. Proofs: two mistakes in a `Bech32` text, which the checksum promises to catch as
   well, would need the distance of its code.
3. Composition: one chunk exchange of `ZilApp` as a `Start`, `HostChunk` or `Stray`
   of `TxnStream`.
