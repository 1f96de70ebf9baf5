------------------------------- MODULE Bech32 -------------------------------
(***************************************************************************)
(* The address of a public key, from its hash to the string on the screen  *)
(* and in the reply of getPublicKey: bech32_addr_encode, and               *)
(* bech32_addr_decode for who reads it.  Characters are ASCII codes.       *)
(***************************************************************************)
EXTENDS Binary, Sequences

CONSTANTS
    DIGESTS,            \* bound: hashes of public keys, sequences of bytes
    MISTAKES,           \* bound: characters a reader may put in place of one
    PUB_ADDR_BYTES_LEN, \* 20
    hrp                 \* "zil": three letters, as BECH32_ADDRSTR_LEN counts them

SHA256_HASH_LEN == 32

ASSUME Bech32Assumption ==
    /\ PUB_ADDR_BYTES_LEN \in 2 .. 40
    /\ PUB_ADDR_BYTES_LEN + 12 = SHA256_HASH_LEN
    /\ DIGESTS \subseteq [1 .. SHA256_HASH_LEN -> 0 .. 255]
    /\ MISTAKES \subseteq 33 .. 126
    /\ hrp \in Seq(97 .. 122) /\ Len(hrp) = 3

charset == <<113, 112, 122, 114, 121, 57, 120, 56, 103, 102, 50, 116, 118, 100, 119, 48,
             115, 51, 106, 110, 53, 52, 107, 104, 99, 101, 54, 109, 117, 97, 55, 108>>

(* From character 48 on: digits, capitals, small letters; -1 for none.     *)
charset_rev ==
    <<15, -1, 10, 17, 21, 20, 26, 30,  7,  5, -1, -1, -1, -1, -1, -1,
      -1, 29, -1, 24, 13, 25,  9,  8, 23, -1, 18, 22, 31, 27, 19, -1,
       1,  0,  3, 16, 11, 28, 12, 14,  6,  4,  2, -1, -1, -1, -1, -1,
      -1, 29, -1, 24, 13, 25,  9,  8, 23, -1, 18, 22, 31, 27, 19, -1,
       1,  0,  3, 16, 11, 28, 12, 14,  6,  4,  2, -1, -1, -1, -1, -1>>

BECH32_ADDRSTR_LEN == 3 + 1 + 32 + 6

Separator == 49    \* '1'

VARIABLES
    pc,         \* the call being made, or "shown", "read", "decoded"
    chk,        \* its checksum
    todo,       \* what is still to go into the checksum
    address,    \* the address of the program
    output,     \* the string for it
    input,      \* the string that a reader typed in
    mistakes,   \* history: characters typed wrong
    result      \* what bech32_addr_decode makes of it, <<>> for a failure

vars == <<pc, chk, todo, address, output, input, mistakes, result>>

(* The address is the last part of the hash of the public key.             *)
pubkeyToZilAddress(d) == [i \in 1 .. PUB_ADDR_BYTES_LEN |-> d[i + 12]]

Init ==
    /\ pc = "encode"
    /\ \E d \in DIGESTS : address = pubkeyToZilAddress(d)
    /\ chk = {} /\ todo = <<>>
    /\ output = <<>> /\ input = <<>> /\ mistakes = 0 /\ result = <<>>

-----------------------------------------------------------------------------
(* A word of 30 bits is the set of its bits.                               *)
Bits(v) == {j \in 0 .. 29 : Bit(v, j) = 1}

Xor(a, b) == {j \in 0 .. 29 : (j \in a) # (j \in b)}

(* 3b6a57b2, 26508e6d, 1ea119fa, 3d4233dd, 2a1462b3                        *)
Generators == <<Bits(996825010), Bits(642813549), Bits(513874426), Bits(1027748829),
                Bits(705979059)>>

(* Mutant: the last generator is not applied.                              *)
Masked_Lost(pre, i) == IF i < 5 /\ 24 + i \in pre THEN Generators[i] ELSE {}

(* Each of the five bits shifted out stands for a generator.               *)
Masked(pre, i) == IF 24 + i \in pre THEN Generators[i] ELSE {}

polymod_step(pre) ==
    Xor(Xor(Xor(Xor(Xor({j \in 5 .. 29 : j - 5 \in pre},
        Masked(pre, 1)), Masked(pre, 2)), Masked(pre, 3)), Masked(pre, 4)), Masked(pre, 5))

(* One round of the loops over the symbols.                                *)
Checksum ==
    /\ todo # <<>>
    /\ chk' = Xor(polymod_step(chk), Bits(Head(todo)))
    /\ todo' = Tail(todo)
    /\ UNCHANGED <<pc, address, output, input, mistakes, result>>

Start(values) == chk' = Bits(1) /\ todo' = values

(* What both functions run over the human readable part: the upper bits of *)
(* its characters, a zero, the lower bits.                                 *)
Expand(h) ==
    [i \in 1 .. Len(h) |-> h[i] \div 32] \o <<0>> \o [i \in 1 .. Len(h) |-> h[i] % 32]

(* The inner loop of convert_bits: the groups of bits that are complete.   *)
Groups(val, bits, outbits) ==
    [j \in 1 .. bits \div outbits |->
        (val \div Power(2, bits - j * outbits)) % Power(2, outbits)]

(* A round of its outer loop; of val, the bits that went out already are   *)
(* masked off.                                                             *)
Regroup(s, in, inbits, outbits) ==
    LET val  == s.val * Power(2, inbits) + in
        bits == s.bits + inbits
    IN  [out |-> s.out \o Groups(val, bits, outbits),
         val |-> val % Power(2, bits % outbits), bits |-> bits % outbits]

convert_bits(in, inbits, outbits, pad) ==
    LET from[i \in 0 .. Len(in)] ==
            IF i = 0 THEN [out |-> <<>>, val |-> 0, bits |-> 0]
            ELSE Regroup(from[i - 1], in[i], inbits, outbits)
        end == from[Len(in)]
    IN  [ok |-> pad \/ (end.val = 0 /\ end.bits < inbits),
         out |-> end.out \o IF pad /\ end.bits > 0
                   THEN <<(end.val * Power(2, outbits - end.bits)) % Power(2, outbits)>> ELSE <<>>]

(* Mutant: five symbols hold the checksum.                                 *)
CheckLen_Five == 5

CheckLen == 6

(* Mutant: the checksum of an address alone, without the constant.         *)
Final_None == {}

(* chk ^= 1                                                                *)
Final == Bits(1)

CheckSymbols(c) ==
    LET one(k) == IF k \in c THEN 1 ELSE 0
    IN  [i \in 1 .. CheckLen |-> LET k == (6 - i) * 5
                          IN  16 * one(k + 4) + 8 * one(k + 3) + 4 * one(k + 2)
                              + 2 * one(k + 1) + one(k)]

Capital(ch) == ch \in 65 .. 90

Small(ch) == ch \in 97 .. 122

Symbols(prog) == convert_bits(prog, 8, 5, TRUE).out

(* bech32_addr_encode, up to the loops.  It refuses prefixes with capitals *)
(* and strings of more than 90 characters: not those of this app.          *)
Encode ==
    /\ pc = "encode"
    /\ Start(Expand(hrp) \o Symbols(address) \o <<0, 0, 0, 0, 0, 0>>)
    /\ pc' = "encoding"
    /\ UNCHANGED <<address, output, input, mistakes, result>>

Encoded ==
    /\ pc = "encoding" /\ todo = <<>>
    /\ LET body == Symbols(address) \o CheckSymbols(Xor(chk, Final))
       IN  output' = hrp \o <<Separator>> \o [i \in 1 .. Len(body) |-> charset[body[i] + 1]]
    /\ pc' = "shown"
    /\ UNCHANGED <<chk, todo, address, input, mistakes, result>>

SymbolOf(ch) == IF ch \in 48 .. 127 THEN charset_rev[ch - 47] ELSE -1

LowerCase(ch) == IF Capital(ch) THEN ch + 32 ELSE ch

MixedCase(s) ==
    /\ \E i \in 1 .. Len(s) : Small(s[i])
    /\ \E i \in 1 .. Len(s) : Capital(s[i])

(* The last '1' separates.                                                 *)
Sep(s) ==
    LET ones == {i \in 1 .. Len(s) : s[i] = Separator}
    IN  IF ones = {} THEN 0 ELSE CHOOSE i \in ones : \A j \in ones : j <= i

HrpOf(s) == [i \in 1 .. Sep(s) - 1 |-> LowerCase(s[i])]

DataOf(s) == [i \in 1 .. Len(s) - Sep(s) |-> SymbolOf(s[Sep(s) + i])]

(* bech32_decode, up to the loops.                                         *)
Decode ==
    /\ pc = "read"
    /\ IF /\ Len(input) \in 8 .. 90
          /\ Sep(input) > 1 /\ Len(DataOf(input)) >= 6
          /\ \A i \in 1 .. Sep(input) - 1 : input[i] \in 33 .. 126
          /\ \A i \in 1 .. Len(DataOf(input)) : DataOf(input)[i] # -1
          /\ ~MixedCase(input)
         THEN pc' = "decoding" /\ Start(Expand(HrpOf(input)) \o DataOf(input))
         ELSE pc' = "decoded" /\ UNCHANGED <<chk, todo>>
    /\ UNCHANGED <<address, output, input, mistakes, result>>

(* And the rest of bech32_addr_decode.                                     *)
Decoded ==
    /\ pc = "decoding" /\ todo = <<>>
    /\ LET d    == SubSeq(DataOf(input), 1, Len(DataOf(input)) - 6)
           prog == convert_bits(d, 5, 8, FALSE)
       IN  result' = IF /\ chk = Bits(1) /\ HrpOf(input) = hrp
                        /\ Len(d) \in 1 .. 64
                        /\ prog.ok /\ Len(prog.out) = PUB_ADDR_BYTES_LEN
                       THEN prog.out ELSE <<>>
    /\ pc' = "decoded"
    /\ UNCHANGED <<chk, todo, address, output, input, mistakes>>

-----------------------------------------------------------------------------
(* What getPublicKey copies to the APDU buffer, and from there to fullStr. *)
fullStr == SubSeq(output, 1, BECH32_ADDRSTR_LEN)

(* A reader types in the string, in small letters or in capitals.          *)
TypedIn(capitals) ==
    /\ pc = "shown"
    /\ input' = [i \in 1 .. Len(fullStr) |->
                   IF capitals /\ Small(fullStr[i]) THEN fullStr[i] - 32 ELSE fullStr[i]]
    /\ pc' = "read"
    /\ UNCHANGED <<chk, todo, address, output, mistakes, result>>

(* And gets one character wrong, be it only a capital among small letters  *)
(* or a small letter among capitals.                                       *)
Mistake(i, ch) ==
    /\ pc = "read" /\ mistakes = 0
    /\ ch # input[i]
    /\ input' = [input EXCEPT ![i] = ch] /\ mistakes' = mistakes + 1
    /\ UNCHANGED <<pc, chk, todo, address, output, result>>

Next ==
    \/ Checksum
    \/ Encode \/ Encoded
    \/ \E capitals \in BOOLEAN : TypedIn(capitals)
    \/ \E i \in 1 .. Len(input), ch \in MISTAKES : Mistake(i, ch)
    \/ Decode \/ Decoded

Spec == Init /\ [][Next]_vars

-----------------------------------------------------------------------------
(* What signTxn asserts of the string: it has the length of its buffer.    *)
FitsBuffer == pc = "shown" => Len(output) = BECH32_ADDRSTR_LEN

(* The string says which address it was, in small letters or capitals.     *)
ReadsBack == pc = "decoded" /\ mistakes = 0 => result = address

(* A string with one wrong character is no address at all, its prefix and  *)
(* its separator included.                                                 *)
MistakeIsCaught == pc = "decoded" /\ mistakes = 1 => result = <<>>
=============================================================================
