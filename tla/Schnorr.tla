------------------------------- MODULE Schnorr -------------------------------
(***************************************************************************)
(* The signer of schnorr.c and zilliqa.c, which derives the keys.  A       *)
(* message is signed in one go, with new tries if the signature comes out  *)
(* degenerate, or as a stream of chunks between an init and a finish that  *)
(* may come many APDUs apart; both work on a zil_ecschnorr_t that outlives *)
(* them, and derive the private key anew in every call.                    *)
(*                                                                         *)
(* The curve is the group of its base point: the scalar k stands for the   *)
(* point kG.  SHA-256 is a random oracle: a digest, reduced by the order,  *)
(* is drawn when an input is first hashed, and remembered.                 *)
(***************************************************************************)
EXTENDS Integers, Sequences

CONSTANTS
    N,              \* order of the group, a prime
    NONCE_EXTRA,    \* 2^64: what eight bytes more than a scalar has can hold
    HARDENED,       \* 2^31: the bit of a hardened element of a path
    Seed,           \* the private key that BIP 32 derives, by the index in the path
    INDICES,        \* bound: key indices in requests
    MESSAGES,       \* messages to sign, sequences of bytes
    CX_MAX_TRIES    \* 100

Scalars == 0 .. N - 1

ASSUME SchnorrAssumption ==
    /\ N \in Nat /\ N > 2 /\ N % 2 = 1
    /\ NONCE_EXTRA \in Nat \ {0} /\ HARDENED \in Nat \ {0}
    /\ Seed \in [HARDENED .. 2 * HARDENED - 1 -> Scalars \ {0}]
    /\ INDICES \subseteq 0 .. 2 * HARDENED - 1
    /\ MESSAGES \subseteq Seq(0 .. 1)
    /\ CX_MAX_TRIES \in Nat \ {0}

VARIABLES
    pc,         \* where the signer is
    caller,     \* deriveAndSign, or the three calls of a stream
    keyIndex,   \* the key that the request names
    message,    \* history: the bytes to sign
    fed,        \* how many of them sign_continue was given
    K,          \* T->K, the nonce
    H,          \* T->H: what was hashed, a point encoded as one number
    tries,      \* num_tries
    digest,     \* the random oracle, for the inputs of this message
    sig         \* the signature field: what was written to it

vars == <<pc, caller, keyIndex, message, fed, K, H, tries, digest, sig>>

Init ==
    /\ pc = "idle" /\ caller = "stream"
    /\ keyIndex = 0 /\ message = <<>> /\ fed = 0
    /\ K = 0 /\ H = <<>> /\ tries = 0
    /\ digest = <<>> /\ sig = <<>>

-----------------------------------------------------------------------------
(* An uncompressed point is 4, x and y.  A point shares its x with its     *)
(* opposite, and one of the two has an odd y.                              *)
Uncompressed(p) == <<4, IF 2 * p < N THEN p ELSE N - p, IF 2 * p < N THEN 0 ELSE 1>>

(* index | 0x80000000                                                      *)
PathElement(index) == IF index < HARDENED THEN index + HARDENED ELSE index

getKeySeed(index) == Seed[PathElement(index)]

compressPubKey(W) == <<IF W[3] % 2 = 0 THEN 2 ELSE 3, W[2]>>

(* What getPublicKey answers for an index.                                 *)
deriveZilPubKey(index) == compressPubKey(Uncompressed(getKeySeed(index)))

(* Mutant: the sign of a point is that of its opposite.                    *)
Compressed_Opposite(p) ==
    LET W == Uncompressed(p) IN <<IF W[3] % 2 = 1 THEN 2 ELSE 3, W[2]>>

(* The signer compresses points itself.                                    *)
Compressed(p) ==
    LET W == Uncompressed(p) IN <<IF W[3] % 2 = 1 THEN 3 ELSE 2, W[2]>>

(* The commitment and the public key, hashed before the message.           *)
Committed(k, d) == Compressed(k) \o Compressed(d)

(* A caller comes with a key index and a message.                          *)
Begin(who, i, m) ==
    /\ pc \in {"idle", "returned", "thrown"}
    /\ pc' = "init" /\ caller' = who /\ keyIndex' = i /\ message' = m
    /\ fed' = 0 /\ tries' = 0 /\ digest' = <<>> /\ sig' = <<>>
    /\ UNCHANGED <<K, H>>

(* Of a residue of size + 8 bytes, the first size bytes are the nonce.     *)
Nonce(residue) == residue \div NONCE_EXTRA

(* zil_ecschnorr_sign_init, when any residue may come out of the random    *)
(* bytes.  Zero times the base point is an error of the curve.             *)
SignInit(residue) ==
    /\ pc = "init"
    /\ K' = Nonce(residue)
    /\ IF K' = 0 THEN pc' = "thrown" /\ UNCHANGED H
                 ELSE pc' = "hashing" /\ H' = Committed(K', getKeySeed(keyIndex))
    /\ fed' = 0
    /\ UNCHANGED <<caller, keyIndex, message, tries, digest, sig>>

(* zil_ecschnorr_sign_continue: the next n bytes; all of them in one go.   *)
SignContinue(n) ==
    /\ pc = "hashing"
    /\ fed + n <= Len(message)
    /\ caller = "oneGo" => n = Len(message) /\ fed = 0
    /\ H' = H \o SubSeq(message, fed + 1, fed + n)
    /\ fed' = fed + n
    /\ UNCHANGED <<pc, caller, keyIndex, message, K, tries, digest, sig>>

(* Mutant: the difference is not reduced.                                  *)
SubM_Raw(a, b) == a - b

SubM(a, b) == (a - b) % N

MultM(a, b) == (a * b) % N

(* Mutant: the tries are not counted.                                      *)
NextTry_Same == tries

NextTry == tries + 1

(* Mutant: the loop is left with no signature and no exception.            *)
OutOfTries_Returns == "returned"

OutOfTries == "thrown"

(* After a 0 of sign_finish: the loop starts again, or gives up with       *)
(* "Number of attempts exceeded"; a stream goes on with the result ignored. *)
TryFails ==
    IF caller = "stream" THEN pc' = "returned" /\ UNCHANGED tries
    ELSE /\ tries' = NextTry
         /\ pc' = IF NextTry < CX_MAX_TRIES THEN "init" ELSE OutOfTries

Degenerate(r, s) == r = 0 \/ s = 0

(* Mutant: the nonce is not erased.                                        *)
Erased_Kept(k) == k

Erased(k) == 0

(* zil_ecschnorr_sign_finish with digest r.  The product r * d is computed *)
(* in the signature field and stays there if s = 0.                        *)
SignFinish(r) ==
    /\ pc = "hashing" /\ fed = Len(message)
    /\ IF H \in DOMAIN digest THEN r = digest[H] ELSE TRUE
    /\ digest' = [h \in DOMAIN digest \cup {H} |-> IF h = H THEN r ELSE digest[h]]
    /\ LET d == getKeySeed(keyIndex)
           s == SubM(K, MultM(r, d))
       IN  IF Degenerate(r, s)
             THEN /\ TryFails
                  /\ sig' = IF r = 0 THEN sig ELSE <<MultM(r, d)>>
                  /\ UNCHANGED K
             ELSE /\ pc' = "returned" /\ sig' = <<r, s>> /\ K' = Erased(K)
                  /\ UNCHANGED tries
    /\ UNCHANGED <<caller, keyIndex, message, fed, H>>

(* deriveAndSign feeds its message before it finishes, an empty one too: a *)
(* chunk of no bytes leaves everything as it is.                           *)
Signer ==
    \/ \E residue \in Scalars : SignInit(residue)
    \/ \E n \in 1 .. Len(message) : SignContinue(n)
    \/ \E r \in Scalars : SignFinish(r)

(* A stream is given up by an error or a reset in between.                 *)
GivenUp ==
    /\ caller = "stream" /\ pc = "hashing"
    /\ pc' = "idle"
    /\ UNCHANGED <<caller, keyIndex, message, fed, K, H, tries, digest, sig>>

Caller == \E who \in {"stream", "oneGo"}, i \in INDICES, m \in MESSAGES : Begin(who, i, m)

Next == Caller \/ Signer \/ GivenUp

(* In one go, nobody interrupts the loop; a stream waits for its host.     *)
Spec == Init /\ [][Next]_vars /\ WF_vars(caller = "oneGo" /\ Signer)

-----------------------------------------------------------------------------
(* The format of a compressed point, and the point behind it.              *)
Format(p) == <<IF 2 * p < N THEN 2 ELSE 3, IF 2 * p < N THEN p ELSE N - p>>
PointOf(pub) == CHOOSE p \in Scalars : Format(p) = pub

(* Zilliqa's verification, with a compressed public key for dG: the        *)
(* commitment that the signature implies is sG + r(dG), and hashes to r.   *)
Verifies(m, pub, r, s) ==
    LET h == Format((s + r * PointOf(pub)) % N) \o pub \o m
    IN  r # 0 /\ s # 0 /\ h \in DOMAIN digest /\ digest[h] = r

(* Every variable has its type: what is in the signature are scalars.      *)
TypeOK ==
    /\ pc \in {"idle", "init", "hashing", "returned", "thrown"}
    /\ caller \in {"stream", "oneGo"}
    /\ keyIndex \in 0 .. 2 * HARDENED - 1 /\ message \in Seq(0 .. 1) /\ fed \in 0 .. Len(message)
    /\ K \in Scalars /\ H \in Seq(Nat) /\ tries \in 0 .. CX_MAX_TRIES
    /\ sig \in Seq(Scalars) /\ Len(sig) <= 2

(* A complete signature verifies for the whole message under the public    *)
(* key that getPublicKey answers for the same index, whatever chunks the   *)
(* message came in, however many tries it took and whatever an earlier     *)
(* message left in T (zilliqa.c, 47-145, and schnorr.c).                   *)
SignatureVerifies ==
    Len(sig) = 2 => Verifies(message, deriveZilPubKey(keyIndex), sig[1], sig[2])

(* zil_ecschnorr_sign returns only with a complete signature, so that      *)
(* signHash has one to send; else it throws.                               *)
ReturnsSigned == caller = "oneGo" /\ pc = "returned" => Len(sig) = 2

(* A nonce makes one signature at most: it is gone once the signature is   *)
(* there, and each try hashes a commitment to the nonce it is going to use, *)
(* which is one of 1 to the order - 1 (schnorr.c, 80): the residue may be 0 *)
(* (88-92), and only the curve's error keeps such a nonce out of the hash. *)
NonceIsCommitted ==
    /\ pc = "hashing" => /\ K \in 1 .. N - 1 /\ Len(sig) < 2
                         /\ H = Committed(K, getKeySeed(keyIndex)) \o SubSeq(message, 1, fed)
    /\ Len(sig) = 2 => K = 0

(* Signing in one go comes to an end: the retries are bounded.             *)
SigningEnds ==
    LET signing == caller = "oneGo" /\ pc \in {"init", "hashing"}
    IN  signing ~> ~signing
=============================================================================
