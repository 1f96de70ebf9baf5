--------------------------- MODULE SchnorrProofs ---------------------------
(***************************************************************************)
(* Proofs about Schnorr, for every order of the group, derivation of keys, *)
(* message and number of tries.                                            *)
(***************************************************************************)
EXTENDS Schnorr, SequenceTheorems, Arithmetic

(* What the verifier adds is what the signer took off.                     *)
LEMMA SignedSum ==
    ASSUME NEW n \in Nat \ {0}, NEW k \in 0 .. n - 1, NEW x \in Int
    PROVE  (((k - (x % n)) % n) + x) % n = k
<1> DEFINE m == x % n
           q == x \div n
           s == (k - m) % n
           p == (k - m) \div n
<1>1. m \in Int /\ q \in Int /\ x = n * q + m
      BY DivMod
<1>2. p \in Int /\ s \in Int /\ k - m = n * p + s
  <2> HIDE DEF m
  <2>1. k - m \in Int
        BY <1>1
  <2>2. \A a \in Int : a \div n \in Int /\ a % n \in Int /\ a = n * (a \div n) + (a % n)
        BY DivMod
  <2> QED BY <2>1, <2>2
<1> HIDE DEF m, q, s, p
<1>3. s + x = n * (q - p) + k
  <2>1. n * q \in Int /\ n * p \in Int /\ n * (q - p) = n * q - n * p
        BY <1>1, <1>2
  <2>2. s + x = k + n * q - n * p
        BY <1>1, <1>2, <2>1
  <2> QED BY <1>1, <1>2, <2>1, <2>2
<1>4. (n * (q - p) + k) % n = k
  <2>1. q - p \in Int
        BY <1>1, <1>2
  <2>2. ASSUME NEW i \in Int PROVE (n * i + k) % n = k
        BY ModUnique, Zenon
  <2> QED BY <2>1, <2>2, Zenon
<1> QED BY <1>3, <1>4 DEF s, m

-----------------------------------------------------------------------------
(* Points: the signer and getPublicKey compress them alike and as the      *)
(* format has it, and a compressed point can be read back.                 *)
LEMMA PointFact ==
    ASSUME NEW p \in Scalars
    PROVE  /\ compressPubKey(Uncompressed(p)) = Format(p) /\ Compressed(p) = Format(p)
           /\ Format(p) \in Seq(Nat) /\ PointOf(Format(p)) = p
<1>0. N \in Nat /\ N > 2 /\ p \in 0 .. N - 1
      BY SchnorrAssumption DEF Scalars
<1>1. compressPubKey(Uncompressed(p)) = Format(p) /\ Compressed(p) = Format(p)
      BY <1>0 DEF compressPubKey, Uncompressed, Compressed, Format
<1>2. Format(p) \in Seq(Nat)
      BY <1>0 DEF Format
<1>3. ASSUME NEW q \in Scalars, Format(q) = Format(p) PROVE q = p
      BY <1>0, <1>3 DEF Format, Scalars
<1>4. PointOf(Format(p)) = p
      BY <1>3 DEF PointOf
<1> QED BY <1>1, <1>2, <1>4

(* A derived key is a scalar.                                              *)
LEMMA SeedFact == \A i \in 0 .. 2 * HARDENED - 1 : getKeySeed(i) \in Scalars
<1> SUFFICES ASSUME NEW i \in 0 .. 2 * HARDENED - 1 PROVE getKeySeed(i) \in Scalars
    OBVIOUS
<1>1. PathElement(i) \in HARDENED .. 2 * HARDENED - 1
      BY SchnorrAssumption DEF PathElement
<1> QED BY <1>1, SchnorrAssumption DEF getKeySeed

(* The bytes before the message.                                           *)
LEMMA CommittedFact ==
    ASSUME NEW k \in Scalars, NEW d \in Scalars
    PROVE  Committed(k, d) = Format(k) \o Format(d) /\ Committed(k, d) \in Seq(Nat)
BY PointFact, ConcatProperties DEF Committed

(* The key is derived anew in every call: the same for the same index.     *)
LEMMA CommittedAgain ==
    ASSUME keyIndex' = keyIndex
    PROVE  /\ getKeySeed(keyIndex)' = getKeySeed(keyIndex)
           /\ Committed(K, getKeySeed(keyIndex))' = Committed(K', getKeySeed(keyIndex))
BY DEF Committed, Compressed, Uncompressed, getKeySeed, PathElement

(* A residue without its last digits is a scalar still.                    *)
LEMMA NonceFact == \A residue \in Scalars : Nonce(residue) \in Scalars
<1> SUFFICES ASSUME NEW x \in Scalars PROVE Nonce(x) \in Scalars
    OBVIOUS
<1> DEFINE e == NONCE_EXTRA
           q == x \div e
           m == x % e
<1>1. N \in Nat /\ e \in Nat \ {0} /\ x \in 0 .. N - 1
      BY SchnorrAssumption DEF Scalars
<1>2. m \in 0 .. e - 1 /\ q \in Int /\ x = e * q + m
      BY <1>1, DivMod
<1> HIDE DEF e, q, m
<1>3. CASE q < 0
  <2>1. e * q <= 0 - e
        BY <1>1, <1>2, <1>3
  <2> QED BY <1>1, <1>2, <2>1
<1>4. CASE q >= 0
  <2>1. e * q >= q
        BY <1>1, <1>2, <1>4
  <2> QED BY <1>1, <1>2, <1>4, <2>1 DEF Nonce, Scalars, q, e
<1> QED BY <1>2, <1>3, <1>4

-----------------------------------------------------------------------------
(* What makes the safety properties inductive: tries are left before each, *)
(* and there is no complete signature before the last step.                *)
InTries == pc \in {"init", "hashing"} => tries < CX_MAX_TRIES /\ Len(sig) < 2

IInv == TypeOK /\ InTries /\ NonceIsCommitted /\ SignatureVerifies /\ ReturnsSigned

(* Nothing is signed at first.                                             *)
LEMMA InitIInv == Init => IInv
<1> SUFFICES ASSUME Init PROVE IInv
    OBVIOUS
<1>1. TypeOK
      BY SchnorrAssumption DEF Init, TypeOK, Scalars
<1>2. InTries /\ NonceIsCommitted /\ SignatureVerifies /\ ReturnsSigned
      BY DEF Init, InTries, NonceIsCommitted, SignatureVerifies, ReturnsSigned
<1> QED BY <1>1, <1>2 DEF IInv

(* A new message: no signature, and all tries left.                        *)
LEMMA BeginIInv ==
    ASSUME IInv, NEW who \in {"stream", "oneGo"}, NEW i \in INDICES, NEW m \in MESSAGES,
           Begin(who, i, m)
    PROVE  IInv'
<1>1. TypeOK'
      BY SchnorrAssumption DEF IInv, TypeOK, Begin
<1>2. InTries' /\ NonceIsCommitted' /\ SignatureVerifies' /\ ReturnsSigned'
      BY SchnorrAssumption DEF Begin, InTries, NonceIsCommitted, SignatureVerifies, ReturnsSigned
<1> QED BY <1>1, <1>2 DEF IInv

(* The commitment to the nonce just drawn is hashed.                       *)
LEMMA SignInitIInv ==
    ASSUME IInv, NEW residue \in Scalars, SignInit(residue)
    PROVE  IInv'
<1>1. K' \in Scalars /\ getKeySeed(keyIndex) \in Scalars
      BY NonceFact, SeedFact DEF SignInit, IInv, TypeOK
<1>2. /\ pc = "init" /\ pc' \in {"thrown", "hashing"} /\ fed' = 0
      /\ UNCHANGED <<caller, keyIndex, message, tries, digest, sig>>
      BY DEF SignInit
<1>3. pc' = "hashing" => H' = Committed(K', getKeySeed(keyIndex))
      BY DEF SignInit
<1>4. H' \in Seq(Nat)
      BY <1>1, CommittedFact DEF SignInit, IInv, TypeOK
<1>5. TypeOK'
      BY <1>1, <1>2, <1>4 DEF IInv, TypeOK
<1>6. InTries' /\ Len(sig') < 2
      BY <1>2 DEF IInv, InTries
<1>7. NonceIsCommitted'
  <2>1. SubSeq(message, 1, 0) = <<>>
        BY SubSeqEmpty
  <2>2. Committed(K', getKeySeed(keyIndex)) \o <<>> = Committed(K', getKeySeed(keyIndex))
        BY <1>1, CommittedFact, ConcatEmptySeq
  <2>3. Committed(K, getKeySeed(keyIndex))' = Committed(K', getKeySeed(keyIndex))
        BY <1>2, CommittedAgain
  <2>4. message' = message /\ fed' = 0
        BY <1>2
  <2>5. SubSeq(message, 1, fed)' = <<>>
        BY <2>1, <2>4
  <2>6. pc' = "hashing" => H' = Committed(K, getKeySeed(keyIndex))' \o SubSeq(message, 1, fed)'
        BY <1>3, <2>2, <2>3, <2>5, Zenon
  <2>7. pc' = "hashing" => K' \in 1 .. N - 1
        BY <1>1, SchnorrAssumption DEF SignInit, Scalars
  <2>8. Len(sig') < 2 /\ ~(Len(sig') = 2)
    <3>1. Len(sig') \in Nat
          BY <1>5, LenProperties DEF TypeOK
    <3> QED BY <1>6, <3>1
  <2> QED BY <2>6, <2>7, <2>8, Zenon DEF NonceIsCommitted
<1>8. SignatureVerifies' /\ ReturnsSigned'
      BY <1>2, <1>6 DEF IInv, TypeOK, SignatureVerifies, ReturnsSigned
<1> QED BY <1>5, <1>6, <1>7, <1>8 DEF IInv

(* Three pieces of hashed input, however they are joined.                  *)
LEMMA AssociativeFact ==
    \A s, t, u \in Seq(Nat) : (s \o t) \o u = s \o (t \o u)
<1> TAKE s, t, u \in Seq(Nat)
<1> QED BY ConcatAssociative, SMTT(60)

(* What is hashed goes on with the message.                                *)
LEMMA SignContinueIInv ==
    ASSUME IInv, NEW n \in 1 .. Len(message), SignContinue(n)
    PROVE  IInv'
<1>1. /\ pc = "hashing" /\ message \in Seq(0 .. 1) /\ fed \in 0 .. Len(message)
      /\ H \in Seq(Nat) /\ K \in Scalars /\ getKeySeed(keyIndex) \in Scalars
      /\ H = Committed(K, getKeySeed(keyIndex)) \o SubSeq(message, 1, fed)
      /\ fed' = fed + n /\ fed' \in fed .. Len(message)
      /\ H' = H \o SubSeq(message, fed + 1, fed')
      /\ UNCHANGED <<pc, caller, keyIndex, message, K, tries, digest, sig>>
  <2>1. /\ pc = "hashing" /\ fed' = fed + n /\ H' = H \o SubSeq(message, fed + 1, fed + n)
        /\ UNCHANGED <<pc, caller, keyIndex, message, K, tries, digest, sig>>
        /\ fed + n <= Len(message)
        BY DEF SignContinue
  <2>2. /\ message \in Seq(0 .. 1) /\ fed \in 0 .. Len(message) /\ H \in Seq(Nat)
        /\ K \in Scalars
        BY <2>1 DEF IInv, TypeOK
  <2>3. getKeySeed(keyIndex) \in Scalars
        BY SeedFact DEF IInv, TypeOK
  <2>4. H = Committed(K, getKeySeed(keyIndex)) \o SubSeq(message, 1, fed)
        BY <2>1 DEF IInv, NonceIsCommitted
  <2>5. fed' \in fed .. Len(message)
        BY <2>1, <2>2
  <2> QED BY <2>1, <2>2, <2>3, <2>4, <2>5, Zenon
<1>2. /\ SubSeq(message, 1, fed) \in Seq(Nat)
      /\ SubSeq(message, fed + 1, fed') \in Seq(Nat)
  <2>1. \A j \in 1 .. Len(message) : message[j] \in Nat
        BY <1>1
  <2>2. \A j \in 1 .. fed : message[j] \in Nat
        BY <1>1, <2>1
  <2>3. \A j \in fed + 1 .. fed' : message[j] \in Nat
        BY <1>1, <2>1
  <2>4. 1 \in Int /\ fed \in Int /\ fed + 1 \in Int /\ fed' \in Int
        BY <1>1
  <2>5. ASSUME NEW i \in Int, NEW j \in Int, \A l \in i .. j : message[l] \in Nat
        PROVE  SubSeq(message, i, j) \in Seq(Nat)
        BY <2>5, SubSeqProperties, Zenon
  <2> QED BY <2>2, <2>3, <2>4, <2>5, Zenon
<1>3. SubSeq(message, 1, fed) \o SubSeq(message, fed + 1, fed') = SubSeq(message, 1, fed')
      BY <1>1, ConcatAdjacentSubSeq
<1>4. H' = Committed(K, getKeySeed(keyIndex)) \o SubSeq(message, 1, fed')
  <2> DEFINE c == Committed(K, getKeySeed(keyIndex))
             a == SubSeq(message, 1, fed)
             b == SubSeq(message, fed + 1, fed')
  <2>1. c \in Seq(Nat) /\ a \in Seq(Nat) /\ b \in Seq(Nat)
    <3>1. c \in Seq(Nat)
          BY <1>1, CommittedFact
    <3> QED BY <3>1, <1>2
  <2>2. H' = (c \o a) \o b
        BY <1>1, Zenon
  <2>3. a \o b = SubSeq(message, 1, fed')
        BY <1>3
  <2> HIDE DEF a, b, c
  <2>4. (c \o a) \o b = c \o (a \o b)
        BY <2>1, AssociativeFact, Zenon
  <2> QED BY <2>2, <2>3, <2>4, Zenon DEF c
<1>5. H' \in Seq(Nat)
      BY <1>1, <1>2, ConcatProperties
<1>6. TypeOK'
      BY <1>1, <1>5 DEF IInv, TypeOK
<1>7. InTries' /\ NonceIsCommitted' /\ SignatureVerifies' /\ ReturnsSigned'
  <2>1. Committed(K, getKeySeed(keyIndex))' = Committed(K, getKeySeed(keyIndex))
        BY <1>1, CommittedAgain
  <2>2. message' = message /\ pc' = pc /\ caller' = caller /\ tries' = tries /\ sig' = sig
        BY <1>1
  <2>3. H' = Committed(K, getKeySeed(keyIndex))' \o SubSeq(message, 1, fed)'
        BY <1>4, <2>1, <2>2, Zenon
  <2>4. Len(sig) < 2 /\ tries < CX_MAX_TRIES
        BY <1>1 DEF IInv, InTries
  <2>5. NonceIsCommitted' /\ InTries'
        BY <1>1, <2>2, <2>3, <2>4 DEF IInv, TypeOK, NonceIsCommitted, InTries
  <2> QED BY <1>1, <2>2, <2>4, <2>5 DEF IInv, TypeOK, SignatureVerifies, ReturnsSigned
<1> QED BY <1>6, <1>7 DEF IInv

(* A complete signature: what the verifier hashes is what was hashed.      *)
LEMMA SignedIsVerified ==
    ASSUME IInv, NEW r \in Scalars, SignFinish(r), Len(sig') = 2
    PROVE  SignatureVerifies'
<1> DEFINE d == getKeySeed(keyIndex)
           s == SubM(K, MultM(r, d))
<1>1. /\ pc = "hashing" /\ fed = Len(message) /\ message \in Seq(0 .. 1)
      /\ K \in Scalars /\ d \in Scalars /\ H \in Seq(Nat) /\ Len(sig) < 2
      /\ H = Committed(K, d) \o SubSeq(message, 1, fed)
      BY SeedFact DEF SignFinish, IInv, TypeOK, InTries, NonceIsCommitted
<1>2. digest' = [h \in DOMAIN digest \cup {H} |-> IF h = H THEN r ELSE digest[h]]
      BY DEF SignFinish
<1>3. H \in DOMAIN digest' /\ digest'[H] = r
      BY <1>2
<1>4. /\ ~Degenerate(r, s) /\ sig' = <<r, s>>
      /\ UNCHANGED <<caller, keyIndex, message, fed, H>>
  <2>1. CASE Degenerate(r, s)
    <3>1. sig' = sig \/ sig' = <<MultM(r, d)>>
          BY <2>1 DEF SignFinish
    <3>2. Len(sig') < 2
      <4>1. CASE sig' = sig
            BY <1>1, <4>1
      <4>2. ASSUME NEW x, sig' = <<x>> PROVE Len(sig') < 2
            BY <4>2
      <4> QED BY <3>1, <4>1, <4>2
    <3> QED BY <3>2
  <2>2. CASE ~Degenerate(r, s)
        BY <2>2 DEF SignFinish
  <2> QED BY <2>1, <2>2
<1>5. deriveZilPubKey(keyIndex)' = Format(d) /\ PointOf(Format(d)) = d
  <2>1. deriveZilPubKey(keyIndex)' = deriveZilPubKey(keyIndex)
        BY <1>4 DEF deriveZilPubKey, compressPubKey, Uncompressed, getKeySeed, PathElement
  <2> QED BY <1>1, <2>1, PointFact DEF deriveZilPubKey
<1>6. (s + r * d) % N = K
  <2>1. N \in Nat \ {0} /\ K \in 0 .. N - 1 /\ r \in Int /\ d \in Int
        BY <1>1, SchnorrAssumption DEF Scalars
  <2> HIDE DEF d
  <2>2. r * d \in Int
        BY <2>1
  <2>3. \A x \in Int : (((K - (x % N)) % N) + x) % N = K
        BY <2>1, SignedSum
  <2>4. (((K - ((r * d) % N)) % N) + (r * d)) % N = K
        BY <2>2, <2>3, Zenon
  <2> QED BY <2>4, Zenon DEF SubM, MultM
<1>7. Format(K) \o Format(d) \o message = H
  <2>1. SubSeq(message, 1, fed) = message
        BY <1>1, SubSeqFull
  <2>2. Committed(K, d) = Format(K) \o Format(d)
        BY <1>1, CommittedFact
  <2> QED BY <1>1, <2>1, <2>2, Zenon
<1>8. PICK t : t = s
      OBVIOUS
<1>9. Verifies(message, deriveZilPubKey(keyIndex), r, t)'
  <2>1. r # 0 /\ t # 0
        BY <1>4, <1>8 DEF Degenerate
  <2>2. Format((t + r * d) % N) \o Format(d) \o message = H
        BY <1>6, <1>7, <1>8, Zenon
  <2> HIDE DEF d
  <2> QED BY <1>3, <1>4, <1>5, <2>1, <2>2 DEF Verifies
<1>10. sig[1]' = r /\ sig[2]' = t
  <2> HIDE DEF s
  <2> QED BY <1>4, <1>8
<1> QED BY <1>9, <1>10 DEF SignatureVerifies

(* The last step leaves a signature that verifies, another try or an error. *)
LEMMA SignFinishIInv ==
    ASSUME IInv, NEW r \in Scalars, SignFinish(r)
    PROVE  IInv'
<1> DEFINE d == getKeySeed(keyIndex)
           s == SubM(K, MultM(r, d))
<1>1. /\ pc = "hashing" /\ TypeOK /\ Len(sig) < 2 /\ tries < CX_MAX_TRIES
      /\ d \in Scalars /\ CX_MAX_TRIES \in Nat \ {0}
      /\ UNCHANGED <<caller, keyIndex, message, fed, H>>
      BY SeedFact, SchnorrAssumption DEF SignFinish, IInv, TypeOK, InTries
<1>2. s \in Scalars /\ MultM(r, d) \in Scalars
  <2>1. N \in Nat \ {0} /\ K \in Int /\ r \in Int /\ d \in Int
        BY <1>1, SchnorrAssumption DEF Scalars, TypeOK
  <2>2. \A x \in Int : x % N \in 0 .. N - 1
        BY <2>1
  <2> HIDE DEF d
  <2>3. r * d \in Int
        BY <2>1
  <2>4. MultM(r, d) \in 0 .. N - 1
        BY <2>2, <2>3 DEF MultM
  <2>5. K - MultM(r, d) \in Int
        BY <2>1, <2>4
  <2> QED BY <2>2, <2>4, <2>5 DEF SubM, Scalars
<1>3. CASE Degenerate(r, s)
  <2>1. /\ TryFails /\ K' = K
        /\ sig' = IF r = 0 THEN sig ELSE <<MultM(r, d)>>
        BY <1>3 DEF SignFinish
  <2>2. sig' \in Seq(Scalars) /\ Len(sig') < 2
        BY <1>1, <1>2, <2>1 DEF TypeOK
  <2>3. /\ pc' \in {"init", "returned", "thrown"} /\ tries' \in 0 .. CX_MAX_TRIES
        /\ pc' = "init" => tries' < CX_MAX_TRIES
        /\ pc' = "returned" => caller # "oneGo"
        BY <1>1, <2>1 DEF TryFails, NextTry, OutOfTries, TypeOK
  <2>4. TypeOK'
        BY <1>1, <2>1, <2>2, <2>3 DEF TypeOK
  <2> QED BY <1>1, <2>2, <2>3, <2>4
          DEF IInv, InTries, NonceIsCommitted, SignatureVerifies, ReturnsSigned
<1>4. CASE ~Degenerate(r, s)
  <2>1. pc' = "returned" /\ sig' = <<r, s>> /\ K' = 0 /\ tries' = tries
        BY <1>4 DEF SignFinish, Erased
  <2>2. sig' \in Seq(Scalars) /\ Len(sig') = 2
        BY <1>2, <2>1
  <2>3. TypeOK'
        BY <1>1, <2>1, <2>2, SchnorrAssumption DEF TypeOK, Scalars
  <2>4. SignatureVerifies'
        BY <2>2, SignedIsVerified
  <2> QED BY <2>1, <2>2, <2>3, <2>4 DEF IInv, InTries, NonceIsCommitted, ReturnsSigned
<1> QED BY <1>3, <1>4

(* Every step keeps the invariant.                                         *)
LEMMA NextIInv == IInv /\ [Next]_vars => IInv'
<1> SUFFICES ASSUME IInv, [Next]_vars PROVE IInv'
    OBVIOUS
<1>1. CASE GivenUp
  <2>1. /\ pc = "hashing" /\ pc' = "idle"
        /\ UNCHANGED <<caller, keyIndex, message, fed, K, H, tries, digest, sig>>
        BY <1>1 DEF GivenUp
  <2>2. Len(sig) < 2
        BY <2>1 DEF IInv, InTries
  <2> QED BY <2>1, <2>2
          DEF IInv, TypeOK, InTries, NonceIsCommitted, SignatureVerifies, ReturnsSigned
<1>2. CASE UNCHANGED vars
  <2>1. SignatureVerifies'
    <3>1. deriveZilPubKey(keyIndex)' = deriveZilPubKey(keyIndex)
          BY <1>2 DEF vars, deriveZilPubKey, compressPubKey, Uncompressed, getKeySeed, PathElement
    <3> QED BY <1>2, <3>1 DEF vars, IInv, SignatureVerifies, Verifies
  <2>2. NonceIsCommitted'
        BY <1>2, CommittedAgain DEF vars, IInv, NonceIsCommitted
  <2> QED BY <1>2, <2>1, <2>2 DEF vars, IInv, TypeOK, InTries, ReturnsSigned
<1> QED BY <1>1, <1>2, BeginIInv, SignInitIInv, SignContinueIInv, SignFinishIInv
        DEF Next, Caller, Signer

(* The invariant holds always.                                             *)
THEOREM Invariant == Spec => []IInv
BY InitIInv, NextIInv, PTL DEF Spec

(* A complete signature verifies under the public key that getPublicKey    *)
(* answers for the index, whatever the group and the number of tries.      *)
THEOREM SignatureSound == Spec => []SignatureVerifies
BY Invariant, PTL DEF IInv

(* zil_ecschnorr_sign returns with a complete signature or throws.         *)
THEOREM NeverUnsigned == Spec => []ReturnsSigned
BY Invariant, PTL DEF IInv

(* A nonce that was signed with is gone.                                   *)
THEOREM NonceOnce == Spec => []NonceIsCommitted
BY Invariant, PTL DEF IInv

(* Every variable has its type.                                            *)
THEOREM TypeCorrect == Spec => []TypeOK
BY Invariant, PTL DEF IInv
=============================================================================
