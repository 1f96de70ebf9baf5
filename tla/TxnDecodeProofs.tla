--------------------------- MODULE TxnDecodeProofs ---------------------------
(***************************************************************************)
(* Proofs about TxnDecode, for every size of values, strings and           *)
(* transactions and every set of tags.                                     *)
(***************************************************************************)
EXTENDS TxnDecode, SequenceTheorems, Arithmetic

-----------------------------------------------------------------------------
(* The tables                                                              *)

(* The members of the two messages.                                        *)
LEMMA MembersFact ==
    /\ Len(TxnMembers) = 9 /\ Len(ByteArrayMembers) = 1
    /\ TxnMembers[1] = Uint(1, 4) /\ TxnMembers[2] = Uint(2, 8) /\ TxnMembers[3] = Bytes(3)
    /\ TxnMembers[4] = ByteArray(4) /\ TxnMembers[5] = ByteArray(5)
    /\ TxnMembers[6] = ByteArray(6) /\ TxnMembers[7] = Uint(7, 8)
    /\ TxnMembers[8] = Bytes(8) /\ TxnMembers[9] = Bytes(9)
    /\ ByteArrayMembers[1] = Bytes(1)
BY DEF TxnMembers, ByteArrayMembers

(* Their tags and kinds.                                                   *)
LEMMA KindsFact ==
    /\ \A k \in 1 .. 9 : /\ TxnMembers[k].tag = k
                         /\ TxnMembers[k].size \in Nat /\ TxnMembers[k].align \in {4, 8}
    /\ \A k \in {1, 2, 7} : TxnMembers[k].ltype = "uvarint" /\ TxnMembers[k].atype = "static"
    /\ \A k \in {3, 8, 9} : TxnMembers[k].ltype = "bytes" /\ TxnMembers[k].atype = "callback"
    /\ \A k \in {4, 5, 6} : TxnMembers[k].ltype = "submessage" /\ TxnMembers[k].atype = "static"
<1>1. \A k \in 1 .. 9 : k \in {1, 2, 3, 4, 5, 6, 7, 8, 9}
      OBVIOUS
<1> QED BY <1>1, MembersFact DEF Uint, Bytes, ByteArray

(* Where each member ends, one after the other.                            *)
OneAfterAnother(E, M) ==
    E = [k \in 0 .. Len(M) |-> IF k = 0 THEN 0 ELSE StartAfter(E[k - 1], M[k]) + M[k].size]

LEMMA EndsFact ==
    ASSUME NEW M, Len(M) \in Nat,
           \A k \in 1 .. Len(M) : M[k].size \in Nat /\ M[k].align \in {4, 8}
    PROVE  OneAfterAnother(MemberEnds(M), M)
<1> DEFINE next(k, n) == StartAfter(n, M[k]) + M[k].size
           m == Len(M)
           g == [k \in 1 .. m |-> [n \in Nat |-> next(k, n)]]
<1>1. ASSUME NEW k \in 1 .. m, NEW n \in Nat
      PROVE  next(k, n) \in Nat
  <2>1. M[k].size \in Nat /\ HasSize(M[k]) \in {0, 1} /\ M[k].align \in {4, 8}
        BY DEF HasSize
  <2>2. CASE M[k].align = 4
        BY SMTT(30), <2>1, <2>2 DEF StartAfter, AlignUp
  <2>3. CASE M[k].align = 8
        BY SMTT(30), <2>1, <2>3 DEF StartAfter, AlignUp
  <2> QED BY <2>1, <2>2, <2>3
<1>2. \E f : f = [k \in 0 .. m |-> IF k = 0 THEN 0 ELSE next(k, f[k - 1])]
  <2> HIDE DEF next, m
  <2>1. g \in [1 .. m -> [Nat -> Nat]] /\ 0 \in Nat /\ m \in Nat
        BY <1>1 DEF m
  <2>2. PICK f : Recursive(f, Nat, 0, m, g)
    <3> HIDE DEF g
    <3> QED BY <2>1, RecursiveFunction
  <2>3. /\ f = [k \in 0 .. m |-> f[k]] /\ f[0] = 0
        /\ \A k \in 1 .. m : f[k] = g[k][f[k - 1]] /\ f[k - 1] \in Nat
    <3> HIDE DEF g
    <3> QED BY <2>2 DEF Recursive
  <2>4. \A k \in 1 .. m : f[k] = next(k, f[k - 1])
        BY <2>3
  <2>5. [k \in 0 .. m |-> f[k]] = [k \in 0 .. m |-> IF k = 0 THEN 0 ELSE next(k, f[k - 1])]
    <3> HIDE DEF g
    <3>1. ASSUME NEW k \in 0 .. m
          PROVE  f[k] = IF k = 0 THEN 0 ELSE next(k, f[k - 1])
      <4>1. k = 0 \/ k \in 1 .. m
            BY <2>1
      <4> QED BY <4>1, <2>3, <2>4
    <3> QED BY <3>1
  <2> QED BY <2>3, <2>5
<1>3. MemberEnds(M) = CHOOSE f : f = [k \in 0 .. m |-> IF k = 0 THEN 0 ELSE next(k, f[k - 1])]
      BY DEF MemberEnds
<1> DEFINE Q(f) == f = [k \in 0 .. m |-> IF k = 0 THEN 0 ELSE next(k, f[k - 1])]
<1>4. Q(CHOOSE f : Q(f))
  <2>1. \E f : Q(f)
        BY <1>2
  <2> HIDE DEF Q
  <2> QED BY <2>1
<1> QED BY <1>3, <1>4 DEF OneAfterAnother

(* The places of the members, computed as the compiler does.               *)
LEMMA OffsetsFact ==
    /\ \A k \in 1 .. 9 : TxnOffsets[k].has \in Nat
    /\ TxnOffsets[1].start = 4  /\ TxnOffsets[2].start = 16 /\ TxnOffsets[3].start = 24
    /\ TxnOffsets[4].start = 36 /\ TxnOffsets[5].start = 48 /\ TxnOffsets[6].start = 60
    /\ TxnOffsets[7].start = 72 /\ TxnOffsets[8].start = 80 /\ TxnOffsets[9].start = 88
    /\ ByteArrayOffsets[1] = [has |-> 0, start |-> 0]
<1> DEFINE E == MemberEnds(TxnMembers)
<1>1. E = [k \in 0 .. 9 |-> IF k = 0 THEN 0 ELSE StartAfter(E[k - 1], TxnMembers[k]) + TxnMembers[k].size]
  <2>1. Len(TxnMembers) = 9 /\ Len(TxnMembers) \in Nat
        BY MembersFact
  <2>2. \A k \in 1 .. Len(TxnMembers) : TxnMembers[k].size \in Nat /\ TxnMembers[k].align \in {4, 8}
        BY <2>1, KindsFact
  <2>3. OneAfterAnother(E, TxnMembers)
        BY <2>1, <2>2, EndsFact, Zenon
  <2>4. E = [k \in 0 .. Len(TxnMembers) |->
                IF k = 0 THEN 0 ELSE StartAfter(E[k - 1], TxnMembers[k]) + TxnMembers[k].size]
    <3> HIDE DEF E
    <3> QED BY <2>3 DEF OneAfterAnother
  <2> HIDE DEF E
  <2> QED BY <2>1, <2>4
<1> HIDE DEF E
<1>2. E[0] = 0 /\ \A k \in 1 .. 9 : E[k] = StartAfter(E[k - 1], TxnMembers[k]) + TxnMembers[k].size
      BY <1>1
<1>3. StartAfter(E[0], TxnMembers[1]) = 4 /\ E[1] = 8
      BY <1>2, MembersFact
         DEF StartAfter, AlignUp, HasSize, Uint, Bytes, ByteArray
<1>4. StartAfter(E[1], TxnMembers[2]) = 16 /\ E[2] = 24
      BY <1>2, <1>3, MembersFact
         DEF StartAfter, AlignUp, HasSize, Uint, Bytes, ByteArray
<1>5. StartAfter(E[2], TxnMembers[3]) = 24 /\ E[3] = 32
      BY <1>2, <1>4, MembersFact
         DEF StartAfter, AlignUp, HasSize, Uint, Bytes, ByteArray
<1>6. StartAfter(E[3], TxnMembers[4]) = 36 /\ E[4] = 44
      BY <1>2, <1>5, MembersFact
         DEF StartAfter, AlignUp, HasSize, Uint, Bytes, ByteArray
<1>7. StartAfter(E[4], TxnMembers[5]) = 48 /\ E[5] = 56
      BY <1>2, <1>6, MembersFact
         DEF StartAfter, AlignUp, HasSize, Uint, Bytes, ByteArray
<1>8. StartAfter(E[5], TxnMembers[6]) = 60 /\ E[6] = 68
      BY <1>2, <1>7, MembersFact
         DEF StartAfter, AlignUp, HasSize, Uint, Bytes, ByteArray
<1>9. StartAfter(E[6], TxnMembers[7]) = 72 /\ E[7] = 80
      BY <1>2, <1>8, MembersFact
         DEF StartAfter, AlignUp, HasSize, Uint, Bytes, ByteArray
<1>10. StartAfter(E[7], TxnMembers[8]) = 80 /\ E[8] = 88
      BY <1>2, <1>9, MembersFact
         DEF StartAfter, AlignUp, HasSize, Uint, Bytes, ByteArray
<1>11. StartAfter(E[8], TxnMembers[9]) = 88 /\ E[9] = 96
      BY <1>2, <1>10, MembersFact
         DEF StartAfter, AlignUp, HasSize, Uint, Bytes, ByteArray
<1>12. TxnOffsets = [k \in 1 .. 9 |-> [has |-> E[k - 1], start |-> StartAfter(E[k - 1], TxnMembers[k])]]
      BY MembersFact DEF TxnOffsets, Offsets, E
<1>13. ByteArrayOffsets[1] = [has |-> 0, start |-> 0]
  <2> DEFINE F == MemberEnds(ByteArrayMembers)
  <2>1. F = [k \in 0 .. 1 |-> IF k = 0 THEN 0
                              ELSE StartAfter(F[k - 1], ByteArrayMembers[k]) + ByteArrayMembers[k].size]
    <3>1. Len(ByteArrayMembers) = 1
          BY MembersFact
    <3>2. \A k \in 1 .. Len(ByteArrayMembers) :
              ByteArrayMembers[k].size \in Nat /\ ByteArrayMembers[k].align \in {4, 8}
          BY MembersFact DEF Bytes
    <3>3. OneAfterAnother(F, ByteArrayMembers)
          BY <3>1, <3>2, EndsFact
    <3> HIDE DEF F
    <3> QED BY <3>1, <3>3 DEF OneAfterAnother
  <2> HIDE DEF F
  <2>2. StartAfter(F[0], ByteArrayMembers[1]) = 0
        BY <2>1, MembersFact DEF Bytes, StartAfter, AlignUp, HasSize
  <2> QED BY <2>1, <2>2, MembersFact DEF ByteArrayOffsets, Offsets, F
<1>14. \A k \in 0 .. 8 : E[k] \in Nat
  <2>1. \A k \in 0 .. 8 : k \in {0, 1, 2, 3, 4, 5, 6, 7, 8}
        OBVIOUS
  <2> QED BY <2>1, <1>2, <1>3, <1>4, <1>5, <1>6, <1>7, <1>8, <1>9, <1>10
<1> QED BY <1>3, <1>4, <1>5, <1>6, <1>7, <1>8, <1>9, <1>10, <1>11, <1>12, <1>13, <1>14

-----------------------------------------------------------------------------
(* The iterators                                                           *)

Txn == ProtoTransactionCoreInfo_fields

(* The iterator that is at field k.                                        *)
IterAt(k) == [pos |-> k, pData |-> TxnOffsets[k].start,
              pSize |-> TxnOffsets[k].start + Txn[k].sizeOffset]

TxnIters == { IterAt(k) : k \in 1 .. 9 }

(* The only one of a ByteArray.                                            *)
Inner == [pos |-> 1, pData |-> 0, pSize |-> 0]

(* From one field to the next the distances add up to the offsets.         *)
LEMMA FieldsFact ==
    /\ Len(Txn) = 9 /\ Len(ByteArray_fields) = 1
    /\ \A k \in 1 .. 9 :
          /\ Txn[k].tag = k /\ Txn[k].ltype = TxnMembers[k].ltype
          /\ Txn[k].atype = TxnMembers[k].atype
          /\ TxnOffsets[k].start \in Nat /\ Txn[k].sizeOffset \in Int
          /\ Txn[k].dataSize \in Int /\ Txn[k].dataOffset \in Int
          /\ HasSize(TxnMembers[k]) = 1 =>
                TxnOffsets[k].start + Txn[k].sizeOffset = TxnOffsets[k].has
          /\ k < 9 => TxnOffsets[k].start + Txn[k].dataSize + Txn[k + 1].dataOffset
                         = TxnOffsets[k + 1].start
    /\ Txn[1].dataOffset = TxnOffsets[1].start
    /\ ByteArray_fields[1] = [tag |-> 1, ltype |-> "bytes", atype |-> "callback",
                               dataSize |-> 8, dataOffset |-> 0, sizeOffset |-> 0]
<1>1. Txn = [k \in 1 .. 9 |->
               [tag |-> TxnMembers[k].tag, ltype |-> TxnMembers[k].ltype,
                atype |-> TxnMembers[k].atype, dataSize |-> TxnMembers[k].size,
                dataOffset |-> TxnOffsets[k].start -
                  (IF k = 1 THEN 0 ELSE TxnOffsets[k - 1].start + TxnMembers[k - 1].size),
                sizeOffset |-> IF HasSize(TxnMembers[k]) = 1
                               THEN TxnOffsets[k].has - TxnOffsets[k].start ELSE 0]]
      BY MembersFact DEF Txn, ProtoTransactionCoreInfo_fields, Fields
<1>2. Len(Txn) = 9
      BY <1>1
<1>3. ByteArray_fields = [k \in 1 .. 1 |->
               [tag |-> ByteArrayMembers[k].tag, ltype |-> ByteArrayMembers[k].ltype,
                atype |-> ByteArrayMembers[k].atype, dataSize |-> ByteArrayMembers[k].size,
                dataOffset |-> ByteArrayOffsets[k].start -
                  (IF k = 1 THEN 0 ELSE ByteArrayOffsets[k - 1].start + ByteArrayMembers[k - 1].size),
                sizeOffset |-> IF HasSize(ByteArrayMembers[k]) = 1
                               THEN ByteArrayOffsets[k].has - ByteArrayOffsets[k].start ELSE 0]]
      BY MembersFact DEF ByteArray_fields, Fields
<1>4. Len(ByteArray_fields) = 1
      BY <1>3
<1>5. ByteArray_fields[1] = [tag |-> 1, ltype |-> "bytes", atype |-> "callback",
                             dataSize |-> 8, dataOffset |-> 0, sizeOffset |-> 0]
      BY <1>3, MembersFact, OffsetsFact DEF Bytes, HasSize
<1>6. \A k \in 1 .. 9 : TxnOffsets[k].start \in Nat
  <2>1. \A k \in 1 .. 9 : k \in {1, 2, 3, 4, 5, 6, 7, 8, 9}
        OBVIOUS
  <2> QED BY <2>1, OffsetsFact
<1>7. ASSUME NEW k \in 1 .. 9
      PROVE  /\ Txn[k].tag = k /\ Txn[k].ltype = TxnMembers[k].ltype
             /\ Txn[k].atype = TxnMembers[k].atype
             /\ TxnOffsets[k].start \in Nat /\ Txn[k].sizeOffset \in Int
             /\ Txn[k].dataSize \in Int /\ Txn[k].dataOffset \in Int
             /\ HasSize(TxnMembers[k]) = 1 =>
                   TxnOffsets[k].start + Txn[k].sizeOffset = TxnOffsets[k].has
             /\ k < 9 => TxnOffsets[k].start + Txn[k].dataSize + Txn[k + 1].dataOffset
                            = TxnOffsets[k + 1].start
  <2>1. /\ TxnMembers[k].size \in Nat /\ TxnOffsets[k].has \in Nat /\ TxnMembers[k].tag = k
        /\ k # 1 => TxnOffsets[k - 1].start \in Nat /\ TxnMembers[k - 1].size \in Nat
        BY <1>6, KindsFact, OffsetsFact
  <2>2. /\ Txn[k].tag = k /\ Txn[k].ltype = TxnMembers[k].ltype
        /\ Txn[k].atype = TxnMembers[k].atype /\ Txn[k].dataSize = TxnMembers[k].size
        /\ Txn[k].dataOffset = TxnOffsets[k].start -
              (IF k = 1 THEN 0 ELSE TxnOffsets[k - 1].start + TxnMembers[k - 1].size)
        /\ Txn[k].sizeOffset = IF HasSize(TxnMembers[k]) = 1
                               THEN TxnOffsets[k].has - TxnOffsets[k].start ELSE 0
        BY <1>1, <2>1
  <2>3. k < 9 => /\ TxnOffsets[k + 1].start \in Nat
                 /\ Txn[k + 1].dataOffset = TxnOffsets[k + 1].start -
                       (TxnOffsets[k].start + TxnMembers[k].size)
        BY <1>1, <1>6
  <2> QED BY <1>6, <2>1, <2>2, <2>3
<1>8. Txn[1].dataOffset = TxnOffsets[1].start
      BY <1>1, <1>6
<1> QED BY <1>2, <1>4, <1>5, <1>7, <1>8

LEMMA IterFact ==
    /\ IterBegin(Txn) \in TxnIters
    /\ \A it \in TxnIters : IterNext(Txn, it) \in TxnIters
    /\ IterBegin(ByteArray_fields) = Inner
    /\ IterNext(ByteArray_fields, Inner) = Inner
<1>1. IterBegin(Txn) = IterAt(1)
      BY FieldsFact DEF IterBegin, IterAt
<1>2. ASSUME NEW k \in 1 .. 9
      PROVE  IterNext(Txn, IterAt(k)) \in TxnIters
  <2>1. CASE k = 9
        BY <1>1, <2>1, FieldsFact DEF IterNext, IterAt, TxnIters
  <2>2. CASE k < 9
    <3>1. IterNext(Txn, IterAt(k)) = IterAt(k + 1)
          BY <2>2, FieldsFact DEF IterNext, IterAt
    <3> QED BY <2>2, <3>1 DEF TxnIters
  <2> QED BY <2>1, <2>2
<1>3. IterBegin(ByteArray_fields) = Inner /\ IterNext(ByteArray_fields, Inner) = Inner
      BY FieldsFact DEF IterBegin, IterNext, Inner
<1> QED BY <1>1, <1>2, <1>3 DEF TxnIters

(* Where the search for a tag ends is where some steps lead to.            *)
LEMMA FindFact ==
    ASSUME NEW fields, Len(fields) \in Nat, NEW S, NEW it \in S, NEW tag,
           \A i \in S : IterNext(fields, i) \in S
    PROVE  IterFind(fields, it, tag) \in S
<1> DEFINE m == Len(fields)
           step(i) == IF fields[i.pos].tag = tag THEN i ELSE IterNext(fields, i)
           Steps(f) == f = [k \in 0 .. m |-> IF k = 0 THEN it ELSE step(f[k - 1])]
           after == CHOOSE f : Steps(f)
<1>1. \A i \in S : step(i) \in S
      OBVIOUS
<1>2. IterFind(fields, it, tag) = after[m]
      BY DEF IterFind
<1> HIDE DEF step, m
<1>3. m \in Nat
      BY DEF m
<1>4. \E f : Steps(f)
  <2> DEFINE g == [k \in 1 .. m |-> [i \in S |-> step(i)]]
  <2>1. g \in [1 .. m -> [S -> S]]
        BY <1>1
  <2>2. PICK f : Recursive(f, S, it, m, g)
    <3> HIDE DEF g
    <3> QED BY <1>3, <2>1, RecursiveFunction
  <2>3. /\ f = [k \in 0 .. m |-> f[k]] /\ f[0] = it
        /\ \A k \in 1 .. m : f[k] = g[k][f[k - 1]] /\ f[k - 1] \in S
    <3> HIDE DEF g
    <3> QED BY <2>2 DEF Recursive
  <2>4. \A k \in 1 .. m : f[k] = step(f[k - 1])
        BY <2>3
  <2>5. [k \in 0 .. m |-> f[k]] = [k \in 0 .. m |-> IF k = 0 THEN it ELSE step(f[k - 1])]
    <3> HIDE DEF g
    <3> QED BY <1>3, <2>3, <2>4
  <2> QED BY <2>3, <2>5
<1>5. Steps(after)
      BY <1>4
<1> HIDE DEF after
<1> DEFINE T == { k \in 0 .. m : after[k] \in S }
<1>6. 0 \in T /\ \A k \in 0 .. m - 1 : k \in T => k + 1 \in T
      BY <1>1, <1>3, <1>5
<1>7. T = 0 .. m
  <2> HIDE DEF T
  <2>1. T \in SUBSET (0 .. m)
        BY DEF T
  <2> QED BY <1>3, <1>6, <2>1, BoundedInduction
<1> QED BY <1>2, <1>3, <1>7

-----------------------------------------------------------------------------
(* The streams                                                             *)

LEMMA SumFact ==
    ASSUME NEW s \in Seq(Nat)
    PROVE  \E f : /\ f[0] = 0 /\ \A i \in 1 .. Len(s) : f[i] = f[i - 1] + s[i]
                  /\ SumTo(s) = f[Len(s)]
<1> DEFINE m == Len(s)
           g == [k \in 1 .. m |-> [n \in Nat |-> n + s[k]]]
           Q(f) == f = [i \in 0 .. m |-> IF i = 0 THEN 0 ELSE f[i - 1] + s[i]]
           sum == CHOOSE f : Q(f)
<1>1. m \in Nat /\ \A k \in 1 .. m : s[k] \in Nat
      OBVIOUS
<1>2. SumTo(s) = sum[m]
      BY DEF SumTo
<1> HIDE DEF m
<1>3. PICK f : Recursive(f, Nat, 0, m, g)
  <2>1. g \in [1 .. m -> [Nat -> Nat]] /\ 0 \in Nat
        BY <1>1
  <2> HIDE DEF g
  <2> QED BY <1>1, <2>1, RecursiveFunction
<1>4. /\ f = [k \in 0 .. m |-> f[k]] /\ f[0] = 0
      /\ \A k \in 1 .. m : f[k] = g[k][f[k - 1]] /\ f[k - 1] \in Nat
  <2> HIDE DEF g
  <2> QED BY <1>3 DEF Recursive
<1>5. \A k \in 1 .. m : f[k] = f[k - 1] + s[k]
      BY <1>4
<1> HIDE DEF g
<1>6. ASSUME NEW k \in 0 .. m
      PROVE  f[k] = IF k = 0 THEN 0 ELSE f[k - 1] + s[k]
  <2>1. k = 0 \/ k \in 1 .. m
        BY <1>1
  <2> QED BY <2>1, <1>4, <1>5
<1>7. Q(f)
  <2>1. [k \in 0 .. m |-> f[k]] = [i \in 0 .. m |-> IF i = 0 THEN 0 ELSE f[i - 1] + s[i]]
        BY <1>6
  <2> QED BY <1>4, <2>1
<1>8. Q(sum)
  <2> HIDE DEF Q
  <2> QED BY <1>7
<1> HIDE DEF sum
<1>9. sum[0] = 0 /\ \A i \in 1 .. m : sum[i] = sum[i - 1] + s[i]
      BY <1>1, <1>8
<1> QED BY <1>2, <1>9 DEF m

(* The sums of at most three numbers.                                      *)
LEMMA SumsFact ==
    ASSUME NEW s \in Seq(Nat)
    PROVE  /\ Len(s) = 1 => SumTo(s) = s[1]
           /\ Len(s) = 2 => SumTo(s) = s[1] + s[2]
           /\ Len(s) = 3 => SumTo(s) = s[1] + s[2] + s[3]
<1> DEFINE m == Len(s)
<1>1. PICK f : /\ f[0] = 0 /\ \A i \in 1 .. m : f[i] = f[i - 1] + s[i]
               /\ SumTo(s) = f[m]
      BY SumFact
<1>2. m \in Nat /\ \A i \in 1 .. m : s[i] \in Nat
      OBVIOUS
<1> HIDE DEF m
<1>3. m >= 1 => f[1] = s[1]
      BY <1>1, <1>2
<1>4. m >= 2 => f[2] = s[1] + s[2]
  <2>1. m >= 2 => 2 \in 1 .. m /\ 2 - 1 = 1
        BY <1>2
  <2> QED BY <1>1, <1>2, <1>3, <2>1
<1>5. m >= 3 => f[3] = s[1] + s[2] + s[3]
  <2>1. m >= 3 => 3 \in 1 .. m /\ 3 - 1 = 2
        BY <1>2
  <2> QED BY <1>1, <1>2, <1>4, <2>1
<1>6. SumTo(s) = f[m]
      BY <1>1
<1>7. /\ m = 1 => SumTo(s) = s[1]
      /\ m = 2 => SumTo(s) = s[1] + s[2]
      /\ m = 3 => SumTo(s) = s[1] + s[2] + s[3]
      BY <1>3, <1>4, <1>5, <1>6
<1> QED BY <1>7 DEF m

(* What is left from level l of a nest of streams on.                      *)
Rest(s, l) == SumTo(SubSeq(s, l + 1, Len(s)))

IsNest(s) == s \in Seq(Nat) /\ Len(s) \in 1 .. 3

LEMMA RestFact ==
    ASSUME NEW s, IsNest(s)
    PROVE  /\ \A i \in 1 .. Len(s) : s[i] \in Nat
           /\ Len(s) = 1 => Rest(s, 0) = s[1]
           /\ Len(s) = 2 => Rest(s, 0) = s[1] + s[2] /\ Rest(s, 1) = s[2]
           /\ Len(s) = 3 => /\ Rest(s, 0) = s[1] + s[2] + s[3]
                            /\ Rest(s, 1) = s[2] + s[3] /\ Rest(s, 2) = s[3]
           /\ \A l \in 0 .. Len(s) - 1 : Rest(s, l) \in Nat /\ Top(s) <= Rest(s, l)
<1>1. s \in Seq(Nat) /\ Len(s) \in 1 .. 3
      BY DEF IsNest
<1>2. \A i \in 1 .. Len(s) : s[i] \in Nat
      BY <1>1
<1>3. ASSUME NEW l \in 0 .. Len(s) - 1
      PROVE  /\ SubSeq(s, l + 1, Len(s)) \in Seq(Nat)
             /\ Len(SubSeq(s, l + 1, Len(s))) = Len(s) - l
             /\ \A i \in 1 .. Len(s) - l : SubSeq(s, l + 1, Len(s))[i] = s[l + i]
  <2>1. l + 1 \in 1 .. Len(s) + 1 /\ Len(s) \in l + 1 - 1 .. Len(s) /\ l + 1 <= Len(s)
        BY <1>1
  <2>2. /\ SubSeq(s, l + 1, Len(s)) \in Seq(Nat)
        /\ Len(SubSeq(s, l + 1, Len(s))) = Len(s) - (l + 1) + 1
        /\ \A i \in 1 .. Len(s) - (l + 1) + 1 : SubSeq(s, l + 1, Len(s))[i] = s[(l + 1) + i - 1]
        BY <1>1, <2>1, SubSeqProperties
  <2>3. Len(s) - (l + 1) + 1 = Len(s) - l /\ \A i \in Int : (l + 1) + i - 1 = l + i
        BY <1>1
  <2> QED BY <2>2, <2>3
<1>4. ASSUME NEW l \in 0 .. Len(s) - 1
      PROVE  /\ Len(s) - l = 1 => Rest(s, l) = s[l + 1]
             /\ Len(s) - l = 2 => Rest(s, l) = s[l + 1] + s[l + 2]
             /\ Len(s) - l = 3 => Rest(s, l) = s[l + 1] + s[l + 2] + s[l + 3]
  <2> DEFINE q == SubSeq(s, l + 1, Len(s))
  <2>1. /\ q \in Seq(Nat) /\ Len(q) = Len(s) - l
        /\ \A i \in 1 .. Len(s) - l : q[i] = s[l + i]
        BY <1>3
  <2>2. Rest(s, l) = SumTo(q)
        BY DEF Rest
  <2> HIDE DEF q
  <2>3. /\ Len(q) = 1 => SumTo(q) = q[1]
        /\ Len(q) = 2 => SumTo(q) = q[1] + q[2]
        /\ Len(q) = 3 => SumTo(q) = q[1] + q[2] + q[3]
        BY <2>1, SumsFact
  <2>4. /\ Len(s) - l >= 1 => q[1] = s[l + 1]
        /\ Len(s) - l >= 2 => q[2] = s[l + 2]
        /\ Len(s) - l >= 3 => q[3] = s[l + 3]
        BY <1>1, <2>1
  <2> QED BY <2>1, <2>2, <2>3, <2>4
<1>5. Len(s) = 1 => Rest(s, 0) = s[1]
      BY <1>4
<1>6. Len(s) = 2 => Rest(s, 0) = s[1] + s[2] /\ Rest(s, 1) = s[2]
      BY <1>4
<1>7. Len(s) = 3 => /\ Rest(s, 0) = s[1] + s[2] + s[3]
                    /\ Rest(s, 1) = s[2] + s[3] /\ Rest(s, 2) = s[3]
      BY <1>4
<1>8. ASSUME NEW l \in 0 .. Len(s) - 1
      PROVE  Rest(s, l) \in Nat /\ Top(s) <= Rest(s, l)
  <2>1. Len(s) = 1 \/ Len(s) = 2 \/ Len(s) = 3
        BY <1>1
  <2>2. CASE Len(s) = 1
        BY <1>2, <1>5, <2>2 DEF Top
  <2>3. CASE Len(s) = 2
        BY <1>2, <1>6, <2>3 DEF Top
  <2>4. CASE Len(s) = 3
        BY <1>2, <1>7, <2>4 DEF Top
  <2> QED BY <2>1, <2>2, <2>3, <2>4
<1> QED BY <1>2, <1>5, <1>6, <1>7, <1>8

LEMMA NestFact ==
    ASSUME NEW s, IsNest(s)
    PROVE  /\ Len(s) \in {1, 2, 3} /\ 0 \in 0 .. Len(s) - 1
           /\ Top(s) \in Nat /\ Rest(s, 0) \in Nat /\ Top(s) <= Rest(s, 0)
<1>1. Len(s) \in 1 .. 3
      BY DEF IsNest
<1>2. Len(s) \in {1, 2, 3} /\ 0 \in 0 .. Len(s) - 1 /\ Len(s) \in 1 .. Len(s)
  <2>1. \A m \in 1 .. 3 : m \in {1, 2, 3} /\ 0 \in 0 .. m - 1 /\ m \in 1 .. m
        OBVIOUS
  <2> QED BY <1>1, <2>1
<1>3. Top(s) \in Nat
      BY <1>2, RestFact DEF Top
<1> QED BY <1>2, <1>3, RestFact

(* A read takes n bytes from every stream of the nest.                     *)
LEMMA ReadFact ==
    ASSUME NEW s, IsNest(s), NEW n \in Nat, n <= Top(s)
    PROVE  LET r == [s EXCEPT ![Len(s)] = @ - n]
           IN  /\ IsNest(r) /\ Len(r) = Len(s) /\ Top(r) = Top(s) - n
               /\ \A l \in 0 .. Len(s) - 1 : Rest(r, l) = Rest(s, l) - n
<1> DEFINE e == s[Len(s)] - n
           r == [s EXCEPT ![Len(s)] = e]
<1>1. s \in Seq(Nat) /\ Len(s) \in 1 .. 3 /\ s[Len(s)] \in Nat /\ e \in Nat
      BY RestFact DEF IsNest, Top
<1>2. /\ r \in Seq(Nat) /\ Len(r) = Len(s)
      /\ \A i \in 1 .. Len(s) : r[i] = IF i = Len(s) THEN e ELSE s[i]
  <2>1. Len(s) \in 1 .. Len(s)
    <3>1. \A j \in 1 .. 3 : j \in 1 .. j
          OBVIOUS
    <3> QED BY <1>1, <3>1
  <2> HIDE DEF e
  <2> QED BY <1>1, <2>1, ExceptSeq
<1> HIDE DEF r
<1>3. IsNest(r)
      BY <1>1, <1>2 DEF IsNest
<1>4. ASSUME NEW l \in 0 .. Len(s) - 1
      PROVE  Rest(r, l) = Rest(s, l) - n
  <2>1. Len(s) = 1 \/ Len(s) = 2 \/ Len(s) = 3
        BY <1>1
  <2>2. CASE Len(s) = 1
    <3>1. l = 0 /\ Rest(s, 0) = s[1] /\ Rest(r, 0) = r[1] /\ r[1] = s[1] - n
          BY <1>2, <1>3, <2>2, RestFact
    <3> QED BY <3>1
  <2>3. CASE Len(s) = 2
    <3>1. l \in {0, 1} /\ r[1] = s[1] /\ r[2] = s[2] - n /\ s[1] \in Nat /\ s[2] \in Nat
          BY <1>2, <2>3, RestFact
    <3>2. Rest(s, 0) = s[1] + s[2] /\ Rest(s, 1) = s[2]
          BY <2>3, RestFact
    <3>3. Rest(r, 0) = r[1] + r[2] /\ Rest(r, 1) = r[2]
          BY <1>2, <1>3, <2>3, RestFact
    <3> QED BY <3>1, <3>2, <3>3
  <2>4. CASE Len(s) = 3
    <3>1. /\ l \in {0, 1, 2} /\ r[1] = s[1] /\ r[2] = s[2] /\ r[3] = s[3] - n
          /\ s[1] \in Nat /\ s[2] \in Nat /\ s[3] \in Nat
          BY <1>2, <2>4, RestFact
    <3>2. Rest(s, 0) = s[1] + s[2] + s[3] /\ Rest(s, 1) = s[2] + s[3] /\ Rest(s, 2) = s[3]
          BY <2>4, RestFact
    <3>3. Rest(r, 0) = r[1] + r[2] + r[3] /\ Rest(r, 1) = r[2] + r[3] /\ Rest(r, 2) = r[3]
      <4>1. Len(r) = 3
            BY <1>2, <2>4
      <4> QED BY <1>3, <4>1, RestFact
    <3> QED BY <3>1, <3>2, <3>3, SMTT(30)
  <2> QED BY <2>1, <2>2, <2>3, <2>4
<1>5. Top(r) = Top(s) - n
      BY <1>1, <1>2 DEF Top
<1> QED BY <1>2, <1>3, <1>4, <1>5 DEF r

(* A substream of size bytes after a read of n bytes.                      *)
LEMMA OpenFact ==
    ASSUME NEW s, IsNest(s), Len(s) < 3, NEW n \in Nat, NEW size \in Nat, n + size <= Top(s)
    PROVE  LET r == Append([s EXCEPT ![Len(s)] = @ - n - size], size)
           IN  /\ IsNest(r) /\ Len(r) = Len(s) + 1 /\ Top(r) = size
               /\ Rest(r, Len(s)) = size
               /\ \A l \in 0 .. Len(s) - 1 : Rest(r, l) = Rest(s, l) - n
<1> DEFINE e == s[Len(s)] - n - size
           q == [s EXCEPT ![Len(s)] = e]
           r == Append(q, size)
<1>1. s \in Seq(Nat) /\ Len(s) \in 1 .. 2 /\ s[Len(s)] \in Nat /\ e \in Nat
      BY RestFact DEF IsNest, Top
<1>2. /\ q \in Seq(Nat) /\ Len(q) = Len(s)
      /\ \A i \in 1 .. Len(s) : q[i] = IF i = Len(s) THEN e ELSE s[i]
  <2>1. Len(s) \in 1 .. Len(s)
    <3>1. \A j \in 1 .. 2 : j \in 1 .. j
          OBVIOUS
    <3> QED BY <1>1, <3>1
  <2> HIDE DEF e
  <2> QED BY <1>1, <2>1, ExceptSeq
<1> HIDE DEF q
<1>3. /\ r \in Seq(Nat) /\ Len(r) = Len(s) + 1 /\ r[Len(s) + 1] = size
      /\ \A i \in 1 .. Len(s) : r[i] = q[i]
      BY <1>1, <1>2, AppendProperties
<1> HIDE DEF r
<1>4. IsNest(r)
  <2>1. Len(s) = 1 \/ Len(s) = 2
        BY <1>1
  <2>2. Len(r) = 2 \/ Len(r) = 3
        BY <1>3, <2>1
  <2>3. Len(r) \in 1 .. 3
        BY <2>2
  <2>4. r \in Seq(Nat)
        BY <1>3
  <2> QED BY <2>3, <2>4 DEF IsNest
<1>5. Rest(r, Len(s)) = size
  <2>1. CASE Len(s) = 1
    <3>1. Len(r) = 2 /\ r[2] = size
          BY <1>3, <2>1
    <3> QED BY <1>4, <2>1, <3>1, RestFact
  <2>2. CASE Len(s) = 2
    <3>1. Len(r) = 3 /\ r[3] = size
          BY <1>3, <2>2
    <3> QED BY <1>4, <2>2, <3>1, RestFact
  <2> QED BY <1>1, <2>1, <2>2
<1>6. ASSUME NEW l \in 0 .. Len(s) - 1
      PROVE  Rest(r, l) = Rest(s, l) - n
  <2>1. Len(s) = 1 \/ Len(s) = 2
        BY <1>1
  <2>2. CASE Len(s) = 1
    <3>1. l = 0 /\ r[1] = s[1] - n - size /\ r[2] = size /\ s[1] \in Nat
          BY <1>1, <1>2, <1>3, <2>2
    <3>2. Rest(s, 0) = s[1] /\ Rest(r, 0) = r[1] + r[2]
          BY <1>3, <1>4, <2>2, RestFact
    <3> QED BY <3>1, <3>2
  <2>3. CASE Len(s) = 2
    <3>1. /\ l \in {0, 1} /\ r[1] = s[1] /\ r[2] = s[2] - n - size /\ r[3] = size
          /\ s[1] \in Nat /\ s[2] \in Nat
          BY <1>2, <1>3, <2>3, RestFact
    <3>2. Rest(s, 0) = s[1] + s[2] /\ Rest(s, 1) = s[2]
          BY <2>3, RestFact
    <3>3. Rest(r, 0) = r[1] + r[2] + r[3] /\ Rest(r, 1) = r[2] + r[3]
          BY <1>3, <1>4, <2>3, RestFact
    <3> QED BY <3>1, <3>2, <3>3
  <2> QED BY <2>1, <2>2, <2>3
<1>7. Top(r) = size
      BY <1>3 DEF Top
<1> QED BY <1>3, <1>4, <1>5, <1>6, <1>7 DEF q, r

(* The innermost stream and what it has left are gone.                     *)
LEMMA PopFact ==
    ASSUME NEW s, IsNest(s), Len(s) > 1
    PROVE  /\ IsNest(Pop(s)) /\ Len(Pop(s)) = Len(s) - 1
           /\ \A l \in 0 .. Len(s) - 2 : Rest(Pop(s), l) = Rest(s, l) - Top(s)
<1> DEFINE r == Pop(s)
<1>1. s \in Seq(Nat) /\ Len(s) \in 2 .. 3
      BY DEF IsNest
<1>2. r \in Seq(Nat) /\ Len(r) = Len(s) - 1 /\ \A i \in 1 .. Len(s) - 1 : r[i] = s[i]
  <2>1. 1 \in 1 .. Len(s) + 1 /\ Len(s) - 1 \in 1 - 1 .. Len(s) /\ 1 <= Len(s) - 1
        BY <1>1
  <2>2. /\ r \in Seq(Nat) /\ Len(r) = Len(s) - 1 - 1 + 1
        /\ \A i \in 1 .. Len(s) - 1 - 1 + 1 : r[i] = s[1 + i - 1]
        BY <1>1, <2>1, SubSeqProperties DEF Pop
  <2>3. Len(s) - 1 - 1 + 1 = Len(s) - 1 /\ \A i \in Int : 1 + i - 1 = i
        BY <1>1
  <2> HIDE DEF r
  <2> QED BY <2>2, <2>3
<1> HIDE DEF r
<1>3. IsNest(r)
  <2>1. \A m \in 2 .. 3 : m - 1 \in 1 .. 3
        OBVIOUS
  <2> QED BY <1>1, <1>2, <2>1 DEF IsNest
<1>4. ASSUME NEW l \in 0 .. Len(s) - 2
      PROVE  Rest(r, l) = Rest(s, l) - Top(s)
  <2>1. Len(s) = 2 \/ Len(s) = 3
        BY <1>1
  <2>2. CASE Len(s) = 2
    <3>1. l = 0 /\ r[1] = s[1] /\ Top(s) = s[2] /\ s[1] \in Nat /\ s[2] \in Nat
          BY <1>2, <2>2, RestFact DEF Top
    <3>2. Rest(s, 0) = s[1] + s[2] /\ Rest(r, 0) = r[1]
          BY <1>2, <1>3, <2>2, RestFact
    <3> QED BY <3>1, <3>2
  <2>3. CASE Len(s) = 3
    <3>1. /\ l \in {0, 1} /\ r[1] = s[1] /\ r[2] = s[2] /\ Top(s) = s[3]
          /\ s[1] \in Nat /\ s[2] \in Nat /\ s[3] \in Nat
          BY <1>2, <2>3, RestFact DEF Top
    <3>2. Rest(s, 0) = s[1] + s[2] + s[3] /\ Rest(s, 1) = s[2] + s[3]
          BY <2>3, RestFact
    <3>3. Rest(r, 0) = r[1] + r[2] /\ Rest(r, 1) = r[2]
          BY <1>2, <1>3, <2>3, RestFact
    <3> QED BY <3>1, <3>2, <3>3
  <2> QED BY <2>1, <2>2, <2>3
<1> QED BY <1>2, <1>3, <1>4 DEF r

-----------------------------------------------------------------------------
(* The inductive invariant                                                 *)

Typed ==
    /\ pc \in {"loop", "skip", "field", "callback", "close", "done", "failed"}
    /\ total \in 0 .. MAX_TXN /\ pos \in Nat
    /\ IsNest(left) /\ wire \in Wires
    /\ shown \in [Shown -> [from : Nat, size : -1 .. total, seen : Nat]]
    /\ meant \in [Shown -> {<<>>} \cup (Nat \X Nat)]
    /\ improper \subseteq {"endTag", "innerEndTag", "wire"}

(* A submessage is entered from a field that is one.                       *)
IterInv ==
    \E a \in TxnIters :
        \/ iter = <<a>>
        \/ iter = <<a, Inner>> /\ Txn[a.pos].ltype = "submessage"

(* The streams hold what is left of the transaction; a message has one, a  *)
(* value that is being read another.                                       *)
StreamInv ==
    /\ pos + Rest(left, 0) = total
    /\ pc \in {"loop", "skip", "field", "done"} => Len(left) = Len(iter)
    /\ pc \in {"callback", "close"} => Len(left) = Len(iter) + 1
    /\ pc = "close" => Top(left) = 0
    /\ pc = "done" => Len(iter) = 1

ReadingInv ==
    /\ pc = "field" /\ "wire" \notin improper => wire = ProperWire(Field)
    /\ pc = "callback" => Field.atype = "callback" /\ Callback # 0

(* The last value of a field is on the screen as it should be.             *)
Agrees(t) ==
    IF meant[t] = <<>> THEN shown[t] = Empty
    ELSE IF t \in {code, data}
           THEN shown[t] = IF FitsDisplay(t, meant[t][2])
                             THEN Text(meant[t][1], meant[t][2], shown[t].seen) ELSE TooLarge
           ELSE /\ \E k \in Nat \ {0} : meant[t][2] = ValueLen(t) * k
                /\ shown[t] = Text(meant[t][1] + meant[t][2] - ValueLen(t), ValueLen(t), ValueLen(t))

(* Or it is about to be read: a text at once, an address or an amount in   *)
(* pieces of its proper length, of which some may have been read.          *)
Awaited(t) ==
    /\ meant[t] # <<>>
    /\ IF t \in {code, data} THEN meant[t] = <<pos, Top(left)>>
       ELSE /\ meant[t][1] + meant[t][2] = pos + Top(left)
            /\ \E k \in Nat : meant[t][2] = ValueLen(t) * k + Top(left)

ValuesInv ==
    pc # "failed" /\ "wire" \notin improper =>
        \A t \in Shown : IF pc = "callback" /\ t = Callback THEN Awaited(t) ELSE Agrees(t)

IInv == Typed /\ IterInv /\ StreamInv /\ ReadingInv /\ ValuesInv

-----------------------------------------------------------------------------
(* Fields and callbacks                                                    *)

(* The members by kind.                                                    *)
LEMMA KindCases ==
    /\ \A k \in 1 .. 9 : Txn[k].tag = k
    /\ \A k \in 1 .. 9 : Txn[k].ltype = "submessage" => k \in {4, 5, 6}
    /\ \A k \in 1 .. 9 : Txn[k].ltype = "uvarint" => k \in {1, 2, 7}
    /\ \A k \in 1 .. 9 : Txn[k].atype = "callback" => k \in {3, 8, 9} /\ Txn[k].ltype = "bytes"
<1>1. \A k \in 1 .. 9 : k \in {1, 2, 7} \/ k \in {3, 8, 9} \/ k \in {4, 5, 6}
      OBVIOUS
<1>2. {1, 2, 7} \subseteq 1 .. 9 /\ {3, 8, 9} \subseteq 1 .. 9 /\ {4, 5, 6} \subseteq 1 .. 9
      OBVIOUS
<1>3. \A k \in {1, 2, 7} : Txn[k].ltype = "uvarint" /\ Txn[k].atype = "static"
      BY <1>2, FieldsFact, KindsFact
<1>4. \A k \in {3, 8, 9} : Txn[k].ltype = "bytes" /\ Txn[k].atype = "callback"
      BY <1>2, FieldsFact, KindsFact
<1>5. \A k \in {4, 5, 6} : Txn[k].ltype = "submessage" /\ Txn[k].atype = "static"
      BY <1>2, FieldsFact, KindsFact
<1>6. \A k \in 1 .. 9 : Txn[k].tag = k
      BY FieldsFact
<1> QED BY <1>1, <1>3, <1>4, <1>5, <1>6

(* Where the callback of each field is, and nothing else is.               *)
LEMMA CallbacksFact ==
    /\ \A k \in {3, 5, 6, 8, 9} : CallbackAt(TxnOffsets[k].start, 0) = k
    /\ CallbackAt(TxnOffsets[4].start, 0) = 0
BY OffsetsFact DEF CallbackAt, toaddr, amount, gasprice, code, data

(* The iterator of the transaction, and that of the submessage it is at.   *)
Outside(k) ==
    /\ ~InSubmessage /\ Len(iter) = 1 /\ iter = <<IterAt(k)>> /\ Top(iter) = IterAt(k)
    /\ Field = Txn[k] /\ MeantTag = k
    /\ Callback = CallbackAt(TxnOffsets[k].start, 0)

Inside(k) ==
    /\ InSubmessage /\ Len(iter) = 2 /\ iter = <<IterAt(k), Inner>> /\ Top(iter) = Inner
    /\ k \in {4, 5, 6}
    /\ Field = ByteArray_fields[1] /\ MeantTag = k
    /\ Callback = CallbackAt(TxnOffsets[k].start, 0)

LEMMA IterShape ==
    ASSUME IterInv
    PROVE  \E k \in 1 .. 9 : Outside(k) \/ Inside(k)
<1>1. PICK k \in 1 .. 9 :
           \/ iter = <<IterAt(k)>>
           \/ iter = <<IterAt(k), Inner>> /\ Txn[IterAt(k).pos].ltype = "submessage"
      BY DEF IterInv, TxnIters
<1>2. IterAt(k).pos = k /\ IterAt(k).pData = TxnOffsets[k].start
      BY DEF IterAt
<1>3. Inner.pos = 1 /\ Inner.pData = 0
      BY DEF Inner
<1>4. CASE iter = <<IterAt(k)>>
  <2>1. Len(iter) = 1 /\ Top(iter) = IterAt(k) /\ iter[1] = IterAt(k) /\ ~InSubmessage
        BY <1>4 DEF Top, InSubmessage
  <2>2. Field = Txn[k]
        BY <1>2, <2>1 DEF Field, Fieldtable, Txn
  <2>3. MeantTag = k
        BY <2>1, <2>2, KindCases DEF MeantTag
  <2>4. Callback = CallbackAt(TxnOffsets[k].start, 0)
        BY <1>2, <2>1 DEF Callback
  <2> QED BY <1>4, <2>1, <2>2, <2>3, <2>4 DEF Outside
<1>5. CASE iter = <<IterAt(k), Inner>> /\ Txn[IterAt(k).pos].ltype = "submessage"
  <2>1. /\ Len(iter) = 2 /\ Top(iter) = Inner /\ iter[1] = IterAt(k) /\ iter[2] = Inner
        /\ InSubmessage
        BY <1>5 DEF Top, InSubmessage
  <2>2. Field = ByteArray_fields[1]
        BY <1>3, <2>1 DEF Field, Fieldtable
  <2>3. MeantTag = k
        BY <1>2, <2>1, KindCases DEF MeantTag, OuterTag, Txn
  <2>4. Callback = CallbackAt(TxnOffsets[k].start, 0)
        BY <1>2, <1>3, <2>1 DEF Callback
  <2>5. k \in {4, 5, 6}
        BY <1>2, <1>5, KindCases
  <2> QED BY <1>5, <2>1, <2>2, <2>3, <2>4, <2>5 DEF Inside
<1> QED BY <1>1, <1>4, <1>5

(* A callback that is called writes the string of the field that the       *)
(* message has there, and a value is a string of bytes.                    *)
LEMMA CallbackFact ==
    ASSUME IterInv, Field.atype = "callback", Callback # 0
    PROVE  MeantTag = Callback /\ Callback \in Shown /\ ProperWire(Field) = WT_STRING
<1>1. PICK k \in 1 .. 9 : Outside(k) \/ Inside(k)
      BY IterShape
<1>2. CASE Outside(k)
  <2>1. k \in {3, 8, 9} /\ Field.ltype = "bytes"
        BY <1>2, KindCases DEF Outside
  <2> QED BY <1>2, <2>1, CallbacksFact DEF Outside, Shown, toaddr, amount, gasprice, code, data, ProperWire
<1>3. CASE Inside(k)
  <2>1. k \in {5, 6} /\ Field.ltype = "bytes"
        BY <1>3, CallbacksFact, FieldsFact DEF Inside
  <2> QED BY <1>3, <2>1, CallbacksFact DEF Inside, Shown, toaddr, amount, gasprice, code, data, ProperWire
<1> QED BY <1>1, <1>2, <1>3

(* The search for a tag stays in the message.                              *)
LEMMA FindKeeps ==
    ASSUME IterInv, NEW tag, NEW found,
           found = IterFind(Fieldtable, Top(iter), tag),
           iter' = [iter EXCEPT ![Len(iter)] = found]
    PROVE  IterInv' /\ Len(iter') = Len(iter) /\ Field' = Fieldtable[found.pos]
<1>1. PICK k \in 1 .. 9 : Outside(k) \/ Inside(k)
      BY IterShape
<1>2. CASE Outside(k)
  <2>1. Fieldtable = Txn /\ Len(Txn) \in Nat /\ Top(iter) = IterAt(k) /\ IterAt(k) \in TxnIters
        BY <1>2, FieldsFact DEF Outside, Fieldtable, Txn, TxnIters
  <2>2. found \in TxnIters
        BY <2>1, IterFact, FindFact
  <2>3. iter' = <<found>> /\ Len(iter') = 1
        BY <1>2 DEF Outside
  <2>4. IterInv'
        BY <2>2, <2>3 DEF IterInv
  <2>5. Field' = Txn[found.pos]
    <3>1. ~InSubmessage' /\ Top(iter') = found
          BY <2>3 DEF InSubmessage, Top
    <3> QED BY <3>1 DEF Field, Fieldtable, Txn
  <2> QED BY <1>2, <2>1, <2>3, <2>4, <2>5 DEF Outside
<1>3. CASE Inside(k)
  <2>1. /\ Fieldtable = ByteArray_fields /\ Len(ByteArray_fields) \in Nat /\ Top(iter) = Inner
        /\ \A i \in {Inner} : IterNext(ByteArray_fields, i) \in {Inner}
        BY <1>3, FieldsFact, IterFact DEF Inside, Fieldtable
  <2>2. found \in {Inner}
        BY <2>1, FindFact
  <2>3. iter' = <<IterAt(k), Inner>> /\ Len(iter') = 2
        BY <1>3, <2>2 DEF Inside
  <2>4. IterInv'
    <3>1. IterAt(k) \in TxnIters /\ IterAt(k).pos = k
          BY DEF TxnIters, IterAt
    <3>2. Txn[k].ltype = "submessage"
          BY <1>3, FieldsFact, KindsFact DEF Inside
    <3> QED BY <2>3, <3>1, <3>2 DEF IterInv, Txn
  <2>5. Field' = ByteArray_fields[found.pos]
        BY <2>2, <2>3 DEF Field, Fieldtable, InSubmessage, Top
  <2> QED BY <1>3, <2>1, <2>3, <2>4, <2>5 DEF Inside
<1> QED BY <1>1, <1>2, <1>3

LEMMA PairFact ==
    ASSUME NEW a, NEW b
    PROVE  SubSeq(<<a, b>>, 1, 1) = <<a>>
<1> DEFINE s == <<a, b>>
           q == SubSeq(s, 1, 1)
<1>1. s \in Seq({a, b}) /\ Len(s) = 2 /\ s[1] = a
      OBVIOUS
<1>2. 1 \in 1 .. Len(s) + 1 /\ 1 \in 1 - 1 .. Len(s)
      BY <1>1
<1> HIDE DEF s
<1>3. q \in Seq({a, b}) /\ Len(q) = 1 /\ q[1] = a
  <2>1. /\ q \in Seq({a, b}) /\ Len(q) = 1 - 1 + 1
        /\ \A i \in 1 .. 1 - 1 + 1 : q[i] = s[1 + i - 1]
        BY <1>1, <1>2, SubSeqProperties
  <2> HIDE DEF q
  <2> QED BY <1>1, <2>1
<1>4. <<a>> \in Seq({a, b}) /\ Len(<<a>>) = 1
      OBVIOUS
<1> HIDE DEF q
<1>5. q = <<a>>
      BY <1>3, <1>4, SeqEqual
<1> QED BY <1>5 DEF q, s

(* A submessage is a field of the transaction.                             *)
LEMMA SubmessageFact ==
    ASSUME IterInv
    PROVE  /\ Len(iter) \in {1, 2} /\ (InSubmessage <=> Len(iter) = 2)
           /\ Field.ltype = "submessage" =>
                Len(iter) = 1 /\ \A i : i = Append(iter, IterBegin(ByteArray_fields)) =>
                  Len(i) = 2 /\ \E a \in TxnIters : i = <<a, Inner>> /\ Txn[a.pos].ltype = "submessage"
           /\ Len(iter) = 2 => \E a \in TxnIters : Pop(iter) = <<a>>
<1>1. PICK k \in 1 .. 9 : Outside(k) \/ Inside(k)
      BY IterShape
<1>2. IterAt(k) \in TxnIters /\ IterAt(k).pos = k
      BY DEF TxnIters, IterAt
<1>3. CASE Outside(k)
      BY <1>2, <1>3, IterFact DEF Outside
<1>4. CASE Inside(k)
  <2>1. Field.ltype # "submessage"
        BY <1>4, FieldsFact DEF Inside
  <2>2. Pop(iter) = <<IterAt(k)>>
    <3>1. iter = <<IterAt(k), Inner>> /\ Len(iter) - 1 = 1
          BY <1>4 DEF Inside
    <3> QED BY <3>1, PairFact DEF Pop
  <2> QED BY <1>2, <1>4, <2>1, <2>2 DEF Inside
<1> QED BY <1>1, <1>3, <1>4

-----------------------------------------------------------------------------
(* Steps                                                                   *)

LEMMA BoundFact ==
    ASSUME Typed, StreamInv
    PROVE  /\ Top(left) \in Nat /\ Top(left) <= total /\ pos <= total
           /\ total \in Nat /\ Len(left) \in 1 .. 3
<1>1. /\ Rest(left, 0) \in Nat /\ Top(left) <= Rest(left, 0) /\ Top(left) \in Nat
      /\ Len(left) \in {1, 2, 3}
      BY NestFact DEF Typed
<1>2. total \in Nat /\ pos \in Nat /\ pos + Rest(left, 0) = total
      BY DecodeAssumption DEF Typed, StreamInv, DecodeAssumption
<1> QED BY <1>1, <1>2

LEMMA ReadStep ==
    ASSUME Typed, StreamInv, NEW n \in Nat, Read(n), total' = total
    PROVE  /\ IsNest(left') /\ Len(left') = Len(left) /\ Top(left') = Top(left) - n
           /\ n <= Top(left) /\ pos' = pos + n /\ pos' \in Nat
           /\ \A l \in 0 .. Len(left) - 1 : Rest(left', l) = Rest(left, l) - n
           /\ pos' + Rest(left', 0) = total'
<1>1. n <= Top(left) /\ pos' = pos + n /\ left' = [left EXCEPT ![Len(left)] = @ - n]
      BY DEF Read
<1>2. /\ IsNest(left') /\ Len(left') = Len(left) /\ Top(left') = Top(left) - n
      /\ \A l \in 0 .. Len(left) - 1 : Rest(left', l) = Rest(left, l) - n
      BY <1>1, ReadFact DEF Typed
<1>3. /\ IsNest(left) /\ pos \in Nat /\ pos + Rest(left, 0) = total
      BY DEF Typed, StreamInv
<1>4. Rest(left, 0) \in Nat /\ 0 \in 0 .. Len(left) - 1
      BY <1>3, NestFact
<1>5. Rest(left', 0) = Rest(left, 0) - n
      BY <1>2, <1>4
<1>6. pos' \in Nat /\ pos' + Rest(left', 0) = total'
      BY <1>1, <1>3, <1>4, <1>5
<1> QED BY <1>1, <1>2, <1>6

LEMMA OpenStep ==
    ASSUME Typed, StreamInv, Len(left) < 3, NEW n \in Nat, NEW size \in Nat,
           MakeSubstream(n, size), total' = total
    PROVE  /\ IsNest(left') /\ Len(left') = Len(left) + 1 /\ Top(left') = size
           /\ n + size <= Top(left) /\ pos' = pos + n /\ pos' \in Nat
           /\ Rest(left', Len(left)) = size
           /\ \A l \in 0 .. Len(left) - 1 : Rest(left', l) = Rest(left, l) - n
           /\ pos' + Rest(left', 0) = total'
<1>1. /\ n + size <= Top(left) /\ pos' = pos + n
      /\ left' = Append([left EXCEPT ![Len(left)] = @ - n - size], size)
      BY DEF MakeSubstream, SubstreamFits
<1>2. /\ IsNest(left') /\ Len(left') = Len(left) + 1 /\ Top(left') = size
      /\ Rest(left', Len(left)) = size
      /\ \A l \in 0 .. Len(left) - 1 : Rest(left', l) = Rest(left, l) - n
  <2> DEFINE r == Append([left EXCEPT ![Len(left)] = @ - n - size], size)
  <2>1. IsNest(left)
        BY DEF Typed
  <2>2. /\ IsNest(r) /\ Len(r) = Len(left) + 1 /\ Top(r) = size
        /\ Rest(r, Len(left)) = size
        /\ \A l \in 0 .. Len(left) - 1 : Rest(r, l) = Rest(left, l) - n
        BY <1>1, <2>1, OpenFact
  <2>3. left' = r
        BY <1>1
  <2> HIDE DEF r
  <2> QED BY <2>2, <2>3
<1>3. /\ IsNest(left) /\ pos \in Nat /\ pos + Rest(left, 0) = total
      BY DEF Typed, StreamInv
<1>4. Rest(left, 0) \in Nat /\ 0 \in 0 .. Len(left) - 1
      BY <1>3, NestFact
<1>5. Rest(left', 0) = Rest(left, 0) - n
      BY <1>2, <1>4
<1>6. pos' \in Nat /\ pos' + Rest(left', 0) = total'
      BY <1>1, <1>3, <1>4, <1>5
<1> QED BY <1>1, <1>2, <1>6

(* What a step that leaves the iterators alone leaves alone with them.     *)
LEMMA SameIter ==
    ASSUME iter' = iter
    PROVE  Field' = Field /\ Callback' = Callback /\ (IterInv => IterInv')
BY DEF Field, Fieldtable, InSubmessage, Callback, IterInv, TxnIters

LEMMA SameAgrees ==
    ASSUME NEW t, shown'[t] = shown[t], meant'[t] = meant[t]
    PROVE  Agrees(t) => Agrees(t)'
BY DEF Agrees

LEMMA SameValues ==
    ASSUME ValuesInv, UNCHANGED <<shown, meant>>, improper \subseteq improper',
           pc \notin {"callback", "failed"}, pc' # "callback"
    PROVE  ValuesInv'
<1>1. shown' = shown /\ meant' = meant
      OBVIOUS
<1>2. \A t : Agrees(t) => Agrees(t)'
      BY <1>1, SameAgrees
<1> QED BY <1>2 DEF ValuesInv

(* The sizes that are read are numbers.                                    *)
LEMMA SizesFact ==
    ASSUME Typed
    PROVE  /\ Lengths \subseteq Nat /\ Sizes \subseteq Nat
           /\ FIXED64_LEN \in Nat /\ FIXED32_LEN \in Nat
           /\ \A t : ValueLen(t) \in Nat \ {0}
BY DecodeAssumption DEF DecodeAssumption, Lengths, Sizes, ValueLen, Typed

LEMMA InitIInv == Init => IInv
<1> SUFFICES ASSUME Init PROVE IInv
    OBVIOUS
<1>1. total \in Nat
      BY DecodeAssumption DEF Init, DecodeAssumption
<1>2. IsNest(<<total>>) /\ Rest(<<total>>, 0) = total
  <2>1. <<total>> \in Seq(Nat) /\ Len(<<total>>) = 1 /\ <<total>>[1] = total
        BY <1>1
  <2>2. IsNest(<<total>>)
        BY <2>1 DEF IsNest
  <2> QED BY <2>1, <2>2, RestFact
<1>3. Typed
      BY <1>1, <1>2 DEF Init, Typed, Wires, Empty, WT_VARINT
<1>4. IterInv
      BY IterFact DEF Init, IterInv, Txn
<1>5. StreamInv
      BY <1>1, <1>2 DEF Init, StreamInv
<1>6. ReadingInv
      BY DEF Init, ReadingInv
<1>7. ValuesInv
      BY DEF Init, ValuesInv, Agrees
<1> QED BY <1>3, <1>4, <1>5, <1>6, <1>7 DEF IInv

(* Where a message is left, a submessage is closed.                        *)
LEMMA LeaveStep ==
    ASSUME IInv, pc = "loop", NEW n \in Nat, n <= Top(left), NEW reasons,
           improper \subseteq reasons, reasons \subseteq {"endTag", "innerEndTag", "wire"},
           LeaveMessage(n, reasons)
    PROVE  /\ IInv'
           /\ \/ /\ Len(left) = 1 /\ Len(left') = 1 /\ pc' = "done" /\ pos' = pos + n
                 /\ Rest(left', 0) = Rest(left, 0) - n
              \/ /\ Len(left) = 2 /\ Len(left') = 1 /\ pc' = "loop" /\ pos' = pos + Top(left)
                 /\ Rest(left', 0) = Rest(left, 0) - Top(left)
<1> USE DEF IInv
<1>1. /\ improper' = reasons /\ UNCHANGED <<total, wire, shown, meant>>
      /\ Len(left) = Len(iter) /\ IsNest(left)
      BY DEF LeaveMessage, StreamInv, Typed
<1>2. /\ Top(left) \in Nat /\ Rest(left, 0) \in Nat /\ pos + Rest(left, 0) = total
      /\ pos \in Nat /\ total \in Nat
      BY <1>1, BoundFact, NestFact DEF StreamInv, Typed
<1>3. CASE InSubmessage
  <2>1. Len(left) = 2 /\ Len(iter) = 2
        BY <1>1, <1>3 DEF InSubmessage
  <2>2. /\ pc' = "loop" /\ pos' = pos + n + (Top(left) - n)
        /\ left' = Pop(left) /\ iter' = Pop(iter)
        BY <1>3 DEF LeaveMessage, AfterMessage, AfterClose
  <2>3. pos' = pos + Top(left) /\ pos' \in Nat
        BY <1>2, <2>2
  <2>4. IsNest(left') /\ Len(left') = 1 /\ Rest(left', 0) = Rest(left, 0) - Top(left)
    <3>1. 0 \in 0 .. Len(left) - 2 /\ Len(left) > 1 /\ Len(left) - 1 = 1
          BY <2>1
    <3> QED BY <1>1, <2>2, <3>1, PopFact
  <2>5. PICK a \in TxnIters : iter' = <<a>>
        BY <2>1, <2>2, SubmessageFact
  <2>6. IterInv' /\ Len(iter') = 1
        BY <2>5 DEF IterInv
  <2>7. Typed'
        BY <1>1, <2>2, <2>3, <2>4 DEF Typed
  <2>8. StreamInv'
        BY <1>1, <1>2, <2>2, <2>3, <2>4, <2>6 DEF StreamInv
  <2>9. ReadingInv'
        BY <2>2 DEF ReadingInv
  <2>10. ValuesInv'
        BY <1>1, <2>2, SameValues
  <2> QED BY <2>1, <2>2, <2>3, <2>4, <2>6, <2>7, <2>8, <2>9, <2>10
<1>4. CASE ~InSubmessage
  <2>1. Len(left) = 1 /\ Len(iter) = 1
        BY <1>1, <1>4, SubmessageFact
  <2>2. /\ pc' = "done" /\ pos' = pos + n
        /\ left' = [left EXCEPT ![Len(left)] = @ - n] /\ iter' = iter
        BY <1>4, <2>1 DEF LeaveMessage, AfterMessage
  <2>3. Read(n)
        BY <2>2 DEF Read
  <2>4. /\ IsNest(left') /\ Len(left') = 1 /\ pos' \in Nat
        /\ pos' + Rest(left', 0) = total' /\ Rest(left', 0) = Rest(left, 0) - n
        BY <1>1, <2>1, <2>3, ReadStep
  <2>5. Typed'
        BY <1>1, <2>2, <2>4 DEF Typed
  <2>6. StreamInv'
        BY <2>1, <2>2, <2>4 DEF StreamInv
  <2>7. ReadingInv'
        BY <2>2 DEF ReadingInv
  <2>8. ValuesInv'
        BY <1>1, <2>2, SameValues
  <2>9. IterInv'
        BY <2>2, SameIter
  <2> QED BY <2>1, <2>2, <2>4, <2>5, <2>6, <2>7, <2>8, <2>9
<1> QED BY <1>3, <1>4

LEMMA DecodeTagStep ==
    ASSUME IInv, NEW n \in Lengths, NEW tag, NEW w \in Wires, DecodeTag(n, tag, w)
    PROVE  IInv'
<1> USE DEF IInv
<1> DEFINE found == IterFind(Fieldtable, Top(iter), tag)
<1>1. /\ pc = "loop" /\ Read(n) /\ n \in Nat /\ wire' = w /\ UNCHANGED <<total, shown, meant>>
      /\ iter' = [iter EXCEPT ![Len(iter)] = found] /\ pc' \in {"field", "skip"}
      BY SizesFact DEF DecodeTag
<1>2. pc' = "field" => improper' = IF w = ProperWire(Fieldtable[found.pos]) THEN improper
                                   ELSE improper \cup {"wire"}
      BY DEF DecodeTag
<1>3. improper \subseteq improper' /\ improper' \subseteq {"endTag", "innerEndTag", "wire"}
      BY <1>1, <1>2 DEF DecodeTag, Typed
<1>4. IterInv' /\ Len(iter') = Len(iter) /\ Field' = Fieldtable[found.pos]
  <2> HIDE DEF found
  <2>1. found = IterFind(Fieldtable, Top(iter), tag)
        BY DEF found
  <2> QED BY <1>1, <2>1, FindKeeps
<1>5. /\ IsNest(left') /\ Len(left') = Len(left) /\ pos' \in Nat
      /\ pos' + Rest(left', 0) = total'
      BY <1>1, ReadStep
<1>6. Typed'
      BY <1>1, <1>3, <1>5 DEF Typed
<1>7. StreamInv'
  <2>1. Len(left) = Len(iter)
        BY <1>1 DEF StreamInv
  <2> QED BY <1>1, <1>4, <1>5, <2>1 DEF StreamInv
<1>8. ReadingInv'
  <2> HIDE DEF found
  <2>1. pc' = "field" /\ "wire" \notin improper' => w = ProperWire(Field')
        BY <1>2, <1>4
  <2>2. ProperWire(Field)' = ProperWire(Field')
        BY DEF ProperWire
  <2> QED BY <1>1, <2>1, <2>2 DEF ReadingInv
<1>9. ValuesInv'
      BY <1>1, <1>3, SameValues
<1> QED BY <1>4, <1>6, <1>7, <1>8, <1>9

(* Bytes that are read and not shown.                                      *)
LEMMA SkipStep ==
    ASSUME IInv, pc \in {"skip", "field"}, NEW n \in Nat, Read(n), pc' = "loop",
           UNCHANGED <<total, iter, wire, shown, meant, improper>>
    PROVE  IInv'
<1> USE DEF IInv
<1>1. /\ IsNest(left') /\ Len(left') = Len(left) /\ pos' \in Nat
      /\ pos' + Rest(left', 0) = total'
      BY ReadStep
<1>2. Typed'
      BY <1>1 DEF Typed
<1>3. StreamInv'
      BY <1>1 DEF StreamInv
<1>4. ReadingInv'
      BY DEF ReadingInv
<1>5. ValuesInv'
      BY SameValues
<1>6. IterInv'
      BY SameIter
<1> QED BY <1>2, <1>3, <1>4, <1>5, <1>6

LEMMA SkipReads ==
    ASSUME IInv, NEW n \in Lengths, NEW m \in Sizes, SkipField(n, m)
    PROVE  \E k \in Nat : Read(k)
<1>1. n \in Nat /\ n + m \in Nat /\ FIXED64_LEN \in Nat /\ FIXED32_LEN \in Nat
      BY SizesFact DEF IInv
<1> QED BY <1>1 DEF SkipField

LEMMA EnterStep ==
    ASSUME IInv, NEW n \in Lengths, NEW size \in Sizes, EnterSubmessage(n, size)
    PROVE  IInv' /\ Len(left) = 1
<1> USE DEF IInv
<1>1. /\ pc = "field" /\ pc' = "loop" /\ Field.ltype = "submessage"
      /\ MakeSubstream(n, size) /\ n \in Nat /\ size \in Nat
      /\ iter' = Append(iter, IterBegin(ByteArray_fields))
      /\ UNCHANGED <<total, wire, shown, meant, improper>>
      BY SizesFact DEF EnterSubmessage
<1>2. Len(iter) = 1 /\ Len(iter') = 2
      BY <1>1, SubmessageFact
<1>3. IterInv'
  <2>1. \E a \in TxnIters : iter' = <<a, Inner>> /\ Txn[a.pos].ltype = "submessage"
        BY <1>1, SubmessageFact
  <2> QED BY <2>1 DEF IterInv, Txn, TxnIters
<1>4. Len(left) = 1
      BY <1>1, <1>2 DEF StreamInv
<1>5. /\ IsNest(left') /\ Len(left') = 2 /\ pos' \in Nat /\ pos' + Rest(left', 0) = total'
      BY <1>1, <1>4, OpenStep
<1>6. Typed'
      BY <1>1, <1>5 DEF Typed
<1>7. StreamInv'
      BY <1>1, <1>2, <1>5 DEF StreamInv
<1>8. ReadingInv'
      BY <1>1 DEF ReadingInv
<1>9. ValuesInv'
      BY <1>1, SameValues
<1> QED BY <1>3, <1>4, <1>6, <1>7, <1>8, <1>9

LEMMA NoCallbackStep == ASSUME IInv, NoCallback PROVE IInv'
<1> USE DEF IInv
<1>1. /\ pc = "field" /\ pc' = "skip"
      /\ UNCHANGED <<total, pos, left, iter, wire, shown, meant, improper>>
      BY DEF NoCallback, IsCallback
<1>2. Typed'
      BY <1>1 DEF Typed
<1>3. StreamInv'
      BY <1>1 DEF StreamInv
<1>4. ReadingInv'
      BY <1>1 DEF ReadingInv
<1>5. ValuesInv'
      BY <1>1, SameValues
<1>6. IterInv'
      BY <1>1, SameIter
<1> QED BY <1>2, <1>3, <1>4, <1>5, <1>6

(* The value that is opened is the one that counts from now on.            *)
LEMMA OpenValueStep ==
    ASSUME IInv, NEW n \in Lengths, NEW size \in Sizes, OpenValue(n, size)
    PROVE  IInv' /\ Len(left) \in {1, 2}
<1> USE DEF IInv
<1>1. /\ pc = "field" /\ pc' = "callback" /\ Field.atype = "callback" /\ Callback # 0
      /\ MakeSubstream(n, size) /\ n \in Nat /\ size \in Nat
      /\ meant' = ValueMeant(MeantTag, pos + n, size)
      /\ UNCHANGED <<total, iter, wire, shown, improper>>
      BY SizesFact DEF OpenValue, IsCallback
<1>2. MeantTag = Callback /\ Callback \in Shown
      BY <1>1, CallbackFact
<1>3. Len(left) = Len(iter) /\ Len(left) \in {1, 2}
      BY <1>1, SubmessageFact DEF StreamInv
<1>4. /\ IsNest(left') /\ Len(left') = Len(left) + 1 /\ pos' \in Nat
      /\ pos' = pos + n /\ Top(left') = size
      /\ pos' + Rest(left', 0) = total'
  <2>1. Len(left) < 3
    <3>1. \A m \in {1, 2} : m < 3
          OBVIOUS
    <3> QED BY <1>3, <3>1
  <2>2. total' = total /\ MakeSubstream(n, size) /\ n \in Nat /\ size \in Nat
        BY <1>1
  <2> QED BY <2>1, <2>2, OpenStep
<1>5. Callback' = Callback /\ Field' = Field /\ IterInv'
      BY <1>1, SameIter
<1>6. meant' = [meant EXCEPT ![Callback] = <<pos', size>>]
      BY <1>1, <1>2, <1>4 DEF ValueMeant
<1>7. Typed'
  <2>1. meant' \in [Shown -> {<<>>} \cup (Nat \X Nat)]
    <3>1. meant \in [Shown -> {<<>>} \cup (Nat \X Nat)] /\ <<pos', size>> \in Nat \X Nat
          BY <1>1, <1>4 DEF Typed
    <3> QED BY <1>6, <3>1
  <2> QED BY <1>1, <1>4, <2>1 DEF Typed
<1>8. StreamInv'
      BY <1>1, <1>3, <1>4 DEF StreamInv
<1>9. ReadingInv'
      BY <1>1, <1>5 DEF ReadingInv
<1>10. ValuesInv'
  <2> SUFFICES ASSUME "wire" \notin improper, NEW t \in Shown
               PROVE  IF t = Callback THEN Awaited(t)' ELSE Agrees(t)'
      BY <1>1, <1>5 DEF ValuesInv
  <2>1. CASE t = Callback
    <3>1. meant'[t] = <<pos', Top(left')>> /\ meant'[t] # <<>>
          BY <1>2, <1>4, <1>6, <2>1 DEF Typed
    <3>2. meant'[t][1] = pos' /\ meant'[t][2] = size /\ Top(left') = size
          BY <1>4, <3>1
    <3>3. ValueLen(t) \in Nat /\ size = ValueLen(t) * 0 + size
          BY <1>1, SizesFact
    <3>4. \E k \in Nat : meant'[t][2] = ValueLen(t) * k + Top(left')
          BY <3>2, <3>3
    <3> QED BY <2>1, <3>1, <3>2, <3>4 DEF Awaited, ValueLen
  <2>2. CASE t # Callback
    <3>1. meant'[t] = meant[t] /\ shown'[t] = shown[t]
          BY <1>1, <1>6, <2>2 DEF Typed
    <3>2. Agrees(t)
          BY <1>1 DEF ValuesInv
    <3> QED BY <2>2, <3>1, <3>2, SameAgrees
  <2> QED BY <2>1, <2>2
<1> QED BY <1>3, <1>5, <1>7, <1>8, <1>9, <1>10

(* A callback leaves the last value of its field on the screen.            *)
LEMMA StoreTextStep ==
    ASSUME IInv, NEW seen \in Sizes, StoreText(seen)
    PROVE  IInv' /\ \E n \in Nat : Read(n)
<1> USE DEF IInv
<1> DEFINE n == Top(left)
           c == Callback
<1>1. /\ pc = "callback" /\ c \in {code, data} /\ Read(n) /\ pc' = NextCallback
      /\ shown' = [shown EXCEPT ![c] = IF FitsDisplay(c, n) THEN Text(pos, n, seen) ELSE TooLarge]
      /\ UNCHANGED <<total, iter, wire, meant, improper>>
      BY DEF StoreText, Consumed
<1>2. n \in Nat /\ n <= total /\ total \in Nat /\ pos \in Nat /\ seen \in Nat
      BY BoundFact, SizesFact DEF Typed
<1>3. /\ IsNest(left') /\ Len(left') = Len(left) /\ Top(left') = n - n /\ pos' \in Nat
      /\ pos' + Rest(left', 0) = total'
      BY <1>1, <1>2, ReadStep
<1>4. Top(left') = 0 /\ pc' = "close"
      BY <1>1, <1>2, <1>3 DEF NextCallback
<1> HIDE DEF n
<1>5. /\ Text(pos, n, seen) \in [from : Nat, size : -1 .. total, seen : Nat]
      /\ TooLarge \in [from : Nat, size : -1 .. total, seen : Nat]
      BY <1>2 DEF Text, TooLarge
<1>6. shown' \in [Shown -> [from : Nat, size : -1 .. total, seen : Nat]]
  <2>1. shown \in [Shown -> [from : Nat, size : -1 .. total, seen : Nat]]
        BY DEF Typed
  <2> DEFINE R == [from : Nat, size : -1 .. total, seen : Nat]
  <2> HIDE DEF R
  <2>2. (IF FitsDisplay(c, n) THEN Text(pos, n, seen) ELSE TooLarge) \in R
        BY <1>5 DEF R
  <2>3. shown \in [Shown -> R]
        BY <2>1 DEF R
  <2>4. shown' \in [Shown -> R]
        BY <1>1, <2>2, <2>3
  <2> QED BY <2>4 DEF R
<1>7. Typed'
      BY <1>1, <1>3, <1>4, <1>6 DEF Typed
<1>8. StreamInv'
      BY <1>1, <1>3, <1>4 DEF StreamInv
<1>9. ReadingInv'
      BY <1>4 DEF ReadingInv
<1>10. IterInv'
      BY <1>1, SameIter
<1>11. ValuesInv'
  <2> SUFFICES ASSUME "wire" \notin improper, NEW t \in Shown
               PROVE  Agrees(t)'
      BY <1>1, <1>4 DEF ValuesInv
  <2>1. CASE t = c
    <3>1. Awaited(t)
          BY <1>1, <2>1 DEF ValuesInv
    <3>2. meant[t] = <<pos, n>> /\ meant'[t] = <<pos, n>> /\ t \in {code, data}
          BY <1>1, <2>1, <3>1 DEF Awaited, n
    <3>3. meant'[t] # <<>> /\ meant'[t][1] = pos /\ meant'[t][2] = n
          BY <3>2
    <3>4. shown'[t] = IF FitsDisplay(t, n) THEN Text(pos, n, seen) ELSE TooLarge
          BY <1>1, <2>1 DEF Typed
    <3>5. FitsDisplay(t, n) => shown'[t].seen = seen
          BY <3>4 DEF Text
    <3> QED BY <3>2, <3>3, <3>4, <3>5 DEF Agrees, FitsDisplay
  <2>2. CASE t # c
    <3>1. meant'[t] = meant[t] /\ shown'[t] = shown[t]
          BY <1>1, <2>2 DEF Typed
    <3>2. Agrees(t)
          BY <1>1, <2>2 DEF ValuesInv
    <3> QED BY <3>1, <3>2, SameAgrees
  <2> QED BY <2>1, <2>2
<1> QED BY <1>1, <1>2, <1>7, <1>8, <1>9, <1>10, <1>11

LEMMA StoreValueStep ==
    ASSUME IInv, StoreValue
    PROVE  IInv' /\ pc' # "done" /\ \E n \in Nat : Read(n)
<1> USE DEF IInv
<1> DEFINE c == Callback
           n == ValueLen(c)
<1>1. /\ pc = "callback" /\ c \in {toaddr, amount, gasprice} /\ Read(n) /\ pc' = NextCallback
      /\ shown' = [shown EXCEPT ![c] = Text(pos, n, n)]
      /\ UNCHANGED <<total, iter, wire, meant, improper>>
      BY DEF StoreValue
<1>2. n \in Nat /\ total \in Nat /\ pos \in Nat /\ Top(left) \in Nat /\ Top(left) <= total
      BY SizesFact, BoundFact DEF Typed
<1> HIDE DEF n
<1>3. /\ IsNest(left') /\ Len(left') = Len(left) /\ Top(left') = Top(left) - n
      /\ n <= Top(left) /\ pos' = pos + n /\ pos' \in Nat
      /\ pos' + Rest(left', 0) = total'
      BY <1>1, <1>2, ReadStep
<1>4. pc' = IF Top(left') = 0 THEN "close" ELSE "callback"
      BY <1>1 DEF NextCallback
<1>5. shown' \in [Shown -> [from : Nat, size : -1 .. total, seen : Nat]]
  <2> DEFINE R == [from : Nat, size : -1 .. total, seen : Nat]
  <2>1. shown \in [Shown -> R]
        BY DEF Typed
  <2>2. Text(pos, n, n) \in R
        BY <1>2, <1>3 DEF Text
  <2> HIDE DEF R
  <2>3. shown' \in [Shown -> R]
        BY <1>1, <2>1, <2>2
  <2> QED BY <2>3 DEF R
<1>6. Typed'
      BY <1>1, <1>3, <1>4, <1>5 DEF Typed
<1>7. StreamInv'
      BY <1>1, <1>3, <1>4 DEF StreamInv
<1>8. Callback' = Callback /\ Field' = Field /\ IterInv'
      BY <1>1, SameIter
<1>9. ReadingInv'
      BY <1>1, <1>4, <1>8 DEF ReadingInv
<1>10. ValuesInv'
  <2> SUFFICES ASSUME "wire" \notin improper, NEW t \in Shown
               PROVE  IF pc' = "callback" /\ t = c THEN Awaited(t)' ELSE Agrees(t)'
      BY <1>1, <1>4, <1>8 DEF ValuesInv
  <2>1. CASE t = c
    <3>1. Awaited(t) /\ t \notin {code, data}
          BY <1>1, <2>1 DEF ValuesInv, toaddr, amount, gasprice, code, data
    <3>2. meant[t] # <<>> /\ meant'[t] = meant[t]
          BY <1>1, <3>1 DEF Awaited
    <3>3. /\ meant[t] \in Nat \X Nat /\ ValueLen(t) = n
          /\ meant[t][1] \in Nat /\ meant[t][2] \in Nat
          /\ meant[t][1] + meant[t][2] = pos + Top(left)
          BY <1>1, <2>1, <3>1, <3>2 DEF Awaited, Typed, n
    <3>4. PICK k \in Nat : meant[t][2] = n * k + Top(left)
          BY <3>1, <3>3 DEF Awaited
    <3>5. k + 1 \in Nat \ {0} /\ n * (k + 1) = n * k + n /\ n * k \in Nat
          BY <1>2
    <3>6. /\ meant'[t][1] + meant'[t][2] = pos' + Top(left')
          /\ meant'[t][2] = n * (k + 1) + Top(left')
      <4>1. Top(left') + n = Top(left) /\ Top(left') \in Int
            BY <1>2, <1>3
      <4>2. meant[t][1] + meant[t][2] = pos' + Top(left')
            BY <1>2, <1>3, <3>3, <4>1
      <4>3. meant[t][2] = n * (k + 1) + Top(left')
            BY <1>2, <3>4, <3>5, <4>1
      <4> QED BY <3>2, <4>2, <4>3
    <3>7. shown'[t] = Text(pos, n, n)
          BY <1>1, <2>1 DEF Typed
    <3>8. CASE pc' = "callback"
      <4>1. \E m \in Nat : meant'[t][2] = n * m + Top(left')
            BY <3>5, <3>6
      <4> QED BY <2>1, <3>1, <3>2, <3>3, <3>6, <3>8, <4>1 DEF Awaited, ValueLen
    <3>9. CASE pc' # "callback"
      <4>1. Top(left') = 0
            BY <1>4, <3>9
      <4>2. meant'[t][1] + meant'[t][2] - n = pos
        <5>1. pos' = pos + n /\ meant'[t][1] + meant'[t][2] = pos' + Top(left')
              BY <1>3, <3>6
        <5>2. meant'[t][1] + meant'[t][2] = pos + n
              BY <1>2, <4>1, <5>1
        <5>3. meant'[t][1] \in Nat /\ meant'[t][2] \in Nat
              BY <3>2, <3>3
        <5>4. \A x, y \in Nat : x + y = pos + n => x + y - n = pos
              BY <1>2
        <5> QED BY <5>2, <5>3, <5>4
      <4>3. \E m \in Nat \ {0} : meant'[t][2] = n * m
        <5>1. meant'[t][2] = n * (k + 1)
              BY <1>2, <3>5, <3>6, <4>1
        <5> QED BY <3>5, <5>1
      <4> QED BY <2>1, <3>1, <3>2, <3>3, <3>7, <3>9, <4>2, <4>3 DEF Agrees, ValueLen
    <3> QED BY <3>8, <3>9
  <2>2. CASE t # c
    <3>1. meant'[t] = meant[t] /\ shown'[t] = shown[t]
          BY <1>1, <2>2 DEF Typed
    <3>2. Agrees(t)
          BY <1>1, <2>2 DEF ValuesInv
    <3> QED BY <2>2, <3>1, <3>2, SameAgrees
  <2> QED BY <2>1, <2>2
<1> QED BY <1>1, <1>2, <1>4, <1>6, <1>7, <1>8, <1>9, <1>10

LEMMA CloseValueStep ==
    ASSUME IInv, CloseValue
    PROVE  IInv' /\ Len(left) \in {2, 3} /\ Top(left) = 0
<1> USE DEF IInv
<1>1. /\ pc = "close" /\ pc' = "loop" /\ left' = Pop(left)
      /\ UNCHANGED <<total, pos, iter, wire, shown, meant, improper>>
      BY DEF CloseValue
<1>2. Len(left) = Len(iter) + 1 /\ Top(left) = 0 /\ pos + Rest(left, 0) = total /\ pos \in Nat
      BY <1>1 DEF StreamInv, Typed
<1>3. Len(iter) = 1 \/ Len(iter) = 2
      BY SubmessageFact
<1>4. Len(left) = 2 \/ Len(left) = 3
  <2>1. CASE Len(iter) = 1
        BY <1>2, <2>1
  <2>2. CASE Len(iter) = 2
        BY <1>2, <2>2
  <2> QED BY <1>3, <2>1, <2>2
<1>5. 0 \in 0 .. Len(left) - 2 /\ Len(left) > 1
      BY <1>4
<1>6. IsNest(left) /\ Rest(left, 0) \in Nat
      BY NestFact DEF Typed
<1>7. /\ IsNest(left') /\ Len(left') = Len(left) - 1
      /\ Rest(left', 0) = Rest(left, 0) - Top(left)
      BY <1>1, <1>5, <1>6, PopFact
<1>8. Len(left') = Len(iter')
      BY <1>1, <1>2, <1>3, <1>7
<1>9. Typed'
      BY <1>1, <1>7 DEF Typed
<1>10. StreamInv'
      BY <1>1, <1>2, <1>6, <1>7, <1>8 DEF StreamInv
<1>11. ReadingInv'
      BY <1>1 DEF ReadingInv
<1>12. ValuesInv'
      BY <1>1, SameValues
<1>13. IterInv'
      BY <1>1, SameIter
<1> QED BY <1>2, <1>4, <1>9, <1>10, <1>11, <1>12, <1>13

(* A value of the wrong wire type: the message departs from the format.    *)
LEMMA RawValueStep ==
    ASSUME IInv, NEW n, NEW seen \in Sizes,
           n \in Lengths \cup {FIXED64_LEN, FIXED32_LEN}, RawValue(n, seen)
    PROVE  IInv' /\ n \in Nat
<1> USE DEF IInv
<1>1. /\ pc = "field" /\ Field.atype = "callback" /\ Callback \in {code, data}
      /\ wire \in {WT_VARINT, WT_64BIT, WT_32BIT} /\ Read(n) /\ pc' = "loop"
      /\ shown' = [shown EXCEPT ![Callback] = Text(pos, n, seen)]
      /\ UNCHANGED <<total, iter, wire, meant, improper>>
      BY DEF RawValue, IsCallback
<1>2. n \in Nat
      BY SizesFact
<1>3. /\ IsNest(left') /\ Len(left') = Len(left) /\ pos' \in Nat
      /\ n <= Top(left) /\ pos' + Rest(left', 0) = total'
      BY <1>1, <1>2, ReadStep
<1>4. "wire" \in improper
      BY <1>1, CallbackFact DEF ReadingInv, code, data, WT_VARINT, WT_64BIT, WT_32BIT, WT_STRING
<1>5. shown' \in [Shown -> [from : Nat, size : -1 .. total, seen : Nat]]
  <2> DEFINE R == [from : Nat, size : -1 .. total, seen : Nat]
  <2>1. shown \in [Shown -> R]
        BY DEF Typed
  <2>2. n <= total /\ total \in Nat /\ pos \in Nat /\ seen \in Nat
        BY <1>2, <1>3, BoundFact, SizesFact DEF Typed
  <2>3. Text(pos, n, seen) \in R
        BY <1>2, <2>2 DEF Text
  <2> HIDE DEF R
  <2>4. shown' \in [Shown -> R]
        BY <1>1, <2>1, <2>3
  <2> QED BY <2>4 DEF R
<1>6. Typed'
      BY <1>1, <1>3, <1>5 DEF Typed
<1>7. StreamInv'
      BY <1>1, <1>3 DEF StreamInv
<1>8. ReadingInv'
      BY <1>1 DEF ReadingInv
<1>9. ValuesInv'
      BY <1>1, <1>4 DEF ValuesInv
<1>10. IterInv'
      BY <1>1, SameIter
<1> QED BY <1>2, <1>6, <1>7, <1>8, <1>9, <1>10

LEMMA FailStep == ASSUME IInv, Fail PROVE IInv'
<1> USE DEF IInv
<1>1. pc' = "failed" /\ UNCHANGED <<total, pos, left, iter, wire, shown, meant, improper>>
      BY DEF Fail
<1>2. Typed'
      BY <1>1 DEF Typed
<1>3. StreamInv'
      BY <1>1 DEF StreamInv
<1>4. ReadingInv'
      BY <1>1 DEF ReadingInv
<1>5. ValuesInv'
      BY <1>1 DEF ValuesInv
<1>6. IterInv'
      BY <1>1, SameIter
<1> QED BY <1>2, <1>3, <1>4, <1>5, <1>6

LEMMA NextIInv == ASSUME IInv, [Next]_vars PROVE IInv'
<1>1. CASE EndOfMessage
  <2>1. pc = "loop" /\ LeaveMessage(0, improper) /\ 0 <= Top(left)
        BY <1>1 DEF EndOfMessage
  <2> QED BY <2>1, LeaveStep DEF IInv, Typed
<1>2. ASSUME NEW n \in Lengths, EndTag(n)
      PROVE  IInv'
  <2> DEFINE reasons == improper \cup {IF InSubmessage THEN "innerEndTag" ELSE "endTag"}
  <2>1. pc = "loop" /\ LeaveMessage(n, reasons) /\ n <= Top(left) /\ n \in Nat
        BY <1>2, SizesFact DEF EndTag, IInv
  <2>2. improper \subseteq reasons /\ reasons \subseteq {"endTag", "innerEndTag", "wire"}
        BY DEF IInv, Typed
  <2> HIDE DEF reasons
  <2> QED BY <2>1, <2>2, LeaveStep
<1>3. ASSUME NEW n \in Lengths, DecodeUvarint(n)
      PROVE  IInv'
      BY <1>3, SizesFact, SkipStep DEF DecodeUvarint, IInv
<1>4. ASSUME NEW n \in Lengths, NEW tag \in TAGS, NEW w \in Wires, DecodeTag(n, tag, w)
      PROVE  IInv'
      BY <1>4, DecodeTagStep
<1>5. ASSUME NEW n \in Lengths, NEW m \in Sizes, SkipField(n, m)
      PROVE  IInv'
  <2>1. PICK k \in Nat : Read(k)
        BY <1>5, SkipReads
  <2>2. /\ pc \in {"skip", "field"} /\ pc' = "loop"
        /\ UNCHANGED <<total, iter, wire, shown, meant, improper>>
        BY <1>5 DEF SkipField
  <2> QED BY <2>1, <2>2, SkipStep
<1>6. ASSUME NEW n \in Lengths, NEW m \in Sizes, EnterSubmessage(n, m)
      PROVE  IInv'
      BY <1>6, EnterStep
<1>7. ASSUME NEW n \in Lengths, NEW m \in Sizes, OpenValue(n, m)
      PROVE  IInv'
      BY <1>7, OpenValueStep
<1>8. CASE NoCallback
      BY <1>8, NoCallbackStep
<1>9. ASSUME NEW seen \in Sizes, StoreText(seen)
      PROVE  IInv'
      BY <1>9, StoreTextStep
<1>10. CASE StoreValue
       BY <1>10, StoreValueStep
<1>11. CASE CloseValue
       BY <1>11, CloseValueStep
<1>12. ASSUME NEW n \in Lengths \cup {FIXED64_LEN, FIXED32_LEN}, NEW seen \in Sizes,
              RawValue(n, seen)
       PROVE  IInv'
       BY <1>12, RawValueStep
<1>13. CASE EndOfStream
       BY <1>13, FailStep DEF EndOfStream
<1>14. CASE Error
       BY <1>14, FailStep DEF Error
<1>15. CASE UNCHANGED vars
  <2>1. UNCHANGED <<pc, total, pos, left, iter, wire, shown, meant, improper>>
        BY <1>15 DEF vars
  <2>2. Field' = Field /\ Callback' = Callback /\ (IterInv => IterInv')
        BY <2>1, SameIter
  <2>3. Typed => Typed'
        BY <2>1 DEF Typed
  <2>4. StreamInv => StreamInv'
        BY <2>1 DEF StreamInv
  <2>5. ReadingInv => ReadingInv'
        BY <2>1, <2>2 DEF ReadingInv
  <2>6. ValuesInv => ValuesInv'
        BY <2>1, <2>2 DEF ValuesInv, Agrees, Awaited
  <2> QED BY <2>2, <2>3, <2>4, <2>5, <2>6 DEF IInv
<1> QED BY <1>1, <1>2, <1>3, <1>4, <1>5, <1>6, <1>7, <1>8, <1>9, <1>10, <1>11, <1>12,
           <1>13, <1>14, <1>15 DEF Next, Step

(* Whatever the host sends, the decoder keeps its streams, iterators and   *)
(* strings in order.                                                       *)
THEOREM InOrder == Spec => []IInv
BY InitIInv, NextIInv, PTL DEF Spec

(* Every variable has its type: no stream of the nest is ever read beyond  *)
(* its end, and no string is longer than the transaction (pb_read and      *)
(* pb_make_string_substream of pb_decode.c).                               *)
THEOREM TypeCorrect == Spec => []TypeOK
<1>1. IInv => TypeOK
  <2> SUFFICES ASSUME IInv PROVE TypeOK
      OBVIOUS
  <2> USE DEF IInv
  <2>1. left \in Seq(Nat) /\ Len(left) \in 1 .. 3
        BY DEF Typed, IsNest
  <2>2. Len(iter) \in 1 .. 2
        BY SubmessageFact
  <2>3. ASSUME NEW t \in Shown
        PROVE  /\ shown[t].size \in -1 .. total /\ shown[t].seen \in Nat
               /\ Len(meant[t]) \in {0, 2}
    <3>1. shown[t] \in [from : Nat, size : -1 .. total, seen : Nat]
          BY DEF Typed
    <3>2. meant[t] = <<>> \/ meant[t] \in Nat \X Nat
          BY DEF Typed
    <3> QED BY <3>1, <3>2
  <2> QED BY <2>1, <2>2, <2>3 DEF Typed, TypeOK
<1> QED BY <1>1, InOrder, PTL

(* In whatever order the fields come, the iterator is at the member and    *)
(* the has_ flag of the field it found: the distances of the table add up  *)
(* to the offsets of the struct, around the table and back                 *)
(* (pb_field_iter_find of pb_common.c).                                    *)
THEOREM IteratorInStep == Spec => []IterInStep
<1>1. IInv => IterInStep
  <2> SUFFICES ASSUME IInv PROVE IterInStep
      OBVIOUS
  <2>1. PICK k \in 1 .. 9 : Outside(k) \/ Inside(k)
        BY IterShape DEF IInv
  <2>2. iter[1] = IterAt(k)
        BY <2>1 DEF Outside, Inside
  <2>3. IterAt(k).pos = k /\ IterAt(k).pData = TxnOffsets[k].start
        /\ IterAt(k).pSize = TxnOffsets[k].start + Txn[k].sizeOffset
        BY DEF IterAt
  <2> QED BY <2>2, <2>3, FieldsFact DEF IterInStep
<1> QED BY <1>1, InOrder, PTL

(* The screen of an accepted transaction of the right format, in every     *)
(* order of its fields and however often they occur: the end of the last   *)
(* address and amounts, whose lengths are multiples of what is shown, and  *)
(* the last code and data, whole if they fit, on a page unless they hold a *)
(* '\0' (the callbacks of signTxn.c under decode_callback_field of         *)
(* pb_decode.c).                                                           *)
THEOREM ScreenIsMeant == Spec => []ShownIsMeant
<1>1. IInv => ShownIsMeant
  <2> SUFFICES ASSUME IInv, pc = "done", improper = {} PROVE ShownIsMeant
      BY DEF ShownIsMeant
  <2>1. \A t \in Shown : Agrees(t)
        BY DEF IInv, ValuesInv
  <2> DEFINE from(t) == meant[t][1]
             size(t) == meant[t][2]
             len(t) == ValueLen(t)
             fits(t) == size(t) < IF t = code THEN TXN_DISP_CODE_MAX_LEN ELSE TXN_DISP_DATA_MAX_LEN
  <2>2. ASSUME NEW t \in {toaddr, amount, gasprice}, meant[t] # <<>>
        PROVE  /\ size(t) > 0 /\ size(t) % len(t) = 0
               /\ shown[t] = Text(from(t) + size(t) - len(t), len(t), len(t))
    <3>1. t \in Shown /\ t \notin {code, data}
          BY DEF Shown, toaddr, amount, gasprice, code, data
    <3>2. /\ \E k \in Nat \ {0} : size(t) = len(t) * k
          /\ shown[t] = Text(from(t) + size(t) - len(t), len(t), len(t))
          BY <2>1, <2>2, <3>1 DEF Agrees
    <3>3. PICK k \in Nat \ {0} : size(t) = len(t) * k
          BY <3>2
    <3>4. len(t) \in Nat \ {0}
          BY SizesFact DEF IInv
    <3> HIDE DEF size, len
    <3>5. size(t) > 0
          BY <3>3, <3>4
    <3>6. 0 \in 0 .. len(t) - 1 /\ k \in Int /\ size(t) = len(t) * k + 0
          BY <3>3, <3>4
    <3>7. size(t) % len(t) = 0
          BY <3>4, <3>6, ModUnique
    <3> QED BY <3>2, <3>5, <3>7
  <2>3. ASSUME NEW t \in {code, data}, meant[t] # <<>>
        PROVE  /\ shown[t] = IF fits(t) THEN Text(from(t), size(t), shown[t].seen) ELSE TooLarge
               /\ size(t) > 0 /\ (fits(t) => shown[t].seen = size(t)) => t \in Pages
    <3>1. t \in Shown /\ Agrees(t)
          BY <2>1 DEF Shown
    <3>2. size(t) \in Nat
          BY <2>3, <3>1 DEF IInv, Typed
    <3>3. FitsDisplay(t, size(t)) <=> fits(t)
          BY <3>2, DecodeAssumption DEF FitsDisplay, DecodeAssumption
    <3>4. shown[t] = IF fits(t) THEN Text(from(t), size(t), shown[t].seen) ELSE TooLarge
          BY <2>3, <3>1, <3>3 DEF Agrees
    <3>5. ASSUME size(t) > 0, fits(t) => shown[t].seen = size(t)
          PROVE  t \in Pages
      <4>1. TooLarge.seen # 0
            BY DEF TooLarge
      <4>2. shown[t].seen # 0
            BY <3>2, <3>4, <3>5, <4>1
      <4> QED BY <4>2 DEF Pages
    <3> QED BY <3>4, <3>5
  <2>4. ASSUME NEW t \in Shown, meant[t] = <<>> PROVE shown[t] = Empty
        BY <2>1, <2>4 DEF Agrees
  <2>5. {toaddr, amount, gasprice} \subseteq Shown /\ {code, data} \subseteq Shown
        BY DEF Shown
  <2> HIDE DEF from, size, len, fits
  <2> QED BY <2>2, <2>3, <2>4, <2>5 DEF ShownIsMeant, from, size, len, fits
<1> QED BY <1>1, InOrder, PTL

-----------------------------------------------------------------------------
(* The decoder takes its input                                             *)

Reading == pc \in {"loop", "skip", "field", "callback", "close"}

(* Where the streams end, when the next byte is at p.                      *)
EndsAt(p, s) == [l \in 0 .. 2 |-> IF l < Len(s) THEN p + Rest(s, l) ELSE 0]

LEMMA LevelsFact ==
    ASSUME NEW s, IsNest(s), NEW l \in 0 .. 2
    PROVE  l <= Len(s) - 1 <=> l < Len(s)
<1>1. Len(s) \in {1, 2, 3}
      BY NestFact
<1> QED BY <1>1

LEMMA EndsNow ==
    ASSUME IsNest(left), pc # "failed"
    PROVE  Ends = EndsAt(pos, left)
BY LevelsFact DEF Ends, EndsAt, Innermost, Unread, Rest

LEMMA EndsNext ==
    ASSUME IsNest(left'), pc' # "failed"
    PROVE  Ends' = EndsAt(pos', left')
BY LevelsFact DEF Ends, EndsAt, Innermost, Unread, Rest

(* The input that the decoder sees, as long as there was no error.         *)
LEMMA InputFact ==
    ASSUME IInv, pc # "failed"
    PROVE  /\ Status = IF pc = "done" THEN "accepted" ELSE "reading"
           /\ NextByte = pos /\ Innermost = Len(left) - 1 /\ Innermost \in 0 .. 2
           /\ Ends = [l \in 0 .. 2 |-> IF l < Len(left) THEN pos + Rest(left, l) ELSE 0]
           /\ Ends[Innermost] = pos + Top(left)
           /\ Input!Reads = 0 .. Top(left)
<1>1. IsNest(left) /\ pos \in Nat
      BY DEF IInv, Typed
<1>2. Len(left) \in {1, 2, 3} /\ Top(left) \in Nat
      BY <1>1, NestFact
<1>3. NextByte = pos /\ Innermost = Len(left) - 1 /\ Innermost \in 0 .. 2
      BY <1>2 DEF NextByte, Innermost
<1>4. Ends = [l \in 0 .. 2 |-> IF l < Len(left) THEN pos + Rest(left, l) ELSE 0]
      BY <1>1, EndsNow DEF EndsAt
<1>5. Rest(left, Len(left) - 1) = Top(left)
  <2>1. CASE Len(left) = 1
        BY <1>1, <2>1, RestFact DEF Top
  <2>2. CASE Len(left) = 2
        BY <1>1, <2>2, RestFact DEF Top
  <2>3. CASE Len(left) = 3
        BY <1>1, <2>3, RestFact DEF Top
  <2> QED BY <1>2, <2>1, <2>2, <2>3
<1>6. Ends[Innermost] = pos + Top(left)
  <2>1. Len(left) - 1 \in 0 .. 2 /\ Len(left) - 1 < Len(left)
        BY <1>2
  <2>2. Ends[Len(left) - 1] = pos + Rest(left, Len(left) - 1)
        BY <1>4, <2>1
  <2> QED BY <1>3, <1>5, <2>2
<1>7. Input!Reads = 0 .. Top(left)
      BY <1>1, <1>2, <1>3, <1>6 DEF Input!Reads
<1> QED BY <1>3, <1>4, <1>6, <1>7 DEF Status

LEMMA UpdateFact ==
    ASSUME NEW D, NEW f, NEW g, f = [l \in D |-> f[l]], g = [l \in D |-> g[l]],
           NEW d, NEW e, \A l \in D : g[l] = IF l = d THEN e ELSE f[l]
    PROVE  g = [f EXCEPT ![d] = e]
OBVIOUS

(* A read takes the next bytes.                                            *)
LEMMA TakeStep ==
    ASSUME IInv, IInv', NEW n \in Nat, Read(n), total' = total, Reading, Reading'
    PROVE  \E k \in Input!Reads : Input!Take(k)
<1>1. Typed /\ StreamInv /\ pc # "failed" /\ pc' # "failed" /\ pc # "done" /\ pc' # "done"
      BY DEF IInv, Reading
<1>2. /\ Len(left') = Len(left) /\ n <= Top(left) /\ pos' = pos + n
      /\ \A l \in 0 .. Len(left) - 1 : Rest(left', l) = Rest(left, l) - n
      BY <1>1, ReadStep
<1>3. /\ IsNest(left) /\ pos \in Nat
      BY <1>1 DEF Typed
<1>4. \A l \in 0 .. Len(left) - 1 : Rest(left, l) \in Nat
      BY <1>3, RestFact
<1>5. Len(left) \in {1, 2, 3} /\ Top(left) \in Nat
      BY <1>3, NestFact
<1>6. Ends = [l \in 0 .. 2 |-> IF l < Len(left) THEN pos + Rest(left, l) ELSE 0]
      BY <1>1, InputFact
<1>7. Ends' = [l \in 0 .. 2 |-> IF l < Len(left') THEN pos' + Rest(left', l) ELSE 0]
      BY <1>1, EndsNext DEF EndsAt, IInv, Typed
<1>8. Ends' = Ends
  <2>1. ASSUME NEW l \in 0 .. 2, l < Len(left)
        PROVE  pos' + Rest(left', l) = pos + Rest(left, l)
    <3>1. l \in 0 .. Len(left) - 1
          BY <1>5, <2>1
    <3>2. Rest(left', l) = Rest(left, l) - n /\ Rest(left, l) \in Nat
          BY <1>2, <1>4, <3>1
    <3> QED BY <1>2, <1>3, <3>2
  <2> QED BY <1>2, <1>6, <1>7, <2>1
<1>9. /\ Status = "reading" /\ Status' = "reading" /\ NextByte = pos /\ NextByte' = pos'
      /\ Innermost' = Innermost /\ n \in Input!Reads
      BY <1>1, <1>2, <1>5, InputFact DEF Status, NextByte, Innermost
<1>10. Input!Take(n)
       BY <1>2, <1>8, <1>9 DEF Input!Take, Input!Becomes
<1> QED BY <1>9, <1>10

(* The length of a substream opens a stream.                               *)
LEMMA OpenInput ==
    ASSUME IInv, IInv', NEW n \in Nat, NEW size \in Nat, MakeSubstream(n, size),
           Len(left) < 3, total' = total, Reading, Reading'
    PROVE  \E k, m \in Input!Reads : Input!Open(k, m)
<1>1. Typed /\ StreamInv /\ pc # "failed" /\ pc' # "failed" /\ pc # "done" /\ pc' # "done"
      BY DEF IInv, Reading
<1>2. /\ Len(left') = Len(left) + 1 /\ n + size <= Top(left) /\ pos' = pos + n
      /\ Rest(left', Len(left)) = size
      /\ \A l \in 0 .. Len(left) - 1 : Rest(left', l) = Rest(left, l) - n
      BY <1>1, OpenStep
<1>3. /\ IsNest(left) /\ pos \in Nat
      BY <1>1 DEF Typed
<1>4. \A l \in 0 .. Len(left) - 1 : Rest(left, l) \in Nat
      BY <1>3, RestFact
<1>5. Len(left) \in {1, 2} /\ Top(left) \in Nat
  <2>1. Len(left) \in {1, 2, 3} /\ Top(left) \in Nat
        BY <1>3, NestFact
  <2> QED BY <2>1
<1>6. Ends = [l \in 0 .. 2 |-> IF l < Len(left) THEN pos + Rest(left, l) ELSE 0]
      BY <1>1, InputFact
<1>7. Ends' = [l \in 0 .. 2 |-> IF l < Len(left') THEN pos' + Rest(left', l) ELSE 0]
      BY <1>1, EndsNext DEF EndsAt, IInv, Typed
<1>8. Ends' = [Ends EXCEPT ![Len(left)] = pos + n + size]
  <2>1. ASSUME NEW l \in 0 .. 2
        PROVE  Ends'[l] = IF l = Len(left) THEN pos + n + size ELSE Ends[l]
    <3>1. CASE l < Len(left)
      <4>1. l \in 0 .. Len(left) - 1 /\ l < Len(left) + 1 /\ l # Len(left)
            BY <1>5, <3>1
      <4>2. Rest(left', l) = Rest(left, l) - n /\ Rest(left, l) \in Nat
            BY <1>2, <1>4, <4>1
      <4>3. Ends'[l] = pos' + Rest(left', l) /\ Ends[l] = pos + Rest(left, l)
            BY <1>2, <1>6, <1>7, <3>1, <4>1
      <4> QED BY <1>2, <1>3, <4>1, <4>2, <4>3
    <3>2. CASE l = Len(left)
      <4>1. l < Len(left')
            BY <1>2, <1>5, <3>2
      <4>2. Ends'[l] = pos' + Rest(left', l)
            BY <1>7, <4>1
      <4> QED BY <1>2, <3>2, <4>2
    <3>3. CASE l > Len(left)
      <4>1. ~(l < Len(left)) /\ ~(l < Len(left) + 1) /\ l # Len(left)
            BY <1>5, <3>3
      <4>2. Ends'[l] = 0 /\ Ends[l] = 0
            BY <1>2, <1>6, <1>7, <4>1
      <4> QED BY <4>1, <4>2
    <3>4. l < Len(left) \/ l = Len(left) \/ l > Len(left)
          BY <1>5
    <3> QED BY <3>1, <3>2, <3>3, <3>4
  <2>2. Ends = [l \in 0 .. 2 |-> Ends[l]] /\ Ends' = [l \in 0 .. 2 |-> Ends'[l]]
        BY DEF Ends
  <2> QED BY <2>1, <2>2, UpdateFact, ZenonT(60)
<1>9. /\ Status = "reading" /\ Status' = "reading" /\ NextByte = pos /\ NextByte' = pos'
      /\ Innermost = Len(left) - 1 /\ Innermost' = Len(left') - 1
      /\ Input!Reads = 0 .. Top(left)
      BY <1>1, InputFact DEF Status, NextByte, Innermost
<1>10. /\ Innermost' = Innermost + 1 /\ Innermost + 1 = Len(left) /\ Innermost < 2
       /\ n \in Input!Reads /\ size \in Input!Reads /\ n + size \in Input!Reads
       BY <1>2, <1>5, <1>9
<1>11. Input!Open(n, size)
       BY <1>2, <1>8, <1>9, <1>10 DEF Input!Open, Input!Becomes
<1> QED BY <1>10, <1>11

(* What closes a stream goes on where it ends.                             *)
LEMMA CloseInput ==
    ASSUME IInv, IInv', Len(left) > 1, Len(left') = Len(left) - 1, pos' = pos + Top(left),
           \A l \in 0 .. Len(left) - 2 : Rest(left', l) = Rest(left, l) - Top(left),
           Reading, Reading'
    PROVE  Input!Close
<1>1. Typed /\ StreamInv /\ pc # "failed" /\ pc' # "failed" /\ pc # "done" /\ pc' # "done"
      BY DEF IInv, Reading
<1>2. /\ IsNest(left) /\ pos \in Nat
      BY <1>1 DEF Typed
<1>3. \A l \in 0 .. Len(left) - 1 : Rest(left, l) \in Nat
      BY <1>2, RestFact
<1>4. Len(left) \in {2, 3} /\ Top(left) \in Nat
  <2>1. Len(left) \in {1, 2, 3} /\ Top(left) \in Nat
        BY <1>2, NestFact
  <2> QED BY <2>1
<1>5. Ends = [l \in 0 .. 2 |-> IF l < Len(left) THEN pos + Rest(left, l) ELSE 0]
      BY <1>1, InputFact
<1>6. Ends' = [l \in 0 .. 2 |-> IF l < Len(left') THEN pos' + Rest(left', l) ELSE 0]
      BY <1>1, EndsNext DEF EndsAt, IInv, Typed
<1>7. Ends' = [Ends EXCEPT ![Len(left) - 1] = 0]
  <2>1. ASSUME NEW l \in 0 .. 2
        PROVE  Ends'[l] = IF l = Len(left) - 1 THEN 0 ELSE Ends[l]
    <3>1. CASE l < Len(left) - 1
      <4>1. l \in 0 .. Len(left) - 1 /\ l \in 0 .. Len(left) - 2 /\ l # Len(left) - 1 /\ l < Len(left)
            BY <1>4, <3>1
      <4>2. Rest(left', l) = Rest(left, l) - Top(left) /\ Rest(left, l) \in Nat
            BY <1>3, <4>1
      <4>3. Ends'[l] = pos' + Rest(left', l) /\ Ends[l] = pos + Rest(left, l)
            BY <1>5, <1>6, <3>1, <4>1
      <4> QED BY <1>2, <1>4, <4>1, <4>2, <4>3
    <3>2. CASE l = Len(left) - 1
      <4>1. ~(l < Len(left'))
            BY <1>4, <3>2
      <4> QED BY <1>6, <3>2, <4>1
    <3>3. CASE l > Len(left) - 1
      <4>1. ~(l < Len(left)) /\ ~(l < Len(left')) /\ l # Len(left) - 1
            BY <1>4, <3>3
      <4>2. Ends'[l] = 0 /\ Ends[l] = 0
            BY <1>5, <1>6, <4>1
      <4> QED BY <4>1, <4>2
    <3> QED BY <1>4, <3>1, <3>2, <3>3
  <2>2. Ends = [l \in 0 .. 2 |-> Ends[l]] /\ Ends' = [l \in 0 .. 2 |-> Ends'[l]]
        BY DEF Ends
  <2> QED BY <2>1, <2>2, UpdateFact
<1>8. /\ Status = "reading" /\ Status' = "reading" /\ NextByte' = pos'
      /\ Innermost = Len(left) - 1 /\ Innermost' = Len(left') - 1
      /\ Ends[Innermost] = pos + Top(left)
      BY <1>1, InputFact DEF Status, NextByte, Innermost
<1>9. Innermost' = Innermost - 1 /\ Innermost > 0
      BY <1>4, <1>8
<1> QED BY <1>7, <1>8, <1>9 DEF Input!Close, Input!Becomes

(* An error abandons the transaction.                                      *)
LEMMA FailInput == ASSUME Fail PROVE Input!Abandon
<1>1. pc' = "failed"
      BY DEF Fail
<1>2. Ends' = [l \in 0 .. 2 |-> 0]
      BY <1>1 DEF Ends
<1> QED BY <1>1, <1>2 DEF Input!Abandon, Input!Becomes, Input!NoStream, Input!Levels,
           Status, NextByte, Innermost

(* The end of the message is the end of a submessage, or the transaction   *)
(* is accepted.                                                            *)
LEMMA LeaveInput ==
    ASSUME IInv, pc = "loop", NEW n \in Nat, n <= Top(left), NEW reasons,
           improper \subseteq reasons, reasons \subseteq {"endTag", "innerEndTag", "wire"},
           LeaveMessage(n, reasons)
    PROVE  Input!Next
<1>1. IInv' /\ Len(left') = 1
      BY LeaveStep
<1>2. CASE Len(left) = 2 /\ pc' = "loop" /\ pos' = pos + Top(left)
           /\ Rest(left', 0) = Rest(left, 0) - Top(left)
  <2>1. Len(left) > 1 /\ Len(left') = Len(left) - 1
        BY <1>1, <1>2
  <2>2. \A l \in 0 .. Len(left) - 2 : Rest(left', l) = Rest(left, l) - Top(left)
    <3>1. \A l \in 0 .. Len(left) - 2 : l = 0
          BY <1>2
    <3> QED BY <1>2, <3>1
  <2>3. Reading /\ Reading'
        BY <1>2 DEF Reading
  <2>4. Input!Close
        BY <1>1, <1>2, <2>1, <2>2, <2>3, CloseInput
  <2> QED BY <2>4 DEF Input!Next
<1>3. CASE Len(left) = 1 /\ pc' = "done" /\ pos' = pos + n
           /\ Rest(left', 0) = Rest(left, 0) - n
  <2>1. IsNest(left) /\ pos \in Nat
        BY DEF IInv, Typed
  <2>2. Rest(left, 0) \in Nat
        BY <2>1, NestFact
  <2>3. Ends = [l \in 0 .. 2 |-> IF l < Len(left) THEN pos + Rest(left, l) ELSE 0]
        BY InputFact
  <2>4. Ends' = [l \in 0 .. 2 |-> IF l < Len(left') THEN pos' + Rest(left', l) ELSE 0]
        BY <1>1, <1>3, EndsNext DEF EndsAt, IInv, Typed
  <2>5. Ends' = Ends
    <3>1. \A l \in 0 .. 2 : l < 1 <=> l = 0
          OBVIOUS
    <3>2. pos' + Rest(left', 0) = pos + Rest(left, 0)
          BY <1>3, <2>1, <2>2
    <3> QED BY <1>1, <1>3, <2>3, <2>4, <3>1, <3>2
  <2>6. /\ Status = "reading" /\ Status' = "accepted" /\ NextByte = pos /\ NextByte' = pos'
        /\ Innermost = 0 /\ Innermost' = 0 /\ n \in Input!Reads
    <3>1. Input!Reads = 0 .. Top(left) /\ Innermost = Len(left) - 1
          BY InputFact
    <3>2. Innermost' = Len(left') - 1
          BY <1>3 DEF Innermost
    <3>3. Top(left) \in Nat
          BY <2>1, NestFact
    <3> QED BY <1>1, <1>3, <3>1, <3>2, <3>3 DEF Status, NextByte
  <2>7. Input!Accept(n)
        BY <1>3, <2>5, <2>6 DEF Input!Accept, Input!Becomes
  <2> QED BY <2>6, <2>7 DEF Input!Next
<1> QED BY <1>2, <1>3, LeaveStep

LEMMA NextInput == ASSUME IInv, IInv', [Next]_vars PROVE [Input!Next]_Input!input
<1>1. CASE EndOfMessage
  <2>1. pc = "loop" /\ LeaveMessage(0, improper) /\ 0 <= Top(left)
        BY <1>1 DEF EndOfMessage
  <2> QED BY <2>1, LeaveInput DEF IInv, Typed
<1>2. ASSUME NEW n \in Lengths, EndTag(n)
      PROVE  Input!Next
  <2> DEFINE reasons == improper \cup {IF InSubmessage THEN "innerEndTag" ELSE "endTag"}
  <2>1. pc = "loop" /\ LeaveMessage(n, reasons) /\ n <= Top(left) /\ n \in Nat
        BY <1>2, SizesFact DEF EndTag, IInv
  <2>2. improper \subseteq reasons /\ reasons \subseteq {"endTag", "innerEndTag", "wire"}
        BY DEF IInv, Typed
  <2> HIDE DEF reasons
  <2> QED BY <2>1, <2>2, LeaveInput
<1>3. ASSUME NEW n \in Nat, Read(n), total' = total, Reading, Reading'
      PROVE  Input!Next
      BY <1>3, TakeStep DEF Input!Next
<1>4. ASSUME NEW n \in Lengths, DecodeUvarint(n)
      PROVE  Input!Next
  <2>1. Read(n) /\ total' = total /\ Reading /\ Reading' /\ n \in Nat
        BY <1>4, SizesFact DEF DecodeUvarint, Reading, IInv
  <2> QED BY <1>3, <2>1
<1>5. ASSUME NEW n \in Lengths, NEW tag \in TAGS, NEW w \in Wires, DecodeTag(n, tag, w)
      PROVE  Input!Next
  <2>1. Read(n) /\ total' = total /\ Reading /\ Reading' /\ n \in Nat
        BY <1>5, SizesFact DEF DecodeTag, Reading, IInv
  <2> QED BY <1>3, <2>1
<1>6. ASSUME NEW n \in Lengths, NEW m \in Sizes, SkipField(n, m)
      PROVE  Input!Next
  <2>1. PICK k \in Nat : Read(k)
        BY <1>6, SkipReads
  <2>2. total' = total /\ Reading /\ Reading'
        BY <1>6 DEF SkipField, Reading
  <2> QED BY <1>3, <2>1, <2>2
<1>7. ASSUME NEW n \in Lengths, NEW m \in Sizes, EnterSubmessage(n, m) \/ OpenValue(n, m)
      PROVE  Input!Next
  <2>1. /\ MakeSubstream(n, m) /\ total' = total /\ Reading /\ Reading'
        /\ n \in Nat /\ m \in Nat
        BY <1>7, SizesFact DEF EnterSubmessage, OpenValue, IsCallback, Reading, IInv
  <2>2. Len(left) < 3
    <3>1. Len(left) = 1 \/ Len(left) \in {1, 2}
          BY <1>7, EnterStep, OpenValueStep
    <3>2. \A k \in {1, 2} : k < 3
          OBVIOUS
    <3> QED BY <3>1, <3>2
  <2> QED BY <2>1, <2>2, OpenInput DEF Input!Next
<1>8. CASE NoCallback
      BY <1>8 DEF NoCallback, IsCallback, Input!input, Status, NextByte, Innermost, Ends, Unread
<1>9. ASSUME NEW seen \in Sizes, StoreText(seen)
      PROVE  Input!Next
  <2>1. PICK k \in Nat : Read(k)
        BY <1>9, StoreTextStep
  <2>2. total' = total /\ Reading /\ Reading'
        BY <1>9 DEF StoreText, NextCallback, Reading
  <2> QED BY <1>3, <2>1, <2>2
<1>10. CASE StoreValue
  <2>1. PICK k \in Nat : Read(k)
        BY <1>10, StoreValueStep
  <2>2. total' = total /\ Reading /\ Reading'
        BY <1>10 DEF StoreValue, NextCallback, Reading
  <2> QED BY <1>3, <2>1, <2>2
<1>11. CASE CloseValue
  <2>1. left' = Pop(left) /\ pos' = pos /\ Reading /\ Reading'
        BY <1>11 DEF CloseValue, Reading
  <2>2. Len(left) \in {2, 3} /\ Top(left) = 0
        BY <1>11, CloseValueStep
  <2>3. IsNest(left) /\ pos \in Nat /\ Len(left) > 1
    <3>1. \A m \in {2, 3} : m > 1
          OBVIOUS
    <3> QED BY <2>2, <3>1 DEF IInv, Typed
  <2>4. /\ Len(left') = Len(left) - 1
        /\ \A l \in 0 .. Len(left) - 2 : Rest(left', l) = Rest(left, l) - Top(left)
        BY <2>1, <2>3, PopFact
  <2>5. pos' = pos + Top(left)
        BY <2>1, <2>2, <2>3
  <2>6. Input!Close
        BY <2>1, <2>3, <2>4, <2>5, CloseInput
  <2> QED BY <2>6 DEF Input!Next
<1>12. ASSUME NEW n \in Lengths \cup {FIXED64_LEN, FIXED32_LEN}, NEW seen \in Sizes,
              RawValue(n, seen)
       PROVE  Input!Next
  <2>1. Read(n) /\ total' = total /\ Reading /\ Reading' /\ n \in Nat
        BY <1>12, RawValueStep DEF RawValue, IsCallback, Reading
  <2> QED BY <1>3, <2>1
<1>13. CASE EndOfStream
       BY <1>13, FailInput DEF EndOfStream, Input!Next
<1>14. CASE Error
       BY <1>14, FailInput DEF Error, Input!Next
<1>15. CASE UNCHANGED vars
       BY <1>15 DEF vars, Input!input, Status, NextByte, Innermost, Ends, Unread
<1> QED BY <1>1, <1>2, <1>4, <1>5, <1>6, <1>7, <1>8, <1>9, <1>10, <1>11, <1>12,
           <1>13, <1>14, <1>15 DEF Next, Step

(* Whatever the message says, the decoder takes its bytes as TxnInput has  *)
(* them, so that what TxnStream gives is what it takes.                    *)
THEOREM InputIsTaken == Spec => TakesInput
<1>1. Init => Input!Init
  <2> SUFFICES ASSUME Init PROVE Input!Init
      OBVIOUS
  <2>1. /\ pc = "loop" /\ pos = 0 /\ left = <<total>> /\ total \in 0 .. MAX_TXN
        BY DEF Init
  <2>2. IInv
        BY InitIInv
  <2>3. /\ Status = "reading" /\ NextByte = 0 /\ Innermost = 0
        /\ Ends = [l \in 0 .. 2 |-> IF l < Len(left) THEN pos + Rest(left, l) ELSE 0]
        BY <2>1, <2>2, InputFact
  <2>4. Len(left) = 1 /\ Rest(left, 0) = total /\ total \in Nat
        BY <2>1, <2>2, RestFact, BoundFact DEF IInv, StreamInv, Typed
  <2>5. Ends = [[l \in 0 .. 2 |-> 0] EXCEPT ![0] = total]
    <3> DEFINE z == [l \in 0 .. 2 |-> 0]
    <3>1. \A l \in 0 .. 2 : Ends[l] = IF l = 0 THEN total ELSE z[l]
          BY <2>1, <2>3, <2>4
    <3>2. Ends = [l \in 0 .. 2 |-> Ends[l]] /\ z = [l \in 0 .. 2 |-> z[l]]
          BY <2>3
    <3> HIDE DEF z
    <3>3. Ends = [z EXCEPT ![0] = total]
          BY <3>1, <3>2, UpdateFact
    <3> QED BY <3>3 DEF z
  <2>6. Input!At("reading", 0, 0, [Input!NoStream EXCEPT ![0] = total])
        BY <2>3, <2>5 DEF Input!At, Input!NoStream, Input!Levels
  <2> QED BY <2>1, <2>6 DEF Input!Init
<1>2. IInv /\ IInv' /\ [Next]_vars => [Input!Next]_Input!input
      BY NextInput
<1> QED BY <1>1, <1>2, InOrder, PTL DEF Spec, TakesInput, Input!Spec
=============================================================================
