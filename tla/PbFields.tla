------------------------------ MODULE PbFields ------------------------------
(***************************************************************************)
(* The field tables of txn.pb.c and the iterator of pb_common.c that finds *)
(* a field by its tag and its place in the message struct.  A table holds  *)
(* distances only: the place of a member is the sum of those before it.    *)
(***************************************************************************)
EXTENDS Integers, Sequences

Uint(tag, size)  == [tag |-> tag, ltype |-> "uvarint", atype |-> "static", size |-> size, align |-> size]
Bytes(tag)       == [tag |-> tag, ltype |-> "bytes", atype |-> "callback", size |-> 8, align |-> 4]
ByteArray(tag)   == [tag |-> tag, ltype |-> "submessage", atype |-> "static", size |-> 8, align |-> 4]

(* The members of ProtoTransactionCoreInfo: version, nonce, toaddr,        *)
(* senderpubkey, amount, gasprice, gaslimit, code, data.  A callback is    *)
(* two pointers of four bytes, and ByteArray holds nothing else.           *)
TxnMembers == <<Uint(1, 4), Uint(2, 8), Bytes(3), ByteArray(4), ByteArray(5),
                ByteArray(6), Uint(7, 8), Bytes(8), Bytes(9)>>

ByteArrayMembers == <<Bytes(1)>>

(* Static members are optional: a bool says whether they are there.        *)
HasSize(m) == IF m.atype = "static" THEN 1 ELSE 0

AlignUp(n, a) == ((n + a - 1) \div a) * a

(* Where the compiler puts a member after the others, its has_ flag first. *)
StartAfter(end, m) == AlignUp(end + HasSize(m), m.align)

(* Where the first k members end.                                          *)
MemberEnds(members) ==
    LET end[k \in 0 .. Len(members)] ==
            IF k = 0 THEN 0 ELSE StartAfter(end[k - 1], members[k]) + members[k].size
    IN  end

Offsets(members) ==
    [k \in 1 .. Len(members) |->
        [has |-> MemberEnds(members)[k - 1], start |-> StartAfter(MemberEnds(members)[k - 1], members[k])]]

TxnOffsets == Offsets(TxnMembers)

ByteArrayOffsets == Offsets(ByteArrayMembers)

(* PB_FIELD: data_offset is the gap to the end of the field before.        *)
Fields(members, offsets) ==
    LET before(k) == IF k = 1 THEN 0 ELSE offsets[k - 1].start + members[k - 1].size
    IN  [k \in 1 .. Len(members) |->
            [tag |-> members[k].tag, ltype |-> members[k].ltype, atype |-> members[k].atype,
             dataSize |-> members[k].size,
             dataOffset |-> offsets[k].start - before(k),
             sizeOffset |-> IF HasSize(members[k]) = 1
                            THEN offsets[k].has - offsets[k].start ELSE 0]]

ProtoTransactionCoreInfo_fields == Fields(TxnMembers, TxnOffsets)

ByteArray_fields == Fields(ByteArrayMembers, ByteArrayOffsets)

-----------------------------------------------------------------------------
IterBegin(fields) ==
    [pos |-> 1, pData |-> fields[1].dataOffset,
     pSize |-> fields[1].dataOffset + fields[1].sizeOffset]

(* Mutant: the wrap to the first field keeps adding distances.             *)
IterNext_NoRestart(fields, iter) ==
    LET next  == IF iter.pos = Len(fields) THEN 1 ELSE iter.pos + 1
        pData == iter.pData + fields[iter.pos].dataSize + fields[next].dataOffset
    IN  [pos |-> next, pData |-> pData, pSize |-> pData + fields[next].sizeOffset]

IterNext(fields, iter) ==
    IF iter.pos = Len(fields) THEN IterBegin(fields)
    ELSE LET pData == iter.pData + fields[iter.pos].dataSize + fields[iter.pos + 1].dataOffset
         IN  [pos |-> iter.pos + 1, pData |-> pData,
              pSize |-> pData + fields[iter.pos + 1].sizeOffset]

(* pb_field_iter_find: from where the iterator is, once around; back where *)
(* it was if no field has the tag.                                         *)
IterFind(fields, iter, tag) ==
    LET after[k \in 0 .. Len(fields)] ==
            IF k = 0 THEN iter
            ELSE LET it == after[k - 1]
                 IN  IF fields[it.pos].tag = tag THEN it ELSE IterNext(fields, it)
    IN  after[Len(fields)]
=============================================================================
