---------------------------- MODULE IndexRecord -----------------------------
(***************************************************************************)
(* CBlockIndex::readBlockIndex and readVarint128 of                        *)
(* src/include/CBlockIndex.h: how an entry of the node's database of       *)
(* blocks is decoded.  BlockIndex begins where this ends, with the fields. *)
(* RecordSpec and the like are named so that both can be extended.         *)
(*                                                                         *)
(* A record is what the node serializes: integers of variable length, some *)
(* of them there only when a status bit is set, then the block header.     *)
(* Each of the six fixed fields of the header is one cell.  The 128 of the *)
(* encoding is Half, the 2^64 of its values WordSize.                      *)
(***************************************************************************)
EXTENDS Integers, Sequences

CONSTANTS
    Half,     \* 128: what a byte of an integer holds
    WordSize, \* 2^64
    Objects   \* what the node may have stored

Fields == <<"mVersionNumber", "mBlockHeight", "mBlockStatus", "mTransactionCount",
            "mFileIndex", "mFileOffset", "mUndoOffset">>

HeaderFields == <<"mBlockVersion", "mHashPrevious", "mHashMerkleRoot", "mTime", "mBits", "mNonce">>

Bytes == 0..(2 * Half - 1)
Values == 0..(WordSize - 1)
Names == {Fields[i] : i \in DOMAIN Fields}

ASSUME RecordAssumption ==
    /\ Half \in Nat \ {0}
    /\ WordSize \in Nat \ {0}
    /\ \A o \in Objects : /\ o.fields \in [Names -> Values]
                           /\ o.header \in Seq(Bytes) /\ Len(o.header) = Len(HeaderFields)

VARIABLES
    object, \* what was stored
    data,   \* as the bytes of the record
    scan,   \* the place of the next byte
    field,  \* the number of the field that is next; behind the last: the header
    value,  \* what readVarint128 has so far
    read,   \* the fields of the CBlockIndex
    header,
    stage   \* reading, read, or aborted by the assert

recordVars == <<object, data, scan, field, value, read, header, stage>>

BLOCK_HAVE_DATA == 8
BLOCK_HAVE_UNDO == 16
HasBit(status, bit) == (status \div bit) % 2 = 1

(* Variant: a record with undo data alone has no file index.               *)
PresentWithData(status, name) ==
    CASE name \in {"mFileIndex", "mFileOffset"} -> HasBit(status, BLOCK_HAVE_DATA)
      [] name = "mUndoOffset"                   -> HasBit(status, BLOCK_HAVE_UNDO)
      [] OTHER                                  -> TRUE

Present(status, name) ==
    CASE name = "mFileIndex"  -> \/ HasBit(status, BLOCK_HAVE_DATA)
                                 \/ HasBit(status, BLOCK_HAVE_UNDO)
      [] name = "mFileOffset" -> HasBit(status, BLOCK_HAVE_DATA)
      [] name = "mUndoOffset" -> HasBit(status, BLOCK_HAVE_UNDO)
      [] OTHER                -> TRUE

(* The node's WriteVarInt: the bytes before the last have their high bit   *)
(* set, and stand for one more than they hold.                             *)
Varint(n) ==
    LET Before[k \in Nat] ==
            IF k < Half THEN <<k + Half>>
                        ELSE Append(Before[k \div Half - 1], (k % Half) + Half)
    IN  IF n < Half THEN <<n>> ELSE Append(Before[n \div Half - 1], n % Half)

(* The node's serialization, as the comment on CBlockIndex quotes it.      *)
Stored(status, name) ==
    CASE name = "mFileIndex"  -> (status \div BLOCK_HAVE_DATA) % 4 # 0
      [] name = "mFileOffset" -> (status \div BLOCK_HAVE_DATA) % 2 = 1
      [] name = "mUndoOffset" -> (status \div BLOCK_HAVE_UNDO) % 2 = 1
      [] OTHER                -> TRUE

Serialized(o) ==
    LET Part(name) == IF Stored(o.fields["mBlockStatus"], name) THEN Varint(o.fields[name])
                                                                ELSE << >>
        To[i \in 0..Len(Fields)] == IF i = 0 THEN << >> ELSE To[i - 1] \o Part(Fields[i])
    IN  To[Len(Fields)] \o o.header

RecordInit == /\ object \in Objects
              /\ data = Serialized(object)
              /\ scan = 0
              /\ field = 1
              /\ value = 0
              /\ read = [name \in Names |-> 0]
              /\ header = << >>
              /\ stage = "reading"

-----------------------------------------------------------------------------
(* A byte behind the record may hold anything.                             *)
BytesAt(place) == IF place < Len(data) THEN {data[place + 1]} ELSE Bytes

Behind == Len(Fields) + 1

WithContinued(byte) == ((value * Half) + (byte % Half) + 1) % WordSize

(* A byte with the high bit: the value is shifted and incremented.         *)
ContinuedByte == /\ stage = "reading" /\ field < Behind
                 /\ \E byte \in BytesAt(scan) :
                       /\ byte >= Half
                       /\ value' = WithContinued(byte)
                 /\ scan' = scan + 1
                 /\ UNCHANGED <<object, data, field, read, header, stage>>

(* The next field that the status bits announce.                           *)
NextField(i) ==
    CHOOSE next \in (i + 1)..Behind :
        /\ next = Behind \/ Present(read["mBlockStatus"], Fields[next])
        /\ \A j \in (i + 1)..(next - 1) : ~Present(read["mBlockStatus"], Fields[j])

LastByte == /\ stage = "reading" /\ field < Behind
            /\ \E byte \in BytesAt(scan) :
                  /\ byte < Half
                  /\ read' = [read EXCEPT ![Fields[field]] = (value * Half + byte) % WordSize]
            /\ scan' = scan + 1
            /\ value' = 0
            /\ field' = NextField(field)
            /\ UNCHANGED <<object, data, header, stage>>

ReadCell == /\ stage = "reading" /\ field = Behind
            /\ Len(header) < Len(HeaderFields)
            /\ \E byte \in BytesAt(scan) : header' = Append(header, byte)
            /\ scan' = scan + 1
            /\ UNCHANGED <<object, data, field, value, read, stage>>

(* assert(size == expectedSize); a release build goes on with what it has. *)
CheckSize == /\ stage = "reading" /\ field = Behind
             /\ Len(header) = Len(HeaderFields)
             /\ stage' \in IF scan = Len(data) THEN {"read"} ELSE {"read", "aborted"}
             /\ UNCHANGED <<object, data, scan, field, value, read, header>>

Step == ContinuedByte \/ LastByte \/ ReadCell \/ CheckSize

Done == stage \in {"read", "aborted"} /\ UNCHANGED recordVars

RecordNext == Step \/ Done

RecordSpec == RecordInit /\ [][RecordNext]_recordVars
-----------------------------------------------------------------------------
(* readBlockIndex gives back what the node stored: an absent field is zero *)
(* and the fields behind it are not mistaken for it, the file and the      *)
(* offset that locate the block are its own, and the assert holds.  The    *)
(* pointer never passes the end of the record, though nothing compares it  *)
(* with the end before the last byte is read.                              *)
RecordExact ==
    /\ stage # "aborted"
    /\ scan <= Len(data)
    /\ stage = "read" =>
          /\ header = object.header
          /\ \A name \in Names :
                read[name] = IF Stored(object.fields["mBlockStatus"], name)
                             THEN object.fields[name] ELSE 0
=============================================================================
