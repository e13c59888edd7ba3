-------------------------- MODULE MCOutputScripts ---------------------------
(***************************************************************************)
(* Scripts for TLC: the forms the parser knows and some near them, each    *)
(* also with one of its parts left out, doubled by another, or replaced.   *)
(***************************************************************************)
EXTENDS OutputScripts

LOCAL INSTANCE SequencesExt

Data(length) == [i \in 1..length |-> 255]
Push(length) == <<length>> \o Data(length)
Hash == Push(20)
Compressed == Push(CompressedLength)
Uncompressed65 == Push(UncompressedLength)

(* A key in which the bytes of a hash script occur.                        *)
Tricky == <<UncompressedLength>> \o HashPrefix \o Data(20) \o HashPostfix \o Data(40)

Ops(ops) == [i \in DOMAIN ops |-> <<ops[i]>>]

Templates ==
    {<< >>,
     <<<<OP_DUP>>, <<OP_HASH160>>, Hash, <<OP_EQUALVERIFY>>, <<OP_CHECKSIG>>>>,
     <<<<OP_HASH160>>, Hash, <<OP_EQUAL>>>>,
     <<Compressed, <<OP_CHECKSIG>>>>,
     <<Uncompressed65, <<OP_CHECKSIG>>>>,
     <<Data(65), <<OP_CHECKSIG>>>>,
     <<<<OP_RETURN>>, Push(38)>>,
     <<Push(32)>>,
     Ops(<<OP_DUP, OP_HASH160, OP_0, OP_EQUALVERIFY, OP_CHECKSIG>>),
     <<<<81>>, Compressed, <<81>>, <<OP_CHECKMULTISIG>>>>,
     <<<<81>>, Compressed, Uncompressed65, <<82>>, <<OP_CHECKMULTISIG>>>>,
     <<<<82>>>> \o [i \in 1..5 |-> Compressed] \o <<<<85>>, <<OP_CHECKMULTISIG>>>>}

Parts == {<<OP_DUP>>, <<OP_RETURN>>, <<OP_0>>, <<82>>, <<OP_CHECKSIG>>, <<OP_CHECKMULTISIG>>,
          <<OP_EQUAL>>, Hash, Compressed, Uncompressed65, Tricky, Data(20), Data(1)}

Edited(parts) ==
    {parts}
    \cup {RemoveAt(parts, i) : i \in DOMAIN parts}
    \cup {InsertAt(parts, i, part) : i \in 1..(Len(parts) + 1), part \in Parts}
    \cup {ReplaceAt(parts, i, part) : i \in DOMAIN parts, part \in Parts}

MCScripts == {FlattenSeq(parts) : parts \in UNION {Edited(parts) : parts \in Templates}}
=============================================================================
