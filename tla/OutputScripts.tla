--------------------------- MODULE OutputScripts ----------------------------
(***************************************************************************)
(* BlockImpl::readOutput of src/src/BlockChain.cpp: which kind of script   *)
(* an output has, where in it the public keys or hashes lie, how each      *)
(* becomes an address, and whether a warning is raised on the way.         *)
(*                                                                         *)
(* A script is a sequence of bytes; places in it count from 0, as in the   *)
(* code.  An address is the conversion that makes it and the key it is     *)
(* made from.  The warning is the gIsWarning of BlockReader, where a       *)
(* transaction is odd when one of its outputs raises it.                   *)
(***************************************************************************)
EXTENDS Integers, Sequences, FiniteSets

CONSTANTS
    Scripts,           \* the scripts an output may have
    UninitializedBytes \* what a byte that was never written may hold

Bytes == 0..255

ASSUME ScriptAssumption == /\ Scripts \subseteq Seq(Bytes)
                           /\ UninitializedBytes \subseteq Bytes
                           /\ UninitializedBytes # {}

OP_0 == 0
OP_RETURN == 106
OP_DUP == 118
OP_EQUAL == 135
OP_EQUALVERIFY == 136
OP_HASH160 == 169
OP_CHECKSIG == 172
OP_CHECKMULTISIG == 174
OP_1_to_5 == 81..85

CompressedLength == 33
UncompressedLength == 65
MaxMultisig == 5

KeyTypes == {"UNKNOWN", "RIPEMD160", "UNCOMPRESSED_PUBLIC_KEY", "COMPRESSED_PUBLIC_KEY",
             "TRUNCATED_COMPRESSED_KEY", "MULTISIG", "STEALTH", "SCRIPT_HASH"}

VARIABLES
    script,                  \* challengeScript
    pc,                      \* the part of readOutput that is next
    keyType, publicKey,      \* what was found, and where
    multiSigFormat,          \* the indexes of the compressed keys
    scanBegin,               \* the place the scan of a loop has come to
    gIsWarning, gReportTransactionHash,
    addresses

keyVars == <<keyType, publicKey, multiSigFormat>>
warnVars == <<gIsWarning, gReportTransactionHash>>
vars == <<script, pc, keyVars, scanBegin, warnVars, addresses>>

(* A key is a place in the script, or one of the two constant keys.        *)
InScript(place) == [from |-> "script", place |-> place]
DummyKey == [from |-> "gDummyKey", place |-> 1]
ZeroByteKey == [from |-> "gZeroByte", place |-> 1]

(* The constructor of BlockOutput, and no warning from another output.     *)
Init == /\ script \in Scripts
        /\ pc = "uncompressed"
        /\ keyType = "UNKNOWN"
        /\ publicKey = << >>
        /\ multiSigFormat = {}
        /\ scanBegin = 0
        /\ gIsWarning = FALSE
        /\ gReportTransactionHash = FALSE
        /\ addresses = << >>

-----------------------------------------------------------------------------
At(place) == script[place + 1]

(* These bytes are in the script at this place.                            *)
Matches(place, bytes) == \A i \in DOMAIN bytes : At(place + i - 1) = bytes[i]

HashPrefix == <<OP_DUP, OP_HASH160, 20>>
HashPostfix == <<OP_EQUALVERIFY, OP_CHECKSIG>>

EmptyScript == /\ pc = "uncompressed"
               /\ script = << >>
               /\ pc' = "fallback"
               /\ gReportTransactionHash' = TRUE
               /\ UNCHANGED <<script, keyVars, scanBegin, gIsWarning, addresses>>

IsUncompressed == /\ Len(script) = 67
                  /\ At(0) = UncompressedLength
                  /\ At(66) = OP_CHECKSIG

(* This test stands alone: whatever its result, the others follow.         *)
Uncompressed == /\ pc = "uncompressed"
                /\ script # << >>
                /\ pc' = "kind"
                /\ IF IsUncompressed
                   THEN /\ publicKey' = <<InScript(1)>>
                        /\ keyType' = "UNCOMPRESSED_PUBLIC_KEY"
                   ELSE UNCHANGED <<publicKey, keyType>>
                /\ UNCHANGED <<script, multiSigFormat, scanBegin, warnVars, addresses>>

(* The kinds that are told by length and fixed bytes, in the order of the  *)
(* tests.                                                                  *)
Kinds ==
    <<[fits |-> Len(script) = 40 /\ At(0) = OP_RETURN, type |-> "STEALTH", key |-> 1],
      [fits |-> Len(script) = 66 /\ At(65) = OP_CHECKSIG,
       type |-> "UNCOMPRESSED_PUBLIC_KEY", key |-> 0],
      [fits |-> Len(script) = 35 /\ At(34) = OP_CHECKSIG,
       type |-> "COMPRESSED_PUBLIC_KEY", key |-> 1],
      [fits |-> Len(script) = 33 /\ At(0) = 32, type |-> "TRUNCATED_COMPRESSED_KEY", key |-> 1],
      [fits |-> Len(script) = 23 /\ Matches(0, <<OP_HASH160, 20>>) /\ At(22) = OP_EQUAL,
       type |-> "SCRIPT_HASH", key |-> 2],
      [fits |-> Len(script) >= 25 /\ Matches(0, HashPrefix), type |-> "RIPEMD160", key |-> 3]>>

FixedKind == /\ pc = "kind"
             /\ \E k \in DOMAIN Kinds :
                   /\ Kinds[k].fits
                   /\ \A j \in 1..(k - 1) : ~Kinds[j].fits
                   /\ keyType' = Kinds[k].type
                   /\ publicKey' = <<InScript(Kinds[k].key)>>
             /\ pc' = "fallback"
             /\ UNCHANGED <<script, multiSigFormat, scanBegin, warnVars, addresses>>

NoFixedKind == \A k \in DOMAIN Kinds : ~Kinds[k].fits

IsUnusual == /\ Len(script) = 5
             /\ Matches(0, <<OP_DUP, OP_HASH160, OP_0, OP_EQUALVERIFY, OP_CHECKSIG>>)

(* "Unusual but expected output script."                                   *)
UnusualKind == /\ pc = "kind"
               /\ NoFixedKind
               /\ IsUnusual
               /\ pc' = "fallback"
               /\ gIsWarning' = TRUE
               /\ UNCHANGED <<script, keyVars, scanBegin, gReportTransactionHash, addresses>>

LooksMultisig == Len(script) > 25 /\ At(Len(script) - 1) = OP_CHECKMULTISIG

ScanEnd == Len(script) - 2

(* The numbers of signatures and of keys are small.                        *)
ExpectedEnds == At(0) \in {OP_0} \cup OP_1_to_5 /\ At(ScanEnd) \in OP_1_to_5

MultisigKind == /\ pc = "kind"
                /\ NoFixedKind /\ ~IsUnusual /\ LooksMultisig
                /\ pc' = IF ExpectedEnds THEN "multisig" ELSE "multisigEnd"
                /\ scanBegin' = 1
                /\ UNCHANGED <<script, keyVars, warnVars, addresses>>

SearchKind == /\ pc = "kind"
              /\ NoFixedKind /\ ~IsUnusual /\ ~LooksMultisig
              /\ pc' = "search"
              /\ scanBegin' = 0
              /\ UNCHANGED <<script, keyVars, warnVars, addresses>>

-----------------------------------------------------------------------------
(* The keys of a multi-signature script.                                   *)

KeyAhead == Len(publicKey) < MaxMultisig /\ scanBegin < ScanEnd

(* Variant: the scan is moved behind the key before its place is taken.    *)
KeyBehind(length) ==
    /\ KeyAhead
    /\ At(scanBegin) = length
    /\ publicKey' = Append(publicKey, InScript(scanBegin + 1 + length))
    /\ scanBegin' = scanBegin + 1 + length

(* Variant: the number of keys is not looked at.                           *)
AnyNumberOfKeys(length) ==
    /\ scanBegin < ScanEnd
    /\ At(scanBegin) = length
    /\ publicKey' = Append(publicKey, InScript(scanBegin + 1))
    /\ scanBegin' = scanBegin + 1 + length

KeyAt(length) ==
    /\ KeyAhead
    /\ At(scanBegin) = length
    /\ publicKey' = Append(publicKey, InScript(scanBegin + 1))
    /\ scanBegin' = scanBegin + 1 + length

(* Variant: the bit is set when the index is past the key.                 *)
LateBit == /\ pc = "multisig"
           /\ KeyAt(CompressedLength)
           /\ keyType' = "MULTISIG"
           /\ multiSigFormat' = multiSigFormat \cup {Len(publicKey) + 1}
           /\ UNCHANGED <<script, pc, warnVars, addresses>>

CompressedKey == /\ pc = "multisig"
                 /\ KeyAt(CompressedLength)
                 /\ keyType' = "MULTISIG"
                 /\ multiSigFormat' = multiSigFormat \cup {Len(publicKey)}
                 /\ UNCHANGED <<script, pc, warnVars, addresses>>

UncompressedKey == /\ pc = "multisig"
                   /\ KeyAt(UncompressedLength)
                   /\ keyType' = "MULTISIG"
                   /\ UNCHANGED <<script, pc, multiSigFormat, warnVars, addresses>>

KeysEnd == /\ pc = "multisig"
           /\ KeyAhead => At(scanBegin) \notin {CompressedLength, UncompressedLength}
           /\ pc' = "multisigEnd"
           /\ UNCHANGED <<script, keyVars, scanBegin, warnVars, addresses>>

(* "Unable to decipher multi-sig output."                                  *)
MultisigEnd == /\ pc = "multisigEnd"
               /\ pc' = "fallback"
               /\ gIsWarning' = (gIsWarning \/ publicKey = << >>)
               /\ UNCHANGED <<script, keyVars, scanBegin, gReportTransactionHash, addresses>>

-----------------------------------------------------------------------------
(* The search for a hash with the opcodes that belong around it.           *)

SearchAhead == Len(script) > 25 /\ scanBegin < Len(script) - 25

HashAt(place) == Matches(place, HashPrefix) /\ Matches(place + 23, HashPostfix)

(* "Unusual output script."                                                *)
SearchHit == /\ pc = "search"
             /\ SearchAhead
             /\ HashAt(scanBegin)
             /\ publicKey' = <<InScript(scanBegin + 3)>>
             /\ keyType' = "RIPEMD160"
             /\ gIsWarning' = TRUE
             /\ pc' = "fallback"
             /\ UNCHANGED <<script, multiSigFormat, scanBegin, gReportTransactionHash, addresses>>

SearchMiss == /\ pc = "search"
              /\ SearchAhead
              /\ ~HashAt(scanBegin)
              /\ scanBegin' = scanBegin + 1
              /\ UNCHANGED <<script, pc, keyVars, warnVars, addresses>>

SearchEnd == /\ pc = "search"
             /\ ~SearchAhead
             /\ pc' = "fallback"
             /\ UNCHANGED <<script, keyVars, scanBegin, warnVars, addresses>>

-----------------------------------------------------------------------------
(* From the key to the address.                                            *)

KeyFound == /\ pc = "fallback"
            /\ publicKey # << >>
            /\ pc' = "address"
            /\ UNCHANGED <<script, keyVars, scanBegin, warnVars, addresses>>

(* Variant: the dummy key is taken without a warning.                      *)
QuietNoKey == /\ pc = "fallback"
              /\ publicKey = << >>
              /\ publicKey' = <<IF script = << >> THEN ZeroByteKey ELSE DummyKey>>
              /\ keyType' = "RIPEMD160"
              /\ pc' = "address"
              /\ UNCHANGED <<script, multiSigFormat, scanBegin, warnVars, addresses>>

(* "Failed to decode public key in output script."                         *)
NoKey == /\ pc = "fallback"
         /\ publicKey = << >>
         /\ publicKey' = <<IF script = << >> THEN ZeroByteKey ELSE DummyKey>>
         /\ keyType' = "RIPEMD160"
         /\ gReportTransactionHash' = TRUE
         /\ gIsWarning' = TRUE
         /\ pc' = "address"
         /\ UNCHANGED <<script, multiSigFormat, scanBegin, addresses>>

Conversions == {"RIPEMD160ToAddress", "RIPEMD160ToScriptAddress", "PublicKeyToAddress",
                "CompressedPublicKeyToAddress"}

(* How the key with this index, counted from 0, becomes an address.        *)
Conversion(index) ==
    CASE keyType = "SCRIPT_HASH" -> "RIPEMD160ToScriptAddress"
      [] keyType = "UNCOMPRESSED_PUBLIC_KEY" -> "PublicKeyToAddress"
      [] keyType \in {"COMPRESSED_PUBLIC_KEY", "TRUNCATED_COMPRESSED_KEY"} ->
            "CompressedPublicKeyToAddress"
      [] keyType = "MULTISIG" -> IF index \in multiSigFormat THEN "CompressedPublicKeyToAddress"
                                                             ELSE "PublicKeyToAddress"
      [] OTHER -> "RIPEMD160ToAddress"

(* The 32 bytes of a truncated key are copied over the prefix that was set *)
(* for them: the last of the 33 bytes that are converted is uninitialized. *)
LastBytes == IF keyType = "TRUNCATED_COMPRESSED_KEY" THEN UninitializedBytes ELSE {0}

MakeAddresses ==
    /\ pc = "address"
    /\ \E byte \in LastBytes :
          addresses' = [i \in 1..Len(publicKey) |->
                           [conversion |-> Conversion(i - 1), key |-> publicKey[i],
                            lastByte |-> byte]]
    /\ gIsWarning' = (gIsWarning \/ gReportTransactionHash)
    /\ pc' = "done"
    /\ UNCHANGED <<script, keyVars, scanBegin, gReportTransactionHash>>

Done == pc = "done" /\ UNCHANGED vars

Classify == EmptyScript \/ Uncompressed \/ FixedKind \/ UnusualKind \/ MultisigKind \/ SearchKind

Multisig == CompressedKey \/ UncompressedKey \/ KeysEnd \/ MultisigEnd

Search == SearchHit \/ SearchMiss \/ SearchEnd

Address == KeyFound \/ NoKey \/ MakeAddresses

Next == Classify \/ Multisig \/ Search \/ Address \/ Done

(* One thread reads an output to its end.                                  *)
Spec == Init /\ [][Next]_vars

-----------------------------------------------------------------------------
Keys == [from : {"script"}, place : Nat] \cup {DummyKey, ZeroByteKey}

Addresses == [conversion : Conversions, key : Keys, lastByte : Bytes]

(* There are never more keys than the arrays publicKey and addresses hold, *)
(* and the bits of multiSigFormat belong to keys.                          *)
TypeOK == /\ script \in Seq(Bytes)
          /\ pc \in {"uncompressed", "kind", "multisig", "multisigEnd", "search", "fallback",
                     "address", "done"}
          /\ keyType \in KeyTypes
          /\ publicKey \in Seq(Keys)
          /\ Len(publicKey) <= MaxMultisig
          /\ multiSigFormat \subseteq 0..(Len(publicKey) - 1)
          /\ scanBegin \in Nat
          /\ gIsWarning \in BOOLEAN
          /\ gReportTransactionHash \in BOOLEAN
          /\ addresses \in Seq(Addresses)

(* How the bitcoin script language divides a script into instructions,     *)
(* when it uses no PUSHDATA: the places where they start.                  *)
Starts ==
    LET From[place \in Nat] ==
            IF place >= Len(script) THEN {place}
            ELSE {place} \cup From[place + 1 + IF At(place) \in 1..75 THEN At(place) ELSE 0]
    IN  From[0]

Whole == /\ Len(script) \in Starts
         /\ \A place \in Starts : place < Len(script) => At(place) \notin 76..78

KeyPushes == {place \in Starts : /\ place \in 1..(ScanEnd - 1)
                                 /\ At(place) \in {CompressedLength, UncompressedLength}}

(* m, then n public keys, then n and OP_CHECKMULTISIG.                     *)
PlainMultisig == /\ Len(script) > 3
                 /\ Whole
                 /\ KeyPushes # {}
                 /\ Cardinality(KeyPushes) <= MaxMultisig
                 /\ Starts = {0, ScanEnd, ScanEnd + 1, ScanEnd + 2} \cup KeyPushes
                 /\ At(0) \in OP_1_to_5
                 /\ At(ScanEnd) = 80 + Cardinality(KeyPushes)
                 /\ At(ScanEnd + 1) = OP_CHECKMULTISIG

(* The forms of the network with a single key or hash.                     *)
PlainForms ==
    {[type |-> "RIPEMD160", before |-> HashPrefix, length |-> 20, after |-> HashPostfix],
     [type |-> "SCRIPT_HASH", before |-> <<OP_HASH160, 20>>, length |-> 20, after |-> <<OP_EQUAL>>],
     [type |-> "COMPRESSED_PUBLIC_KEY", before |-> <<CompressedLength>>,
      length |-> CompressedLength, after |-> <<OP_CHECKSIG>>],
     [type |-> "UNCOMPRESSED_PUBLIC_KEY", before |-> <<UncompressedLength>>,
      length |-> UncompressedLength, after |-> <<OP_CHECKSIG>>]}

HasForm(form) == /\ Len(script) = Len(form.before) + form.length + Len(form.after)
                 /\ Matches(0, form.before)
                 /\ Matches(Len(form.before) + form.length, form.after)

(* The places at which a hash stands with the opcodes that belong to it.   *)
HashPlaces == {place \in 0..(Len(script) - 25) : HashAt(place)}

Places == [i \in DOMAIN publicKey |-> publicKey[i].place]

Ascending(places) == \A i, j \in DOMAIN places : i < j => places[i] < places[j]

(* The standard forms of the network are recognized, with each key at its  *)
(* place, in order and converted by its own format, and without a warning: *)
(* neither the order of the tests nor the search that follows some of them *)
(* takes one form for another.  (An uncompressed key in which the bytes of *)
(* a hash script occur is the exception.)                                  *)
StandardDecoded ==
    pc = "done" =>
        /\ \A form \in PlainForms :
              HasForm(form) /\ (form.length = UncompressedLength => HashPlaces = {}) =>
                  /\ keyType = form.type /\ publicKey = <<InScript(Len(form.before))>>
                  /\ ~gIsWarning
        /\ PlainMultisig =>
              /\ keyType = "MULTISIG" /\ ~gIsWarning
              /\ Ascending(Places)
              /\ {Places[i] : i \in DOMAIN publicKey} = {place + 1 : place \in KeyPushes}
              /\ \A i \in DOMAIN publicKey :
                    addresses[i].conversion = "CompressedPublicKeyToAddress" <=>
                        At(Places[i] - 1) = CompressedLength

(* How many bytes from the place of a key its conversion reads.            *)
BytesRead(address) ==
    CASE address.conversion = "PublicKeyToAddress" -> UncompressedLength
      [] address.conversion = "CompressedPublicKeyToAddress" ->
            IF keyType = "TRUNCATED_COMPRESSED_KEY" THEN 32 ELSE CompressedLength
      [] OTHER -> 20

(* In a script that divides into whole instructions every key lies inside  *)
(* the script, though the loop over the keys compares only the place where *)
(* a key starts with the end.                                              *)
KeysInside ==
    pc = "done" /\ Whole =>
        \A i \in DOMAIN addresses :
            addresses[i].key.from = "script" =>
                addresses[i].key.place + BytesRead(addresses[i]) <= Len(script)

(* An output about which nothing is said has its keys in its own script,   *)
(* in order and none twice; the constant keys stand for it otherwise, and  *)
(* either way there is an address for each key.                            *)
SilentMeansDecoded ==
    pc = "done" =>
        /\ DOMAIN addresses = DOMAIN publicKey /\ publicKey # << >>
        /\ ~gIsWarning => /\ \A i \in DOMAIN publicKey : publicKey[i].from = "script"
                          /\ Ascending(Places)
=============================================================================
