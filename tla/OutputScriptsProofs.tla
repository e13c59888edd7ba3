------------------------ MODULE OutputScriptsProofs -------------------------
(***************************************************************************)
(* Proofs about OutputScripts, for any set of scripts: the arrays of keys  *)
(* and addresses are never overrun, an output that raises no warning has   *)
(* keys of its own, in order, the keys of a script that divides into whole *)
(* instructions lie inside it, and the standard forms are decoded.  And,   *)
(* in the second part, about Base58, the form in which the addresses of    *)
(* the scripts are shown: the encoder and the decoder are exact.           *)
(***************************************************************************)
EXTENDS OutputScripts, Base58, Recursion, FiniteSetTheorems, SequenceTheorems, TLAPS

(* The keys found so far lie in the script, in order, before the scan.     *)
KeysFound == /\ \A i \in DOMAIN publicKey : publicKey[i].from = "script"
             /\ Ascending(Places)

BehindScan == pc \in {"kind", "multisig"} =>
                 \A i \in DOMAIN publicKey :
                    publicKey[i].place <= IF pc = "kind" THEN 1 ELSE scanBegin

NoFormatYet == pc \in {"uncompressed", "kind", "search"} => multiSigFormat = {}

FewBefore == /\ pc = "uncompressed" => publicKey = << >>
             /\ pc = "kind" => Len(publicKey) <= 1

(* After the constant keys were considered there is a key.                 *)
Finishing == /\ pc \in {"address", "done"} => publicKey # << >>
             /\ pc = "done" => DOMAIN addresses = DOMAIN publicKey

FoundOrWarned == /\ pc \notin {"address", "done"} => KeysFound
                 /\ ~gIsWarning => KeysFound

(* A key of a multi-signature script is pushed by an instruction of its    *)
(* length, and its bit tells which length.                                 *)
KeyPushed(i) == /\ publicKey[i].from = "script"
                /\ publicKey[i].place - 1 \in Starts
                /\ publicKey[i].place - 1 < Len(script)
                /\ At(publicKey[i].place - 1) \in {CompressedLength, UncompressedLength}
                /\ i - 1 \in multiSigFormat <=> At(publicKey[i].place - 1) = CompressedLength

KeyLength == CASE keyType = "UNCOMPRESSED_PUBLIC_KEY" -> UncompressedLength
               [] keyType = "COMPRESSED_PUBLIC_KEY" -> CompressedLength
               [] keyType = "TRUNCATED_COMPRESSED_KEY" -> 32
               [] OTHER -> 20

KeyFits(i) == publicKey[i].from = "script" => publicKey[i].place + KeyLength <= Len(script)

(* The loop over the keys goes from instruction to instruction.            *)
Loop == /\ pc = "uncompressed" => keyType = "UNKNOWN"
        /\ pc = "kind" => publicKey = << >> \/ At(0) = UncompressedLength
        /\ pc \in {"uncompressed", "kind", "search"} => keyType # "MULTISIG"
        /\ pc = "multisig" => /\ publicKey = << >> \/ keyType = "MULTISIG"
                              /\ scanBegin \in Starts /\ scanBegin >= 1

Fitting == /\ keyType = "MULTISIG" => \A i \in DOMAIN publicKey : KeyPushed(i)
           /\ keyType # "MULTISIG" => \A i \in DOMAIN publicKey : KeyFits(i)

Converted == pc = "done" =>
                /\ DOMAIN addresses = DOMAIN publicKey
                /\ \A i \in DOMAIN publicKey : /\ addresses[i].key = publicKey[i]
                                               /\ addresses[i].conversion = Conversion(i - 1)

IInv == TypeOK /\ BehindScan /\ NoFormatYet /\ FewBefore /\ Finishing /\ FoundOrWarned

KeysInv == IInv /\ Loop /\ Fitting /\ Converted

-----------------------------------------------------------------------------
(* A single key in the script is found and in order.                       *)
LEMMA OneKey ==
  ASSUME NEW place \in Nat, publicKey' = <<InScript(place)>>
  PROVE  /\ publicKey' \in Seq(Keys)
         /\ Len(publicKey') = 1
         /\ publicKey' # << >>
         /\ KeysFound'
<1>1. publicKey' \in Seq(Keys) /\ Len(publicKey') = 1 /\ publicKey'[1].from = "script"
  BY DEF InScript, Keys
<1> QED
  BY <1>1 DEF KeysFound, Ascending, Places

(* Every kind has a type and a place.                                      *)
LEMMA KindTypes ==
  ASSUME NEW k \in DOMAIN Kinds
  PROVE  Kinds[k].type \in KeyTypes /\ Kinds[k].key \in Nat
<1>1. k \in 1..6
  BY DEF Kinds
<1>2. /\ Kinds[1].type = "STEALTH" /\ Kinds[1].key = 1
      /\ Kinds[2].type = "UNCOMPRESSED_PUBLIC_KEY" /\ Kinds[2].key = 0
      /\ Kinds[3].type = "COMPRESSED_PUBLIC_KEY" /\ Kinds[3].key = 1
  BY DEF Kinds
<1>3. /\ Kinds[4].type = "TRUNCATED_COMPRESSED_KEY" /\ Kinds[4].key = 1
      /\ Kinds[5].type = "SCRIPT_HASH" /\ Kinds[5].key = 2
      /\ Kinds[6].type = "RIPEMD160" /\ Kinds[6].key = 3
  BY DEF Kinds
<1> QED
  BY <1>1, <1>2, <1>3 DEF KeyTypes

(* A new output has no key.                                                *)
LEMMA InitIInv == Init => IInv
<1> SUFFICES ASSUME Init PROVE IInv
  OBVIOUS
<1>1. TypeOK
  <2>1. script \in Seq(Bytes)
    BY ScriptAssumption DEF Init
  <2>2. publicKey = << >> /\ publicKey \in Seq(Keys) /\ Len(publicKey) = 0
    BY DEF Init
  <2>3. addresses \in Seq(Addresses)
    BY DEF Init
  <2>4. multiSigFormat \subseteq 0..(Len(publicKey) - 1)
    BY DEF Init
  <2>5. Len(publicKey) <= MaxMultisig
    BY <2>2 DEF MaxMultisig
  <2>6. keyType \in KeyTypes /\ scanBegin \in Nat /\ pc = "uncompressed"
    BY DEF Init, KeyTypes
  <2>7. gIsWarning \in BOOLEAN /\ gReportTransactionHash \in BOOLEAN
    BY DEF Init
  <2> QED
    BY <2>1, <2>2, <2>3, <2>4, <2>5, <2>6, <2>7 DEF TypeOK
<1>2. KeysFound
  BY DEF Init, KeysFound, Ascending, Places
<1> QED
  BY <1>1, <1>2 DEF Init, IInv, BehindScan, NoFormatYet, FewBefore, Finishing, FoundOrWarned

(* The tests for the fixed kinds leave at most one key, at a fixed place.  *)
LEMMA ClassifyStep == IInv /\ Classify => IInv'
<1> SUFFICES ASSUME IInv, Classify PROVE IInv'
  OBVIOUS
<1> USE DEF keyVars, warnVars
<1> USE DEF IInv, BehindScan, NoFormatYet, FewBefore, Finishing, FoundOrWarned
<1>1. CASE EmptyScript
  BY <1>1 DEF EmptyScript, TypeOK, KeysFound, Ascending, Places
<1>2. CASE Uncompressed
  <2>1. CASE IsUncompressed
    <3>1. publicKey' = <<InScript(1)>>
      BY <1>2, <2>1 DEF Uncompressed
    <3>2. publicKey'[1].place = 1
      BY <3>1 DEF InScript
    <3> QED
      BY <1>2, <2>1, <3>1, <3>2, OneKey DEF Uncompressed, TypeOK, MaxMultisig, KeyTypes
  <2>2. CASE ~IsUncompressed
    BY <1>2, <2>2 DEF Uncompressed, TypeOK, KeysFound, Ascending, Places
  <2> QED
    BY <2>1, <2>2
<1>3. CASE FixedKind
  <2>1. PICK k \in DOMAIN Kinds : /\ keyType' = Kinds[k].type
                                  /\ publicKey' = <<InScript(Kinds[k].key)>>
    BY <1>3 DEF FixedKind
  <2>2. /\ keyType' \in KeyTypes
        /\ publicKey' \in Seq(Keys) /\ Len(publicKey') = 1 /\ publicKey' # << >>
        /\ KeysFound'
    BY <2>1, KindTypes, OneKey
  <2> QED
    BY <1>3, <2>2 DEF FixedKind, TypeOK, MaxMultisig
<1>4. CASE UnusualKind
  BY <1>4 DEF UnusualKind, TypeOK, KeysFound, Ascending, Places
<1>5. CASE MultisigKind
  BY <1>5 DEF MultisigKind, TypeOK, KeysFound, Ascending, Places
<1>6. CASE SearchKind
  BY <1>6 DEF SearchKind, TypeOK, KeysFound, Ascending, Places
<1> QED
  BY <1>1, <1>2, <1>3, <1>4, <1>5, <1>6 DEF Classify

(* The loop over the keys adds a key behind all that it has found.         *)
LEMMA KeyStep ==
  ASSUME IInv, pc = "multisig", NEW length \in {CompressedLength, UncompressedLength},
         KeyAt(length)
  PROVE  /\ publicKey' \in Seq(Keys)
         /\ Len(publicKey') = Len(publicKey) + 1
         /\ Len(publicKey') <= MaxMultisig
         /\ scanBegin' \in Nat
         /\ KeysFound'
         /\ \A i \in DOMAIN publicKey' : publicKey'[i].place <= scanBegin'
<1>1. /\ publicKey \in Seq(Keys) /\ scanBegin \in Nat
      /\ Len(publicKey) < MaxMultisig
      /\ publicKey' = Append(publicKey, InScript(scanBegin + 1))
      /\ scanBegin' = scanBegin + 1 + length
      /\ length \in Nat
  BY DEF IInv, TypeOK, KeyAt, KeyAhead, CompressedLength, UncompressedLength
<1>2. InScript(scanBegin + 1) \in Keys
  BY <1>1 DEF InScript, Keys
<1>3. /\ publicKey' \in Seq(Keys)
      /\ Len(publicKey') = Len(publicKey) + 1
      /\ \A i \in 1..Len(publicKey) : publicKey'[i] = publicKey[i]
      /\ publicKey'[Len(publicKey) + 1] = InScript(scanBegin + 1)
  BY <1>1, <1>2
<1>4. /\ Len(publicKey') <= MaxMultisig
      /\ scanBegin' \in Nat
  BY <1>1, <1>3 DEF MaxMultisig
<1>5. \A i \in 1..Len(publicKey) :
        /\ publicKey[i].from = "script"
        /\ publicKey[i].place \in Nat /\ publicKey[i].place <= scanBegin
  BY <1>1 DEF IInv, FoundOrWarned, KeysFound, BehindScan, Keys, DummyKey, ZeroByteKey
<1>6. InScript(scanBegin + 1).place = scanBegin + 1 /\ InScript(scanBegin + 1).from = "script"
  BY DEF InScript
<1>7. \A i \in DOMAIN publicKey' : publicKey'[i].place <= scanBegin'
  BY <1>1, <1>3, <1>5, <1>6
<1>8. KeysFound'
  <2>1. \A i \in 1..Len(publicKey') : publicKey'[i].from = "script"
    BY <1>1, <1>3, <1>5, <1>6
  <2>2. \A i, j \in 1..Len(publicKey) : i < j => publicKey[i].place < publicKey[j].place
    BY <1>1 DEF IInv, FoundOrWarned, KeysFound, Ascending, Places
  <2>3. ASSUME NEW i \in 1..Len(publicKey'), NEW j \in 1..Len(publicKey'), i < j
        PROVE  publicKey'[i].place < publicKey'[j].place
    <3>1. CASE j = Len(publicKey) + 1
      BY <1>1, <1>3, <1>5, <1>6, <2>3, <3>1
    <3>2. CASE j # Len(publicKey) + 1
      BY <1>1, <1>3, <2>2, <2>3, <3>2
    <3> QED
      BY <3>1, <3>2
  <2> QED
    BY <1>3, <2>1, <2>3 DEF KeysFound, Ascending, Places
<1> QED
  BY <1>3, <1>4, <1>7, <1>8

(* The steps of the loop over the keys, and its end.                       *)
LEMMA MultisigStep == IInv /\ Multisig => IInv'
<1> SUFFICES ASSUME IInv, Multisig PROVE IInv'
  OBVIOUS
<1> USE DEF keyVars, warnVars
<1>1. CASE CompressedKey \/ UncompressedKey
  <2>1. PICK length \in {CompressedLength, UncompressedLength} : KeyAt(length)
    BY <1>1 DEF CompressedKey, UncompressedKey
  <2>2. /\ pc = "multisig" /\ pc' = pc /\ keyType' \in KeyTypes
        /\ multiSigFormat' \subseteq multiSigFormat \cup {Len(publicKey)}
        /\ UNCHANGED <<script, warnVars, addresses>>
    BY <1>1 DEF CompressedKey, UncompressedKey, KeyTypes
  <2>3. /\ publicKey' \in Seq(Keys)
        /\ Len(publicKey') = Len(publicKey) + 1
        /\ Len(publicKey') <= MaxMultisig
        /\ scanBegin' \in Nat
        /\ KeysFound'
        /\ \A i \in DOMAIN publicKey' : publicKey'[i].place <= scanBegin'
    BY <2>1, <2>2, KeyStep
  <2>4. multiSigFormat' \subseteq 0..(Len(publicKey') - 1)
    BY <2>2, <2>3 DEF IInv, TypeOK
  <2>5. TypeOK'
    BY <2>2, <2>3, <2>4 DEF IInv, TypeOK
  <2> QED
    BY <2>2, <2>3, <2>5 DEF IInv, BehindScan, NoFormatYet, FewBefore, Finishing, FoundOrWarned
<1>2. CASE KeysEnd
  BY <1>2 DEF KeysEnd, IInv, TypeOK, BehindScan, NoFormatYet, FewBefore, Finishing,
              FoundOrWarned, KeysFound, Ascending, Places
<1>3. CASE MultisigEnd
  BY <1>3 DEF MultisigEnd, IInv, TypeOK, BehindScan, NoFormatYet, FewBefore, Finishing,
              FoundOrWarned, KeysFound, Ascending, Places
<1> QED
  BY <1>1, <1>2, <1>3 DEF Multisig

(* The search leaves the keys alone, or finds one.                         *)
LEMMA SearchStep == IInv /\ Search => IInv'
<1> SUFFICES ASSUME IInv, Search PROVE IInv'
  OBVIOUS
<1> USE DEF keyVars, warnVars
<1> USE DEF IInv, BehindScan, NoFormatYet, FewBefore, Finishing, FoundOrWarned
<1>1. CASE SearchHit
  <2>1. /\ publicKey' \in Seq(Keys) /\ Len(publicKey') = 1 /\ publicKey' # << >>
        /\ KeysFound'
    BY <1>1, OneKey DEF SearchHit, TypeOK
  <2> QED
    BY <1>1, <2>1 DEF SearchHit, TypeOK, KeyTypes, MaxMultisig
<1>2. CASE SearchMiss
  BY <1>2 DEF SearchMiss, TypeOK, KeysFound, Ascending, Places
<1>3. CASE SearchEnd
  BY <1>3 DEF SearchEnd, TypeOK, KeysFound, Ascending, Places
<1> QED
  BY <1>1, <1>2, <1>3 DEF Search

(* A constant key comes with a warning; every key gets an address.         *)
LEMMA AddressStep == IInv /\ Address => IInv'
<1> SUFFICES ASSUME IInv, Address PROVE IInv'
  OBVIOUS
<1> USE DEF keyVars, warnVars
<1> USE DEF IInv, BehindScan, NoFormatYet, FewBefore, Finishing, FoundOrWarned
<1>1. CASE KeyFound
  BY <1>1 DEF KeyFound, TypeOK, KeysFound, Ascending, Places
<1>2. CASE NoKey
  <2>1. publicKey' \in Seq(Keys) /\ Len(publicKey') = 1 /\ publicKey' # << >>
    BY <1>2 DEF NoKey, Keys
  <2>2. multiSigFormat \subseteq 0..(Len(publicKey') - 1)
    BY <1>2, <2>1 DEF NoKey, TypeOK
  <2> QED
    BY <1>2, <2>1, <2>2 DEF NoKey, TypeOK, KeyTypes, MaxMultisig
<1>3. CASE MakeAddresses
  <2>1. PICK byte \in LastBytes :
          addresses' = [i \in 1..Len(publicKey) |->
                           [conversion |-> Conversion(i - 1), key |-> publicKey[i],
                            lastByte |-> byte]]
    BY <1>3 DEF MakeAddresses
  <2>2. byte \in Bytes
    BY ScriptAssumption DEF LastBytes, Bytes
  <2>3. \A i \in 1..Len(publicKey) : Conversion(i - 1) \in Conversions /\ publicKey[i] \in Keys
    BY DEF Conversion, Conversions, TypeOK
  <2>4. addresses' \in Seq(Addresses) /\ DOMAIN addresses' = DOMAIN publicKey
    <3>1. Len(publicKey) \in Nat
      BY DEF TypeOK
    <3> QED
      BY <2>1, <2>2, <2>3, <3>1 DEF Addresses, TypeOK
  <2> QED
    BY <1>3, <2>4 DEF MakeAddresses, TypeOK, KeysFound, Ascending, Places
<1> QED
  BY <1>1, <1>2, <1>3 DEF Address

(* A stuttering step changes nothing the invariant speaks of.              *)
LEMMA StutterStep == IInv /\ UNCHANGED vars => IInv'
BY DEF vars, keyVars, warnVars, IInv, TypeOK, BehindScan, NoFormatYet, FewBefore, Finishing,
       FoundOrWarned, KeysFound, Ascending, Places

-----------------------------------------------------------------------------
(* What readOutput has found is in order at each of its steps.             *)
THEOREM Inductive == Spec => []IInv
<1>1. IInv /\ [Next]_vars => IInv'
  BY ClassifyStep, MultisigStep, SearchStep, AddressStep, StutterStep DEF Next, Done
<1> QED
  BY InitIInv, <1>1, PTL DEF Spec

(* For every script, at most MAX_MULTISIG keys and addresses are stored,   *)
(* and every bit of multiSigFormat has its key.                            *)
THEOREM ScriptTypes == Spec => []TypeOK
BY Inductive, PTL DEF IInv

(* For every script, an output that raises no warning has its keys in the  *)
(* script, in order, and an address for each.                              *)
THEOREM SilentOutputsDecoded == Spec => []SilentMeansDecoded
<1>1. IInv => SilentMeansDecoded
  BY DEF IInv, Finishing, FoundOrWarned, KeysFound, SilentMeansDecoded
<1> QED
  BY <1>1, Inductive, PTL

-----------------------------------------------------------------------------
(* Where the instruction behind the one at a place starts.                 *)
Jump(place) == place + 1 + IF At(place) \in 1..75 THEN At(place) ELSE 0

(* The walk from a place to the end of the script.                         *)
IsWalk(f) == f = [place \in Nat |-> IF place >= Len(script) THEN {place}
                                    ELSE {place} \cup f[Jump(place)]]

(* Places past the last byte are none; before it, a jump goes ahead.       *)
LEMMA JumpAhead ==
  ASSUME script \in Seq(Bytes), NEW place \in Nat, place < Len(script)
  PROVE  At(place) \in Bytes /\ Jump(place) \in Nat /\ Jump(place) > place
<1>1. At(place) \in Bytes
  BY DEF At
<1>2. CASE At(place) \in 1..75
  <2>1. Jump(place) = place + 1 + At(place)
    BY <1>2 DEF Jump
  <2>2. \A v \in 1..75 : place + 1 + v \in Nat /\ place + 1 + v > place
    OBVIOUS
  <2> QED
    BY <1>1, <1>2, <2>1, <2>2, Zenon
<1>3. CASE At(place) \notin 1..75
  BY <1>1, <1>3 DEF Jump
<1> QED
  BY <1>2, <1>3

(* There is such a walk: it is known from the end of the script backwards. *)
LEMMA WalkExists ==
  ASSUME script \in Seq(Bytes)
  PROVE  \E f : IsWalk(f)
<1> DEFINE n == Len(script)
           Reached(f, p) == IF p >= n THEN {p} ELSE {p} \cup f[Jump(p)]
           Upto(f, m) == \A p \in Nat : p + m >= n => f[p] = Reached(f, p)
           S == {m \in Nat : \E f : Upto(f, m)}
<1>1. n \in Nat
  OBVIOUS
<1>2. 0 \in S
  <2>1. Upto([p \in Nat |-> {p}], 0)
    BY <1>1
  <2> QED
    BY <2>1
<1>3. ASSUME NEW m \in Nat, m \in S PROVE m + 1 \in S
  <2>1. PICK f : Upto(f, m)
    BY <1>3
  <2>5. \A p \in Nat : p + m >= n /\ p >= n => f[p] = {p}
    BY <2>1
  <2>4. \A p \in Nat : p + m >= n /\ ~(p >= n) => f[p] = {p} \cup f[Jump(p)]
    BY <2>1
  <2> DEFINE g == [p \in Nat |-> IF p + m >= n THEN f[p] ELSE {p} \cup f[Jump(p)]]
  <2>2. ASSUME NEW p \in Nat, p + (m + 1) >= n PROVE g[p] = Reached(g, p)
    <3>1. CASE p >= n
      <4>1. g[p] = f[p] /\ f[p] = {p}
        BY <1>1, <2>5, <3>1
      <4> QED
        BY <1>1, <3>1, <4>1
    <3>2. CASE p < n
      <4>1. Jump(p) \in Nat /\ Jump(p) + m >= n
        BY <1>1, <2>2, <3>2, JumpAhead
      <4>2. g[Jump(p)] = f[Jump(p)]
        BY <4>1
      <4>3. g[p] = {p} \cup f[Jump(p)]
        <5>1. CASE p + m >= n
          BY <1>1, <2>4, <3>2, <5>1
        <5>2. CASE ~(p + m >= n)
          BY <5>2
        <5> QED
          BY <5>1, <5>2
      <4> HIDE DEF g
      <4> QED
        BY <1>1, <3>2, <4>2, <4>3
    <3> QED
      BY <1>1, <3>1, <3>2
  <2> HIDE DEF g, Reached
  <2>3. Upto(g, m + 1)
    BY <2>2
  <2> HIDE DEF Upto
  <2> QED
    BY <2>3
<1> HIDE DEF S
<1>4. n \in S
  <2>1. Nat \subseteq S
    BY <1>2, <1>3, SetInduction
  <2> QED
    BY <1>1, <2>1
<1>5. PICK f : Upto(f, n)
  BY <1>4 DEF S
<1>6. \A p \in Nat : f[p] = Reached(f, p)
  <2>1. \A p \in Nat : p + n >= n
    BY <1>1
  <2> HIDE DEF Reached, n
  <2> QED
    BY <1>5, <2>1
<1>7. \A p \in Nat : p < n => Jump(p) \in Nat
  BY <1>1, JumpAhead
<1> DEFINE g == [p \in Nat |-> f[p]]
<1>8. \A p \in Nat : g[p] = IF p >= Len(script) THEN {p} ELSE {p} \cup g[Jump(p)]
  <2>1. ASSUME NEW p \in Nat, p >= n PROVE g[p] = {p}
    BY <1>6, <2>1
  <2>2. ASSUME NEW p \in Nat, ~(p >= n) PROVE g[p] = {p} \cup g[Jump(p)]
    <3>1. Jump(p) \in Nat
      BY <1>1, <1>7, <2>2
    <3>2. f[p] = {p} \cup f[Jump(p)]
      BY <1>6, <2>2
    <3> QED
      BY <3>1, <3>2
  <2> HIDE DEF g
  <2> QED
    BY <2>1, <2>2
<1>9. IsWalk(g)
  <2>1. g = [p \in Nat |-> g[p]]
    OBVIOUS
  <2> HIDE DEF g
  <2> QED
    BY <1>8, <2>1 DEF IsWalk
<1> QED
  BY <1>9, Zenon

(* The walk goes through each of its places to the next, without places in *)
(* between, up to the first that is not in the script.                     *)
LEMMA WalkSteps ==
  ASSUME script \in Seq(Bytes), NEW f, IsWalk(f)
  PROVE  \A a \in Nat : /\ a \in f[a]
                        /\ \A p \in f[a] : p \in Nat /\ p >= a
                        /\ \A p \in f[a] : p < Len(script) => Jump(p) \in f[a]
                        /\ \A p \in f[a], q \in f[a] :
                              p < q => p < Len(script) /\ Jump(p) <= q
<1> DEFINE n == Len(script)
           Goes(a) == /\ a \in f[a]
                      /\ \A p \in f[a] : p \in Nat /\ p >= a
                      /\ \A p \in f[a] : p < n => Jump(p) \in f[a]
                      /\ \A p \in f[a], q \in f[a] : p < q => p < n /\ Jump(p) <= q
           S == {m \in Nat : \A a \in Nat : a + m >= n => Goes(a)}
<1>1. n \in Nat
  OBVIOUS
<1>2. ASSUME NEW a \in Nat PROVE f[a] = IF a >= n THEN {a} ELSE {a} \cup f[Jump(a)]
  BY DEF IsWalk
<1>3. ASSUME NEW a \in Nat, a >= n PROVE Goes(a)
  <2>1. f[a] = {a}
    BY <1>2, <1>3
  <2> QED
    BY <1>1, <1>3, <2>1
<1>4. 0 \in S
  BY <1>1, <1>3
<1>5. ASSUME NEW m \in Nat, m \in S PROVE m + 1 \in S
  <2> SUFFICES ASSUME NEW a \in Nat, a + (m + 1) >= n PROVE Goes(a)
    OBVIOUS
  <2>1. CASE a < n
    <3>1. Jump(a) \in Nat /\ Jump(a) > a
      BY <2>1, JumpAhead
    <3>2. Goes(Jump(a))
      BY <1>1, <1>5, <3>1
    <3>3. f[a] = {a} \cup f[Jump(a)]
      <4>1. ~(a >= n)
        BY <1>1, <2>1
      <4> HIDE DEF n
      <4> QED
        BY <1>2, <4>1
    <3>4. \A p \in f[a] : p \in Nat /\ p >= a
      BY <3>1, <3>2, <3>3
    <3>5. \A p \in f[a] : p < n => Jump(p) \in f[a]
      BY <3>2, <3>3
    <3>6. ASSUME NEW p \in f[a], NEW q \in f[a], p < q PROVE p < n /\ Jump(p) <= q
      <4>1. q # a
        BY <3>4, <3>6
      <4>2. q \in f[Jump(a)] /\ q >= Jump(a)
        BY <3>2, <3>3, <4>1
      <4>3. CASE p = a
        BY <2>1, <4>2, <4>3
      <4>4. CASE p # a
        BY <3>2, <3>3, <3>6, <4>2, <4>4
      <4> QED
        BY <4>3, <4>4
    <3> QED
      BY <3>3, <3>4, <3>5, <3>6
  <2> QED
    BY <1>1, <1>3, <2>1
<1> HIDE DEF S, Goes
<1>6. n \in S
  <2>1. Nat \subseteq S
    BY <1>4, <1>5, SetInduction
  <2> QED
    BY <1>1, <2>1
<1>7. \A a \in Nat : a + n >= n
  BY <1>1
<1>8. \A a \in Nat : Goes(a)
  BY <1>6, <1>7 DEF S
<1> QED
  BY <1>8 DEF Goes

(* So it is with Starts: from the first byte, from each instruction to the *)
(* next, with none in between, and the end of a whole script is the last.  *)
LEMMA StartsWalk ==
  ASSUME script \in Seq(Bytes)
  PROVE  /\ 0 \in Starts
         /\ Starts \subseteq Nat
         /\ \A p \in Starts : p < Len(script) => Jump(p) \in Starts
         /\ \A p \in Starts, q \in Starts : p < q => p < Len(script) /\ Jump(p) <= q
         /\ Len(script) \in Starts => \A p \in Starts : p <= Len(script)
<1>1. PICK f : IsWalk(f) /\ Starts = f[0]
  <2>1. \E f : IsWalk(f)
    BY WalkExists
  <2>2. IsWalk(CHOOSE f : IsWalk(f))
    BY <2>1
  <2>3. Starts = (CHOOSE f : IsWalk(f))[0]
    BY DEF Starts, IsWalk, Jump
  <2> HIDE DEF Starts
  <2> QED
    BY <2>2, <2>3
<1>2. 0 \in Nat /\ Len(script) \in Nat
  OBVIOUS
<1>3. /\ 0 \in Starts
      /\ \A p \in Starts : p \in Nat
      /\ \A p \in Starts : p < Len(script) => Jump(p) \in Starts
      /\ \A p \in Starts, q \in Starts : p < q => p < Len(script) /\ Jump(p) <= q
  BY <1>1, <1>2, WalkSteps
<1> QED
  BY <1>2, <1>3

-----------------------------------------------------------------------------
(* readOutput does not write to the script, so what is derived from it     *)
(* alone stays.                                                            *)
LEMMA ScriptStays ==
  ASSUME script' = script
  PROVE  /\ \A place : At(place)' = At(place)
         /\ Starts' = Starts
         /\ Whole' = Whole
         /\ ScanEnd' = ScanEnd
         /\ KeyPushes' = KeyPushes
         /\ HashPlaces' = HashPlaces
         /\ PlainMultisig' = PlainMultisig
         /\ \A form : HasForm(form)' = HasForm(form)
BY DEF At, Starts, Whole, ScanEnd, KeyPushes, HashPlaces, HashAt, Matches, PlainMultisig, HasForm

(* No step of readOutput writes to the script.                             *)
LEMMA ScriptFixed ==
  ASSUME [Next]_vars
  PROVE  script' = script
BY DEF Next, vars, Classify, EmptyScript, Uncompressed, FixedKind, UnusualKind, MultisigKind,
   SearchKind, Multisig, CompressedKey, UncompressedKey, KeysEnd, MultisigEnd, Search, SearchHit,
   SearchMiss, SearchEnd, Address, KeyFound, NoKey, MakeAddresses, Done

(* A key of a fixed kind lies in a script of the length that is tested.    *)
LEMMA KindFits ==
  ASSUME script \in Seq(Bytes), NEW k \in DOMAIN Kinds, Kinds[k].fits,
         keyType' = Kinds[k].type, publicKey' = <<InScript(Kinds[k].key)>>, script' = script
  PROVE  /\ keyType' # "MULTISIG"
         /\ \A i \in DOMAIN publicKey' : KeyFits(i)'
<1>1. k \in 1..6 /\ Len(script) \in Nat
  BY DEF Kinds
<1>2. DOMAIN publicKey' = {1} /\ publicKey'[1].place = Kinds[k].key
  BY DEF InScript
<1>3. CASE k = 1
  <2>1. Len(script) = 40 /\ Kinds[k].key = 1 /\ Kinds[k].type = "STEALTH"
    BY <1>3, ZenonT(40) DEF Kinds
  <2> QED
    BY <1>2, <2>1 DEF KeyFits, KeyLength
<1>4. CASE k = 2
  <2>1. Len(script) = 66 /\ Kinds[k].key = 0 /\ Kinds[k].type = "UNCOMPRESSED_PUBLIC_KEY"
    BY <1>4, ZenonT(40) DEF Kinds
  <2> QED
    BY <1>2, <2>1 DEF KeyFits, KeyLength, UncompressedLength
<1>5. CASE k = 3
  <2>1. Len(script) = 35 /\ Kinds[k].key = 1 /\ Kinds[k].type = "COMPRESSED_PUBLIC_KEY"
    BY <1>5, ZenonT(40) DEF Kinds
  <2> QED
    BY <1>2, <2>1 DEF KeyFits, KeyLength, CompressedLength
<1>6. CASE k = 4
  <2>1. Len(script) = 33 /\ Kinds[k].key = 1 /\ Kinds[k].type = "TRUNCATED_COMPRESSED_KEY"
    BY <1>6, ZenonT(40) DEF Kinds
  <2> QED
    BY <1>2, <2>1 DEF KeyFits, KeyLength
<1>7. CASE k = 5
  <2>1. Len(script) = 23 /\ Kinds[k].key = 2 /\ Kinds[k].type = "SCRIPT_HASH"
    BY <1>7, ZenonT(40) DEF Kinds
  <2> QED
    BY <1>2, <2>1 DEF KeyFits, KeyLength
<1>8. CASE k = 6
  <2>1. Len(script) >= 25 /\ Kinds[k].key = 3 /\ Kinds[k].type = "RIPEMD160"
    BY <1>8, ZenonT(40) DEF Kinds
  <2> QED
    BY <1>1, <1>2, <2>1 DEF KeyFits, KeyLength
<1> QED
  BY <1>1, <1>3, <1>4, <1>5, <1>6, <1>7, <1>8

(* The loop over the keys pushes the keys that it records.                 *)
LEMMA KeyPushStep ==
  ASSUME KeysInv, CompressedKey \/ UncompressedKey
  PROVE  /\ scanBegin' \in Starts /\ scanBegin' >= 1 /\ scanBegin' = Jump(scanBegin)
         /\ scanBegin < ScanEnd
         /\ At(scanBegin) \in {CompressedLength, UncompressedLength}
         /\ publicKey' = Append(publicKey, InScript(scanBegin + 1))
         /\ keyType' = "MULTISIG" /\ pc = "multisig" /\ pc' = "multisig"
         /\ \A i \in DOMAIN publicKey' : KeyPushed(i)'
<1> DEFINE byte == At(scanBegin)
<1>1. /\ pc = "multisig" /\ pc' = "multisig" /\ keyType' = "MULTISIG" /\ script' = script
      /\ KeyAt(byte) /\ byte \in {CompressedLength, UncompressedLength}
      /\ multiSigFormat' = IF byte = CompressedLength THEN multiSigFormat \cup {Len(publicKey)}
                                                      ELSE multiSigFormat
  BY DEF CompressedKey, UncompressedKey, KeyAt, CompressedLength, UncompressedLength
<1>2. /\ script \in Seq(Bytes) /\ publicKey \in Seq(Keys) /\ scanBegin \in Nat
      /\ multiSigFormat \subseteq 0..(Len(publicKey) - 1)
      /\ scanBegin \in Starts /\ scanBegin >= 1
      /\ \A i \in DOMAIN publicKey : KeyPushed(i)
  BY <1>1 DEF KeysInv, IInv, TypeOK, Loop, Fitting
<1>3. /\ publicKey' = Append(publicKey, InScript(scanBegin + 1))
      /\ scanBegin' = scanBegin + 1 + byte
      /\ scanBegin < ScanEnd
  BY <1>1 DEF KeyAt, KeyAhead
<1>4. scanBegin < Len(script) /\ byte \in 1..75
  BY <1>1, <1>2, <1>3 DEF ScanEnd, CompressedLength, UncompressedLength
<1>5. scanBegin' = Jump(scanBegin)
  BY <1>3, <1>4 DEF Jump
<1>6. scanBegin' \in Starts
  BY <1>2, <1>4, <1>5, StartsWalk
<1>7. Starts' = Starts /\ \A place : At(place)' = At(place)
  BY <1>1, ScriptStays
<1> DEFINE n == Len(publicKey)
           new == InScript(scanBegin + 1)
<1>8. new.from = "script" /\ new.place = scanBegin + 1 /\ new.place - 1 = scanBegin
      /\ new \in Keys
  BY <1>2 DEF InScript, Keys
<1> HIDE DEF new
<1>9. /\ DOMAIN publicKey' = 1..(n + 1) /\ n \in Nat
      /\ \A i \in 1..n : publicKey'[i] = publicKey[i]
      /\ publicKey'[n + 1] = new
  BY <1>2, <1>3, <1>8 DEF new
<1> HIDE DEF byte
<1>10. ASSUME NEW i, i = n + 1 PROVE KeyPushed(i)'
  <2>1. i - 1 = n /\ publicKey'[i] = new
    BY <1>9, <1>10
  <2>2. i - 1 \in multiSigFormat' <=> byte = CompressedLength
    BY <1>1, <1>2, <1>9, <2>1
  <2>3. /\ publicKey'[i].from = "script"
        /\ publicKey'[i].place - 1 = scanBegin
    BY <1>8, <2>1
  <2>4. script'[publicKey'[i].place - 1 + 1] = byte
    BY <1>1, <2>3 DEF byte, At
  <2>6. Len(script') = Len(script)
    BY <1>1
  <2>5. (script' = script) /\ (byte \in {CompressedLength, UncompressedLength})
    BY <1>1 DEF byte
  <2> HIDE DEF new, n
  <2> QED
    BY <1>2, <1>4, <1>7, <2>2, <2>3, <2>4, <2>5, <2>6
       DEF KeyPushed, At, CompressedLength, UncompressedLength
<1>11. ASSUME NEW i \in 1..n PROVE KeyPushed(i)'
  <2>1. i - 1 \in multiSigFormat' <=> i - 1 \in multiSigFormat
    BY <1>1, <1>9
  <2>2. publicKey'[i] = publicKey[i] /\ KeyPushed(i)
    BY <1>2, <1>9
  <2> QED
    BY <1>1, <1>7, <2>1, <2>2 DEF KeyPushed
<1>12. \A i \in DOMAIN publicKey' : KeyPushed(i)'
  BY <1>9, <1>10, <1>11
<1>13. scanBegin' >= 1
  BY <1>2, <1>3, <1>4
<1>14. At(scanBegin) \in {CompressedLength, UncompressedLength}
  BY <1>1 DEF byte
<1> HIDE DEF n, new
<1> QED
  BY <1>1, <1>3, <1>5, <1>6, <1>12, <1>13, <1>14

(* Where the keys are found stays as it is while they do.                  *)
LEMMA FittingStays ==
  ASSUME script' = script, UNCHANGED keyVars, Fitting
  PROVE  Fitting'
<1>1. Starts' = Starts /\ \A place : At(place)' = At(place)
  BY ScriptStays
<1>2. publicKey' = publicKey /\ keyType' = keyType /\ multiSigFormat' = multiSigFormat
  BY DEF keyVars
<1>3. ASSUME NEW i PROVE KeyPushed(i) => KeyPushed(i)'
  BY <1>1, <1>2 DEF KeyPushed, At
<1>4. ASSUME NEW i PROVE KeyFits(i) => KeyFits(i)'
  BY <1>2 DEF KeyFits, KeyLength
<1> QED
  BY <1>2, <1>3, <1>4 DEF Fitting

(* A new output has no key yet.                                            *)
LEMMA InitKeys == Init => KeysInv
<1> SUFFICES ASSUME Init PROVE KeysInv
  OBVIOUS
<1>1. IInv
  BY InitIInv
<1>2. pc = "uncompressed" /\ keyType = "UNKNOWN" /\ publicKey = << >>
  BY DEF Init
<1> QED
  BY <1>1, <1>2 DEF KeysInv, Loop, Fitting, Converted

(* A key found by the tests fits, and the loop starts behind the first     *)
(* byte with no key found before.                                          *)
LEMMA ClassifyKeys == KeysInv /\ Classify => Loop' /\ Fitting' /\ Converted'
<1> SUFFICES ASSUME KeysInv, Classify PROVE Loop' /\ Fitting' /\ Converted'
  OBVIOUS
<1> USE DEF warnVars
<1>1. /\ script' = script /\ script \in Seq(Bytes) /\ Loop /\ Fitting
      /\ pc = "uncompressed" => publicKey = << >>
  BY DEF KeysInv, IInv, TypeOK, FewBefore, Classify, EmptyScript, Uncompressed, FixedKind,
         UnusualKind, MultisigKind, SearchKind
<1>2. At(0)' = At(0)
  BY <1>1 DEF At
<1>3. CASE EmptyScript
  BY <1>1, <1>3, FittingStays DEF EmptyScript, Loop, Converted
<1>4. CASE Uncompressed
  <2>1. pc = "uncompressed" /\ pc' = "kind" /\ keyType = "UNKNOWN" /\ publicKey = << >>
    BY <1>1, <1>4 DEF Uncompressed, Loop
  <2>2. CASE IsUncompressed
    <3>1. /\ publicKey' = <<InScript(1)>> /\ keyType' = "UNCOMPRESSED_PUBLIC_KEY"
          /\ Len(script) = 67 /\ At(0) = UncompressedLength
      BY <1>4, <2>2 DEF Uncompressed, IsUncompressed
    <3>2. ASSUME NEW i \in DOMAIN publicKey' PROVE KeyFits(i)'
      <4>1. publicKey'[i].place = 1
        BY <3>1 DEF InScript
      <4> QED
        BY <1>1, <3>1, <4>1 DEF KeyFits, KeyLength, UncompressedLength
    <3> QED
      BY <1>2, <2>1, <3>1, <3>2 DEF Loop, Fitting, Converted
  <2>3. CASE ~IsUncompressed
    <3>1. publicKey' = << >> /\ keyType' = "UNKNOWN"
      BY <1>4, <2>1, <2>3 DEF Uncompressed
    <3> QED
      BY <2>1, <3>1 DEF Loop, Fitting, Converted
  <2> QED
    BY <2>2, <2>3
<1>5. CASE FixedKind
  <2>1. keyType' # "MULTISIG" /\ \A i \in DOMAIN publicKey' : KeyFits(i)'
    BY <1>1, <1>5, KindFits DEF FixedKind
  <2> QED
    BY <1>5, <2>1 DEF FixedKind, Loop, Fitting, Converted
<1>6. CASE UnusualKind
  BY <1>1, <1>6, FittingStays DEF UnusualKind, Loop, Converted
<1>7. CASE MultisigKind
  <2>1. /\ pc = "kind" /\ scanBegin' = 1 /\ UNCHANGED keyVars
        /\ pc' = IF ExpectedEnds THEN "multisig" ELSE "multisigEnd"
        /\ Len(script) > 25
    BY <1>7 DEF MultisigKind, LooksMultisig
  <2>2. CASE ExpectedEnds
    <3>1. At(0) \notin 1..75
      BY <2>2 DEF ExpectedEnds, OP_0, OP_1_to_5
    <3>2. Jump(0) = 1 /\ At(0) # UncompressedLength
      BY <3>1 DEF Jump, UncompressedLength
    <3>3. 1 \in Starts
      BY <1>1, <2>1, <3>2, StartsWalk
    <3>4. scanBegin' \in Starts'
      BY <1>1, <2>1, <3>3, ScriptStays
    <3>5. publicKey' = << >>
      BY <1>1, <2>1, <3>2 DEF Loop, keyVars
    <3> QED
      BY <1>1, <2>1, <2>2, <3>4, <3>5, FittingStays DEF Loop, Converted
  <2>3. CASE ~ExpectedEnds
    BY <1>1, <2>1, <2>3, FittingStays DEF Loop, Converted
  <2> QED
    BY <2>2, <2>3
<1>8. CASE SearchKind
  BY <1>1, <1>8, FittingStays DEF SearchKind, Loop, Converted, keyVars
<1> QED
  BY <1>3, <1>4, <1>5, <1>6, <1>7, <1>8 DEF Classify

(* The loop over the keys keeps its promise with each key, and its end and *)
(* the search for a hash leave the keys alone or find one that fits.       *)
LEMMA LoopKeys == KeysInv /\ (Multisig \/ Search) => Loop' /\ Fitting' /\ Converted'
<1> SUFFICES ASSUME KeysInv, Multisig \/ Search PROVE Loop' /\ Fitting' /\ Converted'
  OBVIOUS
<1> USE DEF warnVars
<1>1. /\ script' = script /\ script \in Seq(Bytes) /\ scanBegin \in Nat /\ Loop /\ Fitting
  BY DEF KeysInv, IInv, TypeOK, Multisig, CompressedKey, UncompressedKey, KeysEnd, MultisigEnd,
         Search, SearchHit, SearchMiss, SearchEnd
<1>2. CASE CompressedKey \/ UncompressedKey
  <2>1. /\ scanBegin' \in Starts' /\ scanBegin' >= 1
        /\ keyType' = "MULTISIG" /\ pc' = "multisig"
        /\ \A i \in DOMAIN publicKey' : KeyPushed(i)'
    BY <1>1, <1>2, KeyPushStep, ScriptStays
  <2> QED
    BY <2>1 DEF Loop, Fitting, Converted
<1>3. CASE KeysEnd \/ MultisigEnd \/ SearchEnd
  BY <1>1, <1>3, FittingStays DEF KeysEnd, MultisigEnd, SearchEnd, Loop, Converted
<1>4. CASE SearchMiss
  BY <1>1, <1>4, FittingStays DEF SearchMiss, Loop, Converted, keyVars
<1>5. CASE SearchHit
  <2>1. /\ publicKey' = <<InScript(scanBegin + 3)>> /\ keyType' = "RIPEMD160"
        /\ pc' = "fallback" /\ scanBegin < Len(script) - 25
    BY <1>5 DEF SearchHit, SearchAhead
  <2>2. ASSUME NEW i \in DOMAIN publicKey' PROVE KeyFits(i)'
    <3>1. publicKey'[i].place = scanBegin + 3
      BY <2>1 DEF InScript
    <3> QED
      BY <1>1, <2>1, <3>1 DEF KeyFits, KeyLength
  <2> QED
    BY <2>1, <2>2 DEF Loop, Fitting, Converted
<1> QED
  BY <1>2, <1>3, <1>4, <1>5 DEF Multisig, Search

(* The constant keys are not in the script, and every address is made of   *)
(* the key with its index.                                                 *)
LEMMA AddressKeys == KeysInv /\ Address => Loop' /\ Fitting' /\ Converted'
<1> SUFFICES ASSUME KeysInv, Address PROVE Loop' /\ Fitting' /\ Converted'
  OBVIOUS
<1> USE DEF warnVars
<1>1. /\ script' = script /\ publicKey \in Seq(Keys) /\ Loop /\ Fitting
  BY DEF KeysInv, IInv, TypeOK, Address, KeyFound, NoKey, MakeAddresses
<1>2. CASE KeyFound
  BY <1>1, <1>2, FittingStays DEF KeyFound, Loop, Converted
<1>3. CASE NoKey
  <2>1. /\ publicKey' = <<IF script = << >> THEN ZeroByteKey ELSE DummyKey>>
        /\ keyType' = "RIPEMD160" /\ pc' = "address"
    BY <1>3 DEF NoKey
  <2>2. ASSUME NEW i \in DOMAIN publicKey' PROVE KeyFits(i)'
    <3>1. publicKey'[i].from # "script"
      BY <2>1 DEF ZeroByteKey, DummyKey
    <3> QED
      BY <3>1 DEF KeyFits
  <2> QED
    BY <2>1, <2>2 DEF Loop, Fitting, Converted
<1>4. CASE MakeAddresses
  <2>1. PICK byte \in LastBytes :
          addresses' = [i \in 1..Len(publicKey) |->
                           [conversion |-> Conversion(i - 1), key |-> publicKey[i],
                            lastByte |-> byte]]
    BY <1>4 DEF MakeAddresses
  <2>2. pc' = "done" /\ UNCHANGED keyVars
    BY <1>4 DEF MakeAddresses
  <2>3. ASSUME NEW i \in 1..Len(publicKey) PROVE Conversion(i - 1)' = Conversion(i - 1)
    BY <2>2 DEF Conversion, keyVars
  <2>4. DOMAIN publicKey = 1..Len(publicKey) /\ publicKey' = publicKey
    BY <1>1, <2>2 DEF keyVars
  <2>5. Converted'
    BY <2>1, <2>3, <2>4 DEF Converted
  <2> QED
    BY <1>1, <2>2, <2>5, FittingStays DEF Loop
<1> QED
  BY <1>2, <1>3, <1>4 DEF Address

(* How the keys are found, at each step of readOutput.                     *)
THEOREM KeysInductive == Spec => []KeysInv
<1>1. KeysInv /\ [Next]_vars => KeysInv'
  <2> SUFFICES ASSUME KeysInv, [Next]_vars PROVE KeysInv'
    OBVIOUS
  <2>1. IInv'
    BY ClassifyStep, MultisigStep, SearchStep, AddressStep, StutterStep DEF KeysInv, Next, Done
  <2>2. CASE UNCHANGED vars
    <3>1. script' = script /\ UNCHANGED keyVars /\ pc' = pc /\ scanBegin' = scanBegin
          /\ addresses' = addresses
      BY <2>2 DEF vars
    <3>2. Loop'
      BY <3>1, ScriptStays DEF KeysInv, Loop, keyVars
    <3>3. ASSUME NEW i PROVE Conversion(i - 1)' = Conversion(i - 1)
      BY <3>1 DEF Conversion, keyVars
    <3>4. Converted'
      BY <3>1, <3>3 DEF KeysInv, Converted, keyVars
    <3> QED
      BY <2>1, <3>1, <3>2, <3>4, FittingStays DEF KeysInv
  <2> QED
    BY <2>1, <2>2, ClassifyKeys, LoopKeys, AddressKeys DEF KeysInv, Next, Done
<1> QED
  BY InitKeys, <1>1, PTL DEF Spec

(* For every script that divides into whole instructions, what is          *)
(* converted of each key lies inside the script: the loop goes from        *)
(* instruction to instruction, and none of them reaches past the end.      *)
THEOREM KeysInBounds == Spec => []KeysInside
<1>1. KeysInv => KeysInside
  <2> SUFFICES ASSUME KeysInv, pc = "done", Whole, NEW i \in DOMAIN addresses,
                      addresses[i].key.from = "script"
               PROVE  addresses[i].key.place + BytesRead(addresses[i]) <= Len(script)
    BY DEF KeysInside
  <2>1. /\ i \in DOMAIN publicKey /\ addresses[i].key = publicKey[i]
        /\ addresses[i].conversion = Conversion(i - 1)
        /\ script \in Seq(Bytes) /\ publicKey \in Seq(Keys)
    BY DEF KeysInv, IInv, TypeOK, Converted
  <2>2. publicKey[i].place \in Nat
    BY <2>1 DEF Keys, DummyKey, ZeroByteKey
  <2>3. CASE keyType = "MULTISIG"
    <3> DEFINE start == publicKey[i].place - 1
    <3>1. /\ start \in Starts /\ start < Len(script)
          /\ At(start) \in {CompressedLength, UncompressedLength}
          /\ i - 1 \in multiSigFormat <=> At(start) = CompressedLength
      BY <2>1, <2>3 DEF KeysInv, Fitting, KeyPushed
    <3>2. Jump(start) = publicKey[i].place + At(start)
      BY <2>2, <3>1 DEF Jump, CompressedLength, UncompressedLength
    <3>3. Jump(start) <= Len(script)
      BY <2>1, <3>1, StartsWalk DEF Whole
    <3> HIDE DEF start
    <3>4. BytesRead(addresses[i]) = At(start)
      <4>1. CASE i - 1 \in multiSigFormat
        BY <2>1, <2>3, <3>1, <4>1 DEF BytesRead, Conversion
      <4>2. CASE i - 1 \notin multiSigFormat
        BY <2>1, <2>3, <3>1, <4>2 DEF BytesRead, Conversion
      <4> QED
        BY <4>1, <4>2
    <3> QED
      BY <2>1, <3>2, <3>3, <3>4
  <2>4. CASE keyType # "MULTISIG"
    <3>1. publicKey[i].place + KeyLength <= Len(script)
      BY <2>1, <2>4 DEF KeysInv, Fitting, KeyFits
    <3>2. BytesRead(addresses[i]) = KeyLength
      BY <2>1, <2>4 DEF BytesRead, KeyLength, Conversion
    <3> QED
      BY <2>1, <3>1, <3>2
  <2> QED
    BY <2>3, <2>4
<1> QED
  BY <1>1, KeysInductive, PTL

-----------------------------------------------------------------------------
(* A script of this form, in which no hash is searched and found.          *)
Taken(form) == HasForm(form) /\ (form.length = UncompressedLength => HashPlaces = {})

FormDecoded(form) == keyType = form.type /\ publicKey = <<InScript(Len(form.before))>>

(* How far such a script is on its way to be decoded.                      *)
FormOnItsWay(form) ==
    /\ pc \notin {"multisig", "multisigEnd"}
    /\ pc \in {"kind", "search"} /\ form.type = "UNCOMPRESSED_PUBLIC_KEY" => FormDecoded(form)
    /\ pc = "search" => form.type = "UNCOMPRESSED_PUBLIC_KEY"
    /\ pc \in {"fallback", "address", "done"} => FormDecoded(form)

Silent == ~gIsWarning /\ ~gReportTransactionHash

FormInv == \A form \in PlainForms : Taken(form) => Silent /\ FormOnItsWay(form)

PushesBefore(place) == {p \in KeyPushes : p < place}

PlacesAfter(pushes) == {p + 1 : p \in pushes}

PlacesFound == {Places[i] : i \in DOMAIN publicKey}

(* How far a multi-signature script is: the keys pushed before the scan    *)
(* have been found.                                                        *)
MultisigOnItsWay ==
    /\ pc # "search"
    /\ pc \in {"uncompressed", "kind"} => publicKey = << >>
    /\ pc = "multisig" => /\ PlacesFound = PlacesAfter(PushesBefore(scanBegin))
                          /\ Len(publicKey) = Cardinality(PushesBefore(scanBegin))
    /\ pc \in {"multisigEnd", "fallback", "address", "done"} =>
          /\ keyType = "MULTISIG"
          /\ PlacesFound = PlacesAfter(KeyPushes)

MultisigInv == PlainMultisig => Silent /\ MultisigOnItsWay

DecodeInv == KeysInv /\ FormInv /\ MultisigInv

(* What a script of each form looks like to the tests.                     *)
LEMMA FormCases ==
  ASSUME script \in Seq(Bytes), NEW form \in PlainForms, HasForm(form)
  PROVE  \/ /\ form.type = "RIPEMD160" /\ Len(form.before) = 3
            /\ Len(script) = 25 /\ At(0) = OP_DUP /\ Matches(0, HashPrefix)
         \/ /\ form.type = "SCRIPT_HASH" /\ Len(form.before) = 2
            /\ Len(script) = 23 /\ At(0) = OP_HASH160 /\ At(22) = OP_EQUAL
            /\ Matches(0, <<OP_HASH160, 20>>)
         \/ /\ form.type = "COMPRESSED_PUBLIC_KEY" /\ Len(form.before) = 1
            /\ Len(script) = 35 /\ At(34) = OP_CHECKSIG
         \/ /\ form.type = "UNCOMPRESSED_PUBLIC_KEY" /\ Len(form.before) = 1
            /\ form.length = UncompressedLength
            /\ Len(script) = 67 /\ At(0) = UncompressedLength /\ At(66) = OP_CHECKSIG
<1>1. CASE form = [type |-> "RIPEMD160", before |-> HashPrefix, length |-> 20,
                   after |-> HashPostfix]
  <2>1. /\ form.type = "RIPEMD160" /\ form.before = HashPrefix /\ form.length = 20
        /\ form.after = HashPostfix
    BY <1>1
  <2>2. Len(script) = 25 /\ Matches(0, HashPrefix) /\ Len(form.before) = 3
    BY <2>1 DEF HasForm, HashPrefix, HashPostfix
  <2>3. At(0) = OP_DUP
    BY <2>2 DEF Matches, HashPrefix
  <2> QED
    BY <2>1, <2>2, <2>3
<1>2. CASE form = [type |-> "SCRIPT_HASH", before |-> <<OP_HASH160, 20>>, length |-> 20,
                   after |-> <<OP_EQUAL>>]
  <2>1. /\ form.type = "SCRIPT_HASH" /\ form.before = <<OP_HASH160, 20>> /\ form.length = 20
        /\ form.after = <<OP_EQUAL>>
    BY <1>2
  <2>2. /\ Len(script) = 23 /\ Matches(0, <<OP_HASH160, 20>>) /\ Matches(22, <<OP_EQUAL>>)
        /\ Len(form.before) = 2
    BY <2>1 DEF HasForm
  <2>3. At(0) = OP_HASH160 /\ At(22) = OP_EQUAL
    BY <2>2 DEF Matches
  <2> QED
    BY <2>1, <2>2, <2>3
<1>3. CASE form = [type |-> "COMPRESSED_PUBLIC_KEY", before |-> <<CompressedLength>>,
                   length |-> CompressedLength, after |-> <<OP_CHECKSIG>>]
  <2>1. /\ form.type = "COMPRESSED_PUBLIC_KEY" /\ form.before = <<CompressedLength>>
        /\ form.length = 33 /\ form.after = <<OP_CHECKSIG>>
    BY <1>3 DEF CompressedLength
  <2>2. Len(script) = 35 /\ Matches(34, <<OP_CHECKSIG>>) /\ Len(form.before) = 1
    BY <2>1 DEF HasForm
  <2>3. At(34) = OP_CHECKSIG
    BY <2>2 DEF Matches
  <2> QED
    BY <2>1, <2>2, <2>3
<1>4. CASE form = [type |-> "UNCOMPRESSED_PUBLIC_KEY", before |-> <<UncompressedLength>>,
                   length |-> UncompressedLength, after |-> <<OP_CHECKSIG>>]
  <2>1. /\ form.type = "UNCOMPRESSED_PUBLIC_KEY" /\ form.before = <<UncompressedLength>>
        /\ form.length = UncompressedLength /\ form.length = 65 /\ form.after = <<OP_CHECKSIG>>
    BY <1>4 DEF UncompressedLength
  <2>2. /\ Len(script) = 67 /\ Matches(0, <<UncompressedLength>>) /\ Matches(66, <<OP_CHECKSIG>>)
        /\ Len(form.before) = 1
    BY <2>1 DEF HasForm
  <2>3. At(0) = UncompressedLength /\ At(66) = OP_CHECKSIG
    BY <2>2 DEF Matches
  <2> QED
    BY <2>1, <2>2, <2>3
<1> QED
  BY <1>1, <1>2, <1>3, <1>4 DEF PlainForms

(* The tests for the fixed kinds, one by one.                              *)
LEMMA KindTests ==
  /\ DOMAIN Kinds = 1..6
  /\ Kinds[1].fits <=> Len(script) = 40 /\ At(0) = OP_RETURN
  /\ Kinds[2].fits <=> Len(script) = 66 /\ At(65) = OP_CHECKSIG
  /\ Kinds[3].fits <=> Len(script) = 35 /\ At(34) = OP_CHECKSIG
  /\ Kinds[4].fits <=> Len(script) = 33 /\ At(0) = 32
  /\ Kinds[5].fits <=> Len(script) = 23 /\ Matches(0, <<OP_HASH160, 20>>) /\ At(22) = OP_EQUAL
  /\ Kinds[6].fits <=> Len(script) >= 25 /\ Matches(0, HashPrefix)
<1>1. DOMAIN Kinds = 1..6
  BY DEF Kinds
<1>2. Kinds[1].fits <=> Len(script) = 40 /\ At(0) = OP_RETURN
  BY DEF Kinds
<1>3. Kinds[2].fits <=> Len(script) = 66 /\ At(65) = OP_CHECKSIG
  BY DEF Kinds
<1>4. Kinds[3].fits <=> Len(script) = 35 /\ At(34) = OP_CHECKSIG
  BY DEF Kinds
<1>5. Kinds[4].fits <=> Len(script) = 33 /\ At(0) = 32
  BY DEF Kinds
<1>6. Kinds[5].fits <=> /\ Len(script) = 23 /\ Matches(0, <<OP_HASH160, 20>>)
                        /\ At(22) = OP_EQUAL
  BY DEF Kinds
<1>7. Kinds[6].fits <=> Len(script) >= 25 /\ Matches(0, HashPrefix)
  BY DEF Kinds
<1> QED
  BY <1>1, <1>2, <1>3, <1>4, <1>5, <1>6, <1>7

(* The tests take a script of one form for no other: they stop at the kind *)
(* of the form, or at none for an uncompressed key, which was found before *)
(* them and is not taken for a script of several keys.                     *)
LEMMA FormTests ==
  ASSUME script \in Seq(Bytes), NEW form \in PlainForms, HasForm(form)
  PROVE  /\ script # << >>
         /\ form.type = "UNCOMPRESSED_PUBLIC_KEY" =>
               IsUncompressed /\ Len(form.before) = 1 /\ form.length = UncompressedLength
         /\ \A k \in DOMAIN Kinds :
               Kinds[k].fits /\ (\A j \in 1..(k - 1) : ~Kinds[j].fits) =>
                  /\ form.type # "UNCOMPRESSED_PUBLIC_KEY"
                  /\ Kinds[k].type = form.type /\ Kinds[k].key = Len(form.before)
         /\ NoFixedKind => form.type = "UNCOMPRESSED_PUBLIC_KEY"
         /\ ~IsUnusual
         /\ NoFixedKind => ~LooksMultisig
<1>1. Matches(0, HashPrefix) => At(0) = OP_DUP
  BY DEF Matches, HashPrefix
<1>2. /\ Kinds[3].type = "COMPRESSED_PUBLIC_KEY" /\ Kinds[3].key = 1
      /\ Kinds[5].type = "SCRIPT_HASH" /\ Kinds[5].key = 2
      /\ Kinds[6].type = "RIPEMD160" /\ Kinds[6].key = 3
  BY DEF Kinds
<1>3. script = << >> => Len(script) = 0
  OBVIOUS
<1> USE DEF NoFixedKind, IsUnusual, OP_DUP, OP_CHECKSIG, OP_CHECKMULTISIG, OP_HASH160,
            OP_RETURN, UncompressedLength
<1>4. CASE form.type = "RIPEMD160"
  <2>1. /\ Len(form.before) = 3 /\ Len(script) = 25 /\ Matches(0, HashPrefix)
    BY <1>4, FormCases
  <2>2. ASSUME NEW k \in DOMAIN Kinds, Kinds[k].fits PROVE k = 6
    BY <2>1, <2>2, KindTests
  <2>3. Kinds[6].fits /\ 6 \in DOMAIN Kinds
    BY <2>1, KindTests
  <2> QED
    BY <1>2, <1>3, <1>4, <2>1, <2>2, <2>3
<1>5. CASE form.type = "SCRIPT_HASH"
  <2>1. /\ Len(form.before) = 2 /\ Len(script) = 23 /\ At(22) = OP_EQUAL
        /\ Matches(0, <<OP_HASH160, 20>>)
    BY <1>5, FormCases
  <2>2. ASSUME NEW k \in DOMAIN Kinds, Kinds[k].fits PROVE k = 5
    BY <2>1, <2>2, KindTests
  <2>3. Kinds[5].fits /\ 5 \in DOMAIN Kinds
    BY <2>1, KindTests
  <2> QED
    BY <1>2, <1>3, <1>5, <2>1, <2>2, <2>3
<1>6. CASE form.type = "COMPRESSED_PUBLIC_KEY"
  <2>1. Len(form.before) = 1 /\ Len(script) = 35 /\ At(34) = OP_CHECKSIG
    BY <1>6, FormCases, SMTT(30)
  <2>2. Kinds[3].fits /\ 3 \in DOMAIN Kinds
    BY <2>1, KindTests
  <2>3. ASSUME NEW k \in DOMAIN Kinds, Kinds[k].fits PROVE k = 3 \/ k = 6
    BY <2>1, <2>3, KindTests
  <2>4. ASSUME NEW k \in DOMAIN Kinds, Kinds[k].fits, \A j \in 1..(k - 1) : ~Kinds[j].fits
        PROVE  k = 3
    <3>1. 3 \in 1..(6 - 1)
      OBVIOUS
    <3> QED
      BY <2>2, <2>3, <2>4, <3>1
  <2> QED
    BY <1>2, <1>3, <1>6, <2>1, <2>2, <2>4
<1>7. CASE form.type = "UNCOMPRESSED_PUBLIC_KEY"
  <2>1. /\ Len(form.before) = 1 /\ form.length = UncompressedLength
        /\ Len(script) = 67 /\ At(0) = UncompressedLength /\ At(66) = OP_CHECKSIG
    BY <1>7, FormCases, SMTT(30)
  <2>2. ASSUME NEW k \in DOMAIN Kinds PROVE ~Kinds[k].fits
    BY <1>1, <2>1, KindTests
  <2>3. ~LooksMultisig
    BY <2>1 DEF LooksMultisig
  <2>4. IsUncompressed
    BY <2>1 DEF IsUncompressed
  <2> QED
    BY <1>3, <1>7, <2>1, <2>2, <2>3, <2>4
<1> QED
  BY <1>4, <1>5, <1>6, <1>7, FormCases

(* A script of a plain form comes nearer to being decoded at each step, or *)
(* stays decoded.                                                          *)
LEMMA FormStep ==
  ASSUME KeysInv, Next, NEW form \in PlainForms, Taken(form), Silent, FormOnItsWay(form)
  PROVE  Silent' /\ FormOnItsWay(form)'
<1> USE DEF keyVars, warnVars, Silent
<1>1. script \in Seq(Bytes) /\ scanBegin \in Nat /\ HasForm(form) /\ script' = script
  BY ScriptFixed DEF KeysInv, IInv, TypeOK, Taken, Next, vars
<1>2. /\ script # << >>
      /\ form.type = "UNCOMPRESSED_PUBLIC_KEY" =>
            IsUncompressed /\ Len(form.before) = 1 /\ form.length = UncompressedLength
      /\ NoFixedKind => form.type = "UNCOMPRESSED_PUBLIC_KEY"
      /\ ~IsUnusual
      /\ NoFixedKind => ~LooksMultisig
  BY <1>1, FormTests
<1>3. CASE Classify
  <2>1. ~EmptyScript /\ ~UnusualKind /\ ~MultisigKind
    BY <1>2 DEF EmptyScript, UnusualKind, MultisigKind
  <2>2. CASE Uncompressed
    <3>1. form.type = "UNCOMPRESSED_PUBLIC_KEY" => FormDecoded(form)'
      BY <1>2, <2>2 DEF Uncompressed, FormDecoded
    <3> QED
      BY <2>2, <3>1 DEF Uncompressed, FormOnItsWay
  <2>3. CASE FixedKind
    <3>1. PICK k \in DOMAIN Kinds : /\ Kinds[k].fits /\ \A j \in 1..(k - 1) : ~Kinds[j].fits
                                    /\ keyType' = Kinds[k].type
                                    /\ publicKey' = <<InScript(Kinds[k].key)>>
      BY <2>3 DEF FixedKind
    <3>2. Kinds[k].type = form.type /\ Kinds[k].key = Len(form.before)
      BY <1>1, <3>1, FormTests
    <3>3. FormDecoded(form)'
      BY <3>1, <3>2 DEF FormDecoded
    <3> QED
      BY <2>3, <3>3 DEF FixedKind, FormOnItsWay
  <2>4. CASE SearchKind
    BY <1>2, <2>4 DEF SearchKind, FormOnItsWay, FormDecoded
  <2> QED
    BY <1>3, <2>1, <2>2, <2>3, <2>4 DEF Classify
<1>4. ~Multisig
  BY DEF FormOnItsWay, Multisig, CompressedKey, UncompressedKey, KeysEnd, MultisigEnd
<1>5. CASE Search
  <2>1. CASE SearchHit
    <3>1. /\ pc = "search" /\ HashAt(scanBegin) /\ scanBegin \in 0..(Len(script) - 25)
      BY <1>1, <2>1 DEF SearchHit, SearchAhead
    <3>2. HashPlaces = {}
      BY <1>2, <3>1 DEF FormOnItsWay, Taken
    <3> QED
      BY <3>1, <3>2 DEF HashPlaces
  <2>2. CASE SearchMiss
    BY <2>2 DEF SearchMiss, FormOnItsWay, FormDecoded
  <2>3. CASE SearchEnd
    BY <2>3 DEF SearchEnd, FormOnItsWay, FormDecoded
  <2> QED
    BY <1>5, <2>1, <2>2, <2>3 DEF Search
<1>6. CASE Address
  <2>1. CASE KeyFound
    BY <2>1 DEF KeyFound, FormOnItsWay, FormDecoded
  <2>2. CASE NoKey
    BY <2>2 DEF NoKey, FormOnItsWay, FormDecoded
  <2>3. CASE MakeAddresses
    BY <2>3 DEF MakeAddresses, FormOnItsWay, FormDecoded
  <2> QED
    BY <1>6, <2>1, <2>2, <2>3 DEF Address
<1>7. CASE Done
  BY <1>7 DEF Done, vars, FormOnItsWay, FormDecoded
<1> QED
  BY <1>3, <1>4, <1>5, <1>6, <1>7 DEF Next

(* In a multi-signature script the keys lie one behind the other from the  *)
(* second byte on, and it is no script of another kind.                    *)
LEMMA MultisigShape ==
  ASSUME script \in Seq(Bytes), PlainMultisig
  PROVE  /\ IsFiniteSet(KeyPushes) /\ KeyPushes # {}
         /\ Cardinality(KeyPushes) \in 1..MaxMultisig
         /\ \A p \in Starts : p >= 1 /\ p < ScanEnd => p \in KeyPushes
         /\ script # << >> /\ ~IsUncompressed /\ NoFixedKind /\ ~IsUnusual
         /\ LooksMultisig /\ ExpectedEnds
<1> DEFINE n == Len(script)
<1>1. n \in Nat /\ n > 3 /\ ScanEnd = n - 2
  BY DEF PlainMultisig, ScanEnd
<1>2. KeyPushes \subseteq 1..(ScanEnd - 1) /\ KeyPushes # {} /\ KeyPushes \subseteq Starts
  BY DEF PlainMultisig, KeyPushes
<1>3. /\ At(0) \in OP_1_to_5
      /\ At(ScanEnd) = 80 + Cardinality(KeyPushes)
      /\ At(n - 1) = OP_CHECKMULTISIG
      /\ Cardinality(KeyPushes) <= MaxMultisig
      /\ Starts = {0, ScanEnd, ScanEnd + 1, ScanEnd + 2} \cup KeyPushes
  BY <1>1 DEF PlainMultisig
<1>4. IsFiniteSet(KeyPushes)
  <2>1. 1 \in Int /\ ScanEnd - 1 \in Int
    BY <1>1
  <2>2. IsFiniteSet(1..(ScanEnd - 1))
    BY <2>1, FS_Interval
  <2> QED
    BY <1>2, <2>2, FS_Subset
<1>5. Cardinality(KeyPushes) \in 1..MaxMultisig
  <2>1. Cardinality(KeyPushes) \in Nat
    BY <1>4, FS_CardinalityType
  <2>2. Cardinality(KeyPushes) # 0
    BY <1>2, <1>4, FS_EmptySet
  <2> HIDE DEF n
  <2> QED
    BY <1>3, <2>1, <2>2 DEF MaxMultisig
<1>6. \A p \in Starts : p >= 1 /\ p < ScanEnd => p \in KeyPushes
  BY <1>1, <1>3
<1>7. n >= 37
  <2>1. Jump(0) = 1 /\ 0 < n
    <3>1. At(0) \notin 1..75
      <4>1. At(0) \in 81..85
        BY <1>3 DEF OP_1_to_5
      <4>2. \A byte \in 81..85 : byte \notin 1..75
        OBVIOUS
      <4> QED
        BY <4>1, <4>2, Zenon
    <3> QED
      BY <1>1, <3>1 DEF Jump
  <2>2. 1 \in Starts
    BY <2>1, StartsWalk
  <2>3. 1 < ScanEnd
    BY <1>1, <1>2
  <2>4. 1 \in KeyPushes
    BY <1>6, <2>2, <2>3
  <2>5. At(1) \in {CompressedLength, UncompressedLength}
    BY <2>4 DEF KeyPushes
  <2>6. Jump(1) = 2 + At(1)
    BY <2>5 DEF Jump, CompressedLength, UncompressedLength
  <2>7. Jump(1) <= ScanEnd
    BY <1>3, <2>2, <2>3, StartsWalk
  <2> QED
    BY <1>1, <2>5, <2>6, <2>7 DEF CompressedLength, UncompressedLength
<1>8. Matches(0, HashPrefix) => At(0) = OP_DUP
  BY DEF Matches, HashPrefix
<1> HIDE DEF n
<1>9. At(0) \in 81..85 /\ At(n - 1) = 174
  BY <1>3 DEF OP_1_to_5, OP_CHECKMULTISIG
<1>10. NoFixedKind
  <2>1. At(0) # OP_RETURN /\ At(0) # 32 /\ ~Matches(0, HashPrefix)
    BY <1>8, <1>9 DEF OP_RETURN, OP_DUP
  <2>2. Len(script) # 35 /\ Len(script) # 23
    <3>1. n # 35 /\ n # 23
      BY <1>1, <1>7
    <3> QED
      BY <3>1 DEF n
  <2>3. ASSUME Len(script) = 66 PROVE At(65) # OP_CHECKSIG
    <3>1. n - 1 = 65
      BY <2>3 DEF n
    <3> QED
      BY <1>9, <3>1 DEF OP_CHECKSIG
  <2> QED
    BY <2>1, <2>2, <2>3, KindTests DEF NoFixedKind
<1>11. ~IsUncompressed /\ ~IsUnusual /\ LooksMultisig /\ script # << >>
  BY <1>1, <1>7, <1>9 DEF n, IsUncompressed, IsUnusual, LooksMultisig, UncompressedLength,
     OP_CHECKMULTISIG
<1>12. ExpectedEnds
  BY <1>3, <1>5 DEF ExpectedEnds, OP_1_to_5, MaxMultisig
<1> QED
  BY <1>2, <1>4, <1>5, <1>6, <1>10, <1>11, <1>12

(* With each key the loop has found the keys up to the next instruction.   *)
LEMMA PushFound ==
  ASSUME KeysInv, PlainMultisig, MultisigOnItsWay, CompressedKey \/ UncompressedKey
  PROVE  MultisigOnItsWay'
<1>1. /\ script \in Seq(Bytes) /\ publicKey \in Seq(Keys) /\ scanBegin \in Nat
      /\ scanBegin \in Starts /\ scanBegin >= 1 /\ scanBegin < ScanEnd
      /\ scanBegin' = Jump(scanBegin)
      /\ publicKey' = Append(publicKey, InScript(scanBegin + 1))
      /\ pc = "multisig" /\ pc' = "multisig" /\ script' = script
  BY KeyPushStep DEF KeysInv, IInv, TypeOK, Loop, CompressedKey, UncompressedKey
<1>2. /\ PlacesFound = PlacesAfter(PushesBefore(scanBegin))
      /\ Len(publicKey) = Cardinality(PushesBefore(scanBegin))
  BY <1>1 DEF MultisigOnItsWay
<1>3. scanBegin \in KeyPushes /\ IsFiniteSet(KeyPushes) /\ KeyPushes \subseteq Starts
  BY <1>1, MultisigShape DEF KeyPushes
<1>4. scanBegin < Jump(scanBegin) /\ Jump(scanBegin) \in Nat
  BY <1>1, JumpAhead DEF ScanEnd
<1>5. {p \in KeyPushes : p < Jump(scanBegin)} = PushesBefore(scanBegin) \cup {scanBegin}
  <2>1. ASSUME NEW p \in KeyPushes PROVE p < Jump(scanBegin) <=> p < scanBegin \/ p = scanBegin
    <3>1. p \in Nat /\ p \in Starts
      BY <1>1, <1>3, StartsWalk
    <3>2. scanBegin < p => Jump(scanBegin) <= p
      BY <1>1, <3>1, StartsWalk
    <3> QED
      BY <1>1, <1>4, <3>1, <3>2
  <2> QED
    BY <1>3, <2>1 DEF PushesBefore
<1>6. PushesBefore(scanBegin)' = PushesBefore(scanBegin) \cup {scanBegin}
  <2>1. KeyPushes' = KeyPushes
    BY <1>1, ScriptStays
  <2> QED
    BY <1>1, <1>5, <2>1 DEF PushesBefore
<1>7. Len(publicKey') = Cardinality(PushesBefore(scanBegin)')
  <2>1. IsFiniteSet(PushesBefore(scanBegin)) /\ scanBegin \notin PushesBefore(scanBegin)
    <3>1. PushesBefore(scanBegin) \subseteq KeyPushes
      BY DEF PushesBefore
    <3> QED
      BY <1>1, <1>3, <3>1, FS_Subset DEF PushesBefore
  <2>2. Cardinality(PushesBefore(scanBegin) \cup {scanBegin})
           = Cardinality(PushesBefore(scanBegin)) + 1
    BY <2>1, FS_AddElement
  <2>3. InScript(scanBegin + 1) \in Keys
    BY <1>1 DEF InScript, Keys
  <2>4. Len(publicKey') = Len(publicKey) + 1
    BY <1>1, <2>3
  <2> QED
    BY <1>2, <1>6, <2>2, <2>4
<1>8. PlacesFound' = PlacesFound \cup {scanBegin + 1}
  <2>1. InScript(scanBegin + 1) \in Keys /\ InScript(scanBegin + 1).place = scanBegin + 1
    BY <1>1 DEF InScript, Keys
  <2>2. /\ DOMAIN publicKey = 1..Len(publicKey) /\ Len(publicKey) \in Nat
        /\ DOMAIN publicKey' = 1..(Len(publicKey) + 1)
        /\ \A i \in 1..Len(publicKey) : publicKey'[i] = publicKey[i]
        /\ publicKey'[Len(publicKey) + 1] = InScript(scanBegin + 1)
    BY <1>1, <2>1
  <2>3. PlacesFound = {publicKey[i].place : i \in DOMAIN publicKey}
    BY DEF PlacesFound, Places
  <2>4. PlacesFound' = {publicKey'[i].place : i \in DOMAIN publicKey'}
    BY DEF PlacesFound, Places
  <2>5. ASSUME NEW x PROVE x \in PlacesFound' <=> x \in PlacesFound \/ x = scanBegin + 1
    <3>1. DOMAIN publicKey' = DOMAIN publicKey \cup {Len(publicKey) + 1}
      BY <2>2
    <3> HIDE DEF PlacesFound
    <3> QED
      BY <2>1, <2>2, <2>3, <2>4, <3>1
  <2> QED
    BY <2>5
<1>9. PlacesAfter(PushesBefore(scanBegin) \cup {scanBegin})
         = PlacesAfter(PushesBefore(scanBegin)) \cup {scanBegin + 1}
  BY DEF PlacesAfter
<1>10. PlacesFound' = PlacesAfter(PushesBefore(scanBegin)')
  BY <1>2, <1>6, <1>8, <1>9
<1> QED
  BY <1>1, <1>7, <1>10 DEF MultisigOnItsWay, PlacesAfter

(* The loop does not end before it has found every key.                    *)
LEMMA AllPushesFound ==
  ASSUME KeysInv, PlainMultisig, MultisigOnItsWay, KeysEnd
  PROVE  keyType = "MULTISIG" /\ PlacesFound = PlacesAfter(KeyPushes)
<1>1. /\ script \in Seq(Bytes) /\ publicKey \in Seq(Keys) /\ scanBegin \in Nat
      /\ pc = "multisig" /\ scanBegin \in Starts /\ scanBegin >= 1
      /\ publicKey = << >> \/ keyType = "MULTISIG"
      /\ KeyAhead => At(scanBegin) \notin {CompressedLength, UncompressedLength}
      /\ PlacesFound = PlacesAfter(PushesBefore(scanBegin))
      /\ Len(publicKey) = Cardinality(PushesBefore(scanBegin))
  BY DEF KeysInv, IInv, TypeOK, Loop, KeysEnd, MultisigOnItsWay
<1>2. /\ IsFiniteSet(KeyPushes) /\ Cardinality(KeyPushes) \in 1..MaxMultisig
      /\ \A p \in Starts : p >= 1 /\ p < ScanEnd => p \in KeyPushes
      /\ KeyPushes \subseteq Starts
  BY <1>1, MultisigShape DEF KeyPushes
<1>3. ~(scanBegin < ScanEnd)
  <2> SUFFICES ASSUME scanBegin < ScanEnd PROVE FALSE
    OBVIOUS
  <2>1. scanBegin \in KeyPushes
    BY <1>1, <1>2
  <2>2. ~(Len(publicKey) < MaxMultisig)
    BY <1>1, <2>1 DEF KeyPushes, KeyAhead
  <2>3. PushesBefore(scanBegin) \subseteq KeyPushes /\ scanBegin \notin PushesBefore(scanBegin)
    BY <1>1 DEF PushesBefore
  <2>4. Cardinality(PushesBefore(scanBegin)) < Cardinality(KeyPushes)
    BY <1>2, <2>1, <2>3, FS_Subset, FS_CardinalityType
  <2> QED
    BY <1>1, <1>2, <2>2, <2>4 DEF MaxMultisig
<1>4. PushesBefore(scanBegin) = KeyPushes
  <2>1. ScanEnd \in Int
    BY <1>1 DEF ScanEnd
  <2>2. KeyPushes \subseteq 1..(ScanEnd - 1)
    BY DEF KeyPushes
  <2>3. ASSUME NEW p \in KeyPushes PROVE p < scanBegin
    BY <1>1, <1>3, <2>1, <2>2
  <2> QED
    BY <2>3 DEF PushesBefore
<1>5. publicKey # << >>
  BY <1>1, <1>2, <1>4
<1> QED
  BY <1>1, <1>4, <1>5

(* A multi-signature script comes nearer to being decoded at each step, or *)
(* stays decoded.                                                          *)
LEMMA MultisigFormStep ==
  ASSUME KeysInv, Next, PlainMultisig, Silent, MultisigOnItsWay
  PROVE  Silent' /\ MultisigOnItsWay'
<1> USE DEF keyVars, warnVars, Silent
<1>1. script \in Seq(Bytes) /\ script' = script
  BY ScriptFixed DEF KeysInv, IInv, TypeOK, Next, vars
<1>2. /\ script # << >> /\ ~IsUncompressed /\ NoFixedKind /\ ~IsUnusual
      /\ LooksMultisig /\ ExpectedEnds /\ KeyPushes # {}
  BY <1>1, MultisigShape
<1>3. KeyPushes' = KeyPushes
  BY <1>1, ScriptStays
<1>4. PlacesAfter(KeyPushes)' = PlacesAfter(KeyPushes)
  BY <1>3 DEF PlacesAfter
<1>5. PlacesFound = PlacesAfter(KeyPushes) => publicKey # << >>
  BY <1>2 DEF PlacesFound, Places, PlacesAfter
<1>6. publicKey' = publicKey => PlacesFound' = PlacesFound
  BY DEF PlacesFound, Places
<1>7. CASE Classify
  <2>1. ~EmptyScript /\ ~FixedKind /\ ~UnusualKind /\ ~SearchKind
    BY <1>2 DEF EmptyScript, FixedKind, NoFixedKind, UnusualKind, SearchKind
  <2>2. CASE Uncompressed
    BY <1>2, <2>2 DEF Uncompressed, MultisigOnItsWay
  <2>3. CASE MultisigKind
    <3>1. /\ pc' = "multisig" /\ scanBegin' = 1 /\ publicKey' = << >>
          /\ UNCHANGED warnVars
      BY <1>2, <2>3 DEF MultisigKind, MultisigOnItsWay
    <3>2. PushesBefore(scanBegin)' = {}
      <4>1. ASSUME NEW p \in KeyPushes PROVE ~(p < 1)
        <5>1. Len(script) \in Nat
          BY <1>1
        <5> QED
          BY <5>1 DEF KeyPushes, ScanEnd
      <4> QED
        BY <1>3, <3>1, <4>1 DEF PushesBefore
    <3>3. PlacesFound' = {} /\ PlacesAfter(PushesBefore(scanBegin)') = {}
      BY <3>1, <3>2 DEF PlacesFound, Places, PlacesAfter
    <3>4. Len(publicKey') = 0 /\ Cardinality(PushesBefore(scanBegin)') = 0
      BY <3>1, <3>2, FS_EmptySet
    <3> QED
      BY <3>1, <3>3, <3>4 DEF MultisigOnItsWay, PlacesAfter
  <2> QED
    BY <1>7, <2>1, <2>2, <2>3 DEF Classify
<1>8. CASE Multisig
  <2>1. CASE CompressedKey \/ UncompressedKey
    BY <2>1, PushFound DEF CompressedKey, UncompressedKey
  <2>2. CASE KeysEnd
    <3>1. keyType = "MULTISIG" /\ PlacesFound = PlacesAfter(KeyPushes)
      BY <2>2, AllPushesFound
    <3> QED
      BY <1>4, <1>6, <2>2, <3>1 DEF KeysEnd, MultisigOnItsWay
  <2>3. CASE MultisigEnd
    BY <1>4, <1>5, <1>6, <2>3 DEF MultisigEnd, MultisigOnItsWay
  <2> QED
    BY <1>8, <2>1, <2>2, <2>3 DEF Multisig
<1>9. ~Search
  BY DEF MultisigOnItsWay, Search, SearchHit, SearchMiss, SearchEnd
<1>10. CASE Address
  <2>1. CASE KeyFound
    BY <1>4, <1>6, <2>1 DEF KeyFound, MultisigOnItsWay
  <2>2. CASE NoKey
    BY <1>5, <2>2 DEF NoKey, MultisigOnItsWay
  <2>3. CASE MakeAddresses
    BY <1>4, <1>6, <2>3 DEF MakeAddresses, MultisigOnItsWay
  <2> QED
    BY <1>10, <2>1, <2>2, <2>3 DEF Address
<1>11. CASE Done
  BY <1>4, <1>6, <1>11 DEF Done, vars, MultisigOnItsWay, PushesBefore
<1> QED
  BY <1>7, <1>8, <1>9, <1>10, <1>11 DEF Next

(* The scripts of the standard forms are on their way at each step.        *)
THEOREM DecodeInductive == Spec => []DecodeInv
<1>1. Init => DecodeInv
  BY InitKeys DEF Init, DecodeInv, FormInv, MultisigInv, Silent, FormOnItsWay, MultisigOnItsWay
<1>2. KeysInv /\ [Next]_vars /\ KeysInv' /\ FormInv => FormInv'
  <2> SUFFICES ASSUME KeysInv, [Next]_vars, FormInv, NEW form \in PlainForms, Taken(form)'
               PROVE  Silent' /\ FormOnItsWay(form)'
    BY DEF FormInv
  <2>1. Taken(form) /\ Silent /\ FormOnItsWay(form)
    BY ScriptFixed, ScriptStays DEF FormInv, Taken
  <2>2. CASE UNCHANGED vars
    BY <2>1, <2>2 DEF vars, keyVars, warnVars, Silent, FormOnItsWay, FormDecoded
  <2> QED
    BY <2>1, <2>2, FormStep
<1>3. KeysInv /\ [Next]_vars /\ MultisigInv => MultisigInv'
  <2> SUFFICES ASSUME KeysInv, [Next]_vars, MultisigInv, PlainMultisig'
               PROVE  Silent' /\ MultisigOnItsWay'
    BY DEF MultisigInv
  <2>1. PlainMultisig /\ Silent /\ MultisigOnItsWay
    BY ScriptFixed, ScriptStays DEF MultisigInv
  <2>2. CASE UNCHANGED vars
    <3>1. KeyPushes' = KeyPushes
      BY ScriptFixed, ScriptStays
    <3> QED
      BY <2>1, <2>2, <3>1 DEF vars, keyVars, warnVars, Silent, MultisigOnItsWay, PushesBefore,
                              PlacesAfter, PlacesFound, Places
  <2> QED
    BY <2>1, <2>2, MultisigFormStep
<1> QED
  BY <1>1, <1>2, <1>3, KeysInductive, PTL DEF Spec, DecodeInv

(* For every script of a standard form: neither the order of the tests nor *)
(* the search after some of them takes one form for another, and of a      *)
(* multi-signature script every key is found, in its order and format.     *)
THEOREM StandardForms == Spec => []StandardDecoded
<1>1. DecodeInv => StandardDecoded
  <2> SUFFICES ASSUME DecodeInv, pc = "done"
               PROVE  /\ \A form \in PlainForms :
                            Taken(form) => FormDecoded(form) /\ ~gIsWarning
                      /\ PlainMultisig =>
                            /\ keyType = "MULTISIG" /\ ~gIsWarning
                            /\ Ascending(Places)
                            /\ PlacesFound = PlacesAfter(KeyPushes)
                            /\ \A i \in DOMAIN publicKey :
                                  addresses[i].conversion = "CompressedPublicKeyToAddress" <=>
                                     At(Places[i] - 1) = CompressedLength
    BY DEF StandardDecoded, Taken, FormDecoded, PlacesFound, PlacesAfter
  <2>1. \A form \in PlainForms : Taken(form) => FormDecoded(form) /\ ~gIsWarning
    BY DEF DecodeInv, FormInv, Silent, FormOnItsWay
  <2>2. ASSUME PlainMultisig
        PROVE  /\ keyType = "MULTISIG" /\ ~gIsWarning /\ Ascending(Places)
               /\ PlacesFound = PlacesAfter(KeyPushes)
    BY <2>2 DEF DecodeInv, MultisigInv, Silent, MultisigOnItsWay, KeysInv, IInv, FoundOrWarned,
                KeysFound
  <2>3. ASSUME PlainMultisig, NEW i \in DOMAIN publicKey
        PROVE  addresses[i].conversion = "CompressedPublicKeyToAddress" <=>
                  At(Places[i] - 1) = CompressedLength
    <3>1. keyType = "MULTISIG" /\ Places[i] = publicKey[i].place
      BY <2>2, <2>3 DEF Places
    <3>2. addresses[i].conversion = Conversion(i - 1)
      BY DEF DecodeInv, KeysInv, Converted
    <3>3. i - 1 \in multiSigFormat <=> At(publicKey[i].place - 1) = CompressedLength
      BY <3>1 DEF DecodeInv, KeysInv, Fitting, KeyPushed
    <3> QED
      BY <3>1, <3>2, <3>3 DEF Conversion
  <2> QED
    BY <2>1, <2>2, <2>3
<1> QED
  BY <1>1, DecodeInductive, PTL

-----------------------------------------------------------------------------
(***************************************************************************)
(* Base58.                                                                 *)
(***************************************************************************)

(* The number that bytes stand for, by Horner's rule from the top one.     *)
IsHorner(a, f) == /\ f \in [0..Len(a) -> Nat]
                  /\ f[Len(a)] = 0
                  /\ \A k \in 1..Len(a) : f[k - 1] = f[k] * Byte + a[k]

Horner(a) == CHOOSE f : IsHorner(a, f)

NumberOf(a) == Horner(a)[0]

(* A byte is a number below 256.                                           *)
LEMMA OctetIs == \A v : v \in Octets <=> v \in Nat /\ v < 256
BY DEF Octets, Byte

(* What is carried into a byte is a byte.                                  *)
LEMMA BitsAreOctets == 0 \in Octets /\ 1 \in Octets
BY DEF Octets, Byte

(* The bytes of a sequence.                                                *)
LEMMA Octet ==
  ASSUME NEW a \in Seq(Octets), NEW k \in 1..Len(a)
  PROVE  a[k] \in Nat /\ a[k] < 256
BY ElementOfSeq, OctetIs, Zenon

(* A number has one quotient and one remainder.                            *)
LEMMA DivideUnique ==
  ASSUME NEW h \in Nat, NEW i \in Nat, NEW v \in Nat, NEW w \in Nat, v < 256, w < 256,
         h * 256 + v = i * 256 + w
  PROVE  h = i /\ v = w
OBVIOUS

(* Horner's rule does not lose what is not zero.                           *)
LEMMA Positive ==
  ASSUME NEW h \in Nat, NEW v \in Nat, h > 0 \/ v # 0
  PROVE  h * 256 + v > 0
OBVIOUS

(* Horner's rule gives each place its value.                               *)
LEMMA HornerIs == ASSUME NEW a \in Seq(Octets) PROVE IsHorner(a, Horner(a))
<1> DEFINE g == [k \in 1..Len(a) |-> [h \in Nat |-> h * Byte + a[k]]]
<1>1. g \in [1..Len(a) -> [Nat -> Nat]]
  BY Octet DEF Byte
<1>2. Len(a) \in Nat
  OBVIOUS
<1>3. PICK f \in [0..Len(a) -> Nat] :
        f[Len(a)] = 0 /\ \A k \in 1..Len(a) : f[k - 1] = g[k][f[k]]
  <2> HIDE DEF g
  <2>1. 0 \in Nat
    OBVIOUS
  <2>2. \E f : LoopsDown(f, Len(a), Nat, 0, g)
    BY <1>1, <1>2, <2>1, LoopDown, Zenon
  <2> QED
    BY <2>2 DEF LoopsDown
<1>4. ASSUME NEW k \in 1..Len(a) PROVE f[k - 1] = f[k] * Byte + a[k]
  <2>1. \A h \in Nat : g[k][h] = h * Byte + a[k]
    OBVIOUS
  <2> HIDE DEF g
  <2>2. f[k] \in Nat /\ f[k - 1] = g[k][f[k]]
    BY <1>3
  <2> QED
    BY <2>1, <2>2
<1>5. IsHorner(a, f)
  BY <1>3, <1>4 DEF IsHorner
<1> QED
  BY <1>5 DEF Horner

(* That value is a natural number.                                         *)
LEMMA HornerType ==
  ASSUME NEW a \in Seq(Octets), NEW k \in 0..Len(a)
  PROVE  Horner(a)[k] \in Nat
BY HornerIs DEF IsHorner

(* Above the top byte it is zero.                                          *)
LEMMA HornerTop == ASSUME NEW a \in Seq(Octets) PROVE Horner(a)[Len(a)] = 0
BY HornerIs DEF IsHorner

(* One step of the rule.                                                   *)
LEMMA HornerStep ==
  ASSUME NEW a \in Seq(Octets), NEW k \in 1..Len(a)
  PROVE  /\ Horner(a)[k] \in Nat /\ Horner(a)[k - 1] \in Nat
         /\ a[k] \in Nat /\ a[k] < 256
         /\ Horner(a)[k - 1] = Horner(a)[k] * 256 + a[k]
<1>1. k \in 0..Len(a) /\ k - 1 \in 0..Len(a)
  OBVIOUS
<1>2. Horner(a)[k - 1] = Horner(a)[k] * 256 + a[k]
  BY HornerIs DEF IsHorner, Byte
<1> QED
  BY <1>1, <1>2, HornerType, Octet

(* Whatever follows the rule is the number.                                *)
LEMMA HornerUnique ==
  ASSUME NEW a \in Seq(Octets), NEW f, f[Len(a)] = 0,
         \A k \in 1..Len(a) : f[k - 1] = f[k] * 256 + a[k]
  PROVE  \A k \in 0..Len(a) : f[k] = Horner(a)[k]
<1> DEFINE S == {k \in 0..Len(a) : f[k] = Horner(a)[k]}
<1>1. Len(a) \in S /\ Len(a) \in Nat
  BY HornerTop
<1>2. ASSUME NEW k \in 1..Len(a), k \in S PROVE k - 1 \in S
  BY <1>2, HornerStep
<1> HIDE DEF S
<1>3. \A k \in 0..Len(a) : k \in S
  BY <1>1, <1>2, DownInduction
<1> QED
  BY <1>3 DEF S

(* Whatever follows the rule down from zero ends in the number.            *)
LEMMA NumberIs ==
  ASSUME NEW a \in Seq(Octets), NEW f, f[Len(a)] = 0,
         \A k \in 1..Len(a) : f[k - 1] = f[k] * 256 + a[k]
  PROVE  NumberOf(a) = f[0]
<1>1. 0 \in 0..Len(a)
  OBVIOUS
<1> QED
  BY <1>1, HornerUnique DEF NumberOf

(* The number is a natural one.                                            *)
LEMMA NumberType == ASSUME NEW a \in Seq(Octets) PROVE NumberOf(a) \in Nat
<1>1. 0 \in 0..Len(a)
  OBVIOUS
<1> QED
  BY <1>1, HornerType DEF NumberOf

(* Zeros at the top are worth nothing.                                     *)
LEMMA Truncated ==
  ASSUME NEW a \in Seq(Octets), NEW b \in Seq(Octets), Len(b) <= Len(a),
         \A k \in 1..Len(b) : b[k] = a[k],
         \A k \in (Len(b) + 1)..Len(a) : a[k] = 0
  PROVE  NumberOf(b) = NumberOf(a)
<1> DEFINE S == {k \in 0..Len(a) : k >= Len(b) => Horner(a)[k] = 0}
<1>1. Len(a) \in S /\ Len(a) \in Nat
  BY HornerTop
<1>2. ASSUME NEW k \in 1..Len(a), k \in S PROVE k - 1 \in S
  <2>1. Horner(a)[k - 1] = Horner(a)[k] * 256 + a[k]
    BY HornerStep
  <2> QED
    BY <1>2, <2>1
<1> HIDE DEF S
<1>3. \A k \in 0..Len(a) : k \in S
  BY <1>1, <1>2, DownInduction
<1>4. Horner(a)[Len(b)] = 0
  BY <1>3 DEF S
<1>5. \A k \in 1..Len(b) : Horner(a)[k - 1] = Horner(a)[k] * 256 + b[k]
  BY HornerStep
<1> QED
  BY <1>4, <1>5, NumberIs DEF NumberOf

(* Without zeros at the top, no two numbers are the same.                  *)
Strict(a) == a = << >> \/ a[Len(a)] # 0

(* Below a top byte that is not zero no place has the value zero.          *)
LEMMA StrictRises ==
  ASSUME NEW a \in Seq(Octets), Strict(a), NEW k \in 0..Len(a), k < Len(a)
  PROVE  Horner(a)[k] > 0
<1> DEFINE S == {m \in 0..Len(a) : m < Len(a) => Horner(a)[m] > 0}
<1>1. Len(a) \in S /\ Len(a) \in Nat
  OBVIOUS
<1>2. ASSUME NEW m \in 1..Len(a), m \in S PROVE m - 1 \in S
  <2>1. Horner(a)[m] \in Nat /\ a[m] \in Nat /\ Horner(a)[m - 1] = Horner(a)[m] * 256 + a[m]
    BY HornerStep
  <2>2. CASE m = Len(a)
    <3>1. a[m] # 0
      BY <2>2 DEF Strict
    <3>2. Horner(a)[m - 1] > 0 /\ m - 1 \in 0..Len(a)
      BY <2>1, <3>1, Positive
    <3> QED
      BY <3>2
  <2>3. CASE m < Len(a)
    BY <1>2, <2>1, <2>3
  <2> QED
    BY <2>2, <2>3
<1> HIDE DEF S
<1>3. \A m \in 0..Len(a) : m \in S
  BY <1>1, <1>2, DownInduction
<1> QED
  BY <1>3 DEF S

(* Without a zero on top a number is written in one way.                   *)
LEMMA StrictUnique ==
  ASSUME NEW a \in Seq(Octets), NEW b \in Seq(Octets), Strict(a), Strict(b),
         NumberOf(a) = NumberOf(b)
  PROVE  a = b
<1> DEFINE n == IF Len(a) < Len(b) THEN Len(a) ELSE Len(b)
           S == {k \in 0..n : Horner(a)[k] = Horner(b)[k]}
<1>1. n \in Nat /\ n <= Len(a) /\ n <= Len(b) /\ n \in {Len(a), Len(b)}
  OBVIOUS
<1>2. 0 \in S
  BY <1>1 DEF NumberOf
<1>3. ASSUME NEW k \in 1..n, k - 1 \in S
      PROVE  k \in S /\ a[k] = b[k]
  <2>1. /\ Horner(a)[k] \in Nat /\ a[k] \in Nat /\ a[k] < 256
        /\ Horner(a)[k - 1] = Horner(a)[k] * 256 + a[k]
    BY <1>1, HornerStep
  <2>2. /\ Horner(b)[k] \in Nat /\ b[k] \in Nat /\ b[k] < 256
        /\ Horner(b)[k - 1] = Horner(b)[k] * 256 + b[k]
    BY <1>1, HornerStep
  <2>3. Horner(a)[k - 1] = Horner(b)[k - 1]
    BY <1>3
  <2>4. Horner(a)[k] = Horner(b)[k] /\ a[k] = b[k]
    <3>1. Horner(a)[k] * 256 + a[k] = Horner(b)[k] * 256 + b[k]
      BY <2>1, <2>2, <2>3, Zenon
    <3> DEFINE h == Horner(a)[k]
               i == Horner(b)[k]
               v == a[k]
               w == b[k]
    <3>2. h \in Nat /\ i \in Nat /\ v \in Nat /\ w \in Nat /\ v < 256 /\ w < 256
          /\ h * 256 + v = i * 256 + w
      BY <2>1, <2>2, <3>1
    <3>3. h = i /\ v = w
      <4> HIDE DEF h, i, v, w
      <4> QED
        BY <3>2, DivideUnique
    <3> QED
      BY <3>3
  <2>5. k \in 0..n
    OBVIOUS
  <2> QED
    BY <2>4, <2>5
<1> HIDE DEF S
<1>4. \A k \in 0..n : k \in S
  BY <1>1, <1>2, <1>3, UpInduction
<1>5. \A k \in 1..n : a[k] = b[k]
  BY <1>1, <1>3, <1>4
<1>6. Horner(a)[n] = Horner(b)[n]
  BY <1>1, <1>4 DEF S
<1>7. Len(a) = Len(b)
  <2>1. CASE n = Len(a) /\ Len(a) < Len(b)
    BY <1>6, <2>1, HornerTop, StrictRises
  <2>2. CASE n = Len(b) /\ Len(b) < Len(a)
    BY <1>6, <2>2, HornerTop, StrictRises
  <2> QED
    BY <1>1, <2>1, <2>2
<1> QED
  BY <1>1, <1>5, <1>7, SeqEqual

-----------------------------------------------------------------------------
(* What each of the operations on a number computes.                       *)
LEMMA MaxIs ==
  ASSUME NEW n \in Nat, NEW S, S \subseteq 0..n, S # {}
  PROVE  Max(S) \in S /\ \A m \in S : m <= Max(S)
<1> DEFINE T == {n - m : m \in S}
<1>1. T \subseteq Nat /\ T # {}
  <2>1. PICK m \in S : TRUE
    OBVIOUS
  <2>2. n - m \in T
    BY <2>1
  <2>3. ASSUME NEW t \in T PROVE t \in Nat
    <3>1. PICK i \in S : t = n - i
      OBVIOUS
    <3> QED
      BY <3>1
  <2> QED
    BY <2>2, <2>3
<1>2. PICK least \in T : \A m \in T : least <= m
  <2> HIDE DEF T
  <2> QED
    BY <1>1, LeastExists
<1>3. PICK x \in S : least = n - x
  BY <1>2
<1>4. \A m \in S : m <= x
  <2> SUFFICES ASSUME NEW m \in S PROVE m <= x
    OBVIOUS
  <2>1. n - m \in T /\ m \in 0..n /\ x \in 0..n
    OBVIOUS
  <2>2. n - x <= n - m
    BY <1>2, <1>3, <2>1
  <2> QED
    BY <2>1, <2>2
<1>5. x \in S /\ \A m \in S : x >= m
  BY <1>4
<1>6. Max(S) \in S /\ \A m \in S : Max(S) >= m
  BY <1>5, Zenon DEF Max
<1> QED
  BY <1>6

Normal(a) == a # << >> /\ (Len(a) = 1 \/ a[Len(a)] # 0)

(* The bytes up to one of them.                                            *)
LEMMA Prefix ==
  ASSUME NEW a \in Seq(Octets), NEW m \in 0..Len(a)
  PROVE  /\ SubSeq(a, 1, m) \in Seq(Octets)
         /\ Len(SubSeq(a, 1, m)) = m
         /\ \A i \in 1..m : SubSeq(a, 1, m)[i] = a[i]
OBVIOUS

(* Normalising removes the zeros on top, and not the number.               *)
LEMMA NormaliseIs ==
  ASSUME NEW a \in Seq(Octets), a # << >>
  PROVE  /\ BigNumberNormalise(a) \in Seq(Octets)
         /\ Normal(BigNumberNormalise(a))
         /\ Len(BigNumberNormalise(a)) <= Len(a)
         /\ NumberOf(BigNumberNormalise(a)) = NumberOf(a)
<1> DEFINE S == {1} \cup {i \in DOMAIN a : a[i] # 0}
           r == SubSeq(a, 1, Max(S))
<1>1. S \subseteq 0..Len(a) /\ S # {} /\ Len(a) \in Nat
  OBVIOUS
<1>2. Max(S) \in S /\ \A m \in S : m <= Max(S)
  <2> HIDE DEF S
  <2> QED
    BY <1>1, MaxIs
<1>3. Max(S) \in 1..Len(a) /\ (Max(S) = 1 \/ a[Max(S)] # 0)
  BY <1>2
<1>4. \A i \in (Max(S) + 1)..Len(a) : a[i] = 0
  <2> SUFFICES ASSUME NEW i \in (Max(S) + 1)..Len(a), a[i] # 0 PROVE FALSE
    OBVIOUS
  <2>1. i \in S
    BY <1>3
  <2> QED
    BY <1>2, <1>3, <2>1
<1> HIDE DEF S
<1>5. /\ r \in Seq(Octets) /\ Len(r) = Max(S) /\ \A i \in 1..Max(S) : r[i] = a[i]
  BY <1>3, Prefix
<1> HIDE DEF r
<1>6. r \in Seq(Octets) /\ Normal(r) /\ Len(r) <= Len(a)
  BY <1>3, <1>5 DEF Normal
<1>7. NumberOf(r) = NumberOf(a)
  BY <1>1, <1>3, <1>4, <1>5, Truncated
<1>8. r = BigNumberNormalise(a)
  BY DEF r, S, BigNumberNormalise
<1> QED
  BY <1>6, <1>7, <1>8

(* One byte of the remainder.                                              *)
LEMMA ModuloStep ==
  ASSUME NEW h \in Nat, NEW v \in Nat
  PROVE  ((((h % 58) * (256 % 58)) % 58) + (v % 58)) % 58 = (h * 256 + v) % 58
OBVIOUS

IsModulo(a, f) ==
    f = [x \in 0..Len(a) |->
            IF x = Len(a) THEN 0
            ELSE (((f[x + 1] * (Byte % Base)) % Base) + (a[x + 1] % Base)) % Base]

(* The remainder by 58 is exact, byte by byte.                             *)
LEMMA ModuloIs ==
  ASSUME NEW a \in Seq(Octets)
  PROVE  BigNumberModuloWith58(a) = NumberOf(a) % 58
<1> DEFINE w == [x \in 0..Len(a) |-> Horner(a)[x] % 58]
           result == CHOOSE f : IsModulo(a, f)
<1>1. ASSUME NEW k \in 1..Len(a)
      PROVE  w[k - 1] = (((w[k] * (Byte % Base)) % Base) + (a[k] % Base)) % Base
  <2>1. /\ Horner(a)[k] \in Nat /\ a[k] \in Nat
        /\ Horner(a)[k - 1] = Horner(a)[k] * 256 + a[k]
    BY HornerStep
  <2>2. w[k - 1] = Horner(a)[k - 1] % 58 /\ w[k] = Horner(a)[k] % 58
    OBVIOUS
  <2>3. ((((Horner(a)[k] % 58) * (256 % 58)) % 58) + (a[k] % 58)) % 58
            = (Horner(a)[k] * 256 + a[k]) % 58
    <3> DEFINE h == Horner(a)[k]
               v == a[k]
    <3>1. h \in Nat /\ v \in Nat
      BY <2>1
    <3> HIDE DEF h, v
    <3>2. ((((h % 58) * (256 % 58)) % 58) + (v % 58)) % 58 = (h * 256 + v) % 58
      BY <3>1, ModuloStep
    <3> QED
      BY <3>2 DEF h, v
  <2> HIDE DEF w
  <2> QED
    BY <2>1, <2>2, <2>3, ZenonT(60) DEF Byte, Base
<1>2. w[Len(a)] = 0
  BY HornerTop
<1>3. w = [x \in 0..Len(a) |->
              IF x = Len(a) THEN 0
              ELSE (((w[x + 1] * (Byte % Base)) % Base) + (a[x + 1] % Base)) % Base]
  <2>1. \A x \in 0..Len(a) : w[x] =
              IF x = Len(a) THEN 0
              ELSE (((w[x + 1] * (Byte % Base)) % Base) + (a[x + 1] % Base)) % Base
    <3> SUFFICES ASSUME NEW x \in 0..Len(a), x # Len(a)
                 PROVE  w[x] = (((w[x + 1] * (Byte % Base)) % Base) + (a[x + 1] % Base)) % Base
      BY <1>2
    <3>1. x + 1 \in 1..Len(a) /\ (x + 1) - 1 = x
      OBVIOUS
    <3> HIDE DEF w
    <3>2. w[(x + 1) - 1] = (((w[x + 1] * (Byte % Base)) % Base) + (a[x + 1] % Base)) % Base
      BY <1>1, <3>1, Zenon
    <3> QED
      BY <3>1, <3>2
  <2> QED
    BY <2>1
<1>4. IsModulo(a, w)
  <2> HIDE DEF w
  <2> QED
    BY <1>3 DEF IsModulo
<1> HIDE DEF w
<1>5. IsModulo(a, result)
  BY <1>4
<1> HIDE DEF result
<1>6. result[0] = w[0]
  <2> DEFINE S == {x \in 0..Len(a) : result[x] = w[x]}
  <2>1. Len(a) \in S /\ Len(a) \in Nat
    <3>1. Len(a) \in 0..Len(a)
      OBVIOUS
    <3> QED
      BY <1>2, <1>5, <3>1 DEF IsModulo
  <2>2. ASSUME NEW k \in 1..Len(a), k \in S PROVE k - 1 \in S
    <3>1. k - 1 \in 0..Len(a) /\ k - 1 # Len(a) /\ (k - 1) + 1 = k
      OBVIOUS
    <3>2. result[k - 1] = (((result[k] * (Byte % Base)) % Base) + (a[k] % Base)) % Base
      <4>1. result[k - 1] = (((result[(k - 1) + 1] * (Byte % Base)) % Base)
                               + (a[(k - 1) + 1] % Base)) % Base
        BY <1>5, <3>1, Zenon DEF IsModulo
      <4> QED
        BY <3>1, <4>1, Zenon
    <3>3. result[k] = w[k]
      BY <2>2
    <3> QED
      BY <1>1, <3>1, <3>2, <3>3, Zenon
  <2> HIDE DEF S
  <2>3. \A k \in 0..Len(a) : k \in S
    BY <2>1, <2>2, DownInduction
  <2>4. 0 \in S
    BY <2>1, <2>3
  <2> QED
    BY <2>4 DEF S
<1>7. w[0] = NumberOf(a) % 58
  BY DEF w, NumberOf
<1>8. BigNumberModuloWith58(a) = result[0]
  BY DEF BigNumberModuloWith58, result, IsModulo
<1> QED
  BY <1>6, <1>7, <1>8

(* One byte of the long division: what is left over is below 58.           *)
LEMMA DivideStep ==
  ASSUME NEW h \in Nat, NEW v \in Nat, v < 256
  PROVE  /\ (h * 256 + v) \div 58 = (h \div 58) * 256 + (((h % 58) * 256 + v) \div 58)
         /\ ((h % 58) * 256 + v) \div 58 \in Nat
         /\ ((h % 58) * 256 + v) \div 58 < 256
OBVIOUS

(* The dividend of the next byte.                                          *)
LEMMA RemainderStep ==
  ASSUME NEW h \in Nat, NEW v \in Nat
  PROVE  (h * 256 + v) % 58 = ((h % 58) * 256 + v) % 58
OBVIOUS

IsDividend(a, f) ==
    f = [x \in 1..Len(a) |->
            IF x = Len(a) THEN a[x] ELSE (f[x + 1] % Base) * Byte + a[x]]

(* Each dividend is the remainder of the bytes above, and the byte.        *)
LEMMA DividendIs ==
  ASSUME NEW a \in Seq(Octets)
  PROVE  /\ \E f : IsDividend(a, f)
         /\ \A f : IsDividend(a, f) =>
               \A x \in 1..Len(a) : f[x] = (Horner(a)[x] % 58) * 256 + a[x]
<1> DEFINE w == [x \in 1..Len(a) |-> (Horner(a)[x] % 58) * 256 + a[x]]
<1>1. ASSUME NEW x \in 1..Len(a), x # Len(a)
      PROVE  /\ x + 1 \in 1..Len(a)
             /\ w[x] = (w[x + 1] % Base) * Byte + a[x]
  <2>1. x + 1 \in 1..Len(a) /\ (x + 1) - 1 = x
    BY <1>1
  <2>2. /\ Horner(a)[x + 1] \in Nat /\ a[x + 1] \in Nat /\ a[x + 1] < 256
        /\ Horner(a)[x] = Horner(a)[x + 1] * 256 + a[x + 1]
    BY <2>1, HornerStep
  <2>3. w[x] = (Horner(a)[x] % 58) * 256 + a[x]
        /\ w[x + 1] = (Horner(a)[x + 1] % 58) * 256 + a[x + 1]
    BY <2>1
  <2>4. (Horner(a)[x + 1] * 256 + a[x + 1]) % 58
            = ((Horner(a)[x + 1] % 58) * 256 + a[x + 1]) % 58
    <3> DEFINE h == Horner(a)[x + 1]
               v == a[x + 1]
    <3>1. h \in Nat /\ v \in Nat
      BY <2>2
    <3> HIDE DEF h, v
    <3>2. (h * 256 + v) % 58 = ((h % 58) * 256 + v) % 58
      BY <3>1, RemainderStep
    <3> QED
      BY <3>2 DEF h, v
  <2> HIDE DEF w
  <2>5. Horner(a)[x] % 58 = w[x + 1] % 58
    BY <2>2, <2>3, <2>4, Zenon
  <2> QED
    BY <2>1, <2>3, <2>5, Zenon DEF Base, Byte
<1>2. ASSUME NEW x \in 1..Len(a), x = Len(a) PROVE w[x] = a[x]
  <2>1. Horner(a)[x] = 0 /\ a[x] \in Nat
    BY <1>2, HornerTop, Octet
  <2> QED
    BY <2>1
<1>3. w = [x \in 1..Len(a) |-> IF x = Len(a) THEN a[x] ELSE (w[x + 1] % Base) * Byte + a[x]]
  <2>1. \A x \in 1..Len(a) :
           w[x] = IF x = Len(a) THEN a[x] ELSE (w[x + 1] % Base) * Byte + a[x]
    <3> HIDE DEF w
    <3> QED
      BY <1>1, <1>2, Zenon
  <2> QED
    BY <2>1, ZenonT(60)
<1>4. IsDividend(a, w)
  <2> HIDE DEF w
  <2> QED
    BY <1>3 DEF IsDividend
<1>5. ASSUME NEW f, IsDividend(a, f), NEW y \in 1..Len(a) PROVE f[y] = w[y]
  <2> HIDE DEF w
  <2> DEFINE S == {x \in 0..Len(a) : x # 0 => f[x] = w[x]}
  <2>1. Len(a) \in S /\ Len(a) \in Nat
    <3>1. Len(a) # 0 => Len(a) \in 1..Len(a)
      OBVIOUS
    <3>2. Len(a) # 0 => f[Len(a)] = a[Len(a)]
      BY <1>5, <3>1 DEF IsDividend
    <3> QED
      BY <1>2, <3>1, <3>2
  <2>2. ASSUME NEW k \in 1..Len(a), k \in S PROVE k - 1 \in S
    <3>1. k - 1 \in 0..Len(a) /\ k - 1 # Len(a) /\ (k - 1) + 1 = k
      OBVIOUS
    <3>2. CASE k - 1 = 0
      BY <3>1, <3>2
    <3>3. CASE k - 1 # 0
      <4>1. k - 1 \in 1..Len(a)
        BY <3>3
      <4>2. f[k - 1] = (f[(k - 1) + 1] % Base) * Byte + a[k - 1]
        BY <1>5, <3>1, <4>1, Zenon DEF IsDividend
      <4>3. w[k - 1] = (w[(k - 1) + 1] % Base) * Byte + a[k - 1]
        BY <1>1, <3>1, <4>1, Zenon
      <4>4. f[k] = w[k]
        BY <2>2
      <4>5. f[k - 1] = w[k - 1]
        BY <3>1, <4>2, <4>3, <4>4, Zenon
      <4> QED
        BY <3>1, <4>5
    <3> QED
      BY <3>2, <3>3
  <2> HIDE DEF S
  <2>3. \A k \in 0..Len(a) : k \in S
    BY <2>1, <2>2, DownInduction
  <2>4. y \in S /\ y # 0
    BY <2>3
  <2> QED
    BY <2>4 DEF S
<1>6. \A x \in 1..Len(a) : w[x] = (Horner(a)[x] % 58) * 256 + a[x]
  OBVIOUS
<1> HIDE DEF w
<1> QED
  BY <1>4, <1>5, <1>6

(* A number of one byte.                                                   *)
LEMMA Single ==
  ASSUME NEW a \in Seq(Octets), Len(a) = 1
  PROVE  NumberOf(a) = a[1] /\ a[1] \in Nat
<1>1. 1 \in 1..Len(a) /\ 1 - 1 = 0
  OBVIOUS
<1>2. Horner(a)[1] = 0
  BY HornerTop
<1>3. a[1] \in Nat /\ Horner(a)[1 - 1] = Horner(a)[1] * 256 + a[1]
  BY <1>1, HornerStep
<1> QED
  BY <1>1, <1>2, <1>3 DEF NumberOf

(* The division by 58 is exact, and loses at most the top byte.            *)
LEMMA DivisionIs ==
  ASSUME NEW a \in Seq(Octets), Normal(a), NumberOf(a) >= 58
  PROVE  LET q == BigNumberEqualsDivisionBy58(a)
         IN  /\ q \in Seq(Octets) /\ Normal(q) /\ Len(q) <= Len(a)
             /\ NumberOf(q) = NumberOf(a) \div 58
<1> DEFINE dividend == CHOOSE f : IsDividend(a, f)
           ans == [x \in DOMAIN a |-> (dividend[x] \div Base) % Byte]
           q == IF ans[Len(a)] = 0 THEN SubSeq(ans, 1, Len(a) - 1) ELSE ans
<1>1. IsDividend(a, dividend)
  BY DividendIs
<1> HIDE DEF dividend
<1>2. \A x \in 1..Len(a) : dividend[x] = (Horner(a)[x] % 58) * 256 + a[x]
  BY <1>1, DividendIs
<1>3. Len(a) \in Nat /\ Len(a) >= 1 /\ DOMAIN a = 1..Len(a)
  BY DEF Normal
<1>4. ASSUME NEW x \in 1..Len(a)
      PROVE  /\ ans[x] = ((Horner(a)[x] % 58) * 256 + a[x]) \div 58
             /\ ans[x] \in Octets
             /\ Horner(a)[x - 1] \div 58 = (Horner(a)[x] \div 58) * 256 + ans[x]
  <2>1. /\ Horner(a)[x] \in Nat /\ a[x] \in Nat /\ a[x] < 256
        /\ Horner(a)[x - 1] = Horner(a)[x] * 256 + a[x]
    BY HornerStep
  <2> DEFINE h == Horner(a)[x]
             v == a[x]
             t == ((h % 58) * 256 + v) \div 58
  <2>2. h \in Nat /\ v \in Nat /\ v < 256
    BY <2>1
  <2>3. ans[x] = (((h % 58) * 256 + v) \div Base) % Byte
    BY <1>2
  <2>4. Horner(a)[x - 1] = h * 256 + v
    BY <2>1
  <2> HIDE DEF ans, h, v
  <2>5. t \in Nat /\ t < 256 /\ (h * 256 + v) \div 58 = (h \div 58) * 256 + t
    BY <2>2, DivideStep
  <2>6. ans[x] = t % 256
    BY <2>3 DEF Base, Byte
  <2>7. t % 256 = t
    <3> HIDE DEF t
    <3> QED
      BY <2>5
  <2>8. ans[x] = t /\ t \in Octets
    BY <2>5, <2>6, <2>7, OctetIs, ZenonT(60)
  <2>9. Horner(a)[x - 1] \div 58 = (h \div 58) * 256 + ans[x]
    BY <2>4, <2>5, <2>8, ZenonT(60)
  <2>10. ans[x] = ((h % 58) * 256 + v) \div 58
    BY <2>8
  <2> QED
    BY <2>8, <2>9, <2>10 DEF h, v
<1>5. ans \in Seq(Octets) /\ Len(ans) = Len(a)
  <2>1. ans \in [1..Len(a) -> Octets]
    BY <1>3, <1>4
  <2> HIDE DEF ans
  <2> QED
    BY <1>3, <2>1
<1> HIDE DEF ans
<1>6. NumberOf(ans) = NumberOf(a) \div 58
  <2> DEFINE f == [k \in 0..Len(a) |-> Horner(a)[k] \div 58]
  <2>1. f[Len(ans)] = 0
    BY <1>3, <1>5, HornerTop
  <2>2. ASSUME NEW k \in 1..Len(ans) PROVE f[k - 1] = f[k] * 256 + ans[k]
    <3>1. k \in 1..Len(a)
      BY <1>5
    <3>2. f[k - 1] = Horner(a)[k - 1] \div 58 /\ f[k] = Horner(a)[k] \div 58
      BY <3>1
    <3> HIDE DEF f
    <3> QED
      BY <1>4, <3>1, <3>2, ZenonT(60)
  <2>3. f[0] = NumberOf(a) \div 58
    BY <1>3 DEF NumberOf
  <2> HIDE DEF f
  <2> QED
    BY <1>5, <2>1, <2>2, <2>3, NumberIs
<1>7. a # <<0>>
  <2>1. a = <<0>> => Len(a) = 1 /\ a[1] = 0
    OBVIOUS
  <2>2. Len(a) = 1 => NumberOf(a) = a[1]
    BY Single
  <2> QED
    BY <2>1, <2>2
<1>8. BigNumberEqualsDivisionBy58(a) = q
  BY <1>7 DEF BigNumberEqualsDivisionBy58, dividend, ans, IsDividend
<1>9. SUFFICES q \in Seq(Octets) /\ Normal(q) /\ Len(q) <= Len(a)
               /\ NumberOf(q) = NumberOf(a) \div 58
  BY <1>8, Zenon
<1>10. CASE ans[Len(a)] # 0
  <2>1. Normal(ans)
    BY <1>3, <1>5, <1>10 DEF Normal
  <2> QED
    BY <1>5, <1>6, <1>10, <2>1
<1>11. CASE ans[Len(a)] = 0
  <2> DEFINE n == Len(a)
  <2>1. /\ n \in 1..n /\ Horner(a)[n] = 0 /\ a[n] \in Nat /\ a[n] < 256
        /\ Horner(a)[n - 1] = a[n]
    <3>1. n \in 1..n /\ Horner(a)[n] = 0
      BY <1>3, HornerTop
    <3>2. \A k \in 1..n : /\ a[k] \in Nat /\ a[k] < 256
                          /\ Horner(a)[k - 1] = Horner(a)[k] * 256 + a[k]
      BY HornerStep
    <3> HIDE DEF n
    <3> QED
      BY <3>1, <3>2
  <2>2. a[n] < 58
    <3>1. a[n] \div 58 = 0
      BY <1>4, <1>11, <2>1
    <3> QED
      BY <2>1, <3>1
  <2>3. n >= 2 /\ a[n] # 0
    <3>1. CASE n = 1
      <4>1. NumberOf(a) = a[n]
        BY <2>1, <3>1 DEF NumberOf
      <4> QED
        BY <2>1, <2>2, <4>1
    <3>2. CASE n # 1
      BY <1>3, <3>2 DEF Normal
    <3> QED
      BY <3>1, <3>2
  <2>4. ans[n - 1] # 0
    <3>1. n - 1 \in 1..n /\ a[n - 1] \in Nat
      BY <1>3, <2>3, Octet
    <3>2. ans[n - 1] = ((a[n] % 58) * 256 + a[n - 1]) \div 58
      BY <1>4, <2>1, <3>1
    <3>3. ((a[n] % 58) * 256 + a[n - 1]) \div 58 # 0
      <4> DEFINE t == a[n]
                 u == a[n - 1]
      <4>1. t \in Nat /\ t < 58 /\ t # 0 /\ u \in Nat
        BY <2>1, <2>2, <2>3, <3>1
      <4> HIDE DEF t, u
      <4>2. ((t % 58) * 256 + u) \div 58 # 0
        BY <4>1
      <4> QED
        BY <4>2 DEF t, u
    <3> QED
      BY <3>2, <3>3
  <2> DEFINE p == SubSeq(ans, 1, n - 1)
  <2>5. p \in Seq(Octets) /\ Len(p) = n - 1 /\ \A i \in 1..(n - 1) : p[i] = ans[i]
    BY <1>3, <1>5, Prefix
  <2> HIDE DEF p
  <2>6. NumberOf(p) = NumberOf(ans)
    BY <1>3, <1>5, <1>11, <2>5, Truncated
  <2>7. Normal(p)
    BY <2>3, <2>4, <2>5 DEF Normal
  <2>8. q = p
    BY <1>11 DEF p
  <2>9. /\ p \in Seq(Octets) /\ Normal(p) /\ Len(p) <= Len(a)
        /\ NumberOf(p) = NumberOf(a) \div 58
    BY <1>3, <1>6, <2>5, <2>6, <2>7
  <2> QED
    BY <2>8, <2>9, Zenon
<1> QED
  BY <1>10, <1>11

(* Subtraction: what is borrowed never exceeds what is left above.         *)
IsBorrow(a, b, f) ==
    f = [x \in 0..Len(a) |-> IF x = 0 THEN b ELSE IF a[x] < f[x - 1] THEN 1 ELSE 0]

(* What is borrowed from each byte.                                        *)
LEMMA BorrowExists ==
  ASSUME NEW a \in Seq(Octets), NEW b \in Nat
  PROVE  \E f : IsBorrow(a, b, f)
<1> DEFINE g == [k \in 1..Len(a) |-> [c \in Nat |-> IF a[k] < c THEN 1 ELSE 0]]
<1>0. Len(a) \in Nat
  OBVIOUS
<1>1. g \in [1..Len(a) -> [Nat -> Nat]]
  OBVIOUS
<1>2. \A k \in 1..Len(a) : \A c \in Nat : g[k][c] = IF a[k] < c THEN 1 ELSE 0
  OBVIOUS
<1> HIDE DEF g
<1>3. PICK f \in [0..Len(a) -> Nat] : f[0] = b /\ \A k \in 1..Len(a) : f[k] = g[k][f[k - 1]]
  <2>1. \E f : LoopsUp(f, Len(a), Nat, b, g)
    BY <1>0, <1>1, LoopUp, Zenon
  <2> QED
    BY <2>1 DEF LoopsUp
<1>4. ASSUME NEW x \in 0..Len(a)
      PROVE  f[x] = IF x = 0 THEN b ELSE IF a[x] < f[x - 1] THEN 1 ELSE 0
  <2>1. CASE x = 0
    BY <1>3, <2>1
  <2>2. CASE x # 0
    <3> DEFINE n == Len(a)
    <3>0. n \in Nat /\ x \in 0..n /\ f \in [0..n -> Nat]
      BY <1>0, <1>3
    <3> HIDE DEF n
    <3>1. x \in 1..n /\ x - 1 \in 0..n
      BY <2>2, <3>0
    <3>2. f[x - 1] \in Nat
      BY <3>0, <3>1
    <3> QED
      BY <1>2, <1>3, <2>2, <3>1, <3>2 DEF n
  <2> QED
    BY <2>1, <2>2
<1>5. IsBorrow(a, b, f)
  BY <1>3, <1>4 DEF IsBorrow
<1> QED
  BY <1>5

(* One byte of the subtraction: no more is borrowed than there is.         *)
LEMMA BorrowStep ==
  ASSUME NEW h \in Nat, NEW v \in Nat, v < 256, NEW c \in Nat, c <= 256,
         h * 256 + v >= c,
         NEW d, d = IF v < c THEN 1 ELSE 0
  PROVE  /\ d \in Nat /\ d <= h /\ d <= 256
         /\ h * 256 + v - c = (h - d) * 256 + ((v - c) % 256)
         /\ (v - c) % 256 \in Nat /\ (v - c) % 256 < 256
OBVIOUS

(* The subtraction is exact when there is enough to take it from.          *)
LEMMA SubtractionIs ==
  ASSUME NEW a \in Seq(Octets), a # << >>, NEW b \in Nat, b < 58, NumberOf(a) >= b
  PROVE  LET r == BigNumberEqualsSubtractionByUInt8(a, b)
         IN  /\ r \in Seq(Octets) /\ Normal(r) /\ Len(r) <= Len(a)
             /\ NumberOf(r) = NumberOf(a) - b
<1> DEFINE borrow == CHOOSE f : IsBorrow(a, b, f)
           d == [i \in DOMAIN a |-> (a[i] - borrow[i - 1]) % Byte]
<1>1. IsBorrow(a, b, borrow)
  BY BorrowExists
<1> HIDE DEF borrow
<1>2. /\ borrow[0] = b
      /\ \A x \in 1..Len(a) : borrow[x] = IF a[x] < borrow[x - 1] THEN 1 ELSE 0
  BY <1>1 DEF IsBorrow
<1>3. Len(a) \in Nat /\ DOMAIN a = 1..Len(a)
  OBVIOUS
<1>4. \A x \in 1..Len(a) : d[x] = (a[x] - borrow[x - 1]) % 256
  BY DEF Byte
<1> DEFINE S == {x \in 0..Len(a) : /\ borrow[x] \in Nat /\ borrow[x] <= 256
                                   /\ borrow[x] <= Horner(a)[x]}
<1> HIDE DEF d
<1>5. 0 \in S
  BY <1>2, <1>3 DEF NumberOf
<1>6. ASSUME NEW k \in 1..Len(a), k - 1 \in S
      PROVE  /\ k \in S /\ d[k] \in Octets
             /\ Horner(a)[k - 1] - borrow[k - 1] = (Horner(a)[k] - borrow[k]) * 256 + d[k]
  <2> DEFINE h == Horner(a)[k]
             v == a[k]
             c == borrow[k - 1]
             e == borrow[k]
  <2>1. h \in Nat /\ v \in Nat /\ v < 256 /\ Horner(a)[k - 1] = h * 256 + v
    BY HornerStep
  <2>2. c \in Nat /\ c <= 256 /\ c <= Horner(a)[k - 1]
    BY <1>6
  <2>3. e = IF v < c THEN 1 ELSE 0
    BY <1>2
  <2>4. d[k] = (v - c) % 256
    BY <1>4
  <2>5. k \in 0..Len(a)
    OBVIOUS
  <2> HIDE DEF h, v, c, e, S
  <2>6. h * 256 + v >= c
    BY <2>1, <2>2
  <2>7. /\ e \in Nat /\ e <= h /\ e <= 256
        /\ h * 256 + v - c = (h - e) * 256 + ((v - c) % 256)
        /\ (v - c) % 256 \in Nat /\ (v - c) % 256 < 256
    BY <2>1, <2>2, <2>3, <2>6, BorrowStep
  <2>8. d[k] \in Octets
    BY <2>4, <2>7, OctetIs
  <2> DEFINE g == Horner(a)[k - 1]
             w == d[k]
  <2>9. /\ g = h * 256 + v /\ w = (v - c) % 256
        /\ h \in Nat /\ v \in Nat /\ c \in Nat
    BY <2>1, <2>2, <2>4
  <2> HIDE DEF g, w
  <2>10. g - c = (h - e) * 256 + w
    BY <2>7, <2>9
  <2> QED
    BY <2>5, <2>7, <2>8, <2>10 DEF h, c, e, S, g, w
<1>7. \A k \in 0..Len(a) : k \in S
  <2> HIDE DEF S
  <2> QED
    BY <1>3, <1>5, <1>6, UpInduction
<1>8. borrow[Len(a)] = 0
  <2>1. Len(a) \in S
    BY <1>3, <1>7
  <2> QED
    BY <2>1, HornerTop
<1>9. /\ \A k \in 1..Len(a) : d[k] \in Octets
      /\ \A k \in 1..Len(a) :
            Horner(a)[k - 1] - borrow[k - 1] = (Horner(a)[k] - borrow[k]) * 256 + d[k]
  <2> SUFFICES ASSUME NEW k \in 1..Len(a)
               PROVE  /\ d[k] \in Octets
                      /\ Horner(a)[k - 1] - borrow[k - 1]
                            = (Horner(a)[k] - borrow[k]) * 256 + d[k]
    OBVIOUS
  <2>1. k - 1 \in 0..Len(a)
    OBVIOUS
  <2> HIDE DEF S
  <2>2. k - 1 \in S
    BY <1>7, <2>1
  <2> QED
    BY <1>6, <2>2
<1>10. d \in Seq(Octets) /\ Len(d) = Len(a) /\ d # << >>
  <2>1. d \in [1..Len(a) -> Octets] /\ Len(a) # 0
    BY <1>3, <1>9 DEF d
  <2> QED
    BY <1>3, <2>1
<1>11. NumberOf(d) = NumberOf(a) - b
  <2> DEFINE f == [k \in 0..Len(a) |-> Horner(a)[k] - borrow[k]]
  <2>1. f[Len(d)] = 0 /\ f[0] = NumberOf(a) - b
    BY <1>2, <1>3, <1>8, <1>10, HornerTop DEF NumberOf
  <2>2. ASSUME NEW k \in 1..Len(d) PROVE f[k - 1] = f[k] * 256 + d[k]
    <3>1. k \in 1..Len(a)
      BY <1>10
    <3>2. f[k - 1] = Horner(a)[k - 1] - borrow[k - 1] /\ f[k] = Horner(a)[k] - borrow[k]
      BY <3>1
    <3> HIDE DEF f
    <3> QED
      BY <1>9, <3>1, <3>2, ZenonT(60)
  <2> HIDE DEF f
  <2> QED
    BY <1>10, <2>1, <2>2, NumberIs
<1>12. BigNumberEqualsSubtractionByUInt8(a, b) = BigNumberNormalise(d)
  BY DEF BigNumberEqualsSubtractionByUInt8, d, borrow, IsBorrow
<1> QED
  BY <1>10, <1>11, <1>12, NormaliseIs

(* Multiplication: the carry stays below the factor.                       *)
IsCarry(a, b, f) ==
    f = [x \in 0..Len(a) |-> IF x = 0 THEN 0 ELSE (f[x - 1] + a[x] * b) \div Byte]

(* What is carried from a byte is less than the factor.                    *)
LEMMA CarryStep ==
  ASSUME NEW b \in 1..58, NEW v \in Nat, v < 256, NEW c \in Nat, c < 58
  PROVE  /\ (c + v * b) \div 256 \in Nat
         /\ (c + v * b) \div 256 < 58
         /\ (c + v * b) % 256 \in Nat
         /\ (c + v * b) % 256 < 256
         /\ c + v * b = ((c + v * b) \div 256) * 256 + ((c + v * b) % 256)
<1> DEFINE p == v * b
<1>1. p \in Nat /\ p <= 255 * 58
  <2>1. v * b <= v * 58
    OBVIOUS
  <2> QED
    BY <2>1
<1> HIDE DEF p
<1>2. /\ (c + p) \div 256 \in Nat
      /\ (c + p) \div 256 < 58
      /\ (c + p) % 256 \in Nat
      /\ (c + p) % 256 < 256
      /\ c + p = ((c + p) \div 256) * 256 + ((c + p) % 256)
  BY <1>1
<1> QED
  BY <1>2 DEF p

(* What is carried from each byte.                                         *)
LEMMA CarryExists ==
  ASSUME NEW a \in Seq(Octets), NEW b \in 1..58
  PROVE  \E f \in [0..Len(a) -> 0..57] : IsCarry(a, b, f)
<1> DEFINE R == 0..57
           g == [k \in 1..Len(a) |-> [c \in R |-> (c + a[k] * b) \div Byte]]
<1>1. \A k \in 1..Len(a) : \A c \in R : (c + a[k] * b) \div Byte \in R
  <2> SUFFICES ASSUME NEW k \in 1..Len(a), NEW c \in R
               PROVE  (c + a[k] * b) \div Byte \in R
    OBVIOUS
  <2> DEFINE v == a[k]
  <2>1. v \in Nat /\ v < 256 /\ c \in Nat /\ c < 58
    BY Octet
  <2> HIDE DEF v
  <2>2. (c + v * b) \div 256 \in Nat /\ (c + v * b) \div 256 < 58
    BY <2>1, CarryStep
  <2> DEFINE t == (c + v * b) \div 256
  <2>3. t \in R
    <3>1. t \in Nat /\ t < 58
      BY <2>2
    <3> HIDE DEF t
    <3> QED
      BY <3>1
  <2> QED
    BY <2>3 DEF v, Byte
<1>2. \A k \in 1..Len(a) : \A c \in R : g[k][c] = (c + a[k] * b) \div Byte
  OBVIOUS
<1>3. g \in [1..Len(a) -> [R -> R]]
  <2> HIDE DEF R
  <2> QED
    BY <1>1
<1> HIDE DEF g
<1>4. PICK f \in [0..Len(a) -> R] :
        f[0] = 0 /\ \A k \in 1..Len(a) : f[k] = g[k][f[k - 1]]
  <2>1. \E f : LoopsUp(f, Len(a), R, 0, g)
    <3>1. Len(a) \in Nat
      OBVIOUS
    <3>2. 0 \in R
      OBVIOUS
    <3> HIDE DEF R
    <3> QED
      BY <1>3, <3>1, <3>2, LoopUp, Zenon
  <2> QED
    BY <2>1 DEF LoopsUp
<1>5. ASSUME NEW x \in 0..Len(a)
      PROVE  f[x] = IF x = 0 THEN 0 ELSE (f[x - 1] + a[x] * b) \div Byte
  <2>1. CASE x = 0
    BY <1>4, <2>1
  <2>2. CASE x # 0
    <3> HIDE DEF R
    <3>1. x \in 1..Len(a) /\ x - 1 \in 0..Len(a) /\ f[x - 1] \in R
      BY <1>4, <2>2
    <3> QED
      BY <1>2, <1>4, <2>2, <3>1, Zenon
  <2> QED
    BY <2>1, <2>2
<1>6. IsCarry(a, b, f)
  BY <1>4, <1>5 DEF IsCarry
<1> QED
  BY <1>6

Carries(a, b, f) == /\ f[0] = 0
                    /\ \A k \in 0..Len(a) : f[k] \in Nat /\ f[k] < 58
                    /\ \A k \in 1..Len(a) : f[k] = (f[k - 1] + a[k] * b) \div 256

(* It is always below 58, hence a byte.                                    *)
LEMMA CarryType ==
  ASSUME NEW a \in Seq(Octets), NEW b \in 1..58, NEW f, IsCarry(a, b, f)
  PROVE  Carries(a, b, f)
<1> DEFINE S == {k \in 0..Len(a) : f[k] \in Nat /\ f[k] < 58}
<1>1. Len(a) \in Nat /\ f[0] = 0
  BY DEF IsCarry
<1>2. 0 \in S
  BY <1>1
<1>3. \A k \in 1..Len(a) : f[k] = (f[k - 1] + a[k] * b) \div 256
  <2> SUFFICES ASSUME NEW k \in 1..Len(a) PROVE f[k] = (f[k - 1] + a[k] * b) \div 256
    OBVIOUS
  <2>1. k \in 0..Len(a) /\ k # 0
    OBVIOUS
  <2> QED
    BY <2>1, Zenon DEF IsCarry, Byte
<1>4. ASSUME NEW k \in 1..Len(a), k - 1 \in S PROVE k \in S
  <2> DEFINE v == a[k]
             c == f[k - 1]
             t == (c + v * b) \div 256
  <2>1. v \in Nat /\ v < 256 /\ c \in Nat /\ c < 58
    BY <1>4, Octet
  <2>2. f[k] = t /\ k \in 0..Len(a)
    BY <1>3
  <2> HIDE DEF v, c
  <2>3. t \in Nat /\ t < 58
    BY <2>1, CarryStep
  <2> HIDE DEF t
  <2> QED
    BY <2>2, <2>3
<1> HIDE DEF S
<1>5. \A k \in 0..Len(a) : k \in S
  BY <1>1, <1>2, <1>4, UpInduction
<1> QED
  BY <1>1, <1>3, <1>5 DEF S, Carries

(* Bytes whose values, with what is carried to each, are those of a        *)
(* number f; what the top one leaves over becomes another byte.            *)
LEMMA Carried ==
  ASSUME NEW d \in Seq(Octets), NEW f, f[Len(d)] \in Octets,
         \A k \in 1..Len(d) : f[k - 1] = f[k] * 256 + d[k]
  PROVE  LET r == IF f[Len(d)] # 0 THEN Append(d, f[Len(d)]) ELSE d
         IN  r \in Seq(Octets) /\ NumberOf(r) = f[0]
<1>1. CASE f[Len(d)] = 0
  <2>1. NumberOf(d) = f[0]
    BY <1>1, NumberIs
  <2> QED
    BY <1>1, <2>1
<1>2. CASE f[Len(d)] # 0
  <2> DEFINE r == Append(d, f[Len(d)])
             h == [k \in 0..(Len(d) + 1) |-> IF k = Len(d) + 1 THEN 0 ELSE f[k]]
  <2>1. /\ r \in Seq(Octets) /\ Len(r) = Len(d) + 1 /\ r[Len(d) + 1] = f[Len(d)]
        /\ \A k \in 1..Len(d) : r[k] = d[k]
    OBVIOUS
  <2>2. h[Len(d) + 1] = 0 /\ \A k \in 0..Len(d) : h[k] = f[k]
    OBVIOUS
  <2>3. Len(d) \in Nat /\ f[Len(d)] \in Nat
    BY OctetIs
  <2> HIDE DEF r, h
  <2>4. ASSUME NEW k \in 1..Len(r) PROVE h[k - 1] = h[k] * 256 + r[k]
    <3>1. CASE k = Len(d) + 1
      <4>1. k - 1 = Len(d) /\ k - 1 \in 0..Len(d)
        BY <2>3, <3>1
      <4>2. h[k - 1] = f[Len(d)] /\ h[k] = 0 /\ r[k] = f[Len(d)]
        BY <2>1, <2>2, <3>1, <4>1
      <4> QED
        BY <2>3, <4>2
    <3>2. CASE k # Len(d) + 1
      <4>1. k \in 1..Len(d) /\ k - 1 \in 0..Len(d) /\ k \in 0..Len(d)
        BY <2>1, <3>2
      <4>2. h[k - 1] = f[k - 1] /\ h[k] = f[k] /\ r[k] = d[k]
        BY <2>1, <2>2, <4>1
      <4> QED
        BY <4>1, <4>2
    <3> QED
      BY <3>1, <3>2
  <2>5. h[Len(r)] = 0 /\ h[0] = f[0]
    BY <2>1, <2>2, <2>3
  <2>6. NumberOf(r) = f[0]
    BY <2>1, <2>4, <2>5, NumberIs
  <2> QED
    BY <1>2, <2>1, <2>6 DEF r
<1> QED
  BY <1>1, <1>2

(* One byte of the multiplication.                                         *)
LEMMA MultiplyStep ==
  ASSUME NEW h \in Nat, NEW v \in Nat, NEW b \in 1..58, NEW c \in Nat, NEW d \in Nat, NEW r \in Nat,
         c + v * b = d * 256 + r
  PROVE  (h * 256 + v) * b + c = (h * b + d) * 256 + r
<1>1. (h * 256 + v) * b = (h * b) * 256 + v * b
  OBVIOUS
<1>2. h * b \in Nat /\ v * b \in Nat
  OBVIOUS
<1> DEFINE p == h * b
           q == v * b
<1>3. p * 256 + q + c = (p + d) * 256 + r
  <2>1. p \in Nat /\ q \in Nat /\ c + q = d * 256 + r
    BY <1>2
  <2> HIDE DEF p, q
  <2> QED
    BY <2>1
<1> QED
  BY <1>1, <1>3

(* The multiplication is exact, with a byte for the last carry.            *)
LEMMA MultiplicationIs ==
  ASSUME NEW a \in Seq(Octets), a # << >>, Strict(a), NEW b \in 1..58
  PROVE  LET r == BigNumberEqualsMultiplicationByUInt8(a, b)
         IN  /\ r \in Seq(Octets) /\ r # << >> /\ Strict(r)
             /\ NumberOf(r) = NumberOf(a) * b
<1> DEFINE carry == CHOOSE f : IsCarry(a, b, f)
           d == [x \in DOMAIN a |-> (carry[x - 1] + a[x] * b) % Byte]
           n == Len(a)
           f == [k \in 0..n |-> Horner(a)[k] * b + carry[k]]
           r == IF carry[n] # 0 THEN Append(d, carry[n]) ELSE d
<1>1. IsCarry(a, b, carry)
  BY CarryExists
<1> HIDE DEF carry
<1>2. /\ carry[0] = 0
      /\ \A k \in 0..n : carry[k] \in Nat /\ carry[k] < 58
      /\ \A k \in 1..n : carry[k] = (carry[k - 1] + a[k] * b) \div 256
  <2>1. Carries(a, b, carry)
    BY <1>1, CarryType, Zenon
  <2> QED
    BY <2>1 DEF Carries
<1>3. n \in Nat /\ n >= 1 /\ DOMAIN a = 1..n /\ a[n] # 0
  BY DEF Strict
<1>4. \A k \in 1..n : d[k] = (carry[k - 1] + a[k] * b) % 256
  BY DEF Byte
<1> HIDE DEF d
<1>5. ASSUME NEW k \in 1..n
      PROVE  d[k] \in Octets /\ f[k - 1] = f[k] * 256 + d[k]
  <2> DEFINE h == Horner(a)[k]
             v == a[k]
             c == carry[k - 1]
             e == carry[k]
  <2>0. k \in 0..n /\ k - 1 \in 0..n
    OBVIOUS
  <2>1. h \in Nat /\ v \in Nat /\ v < 256 /\ Horner(a)[k - 1] = h * 256 + v
    BY HornerStep
  <2>2. c \in Nat /\ c < 58 /\ e = (c + v * b) \div 256 /\ d[k] = (c + v * b) % 256
    BY <1>2, <1>4, <2>0
  <2>3. f[k - 1] = Horner(a)[k - 1] * b + c /\ f[k] = h * b + e
    BY <2>0
  <2> HIDE DEF h, v, c, e, f
  <2>4. /\ (c + v * b) \div 256 \in Nat
        /\ (c + v * b) % 256 \in Nat
        /\ (c + v * b) % 256 < 256
        /\ c + v * b = ((c + v * b) \div 256) * 256 + ((c + v * b) % 256)
    BY <2>1, <2>2, CarryStep
  <2>5. e \in Nat /\ d[k] \in Nat /\ d[k] < 256 /\ c + v * b = e * 256 + d[k]
    BY <2>2, <2>4, ZenonT(60)
  <2> DEFINE w == d[k]
  <2>6. (h * 256 + v) * b + c = (h * b + e) * 256 + w
    <3>1. w \in Nat /\ c + v * b = e * 256 + w
      BY <2>5
    <3> HIDE DEF w
    <3> QED
      BY <2>1, <2>2, <2>5, <3>1, MultiplyStep
  <2> QED
    BY <2>1, <2>3, <2>5, <2>6, OctetIs, ZenonT(60)
<1>6. d \in Seq(Octets) /\ Len(d) = n
  <2>1. d \in [1..n -> Octets]
    BY <1>3, <1>5 DEF d
  <2> QED
    BY <1>3, <2>1
<1>7. f[n] = carry[n] /\ f[0] = NumberOf(a) * b
  <2>1. f[n] = Horner(a)[n] * b + carry[n] /\ f[0] = Horner(a)[0] * b + carry[0]
    BY <1>3
  <2>2. Horner(a)[n] = 0 /\ carry[n] \in Nat /\ NumberOf(a) \in Nat
    BY <1>2, <1>3, HornerTop, NumberType
  <2>3. NumberOf(a) * b \in Nat
    <3> DEFINE x == NumberOf(a)
    <3>1. x \in Nat
      BY <2>2
    <3> HIDE DEF x
    <3>2. x * b \in Nat
      BY <3>1
    <3> QED
      BY <3>2 DEF x
  <2> HIDE DEF f
  <2> QED
    BY <1>2, <2>1, <2>2, <2>3 DEF NumberOf
<1>8. carry[n] \in Octets
  <2>1. n \in 0..n
    BY <1>3
  <2>2. carry[n] \in Nat /\ carry[n] < 58
    BY <1>2, <2>1
  <2>3. carry[n] < 256
    BY <2>2
  <2> QED
    BY <2>2, <2>3, OctetIs
<1> HIDE DEF f
<1>9. r \in Seq(Octets) /\ NumberOf(r) = NumberOf(a) * b
  <2>1. f[Len(d)] \in Octets /\ \A k \in 1..Len(d) : f[k - 1] = f[k] * 256 + d[k]
    BY <1>5, <1>6, <1>7, <1>8
  <2> DEFINE u == IF f[Len(d)] # 0 THEN Append(d, f[Len(d)]) ELSE d
  <2>2. u \in Seq(Octets) /\ NumberOf(u) = f[0]
    BY <1>6, <2>1, Carried
  <2>3. u = r
    BY <1>6, <1>7
  <2> HIDE DEF u, r
  <2> QED
    BY <1>7, <2>2, <2>3
<1>10. r # << >> /\ Strict(r)
  <2>1. CASE carry[n] # 0
    BY <1>6, <1>8, <2>1 DEF Strict
  <2>2. CASE carry[n] = 0
    <3>1. d[n] # 0
      <4> DEFINE v == a[n]
                 c == carry[n - 1]
      <4>1. n \in 1..n /\ n - 1 \in 0..n
        BY <1>3
      <4>2. v \in Nat /\ v # 0 /\ c \in Nat /\ v < 256 /\ c < 58
        BY <1>2, <1>3, <4>1, Octet
      <4>3. (c + v * b) \div 256 = 0 /\ d[n] = (c + v * b) % 256
        BY <1>2, <1>4, <2>2, <4>1
      <4> HIDE DEF v, c
      <4> DEFINE t == c + v * b
      <4>4. t \in Nat /\ t # 0
        <5>1. v * b \in Nat /\ v * b # 0
          BY <4>2
        <5> QED
          BY <4>2, <5>1
      <4> HIDE DEF t
      <4>5. t \div 256 = 0 => t % 256 # 0
        BY <4>4
      <4> QED
        BY <4>3, <4>5 DEF t
    <3> QED
      BY <1>3, <1>6, <2>2, <3>1 DEF Strict
  <2> QED
    BY <2>1, <2>2
<1>11. a # <<0>>
  BY <1>3
<1>12. b # 0
  OBVIOUS
<1>13. BigNumberEqualsMultiplicationByUInt8(a, b) = r
  BY <1>11, <1>12 DEF BigNumberEqualsMultiplicationByUInt8, carry, d, IsCarry
<1> HIDE DEF r
<1> QED
  BY <1>9, <1>10, <1>13

(* Powers of 58, which have no zero at the top.                            *)
IsPower(b, f) ==
    f = [x \in 0..b |->
            IF x = 0 THEN <<1>> ELSE BigNumberEqualsMultiplicationByUInt8(f[x - 1], Base)]

StrictNumbers == {a \in Seq(Octets) : a # << >> /\ Strict(a)}

(* The powers of 58 exist.                                                 *)
LEMMA PowerExists == ASSUME NEW b \in Nat PROVE \E f : IsPower(b, f)
<1> DEFINE g == [k \in 1..b |->
                    [a \in StrictNumbers |-> BigNumberEqualsMultiplicationByUInt8(a, Base)]]
<1>1. \A a \in StrictNumbers : BigNumberEqualsMultiplicationByUInt8(a, Base) \in StrictNumbers
  <2> SUFFICES ASSUME NEW a \in StrictNumbers
               PROVE  BigNumberEqualsMultiplicationByUInt8(a, Base) \in StrictNumbers
    OBVIOUS
  <2>1. a \in Seq(Octets) /\ a # << >> /\ Strict(a) /\ Base \in 1..58
    BY DEF StrictNumbers, Base
  <2>2. LET r == BigNumberEqualsMultiplicationByUInt8(a, Base)
        IN  r \in Seq(Octets) /\ r # << >> /\ Strict(r)
    BY <2>1, MultiplicationIs
  <2> QED
    BY <2>2 DEF StrictNumbers
<1>2. g \in [1..b -> [StrictNumbers -> StrictNumbers]]
  BY <1>1
<1>3. <<1>> \in StrictNumbers
  <2>1. 1 \in Octets
    BY OctetIs
  <2>2. <<1>> \in Seq(Octets) /\ Len(<<1>>) = 1 /\ <<1>>[1] = 1 /\ <<1>> # << >>
    BY <2>1
  <2> QED
    BY <2>2 DEF StrictNumbers, Strict
<1>4. \A k \in 1..b : \A a \in StrictNumbers :
         g[k][a] = BigNumberEqualsMultiplicationByUInt8(a, Base)
  OBVIOUS
<1> HIDE DEF g
<1>5. PICK f : LoopsUp(f, b, StrictNumbers, <<1>>, g)
  BY <1>2, <1>3, LoopUp, Zenon
<1>6. f \in [0..b -> StrictNumbers]
  BY <1>5 DEF LoopsUp
<1>7. ASSUME NEW x \in 0..b
      PROVE  f[x] = IF x = 0 THEN <<1>>
                    ELSE BigNumberEqualsMultiplicationByUInt8(f[x - 1], Base)
  <2>1. CASE x = 0
    BY <1>5, <2>1 DEF LoopsUp
  <2>2. CASE x # 0
    <3>1. x \in 1..b /\ x - 1 \in 0..b
      BY <2>2
    <3>2. f[x - 1] \in StrictNumbers
      BY <1>6, <3>1
    <3>3. f[x] = g[x][f[x - 1]]
      BY <1>5, <3>1 DEF LoopsUp
    <3> QED
      BY <1>4, <2>2, <3>1, <3>2, <3>3, Zenon
  <2> QED
    BY <2>1, <2>2
<1>8. IsPower(b, f)
  BY <1>6, <1>7 DEF IsPower
<1> QED
  BY <1>8

(* Each of them is what one multiplication after the other gives.          *)
LEMMA PowerUnique ==
  ASSUME NEW b \in Nat, NEW c \in 0..b, NEW f, IsPower(b, f), NEW g, IsPower(c, g)
  PROVE  f[c] = g[c]
<1> DEFINE S == {x \in 0..c : f[x] = g[x]}
<1>1. c \in Nat /\ f[0] = <<1>> /\ g[0] = <<1>>
  BY DEF IsPower
<1>2. ASSUME NEW k \in 1..c, k - 1 \in S PROVE k \in S
  <2>1. k \in 0..b /\ k \in 0..c /\ k # 0 /\ k \in 0..c
    OBVIOUS
  <2>2. f[k] = BigNumberEqualsMultiplicationByUInt8(f[k - 1], Base)
    BY <2>1, Zenon DEF IsPower
  <2>3. g[k] = BigNumberEqualsMultiplicationByUInt8(g[k - 1], Base)
    BY <2>1, Zenon DEF IsPower
  <2>4. f[k - 1] = g[k - 1]
    BY <1>2
  <2> QED
    BY <2>1, <2>2, <2>3, <2>4
<1>3. 0 \in S
  BY <1>1
<1> HIDE DEF S
<1>4. \A k \in 0..c : k \in S
  BY <1>1, <1>2, <1>3, UpInduction
<1> QED
  BY <1>1, <1>4 DEF S

(* BigNumberFromPowUInt8 computes them in this way.                        *)
LEMMA PowIs ==
  ASSUME NEW b \in Nat
  PROVE  \E f : IsPower(b, f) /\ BigNumberFromPowUInt8(b) = f[b]
<1> DEFINE power == CHOOSE f : IsPower(b, f)
<1>1. IsPower(b, power)
  BY PowerExists
<1>2. BigNumberFromPowUInt8(b) = power[b]
  BY DEF BigNumberFromPowUInt8, power, IsPower
<1> HIDE DEF power
<1> QED
  BY <1>1, <1>2

(* The first is 1.                                                         *)
LEMMA PowFirst == BigNumberFromPowUInt8(0) = <<1>>
<1>1. 0 \in Nat
  OBVIOUS
<1>2. PICK f : IsPower(0, f) /\ BigNumberFromPowUInt8(0) = f[0]
  BY <1>1, PowIs
<1>3. 0 \in 0..0
  OBVIOUS
<1> QED
  BY <1>2, <1>3 DEF IsPower

(* The next is 58 times as much.                                           *)
LEMMA PowNext ==
  ASSUME NEW b \in Nat
  PROVE  BigNumberFromPowUInt8(b + 1)
            = BigNumberEqualsMultiplicationByUInt8(BigNumberFromPowUInt8(b), Base)
<1>1. b + 1 \in Nat /\ b + 1 \in 0..(b + 1) /\ b \in 0..(b + 1) /\ b + 1 # 0
      /\ (b + 1) - 1 = b
  OBVIOUS
<1>2. PICK f : IsPower(b + 1, f) /\ BigNumberFromPowUInt8(b + 1) = f[b + 1]
  BY <1>1, PowIs
<1>3. PICK g : IsPower(b, g) /\ BigNumberFromPowUInt8(b) = g[b]
  BY PowIs
<1>4. f[b] = g[b]
  BY <1>1, <1>2, <1>3, PowerUnique
<1>5. f[b + 1] = BigNumberEqualsMultiplicationByUInt8(f[(b + 1) - 1], Base)
  BY <1>1, <1>2, Zenon DEF IsPower
<1> QED
  BY <1>1, <1>2, <1>3, <1>4, <1>5

(* The value of a place of a string.                                       *)
PlaceValue(b) == NumberOf(BigNumberFromPowUInt8(b))

(* A power has no zero on top.                                             *)
LEMMA PowStrict ==
  ASSUME NEW b \in Nat
  PROVE  BigNumberFromPowUInt8(b) \in StrictNumbers
<1> DEFINE S == {n \in Nat : BigNumberFromPowUInt8(n) \in StrictNumbers}
<1>1. 0 \in S
  <2>1. <<1>> \in StrictNumbers
    <3>1. 1 \in Octets
      BY OctetIs
    <3>2. <<1>> \in Seq(Octets) /\ Len(<<1>>) = 1 /\ <<1>>[1] = 1 /\ <<1>> # << >>
      BY <3>1
    <3> QED
      BY <3>2 DEF StrictNumbers, Strict
  <2> QED
    BY <2>1, PowFirst
<1>2. ASSUME NEW n \in Nat, n \in S PROVE n + 1 \in S
  <2> DEFINE p == BigNumberFromPowUInt8(n)
  <2>1. p \in Seq(Octets) /\ p # << >> /\ Strict(p) /\ Base \in 1..58
    BY <1>2 DEF StrictNumbers, Base
  <2>2. BigNumberFromPowUInt8(n + 1) = BigNumberEqualsMultiplicationByUInt8(p, Base)
    BY PowNext
  <2> HIDE DEF p
  <2>3. LET r == BigNumberEqualsMultiplicationByUInt8(p, Base)
        IN  r \in Seq(Octets) /\ r # << >> /\ Strict(r)
    BY <2>1, MultiplicationIs
  <2> QED
    BY <2>2, <2>3 DEF StrictNumbers
<1> HIDE DEF S
<1>3. Nat \subseteq S
  BY <1>1, <1>2, SetInduction
<1> QED
  BY <1>3 DEF S

(* The numbers of the powers.                                              *)
LEMMA PlaceValueIs ==
  /\ PlaceValue(0) = 1
  /\ \A b \in Nat : /\ PlaceValue(b) \in Nat
                    /\ PlaceValue(b + 1) = PlaceValue(b) * 58
<1>1. PlaceValue(0) = 1
  <2> DEFINE f == [k \in 0..1 |-> IF k = 0 THEN 1 ELSE 0]
             one == <<1>>
  <2>1. 1 \in Octets
    BY OctetIs
  <2>2. one \in Seq(Octets) /\ Len(one) = 1 /\ one[1] = 1
    BY <2>1
  <2>3. f[1] = 0 /\ f[0] = 1
    OBVIOUS
  <2>6. BigNumberFromPowUInt8(0) = one
    BY PowFirst
  <2> HIDE DEF f, one
  <2>4. ASSUME NEW k \in 1..Len(one) PROVE f[k - 1] = f[k] * 256 + one[k]
    <3>1. k = 1 /\ k - 1 = 0
      BY <2>2
    <3> QED
      BY <2>2, <2>3, <3>1
  <2>5. NumberOf(one) = f[0]
    BY <2>2, <2>3, <2>4, NumberIs
  <2> QED
    BY <2>3, <2>5, <2>6 DEF PlaceValue
<1>2. ASSUME NEW b \in Nat
      PROVE  PlaceValue(b) \in Nat /\ PlaceValue(b + 1) = PlaceValue(b) * 58
  <2> DEFINE p == BigNumberFromPowUInt8(b)
  <2>1. p \in Seq(Octets) /\ p # << >> /\ Strict(p) /\ Base = 58 /\ Base \in 1..58
    BY PowStrict DEF StrictNumbers, Base
  <2>2. BigNumberFromPowUInt8(b + 1) = BigNumberEqualsMultiplicationByUInt8(p, Base)
    BY PowNext
  <2>3. PlaceValue(b) = NumberOf(p)
    BY DEF PlaceValue
  <2> HIDE DEF p
  <2>4. NumberOf(BigNumberEqualsMultiplicationByUInt8(p, Base)) = NumberOf(p) * Base
    BY <2>1, MultiplicationIs
  <2>5. NumberOf(p) \in Nat
    BY <2>1, NumberType
  <2> QED
    BY <2>1, <2>2, <2>3, <2>4, <2>5, Zenon DEF PlaceValue
<1> QED
  BY <1>1, <1>2

(* Addition.  The test for an overflow is exact: what is added is never    *)
(* more than the sum that has not overflowed.                              *)
LEMMA FilledIs ==
  ASSUME NEW a \in Seq(Octets), NEW length \in Nat, Len(a) <= length
  PROVE  /\ Filled(a, length) \in Seq(Octets)
         /\ Len(Filled(a, length)) = length
         /\ \A i \in 1..Len(a) : Filled(a, length)[i] = a[i]
         /\ \A i \in (Len(a) + 1)..length : Filled(a, length)[i] = 0
         /\ NumberOf(Filled(a, length)) = NumberOf(a)
<1> DEFINE z == [i \in 1..(length - Len(a)) |-> 0]
           r == Filled(a, length)
<1>1. z \in Seq(Octets) /\ Len(z) = length - Len(a) /\ \A i \in 1..Len(z) : z[i] = 0
  <2>1. length - Len(a) \in Nat /\ 0 \in Octets
    BY OctetIs
  <2>2. z \in [1..(length - Len(a)) -> Octets]
    BY <2>1
  <2> QED
    BY <2>1, <2>2
<1>2. r = a \o z
  BY DEF Filled
<1> HIDE DEF z, r
<1>3. /\ r \in Seq(Octets) /\ Len(r) = length
      /\ \A i \in 1..length : r[i] = IF i <= Len(a) THEN a[i] ELSE z[i - Len(a)]
  <2>1. z \in Seq(Octets)
    BY <1>1
  <2>2. /\ r \in Seq(Octets)
        /\ Len(r) = Len(a) + Len(z)
        /\ \A i \in 1..(Len(a) + Len(z)) : r[i] = IF i <= Len(a) THEN a[i] ELSE z[i - Len(a)]
    BY <1>2, <2>1, ConcatProperties, Zenon
  <2>3. Len(a) + Len(z) = length
    BY <1>1
  <2> QED
    BY <2>2, <2>3
<1>4. \A i \in 1..Len(a) : r[i] = a[i]
  BY <1>3
<1>5. \A i \in (Len(a) + 1)..length : r[i] = 0
  <2> SUFFICES ASSUME NEW i \in (Len(a) + 1)..length PROVE r[i] = 0
    OBVIOUS
  <2>1. i \in 1..length /\ ~(i <= Len(a)) /\ i - Len(a) \in 1..Len(z)
    BY <1>1
  <2> QED
    BY <1>1, <1>3, <2>1
<1>6. NumberOf(r) = NumberOf(a)
  BY <1>3, <1>4, <1>5, Truncated
<1> QED
  BY <1>3, <1>4, <1>5, <1>6 DEF r

IsOverflow(m, n, length, f) ==
    f = [x \in 0..length |->
            IF x = 0 THEN 0
            ELSE IF (m[x] + n[x] + f[x - 1]) % Byte < n[x] + f[x - 1] THEN 1 ELSE 0]

(* The overflow of each byte.                                              *)
LEMMA OverflowExists ==
  ASSUME NEW m, NEW n, NEW length \in Nat
  PROVE  \E f : IsOverflow(m, n, length, f)
<1> DEFINE R == {0, 1}
           g == [x \in 1..length |->
                   [c \in R |-> IF (m[x] + n[x] + c) % Byte < n[x] + c THEN 1 ELSE 0]]
<1>1. g \in [1..length -> [R -> R]]
  OBVIOUS
<1>2. \A x \in 1..length : \A c \in R :
         g[x][c] = IF (m[x] + n[x] + c) % Byte < n[x] + c THEN 1 ELSE 0
  OBVIOUS
<1>3. 0 \in R
  OBVIOUS
<1> HIDE DEF g, R
<1>4. PICK f : LoopsUp(f, length, R, 0, g)
  BY <1>1, <1>3, LoopUp, Zenon
<1>5. f \in [0..length -> R]
  BY <1>4 DEF LoopsUp
<1>6. ASSUME NEW x \in 0..length
      PROVE  f[x] = IF x = 0 THEN 0
                    ELSE IF (m[x] + n[x] + f[x - 1]) % Byte < n[x] + f[x - 1] THEN 1 ELSE 0
  <2>1. CASE x = 0
    BY <1>4, <2>1 DEF LoopsUp
  <2>2. CASE x # 0
    <3>1. x \in 1..length /\ x - 1 \in 0..length
      BY <2>2
    <3>2. f[x - 1] \in R
      BY <1>5, <3>1
    <3>3. f[x] = g[x][f[x - 1]]
      BY <1>4, <3>1 DEF LoopsUp
    <3> QED
      BY <1>2, <2>2, <3>1, <3>2, <3>3, Zenon
  <2> QED
    BY <2>1, <2>2
<1>7. IsOverflow(m, n, length, f)
  BY <1>5, <1>6 DEF IsOverflow
<1> QED
  BY <1>7

(* The addition is exact, with a byte for the last overflow.               *)
LEMMA AdditionIs ==
  ASSUME NEW a \in Seq(Octets), Strict(a), NEW b \in Seq(Octets), Strict(b)
  PROVE  LET r == BigNumberEqualsAdditionByBigInt(a, b)
         IN  /\ r \in Seq(Octets) /\ Strict(r)
             /\ NumberOf(r) = NumberOf(a) + NumberOf(b)
<1> DEFINE length == IF Len(a) < Len(b) THEN Len(b) ELSE Len(a)
           m == Filled(a, length)
           n == Filled(b, length)
           over == CHOOSE f : IsOverflow(m, n, length, f)
           d == [x \in 1..length |-> (m[x] + n[x] + over[x - 1]) % Byte]
           f == [k \in 0..length |-> Horner(m)[k] + Horner(n)[k] + over[k]]
           r == IF over[length] = 1 THEN Append(d, 1) ELSE d
<1>1. length \in Nat /\ Len(a) <= length /\ Len(b) <= length
  OBVIOUS
<1>2. BigNumberEqualsAdditionByBigInt(a, b) = r
  BY DEF BigNumberEqualsAdditionByBigInt, IsOverflow
<1>2a. length = Len(a) \/ length = Len(b)
  OBVIOUS
<1> HIDE DEF length
<1>3. /\ m \in Seq(Octets) /\ Len(m) = length /\ NumberOf(m) = NumberOf(a)
      /\ length = Len(a) => m[length] = a[length] \/ length = 0
  BY <1>1, FilledIs
<1>4. /\ n \in Seq(Octets) /\ Len(n) = length /\ NumberOf(n) = NumberOf(b)
      /\ length = Len(b) => n[length] = b[length] \/ length = 0
  BY <1>1, FilledIs
<1> HIDE DEF m, n
<1>5. IsOverflow(m, n, length, over)
  BY <1>1, OverflowExists
<1> HIDE DEF over
<1>6. over[0] = 0
  BY <1>1, <1>5 DEF IsOverflow
<1>7. \A x \in 1..length :
         over[x] = IF (m[x] + n[x] + over[x - 1]) % 256 < n[x] + over[x - 1] THEN 1 ELSE 0
  <2> SUFFICES ASSUME NEW x \in 1..length
               PROVE over[x] = IF (m[x] + n[x] + over[x - 1]) % 256 < n[x] + over[x - 1]
                               THEN 1 ELSE 0
    OBVIOUS
  <2>1. x \in 0..length /\ x # 0
    BY <1>1
  <2> QED
    BY <1>5, <2>1, Zenon DEF IsOverflow, Byte
<1>8. \A x \in 1..length : d[x] = (m[x] + n[x] + over[x - 1]) % 256
  BY DEF Byte
<1> DEFINE S == {k \in 0..length : over[k] \in {0, 1}}
<1> HIDE DEF d
<1>9. ASSUME NEW k \in 1..length, k - 1 \in S
      PROVE  /\ k \in S
             /\ d[k] \in Octets
             /\ m[k] + n[k] + over[k - 1] = over[k] * 256 + d[k]
  <2> DEFINE u == m[k]
             v == n[k]
             c == over[k - 1]
             e == over[k]
             w == d[k]
  <2>1. /\ u \in Nat /\ u < 256 /\ v \in Nat /\ v < 256 /\ c \in {0, 1}
        /\ e = IF (u + v + c) % 256 < v + c THEN 1 ELSE 0
        /\ w = (u + v + c) % 256
    <3>1. k \in 1..Len(m) /\ k \in 1..Len(n)
      BY <1>3, <1>4
    <3>2. u \in Nat /\ u < 256 /\ v \in Nat /\ v < 256
      BY <1>3, <1>4, <3>1, Octet
    <3> QED
      BY <1>7, <1>8, <1>9, <3>2
  <2>2. k \in 0..length
    BY <1>1
  <2> HIDE DEF u, v, c, e, w
  <2> DEFINE t == (u + v + c) % 256
  <2>3. /\ e \in {0, 1} /\ t \in Nat /\ t < 256
        /\ u + v + c = e * 256 + t
    <3>1. u \in Nat /\ v \in Nat /\ c \in {0, 1}
      BY <2>1
    <3>2. u < 256 /\ v < 256
      BY <2>1
    <3>3. e = IF t < v + c THEN 1 ELSE 0
      BY <2>1
    <3>4. t = (u + v + c) % 256
      OBVIOUS
    <3> HIDE DEF t
    <3>5. t \in Nat /\ t < 256 /\ (t < v + c => u + v + c = 256 + t)
          /\ (~(t < v + c) => u + v + c = t)
      BY <3>1, <3>2, <3>4
    <3> QED
      BY <3>1, <3>3, <3>5
  <2>4. w = t
    BY <2>1
  <2> HIDE DEF t
  <2> QED
    BY <2>2, <2>3, <2>4, OctetIs DEF u, v, c, e, w
<1>10. \A k \in 0..length : k \in S
  <2>1. 0 \in S
    BY <1>1, <1>6
  <2> HIDE DEF S
  <2> QED
    BY <1>1, <1>9, <2>1, UpInduction
<1>11. ASSUME NEW k \in 1..length
       PROVE  /\ d[k] \in Octets
              /\ m[k] + n[k] + over[k - 1] = over[k] * 256 + d[k]
              /\ over[k] \in {0, 1} /\ over[k - 1] \in {0, 1}
  <2>1. k \in 0..length /\ k - 1 \in 0..length
    BY <1>1
  <2> QED
    BY <1>9, <1>10, <2>1
<1>12. d \in Seq(Octets) /\ Len(d) = length
  <2>1. d \in [1..length -> Octets]
    BY <1>11 DEF d
  <2> QED
    BY <1>1, <2>1
<1>13. over[length] \in {0, 1} /\ f[length] = over[length] /\ f[0] = NumberOf(a) + NumberOf(b)
  <2>1. length \in 0..length /\ 0 \in 0..length
    BY <1>1
  <2>2. over[length] \in {0, 1}
    BY <1>10, <2>1
  <2>3. Horner(m)[length] = 0 /\ Horner(n)[length] = 0
    BY <1>3, <1>4, HornerTop
  <2>4. NumberOf(m) \in Nat /\ NumberOf(n) \in Nat
    BY <1>3, <1>4, NumberType
  <2> QED
    BY <1>3, <1>4, <1>6, <2>1, <2>2, <2>3, <2>4 DEF NumberOf
<1>14. ASSUME NEW k \in 1..length PROVE f[k - 1] = f[k] * 256 + d[k]
  <2>1. k \in 0..length /\ k - 1 \in 0..length /\ k \in 1..Len(m) /\ k \in 1..Len(n)
    BY <1>1, <1>3, <1>4
  <2>2. /\ f[k - 1] = Horner(m)[k - 1] + Horner(n)[k - 1] + over[k - 1]
        /\ f[k] = Horner(m)[k] + Horner(n)[k] + over[k]
    BY <2>1
  <2> HIDE DEF f
  <2>3. /\ Horner(m)[k] \in Nat /\ m[k] \in Nat
        /\ Horner(m)[k - 1] = Horner(m)[k] * 256 + m[k]
    BY <1>3, <2>1, HornerStep
  <2>4. /\ Horner(n)[k] \in Nat /\ n[k] \in Nat
        /\ Horner(n)[k - 1] = Horner(n)[k] * 256 + n[k]
    BY <1>4, <2>1, HornerStep
  <2>5. /\ d[k] \in Nat /\ over[k] \in Nat /\ over[k - 1] \in Nat
        /\ m[k] + n[k] + over[k - 1] = over[k] * 256 + d[k]
    BY <1>11, OctetIs
  <2> DEFINE h == Horner(m)[k]
             i == Horner(n)[k]
             u == m[k]
             v == n[k]
             c == over[k - 1]
             e == over[k]
             w == d[k]
  <2>6. /\ h \in Nat /\ i \in Nat /\ u \in Nat /\ v \in Nat /\ c \in Nat /\ e \in Nat
        /\ w \in Nat /\ u + v + c = e * 256 + w
    BY <2>3, <2>4, <2>5
  <2>7. f[k - 1] = (h * 256 + u) + (i * 256 + v) + c /\ f[k] = h + i + e
    BY <2>2, <2>3, <2>4
  <2> HIDE DEF h, i, u, v, c, e, w
  <2>8. (h * 256 + u) + (i * 256 + v) + c = (h + i + e) * 256 + w
    BY <2>6
  <2>9. f[k - 1] = f[k] * 256 + w
    BY <2>7, <2>8, Zenon
  <2> QED
    BY <2>9 DEF w
<1> HIDE DEF f
<1>15. r \in Seq(Octets) /\ NumberOf(r) = NumberOf(a) + NumberOf(b)
  <2>0. f[length] \in Octets
    BY <1>13, BitsAreOctets
  <2>1. f[Len(d)] \in Octets /\ \A k \in 1..Len(d) : f[k - 1] = f[k] * 256 + d[k]
    BY <1>12, <1>14, <2>0
  <2> DEFINE u == IF f[Len(d)] # 0 THEN Append(d, f[Len(d)]) ELSE d
  <2>2. u \in Seq(Octets) /\ NumberOf(u) = f[0]
    BY <1>12, <2>1, Carried
  <2>3. u = r
    BY <1>12, <1>13
  <2> HIDE DEF u, r
  <2> QED
    BY <1>13, <2>2, <2>3
<1>16. Strict(r)
  <2>1. CASE over[length] = 1
    <3>1. 1 \in Octets
      BY OctetIs
    <3>2. Append(d, 1)[Len(Append(d, 1))] = 1
      BY <1>12, <3>1
    <3> QED
      BY <2>1, <3>2 DEF Strict
  <2>2. CASE over[length] = 0 /\ length = 0
    BY <1>12, <2>2 DEF Strict
  <2>3. CASE over[length] = 0 /\ length # 0
    <3>1. length \in 1..length
      BY <1>1, <2>3
    <3>2. m[length] \in Nat /\ n[length] \in Nat
      BY <1>3, <1>4, <3>1, Octet
    <3>3. m[length] # 0 \/ n[length] # 0
      <4>1. CASE length = Len(a)
        <5>1. a[Len(a)] # 0
          BY <2>3, <4>1 DEF Strict
        <5> QED
          BY <1>3, <2>3, <4>1, <5>1
      <4>2. CASE length = Len(b)
        <5>1. b[Len(b)] # 0
          BY <2>3, <4>2 DEF Strict
        <5> QED
          BY <1>4, <2>3, <4>2, <5>1
      <4> QED
        BY <1>2a, <4>1, <4>2
    <3>4. m[length] + n[length] + over[length - 1] = over[length] * 256 + d[length]
          /\ over[length - 1] \in Nat
      BY <1>11, <3>1
    <3>5. d[length] # 0
      <4> DEFINE u == m[length]
                 v == n[length]
                 c == over[length - 1]
                 w == d[length]
      <4>1. u \in Nat /\ v \in Nat /\ c \in Nat /\ (u # 0 \/ v # 0)
        BY <3>2, <3>3, <3>4
      <4>2. u + v + c = 0 * 256 + w
        BY <2>3, <3>4
      <4> HIDE DEF u, v, c, w
      <4>3. w # 0
        BY <4>1, <4>2
      <4> QED
        BY <4>3 DEF w
    <3> QED
      BY <1>12, <2>3, <3>5 DEF Strict
  <2> QED
    BY <1>13, <2>1, <2>2, <2>3
<1> HIDE DEF r
<1> QED
  BY <1>2, <1>15, <1>16

-----------------------------------------------------------------------------
(* The characters, which Index takes back to what they stand for.          *)
Tabled(s, off, n, table) ==
    s \in Seq(Nat) /\ Len(s) = n /\ \A i \in 1..n : s[i] = table[off + i]

(* Two tabled sequences, one behind the other.                             *)
LEMMA Joined ==
  ASSUME NEW table, NEW m \in Nat, NEW n \in Nat, NEW s, NEW t,
         Tabled(s, 0, m, table), Tabled(t, m, n, table)
  PROVE  Tabled(s \o t, 0, m + n, table)
<1> DEFINE r == s \o t
<1>1. s \in Seq(Nat) /\ t \in Seq(Nat) /\ Len(s) = m /\ Len(t) = n
  BY DEF Tabled
<1>2. /\ r \in Seq(Nat)
      /\ Len(r) = Len(s) + Len(t)
      /\ \A i \in 1..(Len(s) + Len(t)) : r[i] = IF i <= Len(s) THEN s[i] ELSE t[i - Len(s)]
  BY <1>1, ConcatProperties, Zenon
<1> HIDE DEF r
<1>3. ASSUME NEW i \in 1..(m + n) PROVE r[i] = table[0 + i]
  <2>1. r[i] = IF i <= m THEN s[i] ELSE t[i - m]
    BY <1>1, <1>2
  <2>2. CASE i <= m
    <3>1. i \in 1..m
      BY <2>2
    <3> QED
      BY <2>1, <2>2, <3>1 DEF Tabled
  <2>3. CASE ~(i <= m)
    <3>1. i - m \in 1..n /\ m + (i - m) = i /\ 0 + i = i
      BY <2>3
    <3>2. t[i - m] = table[m + (i - m)]
      BY <3>1 DEF Tabled
    <3> QED
      BY <2>1, <2>3, <3>1, <3>2
  <2> QED
    BY <2>2, <2>3
<1> QED
  BY <1>1, <1>2, <1>3 DEF Tabled, r

CharacterTable ==
    [n \in 1..58 |->
        IF n <= 9 THEN 48 + n ELSE IF n <= 17 THEN 55 + n
        ELSE IF n <= 22 THEN 56 + n ELSE IF n <= 33 THEN 57 + n
        ELSE IF n <= 44 THEN 63 + n ELSE 64 + n]

(* A run of consecutive characters.                                        *)
LEMMA Run ==
  ASSUME NEW off \in Nat, NEW n \in Nat, NEW table, NEW first \in Nat,
         \A i \in 1..n : table[off + i] = first + i
  PROVE  Tabled([i \in 1..n |-> first + i], off, n, table)
<1> DEFINE s == [i \in 1..n |-> first + i]
<1>1. s \in [1..n -> Nat]
  OBVIOUS
<1>2. s \in Seq(Nat) /\ Len(s) = n
  BY <1>1
<1>3. \A i \in 1..n : s[i] = table[off + i]
  OBVIOUS
<1> QED
  BY <1>2, <1>3 DEF Tabled

(* The 58 characters are six such runs.                                    *)
LEMMA CharactersAre == Tabled(base58Characters, 0, 58, CharacterTable)
<1> DEFINE s1 == [i \in 1..9 |-> 48 + i]
           s2 == [i \in 1..8 |-> 64 + i]
           s3 == [i \in 1..5 |-> 73 + i]
           s4 == [i \in 1..11 |-> 79 + i]
           s5 == [i \in 1..11 |-> 96 + i]
           s6 == [i \in 1..14 |-> 108 + i]
           t2 == s1 \o s2
           t3 == t2 \o s3
           t4 == t3 \o s4
           t5 == t4 \o s5
           t6 == t5 \o s6
<1>1. Tabled(s1, 0, 9, CharacterTable)
  <2>1. 0 \in Nat /\ 9 \in Nat /\ 48 \in Nat
    OBVIOUS
  <2>2. \A i \in 1..9 : CharacterTable[0 + i] = 48 + i
    BY DEF CharacterTable
  <2> QED
    BY <2>1, <2>2, Run, Zenon
<1>2. Tabled(s2, 9, 8, CharacterTable)
  <2>1. 9 \in Nat /\ 8 \in Nat /\ 64 \in Nat
    OBVIOUS
  <2>2. \A i \in 1..8 : CharacterTable[9 + i] = 64 + i
    BY DEF CharacterTable
  <2> QED
    BY <2>1, <2>2, Run, ZenonT(60)
<1>3. Tabled(s3, 17, 5, CharacterTable)
  <2>1. 17 \in Nat /\ 5 \in Nat /\ 73 \in Nat
    OBVIOUS
  <2>2. \A i \in 1..5 : CharacterTable[17 + i] = 73 + i
    BY DEF CharacterTable
  <2> QED
    BY <2>1, <2>2, Run, ZenonT(60)
<1>4. Tabled(s4, 22, 11, CharacterTable)
  <2>1. 22 \in Nat /\ 11 \in Nat /\ 79 \in Nat
    OBVIOUS
  <2>2. \A i \in 1..11 : CharacterTable[22 + i] = 79 + i
    BY DEF CharacterTable
  <2> QED
    BY <2>1, <2>2, Run, ZenonT(60)
<1>5. Tabled(s5, 33, 11, CharacterTable)
  <2>1. 33 \in Nat /\ 11 \in Nat /\ 96 \in Nat
    OBVIOUS
  <2>2. \A i \in 1..11 : CharacterTable[33 + i] = 96 + i
    BY DEF CharacterTable
  <2> QED
    BY <2>1, <2>2, Run, ZenonT(60)
<1>6. Tabled(s6, 44, 14, CharacterTable)
  <2> DEFINE first == 108
  <2>1. 44 \in Nat /\ 14 \in Nat /\ first \in Nat
    OBVIOUS
  <2>2. \A i \in 1..14 : CharacterTable[44 + i] = first + i
    BY DEF CharacterTable
  <2>3. s6 = [i \in 1..14 |-> first + i]
    OBVIOUS
  <2> HIDE DEF first, s6
  <2>4. Tabled([i \in 1..14 |-> first + i], 44, 14, CharacterTable)
    BY <2>1, <2>2, Run, Zenon
  <2> QED
    BY <2>3, <2>4
<1>7. base58Characters = t6
  BY DEF base58Characters
<1> HIDE DEF s1, s2, s3, s4, s5, s6
<1>8. Tabled(t2, 0, 17, CharacterTable)
  <2>1. 9 \in Nat /\ 8 \in Nat
    OBVIOUS
  <2>2. Tabled(s1 \o s2, 0, 9 + 8, CharacterTable)
    BY <1>1, <1>2, <2>1, Joined, Zenon
  <2>3. 9 + 8 = 17
    OBVIOUS
  <2> QED
    BY <2>2, <2>3
<1> HIDE DEF t2
<1>9. Tabled(t3, 0, 22, CharacterTable)
  <2>1. 17 \in Nat /\ 5 \in Nat
    OBVIOUS
  <2>2. Tabled(t2 \o s3, 0, 17 + 5, CharacterTable)
    BY <1>8, <1>3, <2>1, Joined, Zenon
  <2>3. 17 + 5 = 22
    OBVIOUS
  <2> QED
    BY <2>2, <2>3
<1> HIDE DEF t3
<1>10. Tabled(t4, 0, 33, CharacterTable)
  <2>1. 22 \in Nat /\ 11 \in Nat
    OBVIOUS
  <2>2. Tabled(t3 \o s4, 0, 22 + 11, CharacterTable)
    BY <1>9, <1>4, <2>1, Joined, Zenon
  <2>3. 22 + 11 = 33
    OBVIOUS
  <2> QED
    BY <2>2, <2>3
<1> HIDE DEF t4
<1>11. Tabled(t5, 0, 44, CharacterTable)
  <2>1. 33 \in Nat /\ 11 \in Nat
    OBVIOUS
  <2>2. Tabled(t4 \o s5, 0, 33 + 11, CharacterTable)
    BY <1>10, <1>5, <2>1, Joined, Zenon
  <2>3. 33 + 11 = 44
    OBVIOUS
  <2> QED
    BY <2>2, <2>3
<1> HIDE DEF t5
<1>12. Tabled(t6, 0, 58, CharacterTable)
  <2>1. 44 \in Nat /\ 14 \in Nat
    OBVIOUS
  <2>2. Tabled(t5 \o s6, 0, 44 + 14, CharacterTable)
    BY <1>11, <1>6, <2>1, Joined, Zenon
  <2>3. 44 + 14 = 58
    OBVIOUS
  <2> QED
    BY <2>2, <2>3
<1> HIDE DEF t6
<1> QED
  BY <1>7, <1>12

(* Index gives back the place of every character, and only 0 is a one.     *)
LEMMA CharacterIs ==
  ASSUME NEW d \in 0..57
  PROVE  /\ base58Characters[d + 1] \in Nat
         /\ Index(base58Characters[d + 1]) = d
         /\ base58Characters[d + 1] = One <=> d = 0
<1> DEFINE c == base58Characters[d + 1]
<1>1. c = IF d <= 8 THEN 49 + d ELSE IF d <= 16 THEN 56 + d
          ELSE IF d <= 21 THEN 57 + d ELSE IF d <= 32 THEN 58 + d
          ELSE IF d <= 43 THEN 64 + d ELSE 65 + d
  <2>1. d + 1 \in 1..58 /\ 0 + (d + 1) = d + 1
    OBVIOUS
  <2>2. base58Characters[d + 1] = CharacterTable[0 + (d + 1)]
    BY <2>1, CharactersAre DEF Tabled
  <2> QED
    BY <2>1, <2>2 DEF CharacterTable
<1>2. One = 49
  <2>1. 1 \in 1..58 /\ 0 + 1 = 1
    OBVIOUS
  <2>2. base58Characters[1] = CharacterTable[0 + 1]
    BY <2>1, CharactersAre DEF Tabled
  <2> QED
    BY <2>1, <2>2 DEF One, CharacterTable
<1> HIDE DEF c
<1>3. c \in Nat /\ (c = One <=> d = 0)
  BY <1>1, <1>2
<1>4. Index(c) = d
  <2>1. CASE d <= 8
    BY <1>1, <2>1 DEF Index
  <2>2. CASE d > 8 /\ d <= 16
    BY <1>1, <2>2 DEF Index
  <2>3. CASE d > 16 /\ d <= 21
    BY <1>1, <2>3 DEF Index
  <2>4. CASE d > 21 /\ d <= 32
    BY <1>1, <2>4 DEF Index
  <2>5. CASE d > 32 /\ d <= 43
    BY <1>1, <2>5 DEF Index
  <2>6. CASE d > 43
    BY <1>1, <2>6 DEF Index
  <2> QED
    BY <2>1, <2>2, <2>3, <2>4, <2>5, <2>6
<1> QED
  BY <1>3, <1>4 DEF c

(* The digits of a number exist.                                           *)
IsDigits(f) ==
    f = [v \in Nat |-> IF v = 0 THEN << >>
                       ELSE Append(f[v \div Base], base58Characters[(v % Base) + 1])]

DigitsUpto(f, n) ==
    /\ f[0] = << >>
    /\ \A v \in 1..n : f[v] = Append(f[v \div Base], base58Characters[(v % Base) + 1])

(* The quotient by 58 is smaller.                                          *)
LEMMA Quotient ==
  ASSUME NEW v \in Nat, v # 0
  PROVE  /\ v \div Base \in Nat /\ v \div Base < v
         /\ v % Base \in 0..57
         /\ v = (v \div Base) * 58 + (v % Base)
BY DEF Base

(* The digits of the numbers up to n exist.                                *)
LEMMA DigitsUptoExists == \A n \in Nat : \E f : DigitsUpto(f, n)
<1> DEFINE T == {n \in Nat : \E f : DigitsUpto(f, n)}
<1>1. 0 \in T
  <2>1. DigitsUpto([v \in 0..0 |-> << >>], 0)
    BY DEF DigitsUpto
  <2> QED
    BY <2>1
<1>2. ASSUME NEW n \in Nat, n \in T PROVE n + 1 \in T
  <2>1. PICK f : DigitsUpto(f, n)
    BY <1>2
  <2> DEFINE last == Append(f[(n + 1) \div Base], base58Characters[((n + 1) % Base) + 1])
             g == [v \in 0..(n + 1) |-> IF v = n + 1 THEN last ELSE f[v]]
  <2>2. \A v \in 0..n : g[v] = f[v]
    OBVIOUS
  <2>3. g[n + 1] = last
    OBVIOUS
  <2> HIDE DEF g
  <2>4. ASSUME NEW v \in 1..(n + 1)
        PROVE  g[v] = Append(g[v \div Base], base58Characters[(v % Base) + 1])
    <3>1. v \div Base \in Nat /\ v \div Base < v
      BY Quotient
    <3>2. v \div Base \in 0..n
      <4> DEFINE q == v \div Base
      <4>1. q \in Nat /\ q < v
        BY <3>1
      <4> HIDE DEF q
      <4>2. q \in 0..n
        BY <4>1
      <4> QED
        BY <4>2 DEF q
    <3>3. g[v \div Base] = f[v \div Base]
      BY <2>2, <3>2
    <3>4. CASE v = n + 1
      BY <2>3, <3>3, <3>4
    <3>5. CASE v # n + 1
      <4>1. v \in 1..n /\ v \in 0..n
        BY <3>5
      <4>2. g[v] = f[v]
        BY <2>2, <4>1
      <4> QED
        BY <2>1, <3>3, <4>1, <4>2, Zenon DEF DigitsUpto
    <3> QED
      BY <3>4, <3>5
  <2>5. g[0] = << >>
    BY <2>1, <2>2 DEF DigitsUpto
  <2>6. DigitsUpto(g, n + 1)
    BY <2>4, <2>5 DEF DigitsUpto
  <2> QED
    BY <2>6
<1> HIDE DEF T
<1>3. Nat \subseteq T
  BY <1>1, <1>2, SetInduction
<1> QED
  BY <1>3 DEF T

(* And there is no choice about them.                                      *)
LEMMA DigitsUptoUnique ==
  ASSUME NEW f, NEW g, NEW m \in Nat, DigitsUpto(f, m), DigitsUpto(g, m)
  PROVE  \A v \in 0..m : f[v] = g[v]
<1> DEFINE T == {n \in Nat : n <= m => \A v \in 0..n : f[v] = g[v]}
<1>1. 0 \in T
  BY DEF DigitsUpto
<1>2. ASSUME NEW n \in Nat, n \in T PROVE n + 1 \in T
  <2> SUFFICES ASSUME n + 1 <= m, NEW v \in 0..(n + 1) PROVE f[v] = g[v]
    OBVIOUS
  <2>1. \A u \in 0..n : f[u] = g[u]
    BY <1>2
  <2>2. CASE v = n + 1
    <3> DEFINE q == v \div Base
    <3>1. q \in Nat /\ q < v
      BY <2>2, Quotient
    <3>2. v \in 1..m
      BY <2>2
    <3>3. f[v] = Append(f[q], base58Characters[(v % Base) + 1])
          /\ g[v] = Append(g[q], base58Characters[(v % Base) + 1])
      BY <3>2, Zenon DEF DigitsUpto
    <3> HIDE DEF q
    <3>4. f[q] = g[q]
      BY <2>1, <2>2, <3>1
    <3> QED
      BY <3>3, <3>4, Zenon
  <2>3. CASE v # n + 1
    BY <2>1, <2>3
  <2> QED
    BY <2>2, <2>3
<1> HIDE DEF T
<1>3. Nat \subseteq T
  BY <1>1, <1>2, SetInduction
<1>4. m \in T
  BY <1>3
<1> QED
  BY <1>4 DEF T

(* The digits of all numbers.                                              *)
LEMMA DigitsExists == \E f : IsDigits(f)
<1> DEFINE h(v) == CHOOSE f : DigitsUpto(f, v)
           d == [v \in Nat |-> h(v)[v]]
<1>1. \A v \in Nat : DigitsUpto(h(v), v)
  BY DigitsUptoExists
<1> HIDE DEF h
<1>2. ASSUME NEW v \in Nat
      PROVE  d[v] = IF v = 0 THEN << >>
                    ELSE Append(d[v \div Base], base58Characters[(v % Base) + 1])
  <2>1. CASE v = 0
    BY <1>1, <2>1 DEF DigitsUpto
  <2>2. CASE v # 0
    <3> DEFINE q == v \div Base
    <3>1. q \in Nat /\ q < v
      BY <2>2, Quotient
    <3>2. v \in 1..v
      BY <2>2
    <3>3. h(v)[v] = Append(h(v)[q], base58Characters[(v % Base) + 1])
      BY <1>1, <3>2, Zenon DEF DigitsUpto
    <3> HIDE DEF q
    <3>4. DigitsUpto(h(v), q) /\ DigitsUpto(h(q), q) /\ q \in 0..q
      <4>1. \A u \in 1..q : u \in 1..v
        BY <3>1
      <4> QED
        BY <1>1, <3>1, <4>1 DEF DigitsUpto
    <3>5. h(v)[q] = h(q)[q]
      BY <3>1, <3>4, DigitsUptoUnique
    <3>6. d[v] = h(v)[v] /\ d[q] = h(q)[q]
      BY <3>1
    <3> HIDE DEF d
    <3> QED
      BY <2>2, <3>3, <3>5, <3>6, Zenon DEF q
  <2> QED
    BY <2>1, <2>2
<1>3. IsDigits(d)
  BY <1>2 DEF IsDigits
<1> QED
  BY <1>3

Digits == CHOOSE f : IsDigits(f)

CharacterOf(v) == base58Characters[(v % Base) + 1]

(* The digits of a number end in its remainder by 58.                      *)
LEMMA DigitsAre ==
  /\ Digits[0] = << >>
  /\ \A v \in Nat : v # 0 => Digits[v] = Append(Digits[v \div Base], CharacterOf(v))
<1>1. IsDigits(Digits)
  BY DigitsExists DEF Digits
<1> HIDE DEF Digits
<1>2. \A v \in Nat :
         Digits[v] = IF v = 0 THEN << >>
                     ELSE Append(Digits[v \div Base], base58Characters[(v % Base) + 1])
  BY <1>1, Zenon DEF IsDigits
<1> QED
  BY <1>2 DEF CharacterOf

(* The character for a remainder gives the remainder back.                 *)
LEMMA CharacterOfIs ==
  ASSUME NEW v \in Nat
  PROVE  /\ CharacterOf(v) \in Nat
         /\ Index(CharacterOf(v)) = v % 58
         /\ CharacterOf(v) = One <=> v % 58 = 0
<1> DEFINE d == v % 58
<1>1. d \in 0..57
  OBVIOUS
<1> HIDE DEF d
<1>2. /\ base58Characters[d + 1] \in Nat
      /\ Index(base58Characters[d + 1]) = d
      /\ base58Characters[d + 1] = One <=> d = 0
  BY <1>1, CharacterIs
<1>3. CharacterOf(v) = base58Characters[d + 1]
  BY DEF CharacterOf, Base, d
<1> QED
  BY <1>2, <1>3 DEF d

(* The digits of a number that is not 0 are those of its quotient, and one *)
(* more.                                                                   *)
LEMMA DigitsType == \A v \in Nat : Digits[v] \in Seq(Nat)
<1> DEFINE S == {v \in Nat : Digits[v] \in Seq(Nat)}
<1>1. ASSUME NEW v \in Nat, \A u \in 0..(v - 1) : u \in S PROVE v \in S
  <2> SUFFICES Digits[v] \in Seq(Nat)
    OBVIOUS
  <2>1. CASE v = 0
    <3>1. Digits[v] = << >>
      BY <2>1, DigitsAre
    <3> QED
      BY <3>1, EmptySeq, Zenon
  <2>2. CASE v # 0
    <3> DEFINE q == v \div Base
    <3>1. q \in Nat /\ q < v
      BY <2>2, Quotient
    <3>2. Digits[v] = Append(Digits[q], CharacterOf(v))
      BY <2>2, DigitsAre
    <3> HIDE DEF q
    <3>3. q \in 0..(v - 1)
      BY <3>1
    <3>4. Digits[q] \in Seq(Nat) /\ CharacterOf(v) \in Nat
      BY <1>1, <3>3, CharacterOfIs
    <3> QED
      BY <3>2, <3>4, AppendProperties, ZenonT(60)
  <2> QED
    BY <2>1, <2>2
<1> HIDE DEF S
<1>2. \A v \in Nat : v \in S
  BY <1>1, StrongInduction
<1> QED
  BY <1>2 DEF S

Long(v) == Len(Digits[v])

(* The number of digits is a natural number.                               *)
LEMMA LongType == ASSUME NEW v \in Nat PROVE Long(v) \in Nat
BY DigitsType, LenProperties, Zenon DEF Long

(* Zero has no digits.                                                     *)
LEMMA NoDigits == Long(0) = 0
BY DigitsAre DEF Long

(* A number has one digit more than its quotient.                          *)
LEMMA OneMoreDigit ==
  ASSUME NEW v \in Nat, v # 0, NEW q, q = v \div 58
  PROVE  /\ q \in Nat
         /\ Long(q) \in Nat
         /\ Long(v) = Long(q) + 1
         /\ Digits[v][Long(v)] = CharacterOf(v)
         /\ \A i \in 1..Long(q) : Digits[v][i] = Digits[q][i]
<1>1. q \in Nat
  BY Quotient DEF Base
<1>2. Digits[v] = Append(Digits[q], CharacterOf(v))
  BY DigitsAre DEF Base
<1>3. Digits[q] \in Seq(Nat) /\ CharacterOf(v) \in Nat
  BY <1>1, DigitsType, CharacterOfIs
<1> DEFINE d == Digits[q]
           c == CharacterOf(v)
           e == Digits[v]
<1>4. d \in Seq(Nat) /\ c \in Nat /\ e = Append(d, c)
  BY <1>2, <1>3
<1> HIDE DEF d, c, e
<1>5. /\ Len(e) = Len(d) + 1 /\ e[Len(d) + 1] = c /\ Len(d) \in Nat
      /\ \A i \in 1..Len(d) : e[i] = d[i]
  BY <1>4, AppendProperties
<1> QED
  BY <1>1, <1>5 DEF d, c, e, Long

(* The first digit is not the one for 0.                                   *)
LEMMA FirstDigit ==
  ASSUME NEW v \in Nat, v # 0
  PROVE  Long(v) >= 1 /\ Digits[v][1] # One
<1> DEFINE S == {u \in Nat : u # 0 => Long(u) >= 1 /\ Digits[u][1] # One}
<1>1. ASSUME NEW w \in Nat, \A u \in 0..(w - 1) : u \in S PROVE w \in S
  <2> SUFFICES ASSUME w # 0 PROVE Long(w) >= 1 /\ Digits[w][1] # One
    OBVIOUS
  <2> DEFINE q == w \div 58
  <2>1. /\ q \in Nat /\ Long(q) \in Nat /\ Long(w) = Long(q) + 1
        /\ Digits[w][Long(w)] = CharacterOf(w)
        /\ \A i \in 1..Long(q) : Digits[w][i] = Digits[q][i]
    BY OneMoreDigit
  <2>2. CASE q = 0
    <3>1. w % 58 # 0
      BY <2>2
    <3>2. Long(w) = 1
      BY <2>1, <2>2, NoDigits
    <3> QED
      BY <2>1, <3>1, <3>2, CharacterOfIs
  <2>3. CASE q # 0
    <3>1. q \in 0..(w - 1)
      BY <2>3
    <3> HIDE DEF q
    <3>2. Long(q) >= 1 /\ Digits[q][1] # One
      BY <1>1, <2>3, <3>1
    <3>3. 1 \in 1..Long(q)
      BY <2>1, <3>2
    <3>4. Digits[w][1] = Digits[q][1]
      BY <2>1, <3>3
    <3> QED
      BY <2>1, <3>2, <3>4
  <2> QED
    BY <2>2, <2>3
<1> HIDE DEF S
<1>2. \A w \in Nat : w \in S
  BY <1>1, StrongInduction
<1> QED
  BY <1>2 DEF S

-----------------------------------------------------------------------------
(* What an address stands for.                                             *)
LEMMA BytesAre ==
  ASSUME address \in Numbers
  PROVE  LET w == Reverse(address)
         IN  /\ w \in Seq(Octets) /\ Len(w) = AddressLength
             /\ \A i \in 1..AddressLength : w[i] = address[AddressLength + 1 - i]
             /\ \A i \in 1..AddressLength : address[i] = w[AddressLength + 1 - i]
             /\ address = Reverse(w)
<1> DEFINE w == Reverse(address)
           n == AddressLength
<1>1. n \in Nat /\ address \in [1..n -> Octets]
  BY AddressAssumption
<1> HIDE DEF n
<1>2. Len(address) = n
  BY <1>1
<1>3. w = [i \in 1..n |-> address[(n - i) + 1]]
  BY <1>2 DEF Reverse
<1> HIDE DEF w
<1>4. \A i \in 1..n : n + 1 - i \in 1..n /\ (n - i) + 1 = n + 1 - i /\ n + 1 - (n + 1 - i) = i
  BY <1>1
<1>5. w \in [1..n -> Octets]
  <2>1. \A i \in 1..n : address[(n - i) + 1] \in Octets
    BY <1>1, <1>4
  <2> QED
    BY <1>3, <2>1
<1>6. w \in Seq(Octets) /\ Len(w) = n
  BY <1>1, <1>5
<1>7. \A i \in 1..n : w[i] = address[n + 1 - i]
  BY <1>3, <1>4
<1>8. \A i \in 1..n : address[i] = w[n + 1 - i]
  BY <1>4, <1>7
<1>9. address = Reverse(w)
  <2>1. Reverse(w) = [i \in 1..n |-> w[(n - i) + 1]]
    BY <1>6 DEF Reverse
  <2>2. \A i \in 1..n : w[(n - i) + 1] = address[i]
    BY <1>4, <1>8
  <2>3. address = [i \in 1..n |-> address[i]]
    BY <1>1
  <2> QED
    BY <2>1, <2>2, <2>3
<1> QED
  BY <1>6, <1>7, <1>8, <1>9 DEF n, w

IsValue(f) == f = [i \in 0..AddressLength |-> IF i = 0 THEN 0 ELSE f[i - 1] * Byte + address[i]]

(* Value is the number of the address with its bytes reversed.             *)
LEMMA ValueIs ==
  ASSUME address \in Numbers
  PROVE  Value = NumberOf(Reverse(address)) /\ Value \in Nat
<1> DEFINE w == Reverse(address)
           n == AddressLength
           h == Horner(w)
           g == [i \in 0..n |-> h[n - i]]
           f == CHOOSE v : IsValue(v)
<1>1. /\ n \in Nat /\ w \in Seq(Octets) /\ Len(w) = n
      /\ \A i \in 1..n : address[i] = w[n + 1 - i]
  BY BytesAre, AddressAssumption
<1>2. Value = f[n]
  BY DEF Value, IsValue
<1> HIDE DEF w, n, h
<1>3. ASSUME NEW i \in 0..n
      PROVE  g[i] = IF i = 0 THEN 0 ELSE g[i - 1] * 256 + address[i]
  <2>1. CASE i = 0
    <3>1. h[n] = 0
      BY <1>1, HornerTop DEF h
    <3>2. g[0] = h[n - 0] /\ n - 0 = n
      BY <1>1
    <3> QED
      BY <2>1, <3>1, <3>2
  <2>2. CASE i # 0
    <3> DEFINE k == n + 1 - i
    <3>1. k \in 1..Len(w) /\ i - 1 \in 0..n /\ n - (i - 1) = k /\ n - i = k - 1 /\ i \in 1..n
      BY <1>1, <2>2
    <3> HIDE DEF k
    <3>2. h[k - 1] = h[k] * 256 + w[k]
      BY <1>1, <3>1, HornerStep, ZenonT(60) DEF h
    <3>3. g[i] = h[k - 1] /\ g[i - 1] = h[k]
      BY <3>1
    <3>4. address[i] = w[k]
      BY <1>1, <3>1 DEF k
    <3> HIDE DEF g
    <3> QED
      BY <2>2, <3>2, <3>3, <3>4
  <2> QED
    BY <2>1, <2>2
<1>4. IsValue(g)
  BY <1>3 DEF IsValue, Byte, n
<1> HIDE DEF f, g
<1>5. IsValue(f)
  BY <1>4 DEF f
<1>6. n \in {i \in 0..n : f[i] = g[i]}
  <2> DEFINE S == {i \in 0..n : f[i] = g[i]}
  <2>1. 0 \in S
    BY <1>1, <1>4, <1>5 DEF IsValue, n
  <2>2. ASSUME NEW k \in 1..n, k - 1 \in S PROVE k \in S
    <3>1. k \in 0..n /\ k # 0
      BY <1>1
    <3>2. f[k] = f[k - 1] * Byte + address[k] /\ g[k] = g[k - 1] * Byte + address[k]
      BY <1>4, <1>5, <3>1, Zenon DEF IsValue, n
    <3> QED
      BY <2>2, <3>1, <3>2
  <2> HIDE DEF S
  <2>3. \A k \in 0..n : k \in S
    BY <1>1, <2>1, <2>2, UpInduction
  <2> QED
    BY <1>1, <2>3 DEF S
<1>7. g[n] = h[0]
  <2>1. n - n = 0 /\ n \in 0..n
    BY <1>1
  <2> QED
    BY <2>1 DEF g
<1>8. h[0] = NumberOf(w) /\ NumberOf(w) \in Nat
  BY <1>1, NumberType DEF h, NumberOf
<1> QED
  BY <1>2, <1>6, <1>7, <1>8 DEF w

(* As many zero bytes lead as LeadingZeros says, and the next is not zero. *)
LEMMA LeadingZerosIs ==
  ASSUME address \in Numbers
  PROVE  /\ LeadingZeros \in 0..AddressLength
         /\ \A i \in 1..LeadingZeros : address[i] = 0
         /\ LeadingZeros < AddressLength => address[LeadingZeros + 1] # 0
<1> DEFINE n == AddressLength
           S == {m \in 0..n : \A i \in 1..m : address[i] = 0}
           z == Max(S)
<1>1. n \in Nat /\ LeadingZeros = z
  BY AddressAssumption DEF LeadingZeros
<1> HIDE DEF n
<1>2. 0 \in S
  BY <1>1
<1>3. z \in S /\ \A m \in S : m <= z
  <2>1. S \subseteq 0..n /\ S # {}
    BY <1>2
  <2> HIDE DEF S
  <2> QED
    BY <1>1, <2>1, MaxIs
<1> HIDE DEF z
<1>4. ASSUME z < n, address[z + 1] = 0 PROVE FALSE
  <2>1. z \in Nat /\ z + 1 \in 0..n /\ \A i \in 1..z : address[i] = 0
    BY <1>1, <1>3, <1>4
  <2>2. \A i \in 1..(z + 1) : address[i] = 0
    BY <1>4, <2>1
  <2>3. z + 1 \in S
    BY <2>1, <2>2
  <2> HIDE DEF S
  <2>4. z + 1 <= z
    BY <1>3, <2>3
  <2> QED
    BY <2>1, <2>4
<1> QED
  BY <1>1, <1>3, <1>4 DEF n

(* The reference: the ones, and behind them the digits of the value.       *)
LEMMA ReferenceIs ==
  ASSUME address \in Numbers
  PROVE  /\ Reference \in Seq(Nat)
         /\ Len(Reference) = LeadingZeros + Long(Value)
         /\ \A i \in 1..LeadingZeros : Reference[i] = One
         /\ \A i \in 1..Long(Value) : Reference[LeadingZeros + i] = Digits[Value][i]
<1> DEFINE z == LeadingZeros
           v == Value
           s == Ones(z)
           t == Digits[v]
           r == s \o t
<1>1. Reference = r
  BY DEF Reference, Digits, IsDigits
<1>2. z \in Nat /\ v \in Nat
  BY LeadingZerosIs, ValueIs, AddressAssumption
<1> HIDE DEF z, v
<1>3. s \in Seq(Nat) /\ Len(s) = z /\ \A i \in 1..z : s[i] = One
  <2>1. One \in Nat
    <3>1. 0 \in 0..57 /\ 0 + 1 = 1
      OBVIOUS
    <3> QED
      BY <3>1, CharacterIs DEF One
  <2>2. s \in [1..z -> Nat] /\ \A i \in 1..z : s[i] = One
    BY <2>1 DEF Ones
  <2> QED
    BY <1>2, <2>2
<1>4. t \in Seq(Nat) /\ Len(t) = Long(v) /\ Long(v) \in Nat
  BY <1>2, DigitsType, LongType DEF Long
<1> HIDE DEF s, t
<1>5. /\ r \in Seq(Nat)
      /\ Len(r) = Len(s) + Len(t)
      /\ \A i \in 1..(Len(s) + Len(t)) : r[i] = IF i <= Len(s) THEN s[i] ELSE t[i - Len(s)]
  BY <1>3, <1>4, ConcatProperties, Zenon
<1> HIDE DEF r
<1>6. \A i \in 1..z : r[i] = One
  BY <1>2, <1>3, <1>4, <1>5
<1>7. ASSUME NEW i \in 1..Long(v) PROVE r[z + i] = t[i]
  <2>1. z + i \in 1..(z + Long(v)) /\ ~(z + i <= z) /\ (z + i) - z = i
    BY <1>2, <1>4
  <2> QED
    BY <1>3, <1>4, <1>5, <2>1
<1> QED
  BY <1>1, <1>3, <1>4, <1>5, <1>6, <1>7 DEF z, v, t

(* All of this stays as long as the address does.                          *)
LEMMA AddressStays ==
  ASSUME address' = address
  PROVE  Value' = Value /\ LeadingZeros' = LeadingZeros /\ Reference' = Reference
BY DEF Value, LeadingZeros, Reference

-----------------------------------------------------------------------------
(* Numbers as they are taken apart.                                        *)
LEMMA LongNormal ==
  ASSUME NEW a \in Seq(Octets), Normal(a), Len(a) > 1
  PROVE  NumberOf(a) >= 256
<1>1. Strict(a) /\ 1 \in 0..Len(a) /\ 1 < Len(a) /\ 1 \in 1..Len(a) /\ 1 - 1 = 0
  BY DEF Normal, Strict
<1>2. Horner(a)[1] > 0
  BY <1>1, StrictRises
<1>3. /\ Horner(a)[1] \in Nat /\ a[1] \in Nat
      /\ Horner(a)[1 - 1] = Horner(a)[1] * 256 + a[1]
  BY <1>1, HornerStep
<1> DEFINE h == Horner(a)[1]
           v == a[1]
<1>4. h \in Nat /\ v \in Nat /\ h > 0 /\ NumberOf(a) = h * 256 + v
  BY <1>1, <1>2, <1>3 DEF NumberOf
<1> HIDE DEF h, v
<1> QED
  BY <1>4

(* A length that is not 0.                                                 *)
LEMMA OneOrMore == ASSUME NEW l \in Nat, l # 0 PROVE l = 1 \/ l > 1
OBVIOUS

(* A normal number counts as at least 58 when it is.                       *)
LEMMA NormalAtLeast58 ==
  ASSUME NEW a \in Seq(Octets), Normal(a)
  PROVE  AtLeast58(a) <=> NumberOf(a) >= 58
<1>0. Len(a) = 1 \/ Len(a) > 1
  <2>1. Len(a) \in Nat /\ Len(a) # 0
    BY DEF Normal
  <2> QED
    BY <2>1, OneOrMore, Zenon
<1>1. CASE Len(a) > 1
  <2>1. NumberOf(a) >= 256 /\ NumberOf(a) \in Nat
    BY <1>1, LongNormal, NumberType
  <2> QED
    BY <1>1, <2>1 DEF AtLeast58
<1>2. CASE Len(a) = 1
  BY <1>2, Single DEF AtLeast58, Base
<1> QED
  BY <1>0, <1>1, <1>2

(* Only one zero byte is a normal zero.                                    *)
LEMMA NormalZero ==
  ASSUME NEW a \in Seq(Octets), Normal(a), NumberOf(a) = 0
  PROVE  a = <<0>>
<1>1. ~(Len(a) > 1)
  BY LongNormal
<1>2. Len(a) = 1
  <2>1. Len(a) \in Nat /\ Len(a) # 0
    BY DEF Normal
  <2> QED
    BY <1>1, <2>1, OneOrMore, Zenon
<1>3. a[1] = 0
  BY <1>2, Single
<1> QED
  BY <1>2, <1>3

(* What is left without the remainder is divided as before.                *)
LEMMA WholeQuotient ==
  ASSUME NEW n \in Nat
  PROVE  /\ n % 58 \in Nat /\ n % 58 < 58 /\ n >= n % 58
         /\ (n - (n % 58)) \in Nat
         /\ (n - (n % 58)) \div 58 = n \div 58
         /\ n >= 58 => n - (n % 58) >= 58 /\ n \div 58 # 0
         /\ n < 58 => n - (n % 58) = 0 /\ n \div 58 = 0
         /\ n \div 58 \in Nat
OBVIOUS

(* What one digit leaves of a number.                                      *)
LEMMA DigitLeaves ==
  ASSUME NEW a \in Seq(Octets), a # << >>
  PROVE  LET q == BigNumberEqualsDivisionBy58(
                      BigNumberEqualsSubtractionByUInt8(a, BigNumberModuloWith58(a)))
         IN  /\ q \in Seq(Octets) /\ Normal(q) /\ Len(q) <= Len(a)
             /\ NumberOf(q) = NumberOf(a) \div 58
<1> DEFINE n == NumberOf(a)
           m == BigNumberModuloWith58(a)
           r == BigNumberEqualsSubtractionByUInt8(a, m)
           q == BigNumberEqualsDivisionBy58(r)
<1>1. n \in Nat /\ m = n % 58
  BY NumberType, ModuloIs
<1> HIDE DEF n, m
<1>2. /\ m \in Nat /\ m < 58 /\ n >= m /\ n - m \in Nat /\ (n - m) \div 58 = n \div 58
      /\ n >= 58 => n - m >= 58
      /\ n < 58 => n - m = 0 /\ n \div 58 = 0
  BY <1>1, WholeQuotient
<1>3. r \in Seq(Octets) /\ Normal(r) /\ Len(r) <= Len(a) /\ NumberOf(r) = n - m
  <2>1. NumberOf(a) >= m
    BY <1>2 DEF n
  <2>2. r \in Seq(Octets) /\ Normal(r) /\ Len(r) <= Len(a) /\ NumberOf(r) = NumberOf(a) - m
    BY <1>2, <2>1, SubtractionIs
  <2> QED
    BY <2>2 DEF n
<1> HIDE DEF r
<1>4. CASE n >= 58
  <2>1. NumberOf(r) >= 58
    BY <1>2, <1>3, <1>4
  <2>2. q \in Seq(Octets) /\ Normal(q) /\ Len(q) <= Len(r) /\ NumberOf(q) = NumberOf(r) \div 58
    BY <1>3, <2>1, DivisionIs
  <2> HIDE DEF q
  <2>3. Len(q) <= Len(a)
    BY <1>3, <2>2
  <2>4. NumberOf(q) = n \div 58
    BY <1>2, <1>3, <2>2
  <2> QED
    BY <2>2, <2>3, <2>4 DEF n, m, r, q
<1>5. CASE n < 58
  <2>1. r = <<0>>
    BY <1>2, <1>3, <1>5, NormalZero
  <2>2. q = r
    BY <2>1 DEF BigNumberEqualsDivisionBy58
  <2> HIDE DEF q
  <2>3. NumberOf(q) = n \div 58
    BY <1>2, <1>3, <1>5, <2>2
  <2> QED
    BY <1>3, <2>2, <2>3 DEF n, m, r, q
<1> QED
  BY <1>1, <1>4, <1>5

-----------------------------------------------------------------------------
(* The string as it grows: behind the z ones stand the last digits of v,   *)
(* the last one first, and n has the other digits.                         *)
Peeled(n, v, z, s) ==
    /\ n \in Nat /\ n # 0
    /\ Long(n) <= Long(v)
    /\ Len(s) = z + (Long(v) - Long(n))
    /\ \A i \in 1..Long(n) : Digits[v][i] = Digits[n][i]
    /\ \A i \in 1..(Long(v) - Long(n)) : s[z + i] = Digits[v][Long(v) + 1 - i]

(* Another digit moves from the number to the string.                      *)
LEMMA PeelStep ==
  ASSUME NEW v \in Nat, NEW z \in Nat, NEW s \in Seq(Nat), NEW n, Peeled(n, v, z, s), n >= 58
  PROVE  Peeled(n \div 58, v, z, Append(s, CharacterOf(n)))
<1> DEFINE q == n \div 58
           c == CharacterOf(n)
           t == Append(s, c)
           lv == Long(v)
           ln == Long(n)
           lq == Long(q)
           ls == Len(s)
           lt == Len(t)
<1>1. n \in Nat /\ n # 0
  BY DEF Peeled
<1>2. q # 0 /\ q = n \div 58 /\ c = CharacterOf(n) /\ c \in Nat
  BY <1>1, WholeQuotient, CharacterOfIs
<1> HIDE DEF q, c
<1>3. /\ q \in Nat /\ lq \in Nat /\ ln = lq + 1
      /\ Digits[n][ln] = c
      /\ \A i \in 1..lq : Digits[n][i] = Digits[q][i]
  <2>1. n \in Nat
    BY <1>1
  <2>2. n # 0
    BY <1>1
  <2>3. q = n \div 58
    BY <1>2
  <2>4. /\ q \in Nat
        /\ Long(q) \in Nat
        /\ Long(n) = Long(q) + 1
        /\ Digits[n][Long(n)] = CharacterOf(n)
        /\ \A i \in 1..Long(q) : Digits[n][i] = Digits[q][i]
    BY <2>1, <2>2, <2>3, OneMoreDigit, ZenonT(60)
  <2> QED
    BY <1>2, <2>4
<1>4. /\ t \in Seq(Nat) /\ lt = ls + 1 /\ t[ls + 1] = c
      /\ \A i \in 1..ls : t[i] = s[i]
  BY <1>2, AppendProperties
<1>5. /\ lv \in Nat /\ ls \in Nat
      /\ ln <= lv /\ ls = z + (lv - ln)
      /\ \A i \in 1..ln : Digits[v][i] = Digits[n][i]
      /\ \A i \in 1..(lv - ln) : s[z + i] = Digits[v][lv + 1 - i]
  BY LongType DEF Peeled
<1> HIDE DEF t, lv, ln, lq, ls, lt
<1>6. ASSUME NEW i \in 1..lq PROVE Digits[v][i] = Digits[q][i]
  <2>1. i \in 1..ln
    BY <1>3
  <2> QED
    BY <1>3, <1>5, <2>1
<1>7. ASSUME NEW i \in 1..(lv - lq) PROVE t[z + i] = Digits[v][lv + 1 - i]
  <2>1. CASE i = lv - lq
    <3>1. z + i = ls + 1 /\ lv + 1 - i = ln /\ ln \in 1..ln
      BY <1>3, <1>5, <2>1
    <3>2. Digits[v][ln] = Digits[n][ln]
      BY <1>5, <3>1
    <3> QED
      BY <1>3, <1>4, <3>1, <3>2
  <2>2. CASE i # lv - lq
    <3>1. i \in 1..(lv - ln) /\ z + i \in 1..ls
      BY <1>3, <1>5, <2>2
    <3>2. s[z + i] = Digits[v][lv + 1 - i]
      BY <1>5, <3>1
    <3> QED
      BY <1>4, <3>1, <3>2
  <2> QED
    BY <2>1, <2>2
<1>8. lq <= lv /\ lt = z + (lv - lq)
  BY <1>3, <1>4, <1>5
<1>9. Peeled(q, v, z, t)
  BY <1>2, <1>3, <1>6, <1>7, <1>8 DEF Peeled, lv, lq, lt
<1> QED
  BY <1>9 DEF q, c, t

(* As many places as there are behind the ones.                            *)
LEMMA Behind ==
  ASSUME NEW long \in Nat, NEW z \in Nat, z <= long
  PROVE  long - (z + 1) + 1 = long - z /\ (~(z + 1 <= long) => long - z = 0)
OBVIOUS

(* The reversal behind the ones.                                           *)
LEMMA ReversedBehind ==
  ASSUME NEW d \in Seq(Nat), NEW z \in 0..Len(d)
  PROVE  LET r == SubSeq(d, 1, z) \o Reverse(SubSeq(d, z + 1, Len(d)))
         IN  /\ r \in Seq(Nat) /\ Len(r) = Len(d)
             /\ \A i \in 1..z : r[i] = d[i]
             /\ \A i \in 1..(Len(d) - z) : r[z + i] = d[Len(d) + 1 - i]
<1> DEFINE s == SubSeq(d, 1, z)
           m == Len(d) - z
           u == SubSeq(d, z + 1, Len(d))
           t == Reverse(u)
           r == s \o t
<1>0. Len(d) \in Nat /\ z \in Nat /\ m \in Nat /\ z <= Len(d) /\ z + m = Len(d)
  OBVIOUS
<1>1. s \in Seq(Nat) /\ Len(s) = z /\ \A i \in 1..z : s[i] = d[i]
  BY <1>0
<1>2. u \in Seq(Nat) /\ Len(u) = m /\ \A i \in 1..m : u[i] = d[z + i]
  <2>1. \A i \in (z + 1)..Len(d) : d[i] \in Nat
    BY <1>0
  <2>2. /\ u \in Seq(Nat)
        /\ Len(u) = IF z + 1 <= Len(d) THEN Len(d) - (z + 1) + 1 ELSE 0
        /\ \A i \in 1..(Len(d) - (z + 1) + 1) : u[i] = d[(z + 1) + i - 1]
    <3>1. z + 1 \in Int /\ Len(d) \in Int
      BY <1>0
    <3> QED
      BY <2>1, <3>1, SubSeqProperties
  <2> DEFINE long == Len(d)
  <2> HIDE DEF u
  <2>3. long \in Nat /\ z \in Nat /\ z <= long
    BY <1>0
  <2> HIDE DEF long
  <2>4. \A i \in 1..m : (z + 1) + i - 1 = z + i
    BY <1>0
  <2>5. long - (z + 1) + 1 = long - z /\ (~(z + 1 <= long) => long - z = 0)
    BY <2>3, Behind
  <2> HIDE DEF m
  <2>6. Len(d) - (z + 1) + 1 = m /\ (~(z + 1 <= Len(d)) => m = 0)
    BY <2>5, Zenon DEF long, m
  <2> QED
    BY <2>2, <2>4, <2>6
<1> HIDE DEF s, u, m
<1>3. t \in Seq(Nat) /\ Len(t) = m /\ \A i \in 1..m : t[i] = d[z + m + 1 - i]
  <2>1. t = [i \in 1..m |-> u[(m - i) + 1]]
    BY <1>2 DEF Reverse
  <2>2. \A i \in 1..m : (m - i) + 1 \in 1..m /\ z + ((m - i) + 1) = z + m + 1 - i
    BY <1>0
  <2>3. ASSUME NEW i \in 1..m
        PROVE  u[(m - i) + 1] \in Nat /\ u[(m - i) + 1] = d[z + m + 1 - i]
    <3> DEFINE k == (m - i) + 1
    <3>1. k \in 1..m /\ z + k = z + m + 1 - i
      BY <2>2
    <3> HIDE DEF k
    <3>2. u[k] = d[z + k]
      BY <1>2, <3>1
    <3>3. u[k] \in Nat
      BY <1>2, <3>1, ElementOfSeq
    <3> QED
      BY <3>1, <3>2, <3>3 DEF k
  <2> HIDE DEF t
  <2>4. t \in [1..m -> Nat]
    BY <2>1, <2>3
  <2> QED
    BY <1>0, <2>1, <2>3, <2>4
<1> HIDE DEF t
<1>4. /\ r \in Seq(Nat)
      /\ Len(r) = Len(s) + Len(t)
      /\ \A i \in 1..(Len(s) + Len(t)) : r[i] = IF i <= Len(s) THEN s[i] ELSE t[i - Len(s)]
  BY <1>1, <1>3, ConcatProperties, Zenon
<1> HIDE DEF r
<1>5. \A i \in 1..z : r[i] = d[i]
  BY <1>0, <1>1, <1>3, <1>4
<1>6. ASSUME NEW i \in 1..m PROVE r[z + i] = d[z + m + 1 - i]
  <2>1. z + i \in 1..(z + m) /\ ~(z + i <= z) /\ (z + i) - z = i
    BY <1>0
  <2> QED
    BY <1>1, <1>3, <1>4, <2>1, ZenonT(60)
<1>7. r \in Seq(Nat) /\ Len(r) = Len(d)
  BY <1>0, <1>1, <1>3, <1>4
<1>8. \A i \in 1..(Len(d) - z) : r[z + i] = d[Len(d) + 1 - i]
  BY <1>0, <1>6 DEF m
<1> QED
  BY <1>5, <1>7, <1>8 DEF r, s, t, u

Spells(goal, v, z) == /\ goal \in Seq(Nat)
                      /\ Len(goal) = z + Long(v)
                      /\ \A i \in 1..z : goal[i] = One
                      /\ \A i \in 1..Long(v) : goal[z + i] = Digits[v][i]

Turned(d, z) == SubSeq(d, 1, z) \o Reverse(SubSeq(d, z + 1, Len(d)))

LastOf(n, v, z, s) == /\ v \in Nat /\ z \in Nat /\ s \in Seq(Nat)
                      /\ Peeled(n, v, z, s)
                      /\ n < 58
                      /\ \A i \in 1..z : s[i] = One

Longer(d, s, n) == d = Append(s, CharacterOf(n))

(* The reversal of the last digits spells the number.                      *)
LEMMA PeelEnd ==
  ASSUME NEW v, NEW z, NEW s, NEW n, LastOf(n, v, z, s),
         NEW goal, Spells(goal, v, z),
         NEW d, Longer(d, s, n)
  PROVE  Turned(d, z) = goal
<1>0. /\ v \in Nat /\ z \in Nat /\ s \in Seq(Nat)
      /\ Peeled(n, v, z, s) /\ n < 58
      /\ \A i \in 1..z : s[i] = One
  BY DEF LastOf
<1> USE <1>0
<1> DEFINE c == CharacterOf(n)
           r == SubSeq(d, 1, z) \o Reverse(SubSeq(d, z + 1, Len(d)))
           long == Long(v)
<1>1. n \in Nat /\ n # 0
  BY DEF Peeled
<1>2. Long(n) = 1 /\ Digits[n][1] = c /\ c \in Nat
  <2>1. 0 = n \div 58
    BY <1>1
  <2>2. Long(n) = Long(0) + 1 /\ Digits[n][Long(n)] = c
    BY <1>1, <2>1, OneMoreDigit
  <2>3. c \in Nat
    BY <1>1, CharacterOfIs
  <2> HIDE DEF c
  <2> QED
    BY <2>2, <2>3, NoDigits
<1> HIDE DEF c
<1>3. /\ long \in Nat /\ 1 <= long /\ Len(s) = z + (long - 1)
      /\ Digits[v][1] = c
      /\ \A i \in 1..(long - 1) : s[z + i] = Digits[v][long + 1 - i]
  <2>1. long \in Nat
    BY LongType
  <2>2. 1 \in 1..1
    OBVIOUS
  <2> QED
    BY <1>2, <2>1, <2>2 DEF Peeled
<1> HIDE DEF long
<1>4. /\ d \in Seq(Nat) /\ Len(d) = Len(s) + 1 /\ d[Len(s) + 1] = c
      /\ \A i \in 1..Len(s) : d[i] = s[i]
  <2>1. d = Append(s, c)
    BY DEF c, Longer
  <2> QED
    BY <1>2, <2>1, AppendProperties
<1>5. z \in 0..Len(d) /\ Len(d) - z = long /\ Len(d) = z + long
  BY <1>3, <1>4
<1>6. /\ r \in Seq(Nat) /\ Len(r) = Len(d)
      /\ \A i \in 1..z : r[i] = d[i]
      /\ \A i \in 1..(Len(d) - z) : r[z + i] = d[Len(d) + 1 - i]
  BY <1>4, <1>5, ReversedBehind
<1> HIDE DEF r
<1>7. ASSUME NEW i \in 1..z PROVE r[i] = goal[i]
  <2>1. i \in 1..Len(s)
    BY <1>3
  <2> QED
    BY <1>4, <1>6, <2>1 DEF Spells
<1>8. ASSUME NEW i \in 1..long PROVE r[z + i] = goal[z + i]
  <2>1. r[z + i] = d[Len(d) + 1 - i] /\ goal[z + i] = Digits[v][i]
    BY <1>5, <1>6 DEF long, Spells
  <2>2. CASE i = 1
    <3>1. Len(d) + 1 - i = Len(s) + 1
      BY <1>4, <2>2
    <3> QED
      BY <1>3, <1>4, <2>1, <2>2, <3>1
  <2>3. CASE i # 1
    <3> DEFINE k == long + 1 - i
    <3>1. k \in 1..(long - 1) /\ long + 1 - k = i /\ Len(d) + 1 - i = z + k /\ z + k \in 1..Len(s)
      BY <1>3, <1>5, <2>3
    <3> HIDE DEF k
    <3>2. s[z + k] = Digits[v][i]
      BY <1>3, <3>1
    <3>3. d[z + k] = s[z + k]
      BY <1>4, <3>1
    <3> QED
      BY <2>1, <3>1, <3>2, <3>3
  <2> QED
    BY <2>2, <2>3
<1>9. \A i \in 1..Len(r) : r[i] = goal[i]
  <2> SUFFICES ASSUME NEW i \in 1..Len(r) PROVE r[i] = goal[i]
    OBVIOUS
  <2>1. i \in 1..z \/ (i - z \in 1..long /\ z + (i - z) = i)
    BY <1>3, <1>5, <1>6
  <2> QED
    BY <1>7, <1>8, <2>1
<1>10. Len(r) = Len(goal)
  BY <1>5, <1>6 DEF long, Spells
<1>11. r = goal
  BY <1>6, <1>9, <1>10, SeqEqual DEF Spells
<1> QED
  BY <1>11 DEF r, Turned

-----------------------------------------------------------------------------
(* The number as it is put together: x is what the characters before k     *)
(* still have to give of v, b what the others have given.                  *)
Pending(x, v, z, s, k, b) ==
    /\ x = 0 => k <= z
    /\ x # 0 => k = z + Long(x)
    /\ \A i \in 1..Long(x) : s[z + i] = Digits[x][i]
    /\ v = x * PlaceValue(Len(s) - k) + NumberOf(b)

Putting(v, z, s, k, b) ==
    /\ s \in Seq(Nat) /\ Len(s) = z + Long(v)
    /\ \A i \in 1..z : s[i] = One
    /\ k \in 0..Len(s)
    /\ b \in Seq(Octets) /\ Strict(b)
    /\ \E x \in Nat : Pending(x, v, z, s, k, b)

(* No bytes at all stand for zero.                                         *)
LEMMA NothingYet == << >> \in Seq(Octets) /\ Strict(<< >>) /\ NumberOf(<< >>) = 0
<1> DEFINE a == << >>
<1>1. a \in Seq(Octets) /\ Len(a) = 0 /\ Strict(a)
  BY EmptySeq DEF Strict
<1> HIDE DEF a
<1>2. NumberOf(a) = 0
  BY <1>1, HornerTop DEF NumberOf
<1> QED
  BY <1>1, <1>2 DEF a

(* Before the first character the whole number is pending.                 *)
LEMMA PutStart ==
  ASSUME NEW v \in Nat, NEW z \in Nat, NEW s \in Seq(Nat), Len(s) = z + Long(v),
         \A i \in 1..z : s[i] = One,
         \A i \in 1..Long(v) : s[z + i] = Digits[v][i]
  PROVE  Putting(v, z, s, Len(s), << >>)
<1> DEFINE n == Len(s)
           empty == << >>
<1>1. n \in Nat /\ n \in 0..n /\ n - n = 0 /\ n = z + Long(v)
  OBVIOUS
<1>2. empty \in Seq(Octets) /\ Strict(empty) /\ NumberOf(empty) = 0
  BY NothingYet
<1>3. PlaceValue(n - n) = 1
  BY <1>1, PlaceValueIs
<1> HIDE DEF n, empty
<1>4. v = 0 => n <= z
  BY <1>1, NoDigits
<1>5. v = v * PlaceValue(n - n) + NumberOf(empty)
  BY <1>2, <1>3
<1>6. Pending(v, v, z, s, n, empty)
  BY <1>1, <1>4, <1>5 DEF Pending, n
<1> QED
  BY <1>1, <1>2, <1>6 DEF Putting, n, empty

(* A character that is met before the ones is the last digit of what is    *)
(* pending.                                                                *)
LEMMA Pulled ==
  ASSUME NEW x \in Nat, NEW p \in Nat, NEW m \in Nat, NEW q \in Nat, NEW r \in Nat,
         x = q * 58 + r
  PROVE  x * p + m = q * (p * 58) + (m + p * r)
<1>1. x * p = (q * 58) * p + r * p
  OBVIOUS
<1>2. (q * 58) * p = q * (p * 58) /\ r * p = p * r
  OBVIOUS
<1>3. (q * 58) * p \in Nat /\ r * p \in Nat
  OBVIOUS
<1> QED
  BY <1>1, <1>2, <1>3

(* What one character takes from what is pending.                          *)
LEMMA NextCharacter ==
  ASSUME NEW v \in Nat, NEW z \in Nat, NEW s, NEW k, NEW b, Putting(v, z, s, k, b), k > 0,
         NEW x \in Nat, Pending(x, v, z, s, k, b)
  PROVE  LET q == x \div 58
             r == x % 58
         IN  /\ q \in Nat /\ r \in 0..57
             /\ (s[k] = One <=> r = 0) /\ (r # 0 => Index(s[k]) = r)
             /\ q = 0 => k - 1 <= z
             /\ q # 0 => k - 1 = z + Long(q)
             /\ \A i \in 1..Long(q) : s[z + i] = Digits[q][i]
             /\ v = q * PlaceValue(Len(s) - (k - 1))
                    + (NumberOf(b) + PlaceValue(Len(s) - k) * r)
<1> DEFINE q == x \div 58
           r == x % 58
           n == Len(s)
           p == PlaceValue(n - k)
           m == NumberOf(b)
<1>1. q \in Nat /\ r \in 0..57 /\ r \in Nat /\ x = q * 58 + r
  BY Quotient DEF Base
<1>2. n \in Nat /\ k \in 0..n /\ m \in Nat /\ v = x * p + m
  <2>1. s \in Seq(Nat) /\ b \in Seq(Octets) /\ k \in 0..Len(s)
    BY DEF Putting
  <2>2. n \in Nat /\ m \in Nat
    BY <2>1, NumberType, LenProperties, Zenon
  <2>3. v = x * p + m
    BY DEF Pending
  <2> QED
    BY <2>1, <2>2, <2>3
<1>3. p \in Nat /\ PlaceValue(n - (k - 1)) = p * 58
  <2>1. n - k \in Nat /\ n - (k - 1) = (n - k) + 1
    BY <1>2
  <2> QED
    BY <2>1, PlaceValueIs
<1>4. v = q * PlaceValue(n - (k - 1)) + (m + p * r)
  <2>1. x * p + m = q * (p * 58) + (m + p * r)
    <3> HIDE DEF q, r, p, m, n
    <3> QED
      BY <1>1, <1>2, <1>3, Pulled
  <2> QED
    BY <1>2, <1>3, <2>1
<1>5. CASE x = 0
  <2>1. q = 0 /\ r = 0
    BY <1>5
  <2>2. k <= z /\ k \in 1..z
    BY <1>2, <1>5 DEF Pending
  <2>3. s[k] = One
    BY <2>2 DEF Putting
  <2>4. \A i \in 1..Long(q) : s[z + i] = Digits[q][i]
    BY <2>1, NoDigits
  <2>5. k - 1 <= z
    BY <2>2
  <2> HIDE DEF q, r, n, p, m
  <2> QED
    BY <1>1, <1>4, <2>1, <2>3, <2>4, <2>5 DEF q, r, n, p, m
<1>6. CASE x # 0
  <2> DEFINE lq == Long(q)
             lx == Long(x)
  <2>1. /\ lq \in Nat /\ lx = lq + 1
        /\ Digits[x][lx] = CharacterOf(x)
        /\ \A i \in 1..lq : Digits[x][i] = Digits[q][i]
    BY <1>6, OneMoreDigit
  <2>2. k = z + lx /\ \A i \in 1..lx : s[z + i] = Digits[x][i]
    BY <1>6 DEF Pending
  <2>3. q = 0 => lq = 0
    BY NoDigits
  <2>4. Index(CharacterOf(x)) = r /\ (CharacterOf(x) = One <=> r = 0)
    BY CharacterOfIs
  <2> HIDE DEF q, r, n, p, m, lq, lx
  <2>5. k - 1 = z + lq /\ lx \in 1..lx /\ z + lx = k
    BY <1>2, <2>1, <2>2
  <2>6. s[k] = CharacterOf(x)
    BY <2>1, <2>2, <2>5
  <2>7. \A i \in 1..lq : s[z + i] = Digits[q][i]
    <3> SUFFICES ASSUME NEW i \in 1..lq PROVE s[z + i] = Digits[q][i]
      OBVIOUS
    <3>1. i \in 1..lx
      BY <2>1
    <3> QED
      BY <2>1, <2>2, <3>1
  <2>8. q = 0 => k - 1 <= z
    BY <2>3, <2>5
  <2> QED
    BY <1>1, <1>4, <2>4, <2>5, <2>6, <2>7, <2>8 DEF q, r, n, p, m, lq
<1> QED
  BY <1>5, <1>6

(* A one that is met gives nothing: it is the digit 0, or a leading one.   *)
LEMMA PutOne ==
  ASSUME NEW v \in Nat, NEW z \in Nat, NEW s, NEW k, NEW b, Putting(v, z, s, k, b), k > 0,
         s[k] = One
  PROVE  Putting(v, z, s, k - 1, b)
<1>1. PICK x \in Nat : Pending(x, v, z, s, k, b)
  BY DEF Putting
<1> DEFINE q == x \div 58
           p == PlaceValue(Len(s) - k)
           m == NumberOf(b)
<1>2. /\ q \in Nat
      /\ q = 0 => k - 1 <= z
      /\ q # 0 => k - 1 = z + Long(q)
      /\ \A i \in 1..Long(q) : s[z + i] = Digits[q][i]
      /\ v = q * PlaceValue(Len(s) - (k - 1)) + (m + p * 0)
  BY <1>1, NextCharacter
<1>3. Len(s) \in Nat /\ k \in 0..Len(s) /\ k - 1 \in 0..Len(s)
  BY DEF Putting
<1>4. m + p * 0 = m
  <2>1. m \in Nat
    BY NumberType DEF Putting
  <2>2. p \in Nat
    <3>1. Len(s) - k \in Nat
      BY <1>3
    <3> QED
      BY <3>1, PlaceValueIs
  <2> HIDE DEF m, p
  <2> QED
    BY <2>1, <2>2
<1> HIDE DEF q
<1>5. Pending(q, v, z, s, k - 1, b)
  BY <1>2, <1>4 DEF Pending, m
<1> QED
  BY <1>2, <1>3, <1>5 DEF Putting

(* Any other character gives its digit times the power of its place.       *)
LEMMA PutCharacter ==
  ASSUME NEW v \in Nat, NEW z \in Nat, NEW s, NEW k, NEW b, Putting(v, z, s, k, b), k > 0,
         s[k] # One
  PROVE  Putting(v, z, s, k - 1,
                 BigNumberEqualsAdditionByBigInt(b,
                     BigNumberEqualsMultiplicationByUInt8(
                         BigNumberFromPowUInt8(Len(s) - k), Index(s[k]))))
<1>1. PICK x \in Nat : Pending(x, v, z, s, k, b)
  BY DEF Putting
<1> DEFINE q == x \div 58
           r == x % 58
           power == BigNumberFromPowUInt8(Len(s) - k)
           t == BigNumberEqualsMultiplicationByUInt8(power, Index(s[k]))
           c == BigNumberEqualsAdditionByBigInt(b, t)
<1>2. /\ q \in Nat /\ r \in 1..57 /\ Index(s[k]) = r
      /\ q = 0 => k - 1 <= z
      /\ q # 0 => k - 1 = z + Long(q)
      /\ \A i \in 1..Long(q) : s[z + i] = Digits[q][i]
      /\ v = q * PlaceValue(Len(s) - (k - 1))
             + (NumberOf(b) + PlaceValue(Len(s) - k) * r)
  BY <1>1, NextCharacter
<1>3. Len(s) \in Nat /\ k \in 0..Len(s) /\ k - 1 \in 0..Len(s) /\ Len(s) - k \in Nat
  <2> DEFINE n == Len(s)
  <2>1. n \in Nat /\ k \in 0..n
    BY LenProperties DEF Putting
  <2> HIDE DEF n
  <2>2. k - 1 \in 0..n /\ n - k \in Nat
    BY <2>1
  <2> QED
    BY <2>1, <2>2 DEF n
<1>4. power \in Seq(Octets) /\ power # << >> /\ Strict(power)
  BY <1>3, PowStrict DEF StrictNumbers
<1>5. NumberOf(power) = PlaceValue(Len(s) - k)
  BY DEF PlaceValue
<1> HIDE DEF q, r, power
<1>6. t \in Seq(Octets) /\ Strict(t) /\ NumberOf(t) = NumberOf(power) * r
  <2>1. r \in 1..58
    BY <1>2
  <2>2. t = BigNumberEqualsMultiplicationByUInt8(power, r)
    BY <1>2
  <2> QED
    BY <1>4, <2>1, <2>2, MultiplicationIs
<1> HIDE DEF t
<1>7. c \in Seq(Octets) /\ Strict(c) /\ NumberOf(c) = NumberOf(b) + NumberOf(t)
  BY <1>6, AdditionIs DEF Putting
<1> HIDE DEF c
<1>8. NumberOf(c) = NumberOf(b) + PlaceValue(Len(s) - k) * r
  BY <1>5, <1>6, <1>7, Zenon
<1>9. v = q * PlaceValue(Len(s) - (k - 1)) + NumberOf(c)
  BY <1>2, <1>8, Zenon
<1>10. Pending(q, v, z, s, k - 1, c)
  BY <1>2, <1>9 DEF Pending
<1>11. Putting(v, z, s, k - 1, c)
  BY <1>2, <1>3, <1>7, <1>10 DEF Putting
<1> QED
  BY <1>11 DEF c, t, power

(* When all characters are read nothing is pending.                        *)
LEMMA PutEnd ==
  ASSUME NEW v \in Nat, NEW z \in Nat, NEW s, NEW b, Putting(v, z, s, 0, b)
  PROVE  NumberOf(b) = v
<1>1. PICK x \in Nat : Pending(x, v, z, s, 0, b)
  BY DEF Putting
<1>2. x = 0
  <2>1. x # 0 => Long(x) >= 1
    BY FirstDigit
  <2>2. x # 0 => 0 = z + Long(x)
    BY <1>1 DEF Pending
  <2>3. Long(x) \in Nat
    BY LongType
  <2> QED
    BY <2>1, <2>2, <2>3
<1> DEFINE m == NumberOf(b)
           p == PlaceValue(Len(s) - 0)
<1>3. m \in Nat /\ v = x * p + m
  BY <1>1, NumberType DEF Putting, Pending
<1>4. p \in Nat
  <2>1. Len(s) - 0 \in Nat
    BY DEF Putting
  <2> QED
    BY <2>1, PlaceValueIs
<1> HIDE DEF m, p
<1>5. v = m
  BY <1>2, <1>3, <1>4
<1> QED
  BY <1>5 DEF m

(* A run of equal elements at the front.                                   *)
LeadingCount(f, c, n) == Max({m \in 0..n : \A i \in 1..m : f[i] = c})

(* Where such a run ends.                                                  *)
LEMMA LeadingRun ==
  ASSUME NEW n \in Nat, NEW z \in 0..n, NEW f, NEW c, \A i \in 1..z : f[i] = c,
         z < n => f[z + 1] # c
  PROVE  LeadingCount(f, c, n) = z
<1> DEFINE S == {m \in 0..n : \A i \in 1..m : f[i] = c}
           y == Max(S)
<1>1. z \in S /\ S \subseteq 0..n
  OBVIOUS
<1>2. y \in S /\ \A m \in S : m <= y
  <2> HIDE DEF S
  <2> QED
    BY <1>1, MaxIs
<1> HIDE DEF y
<1>3. z <= y /\ y \in 0..n /\ \A i \in 1..y : f[i] = c
  BY <1>1, <1>2
<1>4. ~(z < y)
  <2> SUFFICES ASSUME z < y PROVE FALSE
    OBVIOUS
  <2>1. z < n /\ z + 1 \in 1..y
    BY <1>3
  <2> QED
    BY <1>3, <2>1
<1> QED
  BY <1>3, <1>4 DEF y, LeadingCount

(* The number and the zeros give the address.                              *)
LEMMA WholeAddress ==
  ASSUME address \in Numbers, NEW b \in Seq(Octets), Strict(b), NumberOf(b) = Value
  PROVE  Filled(b, Len(b) + LeadingZeros) = Reverse(address)
<1> DEFINE w == Reverse(address)
           n == AddressLength
           z == LeadingZeros
           m == n - z
           c == SubSeq(w, 1, m)
<1>1. /\ w \in Seq(Octets) /\ Len(w) = n /\ n \in Nat
      /\ \A i \in 1..n : w[i] = address[n + 1 - i]
      /\ NumberOf(w) = Value
  BY BytesAre, ValueIs, AddressAssumption
<1>2. /\ z \in 0..n
      /\ \A i \in 1..z : address[i] = 0
      /\ z < n => address[z + 1] # 0
  BY LeadingZerosIs
<1> HIDE DEF w, n, z
<1>3. m \in 0..n /\ m \in Nat /\ m + z = n
  BY <1>1, <1>2
<1>4. c \in Seq(Octets) /\ Len(c) = m /\ \A i \in 1..m : c[i] = w[i]
  <2>1. m \in 0..Len(w)
    BY <1>1, <1>3
  <2> HIDE DEF m
  <2> QED
    BY <1>1, <2>1, Prefix
<1> HIDE DEF c
<1>5. \A i \in (m + 1)..n : w[i] = 0
  <2> SUFFICES ASSUME NEW i \in (m + 1)..n PROVE w[i] = 0
    OBVIOUS
  <2>1. i \in 1..n /\ n + 1 - i \in 1..z
    BY <1>1, <1>2, <1>3
  <2> QED
    BY <1>1, <1>2, <2>1
<1>6. NumberOf(c) = NumberOf(w)
  <2> HIDE DEF m
  <2>1. Len(c) <= Len(w) /\ \A k \in 1..Len(c) : c[k] = w[k]
    BY <1>1, <1>3, <1>4
  <2>2. \A k \in (Len(c) + 1)..Len(w) : w[k] = 0
    BY <1>1, <1>4, <1>5
  <2> QED
    BY <1>1, <1>4, <2>1, <2>2, Truncated
<1>7. Strict(c)
  <2>1. CASE m = 0
    BY <1>4, <2>1 DEF Strict
  <2>2. CASE m # 0
    <3>1. m \in 1..m /\ m \in 1..n /\ n + 1 - m = z + 1 /\ z < n
      BY <1>1, <1>2, <1>3, <2>2
    <3>2. c[m] # 0
      BY <1>1, <1>2, <1>4, <3>1
    <3> QED
      BY <1>4, <3>2 DEF Strict
  <2> QED
    BY <2>1, <2>2
<1>8. b = c
  BY <1>1, <1>4, <1>6, <1>7, StrictUnique
<1> DEFINE r == Filled(c, n)
<1> HIDE DEF m
<1>9. /\ r \in Seq(Octets) /\ Len(r) = n
      /\ \A i \in 1..m : r[i] = c[i]
      /\ \A i \in (m + 1)..n : r[i] = 0
  <2>1. Len(c) <= n
    BY <1>1, <1>3, <1>4
  <2>2. /\ r \in Seq(Octets) /\ Len(r) = n
        /\ \A i \in 1..Len(c) : r[i] = c[i]
        /\ \A i \in (Len(c) + 1)..n : r[i] = 0
    BY <1>1, <1>4, <2>1, FilledIs
  <2> QED
    BY <1>4, <2>2
<1> HIDE DEF r
<1>10. \A i \in 1..n : r[i] = w[i]
  <2> SUFFICES ASSUME NEW i \in 1..n PROVE r[i] = w[i]
    OBVIOUS
  <2>1. i \in 1..m \/ i \in (m + 1)..n
    BY <1>1, <1>3
  <2> QED
    BY <1>4, <1>5, <1>9, <2>1
<1>11. r = w
  BY <1>1, <1>9, <1>10, SeqEqual
<1>12. Filled(b, Len(b) + z) = r
  BY <1>3, <1>4, <1>8 DEF r
<1> QED
  BY <1>11, <1>12 DEF w, z

-----------------------------------------------------------------------------
(* The inductive invariant.                                                *)
Peeling ==
    /\ bi \in Seq(Octets) /\ bi # << >> /\ Len(bi) <= maxStrLen
    /\ bi = Reverse(address) \/ (Normal(bi) /\ Len(str) + 2 <= maxStrLen)
    /\ str \in Seq(Nat) /\ zeros <= Len(str)
    /\ zeros = LeadingZeros
    /\ \A i \in 1..zeros : str[i] = One
    /\ Value >= 58 => Peeled(NumberOf(bi), Value, zeros, str)

Base58Inv ==
    /\ address \in Numbers
    /\ maxStrLen \in Nat
    /\ phase = "encode" => bi = Reverse(address)
    /\ phase = "digits" => Peeling
    /\ phase = "decode" /\ str = Reference => Putting(Value, LeadingZeros, str, left, bi)
    /\ EncodeExact
    /\ DecodeExact

(* A number whose first byte is not 0 is at least 58.                      *)
LEMMA FirstByte ==
  ASSUME address \in Numbers, address[1] # 0 \/ Value >= 58
  PROVE  Value >= 58
<1> SUFFICES ASSUME address[1] # 0 PROVE Value >= 58
  OBVIOUS
<1> DEFINE w == Reverse(address)
           n == AddressLength
<1>1. n \in Nat /\ n > 1 /\ w \in Seq(Octets) /\ Len(w) = n
      /\ \A i \in 1..n : w[i] = address[n + 1 - i]
  BY BytesAre, AddressAssumption
<1>2. Value = NumberOf(w)
  BY ValueIs
<1> HIDE DEF w, n
<1>3. n \in 1..n /\ n + 1 - n = 1
  BY <1>1
<1>4. w[n] # 0
  BY <1>1, <1>3
<1>5. w # << >> /\ Len(w) > 1
  BY <1>1
<1>6. Normal(w)
  BY <1>1, <1>4, <1>5 DEF Normal
<1>7. NumberOf(w) >= 256 /\ NumberOf(w) \in Nat
  BY <1>1, <1>5, <1>6, LongNormal, NumberType
<1> QED
  BY <1>2, <1>7

(* The correct string, before it is decoded.                               *)
LEMMA PutReference ==
  ASSUME address \in Numbers
  PROVE  Putting(Value, LeadingZeros, Reference, Len(Reference), << >>)
<1>1. Value \in Nat /\ LeadingZeros \in Nat
  BY ValueIs, LeadingZerosIs, AddressAssumption
<1>2. /\ Reference \in Seq(Nat)
      /\ Len(Reference) = LeadingZeros + Long(Value)
      /\ \A i \in 1..LeadingZeros : Reference[i] = One
      /\ \A i \in 1..Long(Value) : Reference[LeadingZeros + i] = Digits[Value][i]
  BY ReferenceIs
<1> DEFINE v == Value
           z == LeadingZeros
           s == Reference
<1> HIDE DEF v, z, s
<1>3. Putting(v, z, s, Len(s), << >>)
  BY <1>1, <1>2, PutStart DEF v, z, s
<1> QED
  BY <1>3 DEF v, z, s

(* The invariant holds where the encoder or the decoder starts.            *)
LEMMA Base58InvInit == Base58Init => Base58Inv
<1> SUFFICES ASSUME Base58Init PROVE Base58Inv
  OBVIOUS
<1>1. address \in Numbers
  BY DEF Base58Init
<1>2. CASE phase = "encode" /\ bi = Reverse(address) /\ maxStrLen \in MaxStrLens
  BY <1>1, <1>2, AddressAssumption DEF Base58Inv, EncodeExact, DecodeExact
<1>3. CASE phase = "decode" /\ bi = << >> /\ str = Reference /\ left = Len(str)
           /\ maxStrLen = Len(str) + 1
  <2>1. str \in Seq(Nat)
    BY <1>1, <1>3, ReferenceIs
  <2>2. Len(str) \in Nat
    BY <2>1, LenProperties
  <2>3. maxStrLen \in Nat /\ Len(str) < maxStrLen
    BY <1>3, <2>2
  <2>4. Putting(Value, LeadingZeros, str, left, bi)
    BY <1>1, <1>3, PutReference
  <2> QED
    BY <1>1, <1>3, <2>3, <2>4 DEF Base58Inv, EncodeExact, DecodeExact
<1> QED
  BY <1>2, <1>3 DEF Base58Init

(* The leading zeros become ones.                                          *)
LEMMA ZerosStep ==
  ASSUME Base58Inv, Zeros
  PROVE  Base58Inv'
<1>1. address \in Numbers /\ maxStrLen \in Nat /\ bi = Reverse(address)
  BY DEF Base58Inv, Zeros
<1>2. address' = address /\ maxStrLen' = maxStrLen /\ bi' = bi /\ phase' = "digits"
      /\ maxStrLen >= Len(bi) /\ str' = Ones(zeros')
      /\ zeros' = Max({n \in 0..Len(bi) : \A i \in 1..n : bi[Len(bi) + 1 - i] = 0})
  BY DEF Zeros
<1>3. Value' = Value /\ LeadingZeros' = LeadingZeros
  BY <1>2, AddressStays
<1> DEFINE n == AddressLength
           z == LeadingZeros
           v == Value
<1>4. /\ n \in Nat /\ n > 1 /\ bi \in Seq(Octets) /\ Len(bi) = n
      /\ \A i \in 1..n : address[i] = bi[n + 1 - i]
  BY <1>1, BytesAre, AddressAssumption
<1>5. z \in 0..n /\ v \in Nat /\ v = NumberOf(bi)
  BY <1>1, LeadingZerosIs, ValueIs
<1>6. zeros' = z
  <2>1. \A m \in 0..n : (\A i \in 1..m : bi[n + 1 - i] = 0) <=> (\A i \in 1..m : address[i] = 0)
    <3> SUFFICES ASSUME NEW m \in 0..n
                 PROVE  (\A i \in 1..m : bi[n + 1 - i] = 0) <=> (\A i \in 1..m : address[i] = 0)
      OBVIOUS
    <3>1. \A i \in 1..m : i \in 1..n
      BY <1>4
    <3> QED
      BY <1>4, <3>1
  <2>2. {m \in 0..n : \A i \in 1..m : bi[n + 1 - i] = 0}
          = {m \in 0..n : \A i \in 1..m : address[i] = 0}
    BY <2>1
  <2> QED
    BY <1>2, <1>4, <2>2 DEF LeadingZeros
<1> DEFINE s == Ones(z)
<1> HIDE DEF z, v, n
<1>7. z \in Nat
  BY <1>4, <1>5
<1>8. s \in Seq(Nat) /\ Len(s) = z /\ \A i \in 1..z : s[i] = One
  <2>1. One \in Nat
    <3>1. 0 \in 0..57 /\ 0 + 1 = 1
      OBVIOUS
    <3> QED
      BY <3>1, CharacterIs DEF One
  <2>2. s \in [1..z -> Nat] /\ \A i \in 1..z : s[i] = One
    BY <2>1 DEF Ones
  <2> QED
    BY <1>7, <2>2
<1> HIDE DEF s
<1>9. ASSUME v >= 58 PROVE Peeled(v, v, z, s)
  <2> DEFINE lv == Long(v)
  <2>1. v # 0 /\ lv \in Nat
    BY <1>5, <1>9, LongType
  <2> HIDE DEF lv
  <2>2. lv <= lv /\ lv - lv = 0 /\ z = z + (lv - lv) /\ 1..(lv - lv) = {}
    BY <1>7, <2>1
  <2> QED
    BY <1>5, <1>8, <2>1, <2>2 DEF Peeled, lv
<1>10. bi # << >> /\ Len(bi) <= maxStrLen
  BY <1>2, <1>4
<1>11. str' = s
  BY <1>2, <1>6 DEF s
<1>12. z <= Len(s)
  BY <1>7, <1>8
<1>13. Peeling'
  BY <1>1, <1>2, <1>3, <1>4, <1>5, <1>6, <1>8, <1>9, <1>10, <1>11, <1>12 DEF Peeling, z, v
<1> QED
  BY <1>1, <1>2, <1>13 DEF Base58Inv, EncodeExact, DecodeExact

(* A digit is taken from the number.                                       *)
LEMMA DigitStep ==
  ASSUME Base58Inv, Digit
  PROVE  Base58Inv'
<1> DEFINE c == base58Characters[BigNumberModuloWith58(bi) + 1]
           q == BigNumberEqualsDivisionBy58(
                    BigNumberEqualsSubtractionByUInt8(bi, BigNumberModuloWith58(bi)))
           n == NumberOf(bi)
           s == Append(str, c)
<1>1. address \in Numbers /\ maxStrLen \in Nat /\ Peeling
  BY DEF Base58Inv, Digit
<1>2. /\ address' = address /\ maxStrLen' = maxStrLen /\ phase' = "digits" /\ zeros' = zeros
      /\ str' = s /\ bi' = q /\ AtLeast58(bi) /\ ~NoRoom
  BY DEF Digit
<1>3. Value' = Value /\ LeadingZeros' = LeadingZeros
  BY <1>2, AddressStays
<1>4. bi \in Seq(Octets) /\ bi # << >> /\ str \in Seq(Nat)
  BY <1>1 DEF Peeling
<1>5. n \in Nat /\ c = CharacterOf(n) /\ c \in Nat
  BY <1>4, NumberType, ModuloIs, CharacterOfIs DEF CharacterOf, Base
<1>6. q \in Seq(Octets) /\ Normal(q) /\ Len(q) <= Len(bi) /\ NumberOf(q) = n \div 58
  BY <1>4, DigitLeaves
<1> HIDE DEF c, q
<1>7. s \in Seq(Nat) /\ Len(s) = Len(str) + 1 /\ \A i \in 1..Len(str) : s[i] = str[i]
  BY <1>4, <1>5, AppendProperties
<1> HIDE DEF s
<1>8. /\ Len(bi) \in Nat /\ Len(str) \in Nat /\ Len(q) \in Nat
      /\ Len(bi) <= maxStrLen /\ zeros <= Len(str)
  BY <1>1, <1>4, <1>6, LenProperties DEF Peeling
<1>9. zeros \in Nat /\ zeros = LeadingZeros /\ \A i \in 1..zeros : str[i] = One
  BY <1>1, LeadingZerosIs, AddressAssumption DEF Peeling
<1> DEFINE lb == Len(bi)
           ls == Len(str)
           lq == Len(q)
           lt == Len(s)
<1>10. /\ lb \in Nat /\ ls \in Nat /\ lq \in Nat /\ lb <= maxStrLen /\ zeros <= ls
       /\ lt = ls + 1 /\ lq <= lb /\ ~(lb < ls + 3 /\ ls + 3 > maxStrLen)
  BY <1>2, <1>6, <1>7, <1>8 DEF NoRoom
<1> HIDE DEF lb, ls, lq, lt
<1>11. lq <= maxStrLen /\ lt + 2 <= maxStrLen /\ zeros <= lt
  BY <1>1, <1>9, <1>10
<1>12. \A i \in 1..zeros : s[i] = One
  <2> SUFFICES ASSUME NEW i \in 1..zeros PROVE s[i] = One
    OBVIOUS
  <2>1. i \in 1..ls
    BY <1>9, <1>10
  <2> QED
    BY <1>7, <1>9, <2>1 DEF ls
<1>13. ASSUME Value >= 58 PROVE Peeled(NumberOf(q), Value, zeros, s)
  <2>1. n >= 58
    <3>1. CASE bi = Reverse(address)
      BY <1>1, <1>13, <3>1, ValueIs
    <3>2. CASE Normal(bi)
      BY <1>2, <1>4, <3>2, NormalAtLeast58
    <3> QED
      BY <1>1, <3>1, <3>2 DEF Peeling
  <2>2. Peeled(n, Value, zeros, str)
    BY <1>1, <1>13 DEF Peeling
  <2>3. Value \in Nat
    BY <1>1, ValueIs
  <2> HIDE DEF n
  <2>4. Peeled(n \div 58, Value, zeros, Append(str, CharacterOf(n)))
    BY <1>4, <1>9, <2>1, <2>2, <2>3, PeelStep
  <2> QED
    BY <1>5, <1>6, <2>4 DEF s
<1>14. q # << >>
  BY <1>6 DEF Normal
<1>15. Peeling'
  BY <1>2, <1>3, <1>6, <1>7, <1>9, <1>11, <1>12, <1>13, <1>14 DEF Peeling, lq, lt
<1> QED
  BY <1>1, <1>2, <1>15 DEF Base58Inv, EncodeExact, DecodeExact

(* A number below 58 is its own remainder.                                 *)
LEMMA SmallModulo == ASSUME NEW n \in Nat, n < 58 PROVE n % 58 = n
OBVIOUS

(* The string is complete: it is the reference.                            *)
LEMMA LastDigitStep ==
  ASSUME Base58Inv, LastDigit
  PROVE  Base58Inv'
<1> DEFINE c == base58Characters[bi[Len(bi)] + 1]
           d == Append(str, c)
           r == SubSeq(d, 1, zeros) \o Reverse(SubSeq(d, zeros + 1, Len(d)))
           n == NumberOf(bi)
<1>1. address \in Numbers /\ maxStrLen \in Nat /\ Peeling
  BY DEF Base58Inv, LastDigit
<1>2. /\ address' = address /\ maxStrLen' = maxStrLen /\ phase' = "decode"
      /\ str' = r /\ bi' = << >> /\ left' = Len(str') /\ ~AtLeast58(bi)
  BY DEF LastDigit
<1>3. Value' = Value /\ LeadingZeros' = LeadingZeros /\ Reference' = Reference
  BY <1>2, AddressStays
<1>4. bi \in Seq(Octets) /\ bi # << >> /\ str \in Seq(Nat)
  BY <1>1 DEF Peeling
<1>5. Normal(bi) /\ Len(str) + 2 <= maxStrLen
  <2>1. bi # Reverse(address)
    <3> SUFFICES ASSUME bi = Reverse(address) PROVE FALSE
      OBVIOUS
    <3>1. Len(bi) = AddressLength /\ AddressLength > 1
      BY <1>1, BytesAre, AddressAssumption
    <3> QED
      BY <1>2, <3>1 DEF AtLeast58
  <2> QED
    BY <1>1, <2>1 DEF Peeling
<1>6. n \in Nat /\ n < 58
  <2>1. n \in Nat /\ ~(n >= 58)
    BY <1>2, <1>4, <1>5, NumberType, NormalAtLeast58
  <2> HIDE DEF n
  <2> QED
    BY <2>1
<1>7. bi[Len(bi)] = n
  <2>1. Len(bi) = 1
    <3>1. Len(bi) \in Nat /\ Len(bi) # 0
      BY <1>4
    <3>2. ~(Len(bi) > 1)
      BY <1>2 DEF AtLeast58
    <3> QED
      BY <3>1, <3>2, OneOrMore, Zenon
  <2> QED
    BY <1>4, <2>1, Single
<1> HIDE DEF n
<1>8. c = CharacterOf(n) /\ c \in Nat
  <2>1. n % Base = n
    BY <1>6, SmallModulo DEF Base
  <2> QED
    BY <1>6, <1>7, <2>1, CharacterOfIs DEF CharacterOf
<1> HIDE DEF c
<1>9. d \in Seq(Nat) /\ Len(d) = Len(str) + 1
  BY <1>4, <1>8, AppendProperties
<1>10. zeros \in Nat /\ zeros = LeadingZeros /\ zeros <= Len(str)
       /\ \A i \in 1..zeros : str[i] = One
  BY <1>1, LeadingZerosIs, AddressAssumption DEF Peeling
<1> DEFINE ls == Len(str)
           ld == Len(d)
<1>11. ls \in Nat /\ ld = ls + 1 /\ zeros <= ls /\ ls + 2 <= maxStrLen
  BY <1>4, <1>5, <1>9, <1>10, LenProperties
<1>12. zeros \in 0..ld /\ ld < maxStrLen
  <2> HIDE DEF ls, ld
  <2> QED
    BY <1>1, <1>10, <1>11
<1>13. Len(r) = ld
  <2>1. zeros \in 0..Len(d)
    BY <1>12
  <2> HIDE DEF d
  <2> QED
    BY <1>9, <2>1, ReversedBehind
<1> HIDE DEF d
<1>14. ASSUME address[1] # 0 \/ Value >= 58 PROVE r = Reference
  <2>1. Value >= 58
    BY <1>1, <1>14, FirstByte
  <2>2. Peeled(n, Value, zeros, str)
    BY <1>1, <2>1 DEF Peeling, n
  <2>3. Value \in Nat
    BY <1>1, ValueIs
  <2>4. /\ Reference \in Seq(Nat)
        /\ Len(Reference) = zeros + Long(Value)
        /\ \A i \in 1..zeros : Reference[i] = One
        /\ \A i \in 1..Long(Value) : Reference[zeros + i] = Digits[Value][i]
    BY <1>1, <1>10, ReferenceIs
  <2> DEFINE v == Value
             goal == Reference
             z == zeros
             s == str
  <2>5. Peeled(n, v, z, s) /\ v \in Nat /\ z \in Nat /\ s \in Seq(Nat)
    BY <1>4, <1>10, <2>2, <2>3
  <2>6. Spells(goal, v, z)
    BY <2>4 DEF Spells
  <2>7. \A i \in 1..z : s[i] = One
    BY <1>10
  <2>8. Longer(d, s, n)
    BY <1>8 DEF d, Longer
  <2> HIDE DEF v, goal, z, s
  <2>9. LastOf(n, v, z, s)
    BY <1>6, <2>5, <2>7 DEF LastOf
  <2>10. Turned(d, z) = goal
    BY <2>6, <2>8, <2>9, PeelEnd
  <2> QED
    BY <2>10 DEF goal, z, Turned
<1> HIDE DEF r
<1>15. EncodeExact'
  BY <1>2, <1>3, <1>12, <1>13, <1>14 DEF EncodeExact, Base
<1>16. ASSUME r = Reference PROVE Putting(Value, LeadingZeros, r, Len(r), << >>)
  BY <1>1, <1>16, PutReference
<1> QED
  BY <1>1, <1>2, <1>3, <1>15, <1>16 DEF Base58Inv, DecodeExact

(* The number is complete: with the zeros it is the address.               *)
LEMMA DecodeEndStep ==
  ASSUME Base58Inv, DecodeEnd
  PROVE  Base58Inv'
<1>1. address \in Numbers /\ maxStrLen \in Nat /\ EncodeExact
      /\ (str = Reference => Putting(Value, LeadingZeros, str, 0, bi))
  BY DEF Base58Inv, DecodeEnd
<1>2. address' = address /\ maxStrLen' = maxStrLen /\ str' = str
      /\ phase = "decode" /\ phase' \in {"decoded", "refused"}
      /\ (phase' = "decoded" => output' = Reverse(bi'))
      /\ (phase' = "refused" => ~(Len(bi') <= AddressLength))
      /\ bi' = Filled(bi, Len(bi) + Max({n \in 0..Len(str) : \A i \in 1..n : str[i] = One}))
  BY DEF DecodeEnd
<1>3. Value' = Value /\ Reference' = Reference
  BY <1>2, AddressStays
<1>4. EncodeExact'
  BY <1>1, <1>2, <1>3 DEF EncodeExact
<1>5. ASSUME str = Reference PROVE bi' = Reverse(address)
  <2> DEFINE z == LeadingZeros
             v == Value
             s == str
             n == Len(s)
             b == bi
             lv == Long(v)
  <2>1. z \in Nat /\ v \in Nat /\ Putting(v, z, s, 0, b)
    BY <1>1, <1>5, LeadingZerosIs, ValueIs, AddressAssumption
  <2>2. /\ s \in Seq(Nat) /\ n = z + lv
        /\ \A i \in 1..z : s[i] = One
        /\ \A i \in 1..lv : s[z + i] = Digits[v][i]
    BY <1>1, <1>5, ReferenceIs
  <2>3. n \in Nat /\ lv \in Nat
    BY <2>1, <2>2, LenProperties, LongType
  <2> HIDE DEF z, v, s, n, b
  <2>4. NumberOf(b) = v /\ b \in Seq(Octets) /\ Strict(b)
    BY <2>1, PutEnd DEF Putting
  <2>5. z < n => s[z + 1] # One
    <3> SUFFICES ASSUME z < n PROVE s[z + 1] # One
      OBVIOUS
    <3>1. v # 0
      BY <2>1, <2>2, NoDigits
    <3> HIDE DEF lv
    <3>2. 1 \in 1..lv
      BY <2>1, <2>2, <2>3
    <3> QED
      BY <2>1, <2>2, <3>1, <3>2, FirstDigit
  <2> HIDE DEF lv
  <2>6. z \in 0..n
    BY <2>1, <2>2, <2>3
  <2>7. LeadingCount(s, One, n) = z
    <3>1. n \in Nat
      BY <2>3
    <3>2. \A i \in 1..z : s[i] = One
      BY <2>2
    <3> QED
      BY <2>5, <2>6, <3>1, <3>2, LeadingRun, ZenonT(60)
  <2>8. bi' = Filled(b, Len(b) + z)
    BY <1>2, <2>7 DEF b, s, n, LeadingCount
  <2> QED
    BY <1>1, <2>4, <2>8, WholeAddress DEF z, v
<1>6. ASSUME str = Reference PROVE phase' = "decoded" /\ output' = address
  <2>1. Len(Reverse(address)) = AddressLength /\ address = Reverse(Reverse(address))
    BY <1>1, BytesAre
  <2>2. AddressLength <= AddressLength
    BY AddressAssumption
  <2> QED
    BY <1>2, <1>5, <1>6, <2>1, <2>2
<1>7. DecodeExact'
  BY <1>2, <1>3, <1>6 DEF DecodeExact
<1> QED
  BY <1>1, <1>2, <1>4, <1>7 DEF Base58Inv

(* A character is read.                                                    *)
LEMMA CharacterStep ==
  ASSUME Base58Inv, DecodeOne \/ DecodeCharacter
  PROVE  Base58Inv'
<1>1. /\ address \in Numbers /\ maxStrLen \in Nat /\ EncodeExact
      /\ phase = "decode" /\ left > 0
      /\ (str = Reference => Putting(Value, LeadingZeros, str, left, bi))
  BY DEF Base58Inv, DecodeOne, DecodeCharacter
<1>2. address' = address /\ maxStrLen' = maxStrLen /\ str' = str /\ phase' = phase
      /\ left' = left - 1
  BY DEF DecodeOne, DecodeCharacter
<1>3. Value' = Value /\ LeadingZeros' = LeadingZeros /\ Reference' = Reference
  BY <1>2, AddressStays
<1>4. EncodeExact' /\ DecodeExact'
  BY <1>1, <1>2, <1>3 DEF EncodeExact, DecodeExact
<1>5. ASSUME str = Reference PROVE Putting(Value, LeadingZeros, str, left - 1, bi')
  <2>1. Value \in Nat /\ LeadingZeros \in Nat
    BY <1>1, ValueIs, LeadingZerosIs, AddressAssumption
  <2> DEFINE z == LeadingZeros
             v == Value
             s == str
             k == left
             b == bi
  <2>2. v \in Nat /\ z \in Nat /\ Putting(v, z, s, k, b) /\ k > 0
    BY <1>1, <1>5, <2>1
  <2> HIDE DEF v, z, s, k, b
  <2>3. CASE DecodeOne
    <3>1. s[k] = One /\ bi' = b
      BY <2>3 DEF DecodeOne, s, k, b
    <3>2. Putting(v, z, s, k - 1, b)
      BY <2>2, <3>1, PutOne
    <3> QED
      BY <3>1, <3>2 DEF v, z, s, k
  <2>4. CASE DecodeCharacter
    <3> DEFINE c == BigNumberEqualsAdditionByBigInt(b,
                        BigNumberEqualsMultiplicationByUInt8(
                            BigNumberFromPowUInt8(Len(s) - k), Index(s[k])))
    <3>1. s[k] # One /\ bi' = c
      BY <2>4 DEF DecodeCharacter, s, k, b
    <3>2. Putting(v, z, s, k - 1, c)
      BY <2>2, <3>1, PutCharacter
    <3> QED
      BY <3>1, <3>2 DEF v, z, s, k
  <2> QED
    BY <2>3, <2>4
<1> QED
  BY <1>1, <1>2, <1>3, <1>4, <1>5 DEF Base58Inv

(* Every step keeps the invariant.                                         *)
LEMMA Base58InvStep == Base58Inv /\ [Base58Next]_base58Vars => Base58Inv'
<1> SUFFICES ASSUME Base58Inv, [Base58Next]_base58Vars PROVE Base58Inv'
  OBVIOUS
<1>1. CASE TooShort
  BY <1>1 DEF TooShort, Base58Inv, EncodeExact, DecodeExact
<1>2. CASE Zeros
  BY <1>2, ZerosStep
<1>3. CASE OutOfRoom
  BY <1>3 DEF OutOfRoom, Base58Inv, EncodeExact, DecodeExact
<1>4. CASE Digit
  BY <1>4, DigitStep
<1>5. CASE LastDigit
  BY <1>5, LastDigitStep
<1>6. CASE DecodeOne
  BY <1>6, CharacterStep
<1>7. CASE DecodeCharacter
  BY <1>7, CharacterStep
<1>8. CASE DecodeEnd
  BY <1>8, DecodeEndStep
<1>9. CASE UNCHANGED base58Vars
  <2>1. /\ address' = address /\ maxStrLen' = maxStrLen /\ phase' = phase /\ bi' = bi
        /\ str' = str /\ zeros' = zeros /\ left' = left /\ output' = output
    BY <1>9 DEF base58Vars
  <2>2. Value' = Value /\ LeadingZeros' = LeadingZeros /\ Reference' = Reference
    BY <2>1, AddressStays
  <2>3. Peeling' <=> Peeling
    BY <2>1, <2>2 DEF Peeling
  <2> QED
    BY <2>1, <2>2, <2>3 DEF Base58Inv, EncodeExact, DecodeExact
<1> QED
  BY <1>1, <1>2, <1>3, <1>4, <1>5, <1>6, <1>7, <1>8, <1>9 DEF Base58Next, Base58Done

(* So it always holds.                                                     *)
LEMMA Base58Invariant == Base58Spec => []Base58Inv
BY Base58InvInit, Base58InvStep, PTL DEF Base58Spec

(* The encoder is exact, whatever the length of the addresses.             *)
THEOREM EncodesExactly == Base58Spec => []EncodeExact
<1>1. Base58Inv => EncodeExact
  BY DEF Base58Inv
<1> QED
  BY <1>1, Base58Invariant, PTL

(* And the decoder.                                                        *)
THEOREM DecodesExactly == Base58Spec => []DecodeExact
<1>1. Base58Inv => DecodeExact
  BY DEF Base58Inv
<1> QED
  BY <1>1, Base58Invariant, PTL
=============================================================================
