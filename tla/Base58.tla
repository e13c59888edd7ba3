------------------------------- MODULE Base58 -------------------------------
(***************************************************************************)
(* encodeBase58 and decodeBase58 of src/src/Base58.cpp, with the           *)
(* arithmetic on BigNumber below them.  A BigNumber is the sequence of its *)
(* bytes, the smallest first; its length is the length of the sequence.    *)
(* An address is a sequence of bytes, the greatest first, and a string one *)
(* of character codes.                                                     *)
(***************************************************************************)
EXTENDS Integers, SequencesExt

CONSTANTS
    AddressLength, \* 25, which encodeBase58 relies on
    Numbers,       \* the numbers that are encoded and decoded
    MaxStrLens     \* the sizes that the output may have

Byte == 256
Base == 58
Octets == 0..(Byte - 1)

ASSUME AddressAssumption == /\ AddressLength \in Nat \ {0, 1}
                            /\ Numbers \subseteq [1..AddressLength -> Octets]
                            /\ MaxStrLens \subseteq Nat

VARIABLES
    address,
    maxStrLen,
    phase,    \* encode, digits, decode, or a result
    bi,       \* the number that is being taken apart or put together
    str,
    zeros,    \* how many zero bytes lead
    left,     \* of the next character to decode
    output    \* of decodeBase58

base58Vars == <<address, maxStrLen, phase, bi, str, zeros, left, output>>

(* base58Characters: the digits from 1, the letters but for I, O and l.    *)
base58Characters ==
    [i \in 1..9 |-> 48 + i] \o [i \in 1..8 |-> 64 + i] \o [i \in 1..5 |-> 73 + i]
    \o [i \in 1..11 |-> 79 + i] \o [i \in 1..11 |-> 96 + i] \o [i \in 1..14 |-> 108 + i]

One == base58Characters[1]

Ones(n) == [i \in 1..n |-> One]

-----------------------------------------------------------------------------
(* The arithmetic of BigNumber.                                            *)

BigNumberNormalise(a) == SubSeq(a, 1, Max({1} \cup {i \in DOMAIN a : a[i] # 0}))

AtLeast58(a) == Len(a) > 1 \/ a[1] >= Base

(* Variant: a byte counts as much as the one below it.                     *)
ModuloOfSum(a) ==
    LET Result[x \in 0..Len(a)] ==
            IF x = Len(a) THEN 0 ELSE (Result[x + 1] + (a[x + 1] % Base)) % Base
    IN  Result[0]

BigNumberModuloWith58(a) ==
    LET Result[x \in 0..Len(a)] ==
            IF x = Len(a) THEN 0
            ELSE (((Result[x + 1] * (Byte % Base)) % Base) + (a[x + 1] % Base)) % Base
    IN  Result[0]

BigNumberEqualsSubtractionByUInt8(a, b) ==
    LET Carry[x \in 0..Len(a)] == IF x = 0 THEN b
                                  ELSE IF a[x] < Carry[x - 1] THEN 1 ELSE 0
    IN  BigNumberNormalise([i \in DOMAIN a |-> (a[i] - Carry[i - 1]) % Byte])

(* Long division; the quotient loses at most one byte.                     *)
BigNumberEqualsDivisionBy58(a) ==
    IF a = <<0>> THEN a
    ELSE LET Dividend[x \in 1..Len(a)] == \* temp at this byte
                 IF x = Len(a) THEN a[x] ELSE (Dividend[x + 1] % Base) * Byte + a[x]
             ans == [x \in DOMAIN a |-> (Dividend[x] \div Base) % Byte]
         IN  IF ans[Len(a)] = 0 THEN SubSeq(ans, 1, Len(a) - 1) ELSE ans

BigNumberEqualsMultiplicationByUInt8(a, b) ==
    IF b = 0 THEN <<0>>
    ELSE IF a = <<0>> THEN a
    ELSE LET Carry[x \in 0..Len(a)] == IF x = 0 THEN 0
                                       ELSE (Carry[x - 1] + a[x] * b) \div Byte
             data == [x \in DOMAIN a |-> (Carry[x - 1] + a[x] * b) % Byte]
         IN  IF Carry[Len(a)] # 0 THEN Append(data, Carry[Len(a)]) ELSE data

BigNumberFromPowUInt8(b) ==
    LET Power[x \in 0..b] ==
            IF x = 0 THEN <<1>> ELSE BigNumberEqualsMultiplicationByUInt8(Power[x - 1], Base)
    IN  Power[b]

(* The shorter number counts as filled up with zeros, for both loops.      *)
Filled(a, length) == a \o [i \in 1..(length - Len(a)) |-> 0]

(* Variant: the overflow of the last byte is lost.                         *)
NoExtraByte(a, b) ==
    LET length == IF Len(a) < Len(b) THEN Len(b) ELSE Len(a)
        m == Filled(a, length)
        n == Filled(b, length)
        Overflow[x \in 0..length] == IF x = 0 THEN 0
                                     ELSE (m[x] + n[x] + Overflow[x - 1]) \div Byte
    IN  [x \in 1..length |-> (m[x] + n[x] + Overflow[x - 1]) % Byte]

BigNumberEqualsAdditionByBigInt(a, b) ==
    LET length == IF Len(a) < Len(b) THEN Len(b) ELSE Len(a)
        m == Filled(a, length)
        n == Filled(b, length)
        Sum(x, carry) == (m[x] + n[x] + carry) % Byte
        Overflow[x \in 0..length] ==
            IF x = 0 THEN 0
            ELSE IF Sum(x, Overflow[x - 1]) < n[x] + Overflow[x - 1] THEN 1 ELSE 0
        data == [x \in 1..length |-> Sum(x, Overflow[x - 1])]
    IN  IF Overflow[length] = 1 THEN Append(data, 1) ELSE data

-----------------------------------------------------------------------------
(* What base 58 is: as many ones as there are leading zero bytes, then the *)
(* digits of the value.                                                    *)
Value == LET V[i \in 0..AddressLength] == IF i = 0 THEN 0 ELSE V[i - 1] * Byte + address[i]
         IN  V[AddressLength]

LeadingZeros == Max({n \in 0..AddressLength : \A i \in 1..n : address[i] = 0})

Reference ==
    LET Digits[v \in Nat] ==
            IF v = 0 THEN << >>
                     ELSE Append(Digits[v \div Base], base58Characters[(v % Base) + 1])
    IN  Ones(LeadingZeros) \o Digits[Value]

(* An address is encoded and what comes out is decoded, or a correct       *)
(* string is decoded.                                                      *)
Base58Init == /\ address \in Numbers
              /\ zeros = 0
              /\ output = << >>
              /\ \/ /\ phase = "encode" /\ bi = Reverse(address) /\ str = << >> /\ left = 0
                    /\ maxStrLen \in MaxStrLens
                 \/ /\ phase = "decode" /\ bi = << >> /\ str = Reference /\ left = Len(str)
                    /\ maxStrLen = Len(str) + 1

-----------------------------------------------------------------------------
(* CBEncodeBase58.                                                         *)

TooShort == /\ phase = "encode"
            /\ maxStrLen < Len(bi)
            /\ phase' = "failed"
            /\ UNCHANGED <<address, maxStrLen, bi, str, zeros, left, output>>

Zeros == /\ phase = "encode"
         /\ maxStrLen >= Len(bi)
         /\ zeros' = Max({n \in 0..Len(bi) : \A i \in 1..n : bi[Len(bi) + 1 - i] = 0})
         /\ str' = Ones(zeros')
         /\ phase' = "digits"
         /\ UNCHANGED <<address, maxStrLen, bi, left, output>>

(* There is no place for this digit, the last one and the zero byte.       *)
NoRoom == Len(bi) < Len(str) + 3 /\ Len(str) + 3 > maxStrLen

OutOfRoom == /\ phase = "digits" /\ AtLeast58(bi)
             /\ NoRoom
             /\ phase' = "failed"
             /\ UNCHANGED <<address, maxStrLen, bi, str, zeros, left, output>>

Digit == /\ phase = "digits" /\ AtLeast58(bi)
         /\ ~NoRoom
         /\ LET mod == BigNumberModuloWith58(bi)
            IN  /\ str' = Append(str, base58Characters[mod + 1])
                /\ bi' = BigNumberEqualsDivisionBy58(BigNumberEqualsSubtractionByUInt8(bi, mod))
         /\ UNCHANGED <<address, maxStrLen, phase, zeros, left, output>>

(* The last digit, the reversal behind the zeros, and the call of decode.  *)
LastDigit == /\ phase = "digits" /\ ~AtLeast58(bi)
             /\ LET digits == Append(str, base58Characters[bi[Len(bi)] + 1])
                IN  str' = SubSeq(digits, 1, zeros)
                              \o Reverse(SubSeq(digits, zeros + 1, Len(digits)))
             /\ phase' = "decode"
             /\ bi' = << >>
             /\ left' = Len(str')
             /\ UNCHANGED <<address, maxStrLen, zeros, output>>

(* CBDecodeBase58, from the last character to the first.                   *)

Index(c) == CASE c < 58  -> c - 49
              [] c \in 58..72  -> c - 56
              [] c \in 73..78  -> c - 57
              [] c \in 79..90  -> c - 58
              [] c \in 91..107 -> c - 64
              [] OTHER         -> c - 65

DecodeOne == /\ phase = "decode" /\ left > 0
             /\ str[left] = One
             /\ left' = left - 1
             /\ UNCHANGED <<address, maxStrLen, phase, bi, str, zeros, output>>

DecodeCharacter ==
    /\ phase = "decode" /\ left > 0
    /\ str[left] # One
    /\ LET power == BigNumberFromPowUInt8(Len(str) - left)
       IN  bi' = BigNumberEqualsAdditionByBigInt(bi,
                     BigNumberEqualsMultiplicationByUInt8(power, Index(str[left])))
    /\ left' = left - 1
    /\ UNCHANGED <<address, maxStrLen, phase, str, zeros, output>>

(* The leading ones become zero bytes; a number that is too long for the   *)
(* output is refused.                                                      *)
DecodeEnd ==
    /\ phase = "decode" /\ left = 0
    /\ LET ones == Max({n \in 0..Len(str) : \A i \in 1..n : str[i] = One})
       IN  bi' = Filled(bi, Len(bi) + ones)
    /\ IF Len(bi') <= AddressLength
       THEN phase' = "decoded" /\ output' = Reverse(bi')
       ELSE phase' = "refused" /\ UNCHANGED output
    /\ UNCHANGED <<address, maxStrLen, str, zeros, left>>

Base58Done == phase \in {"failed", "decoded", "refused"} /\ UNCHANGED base58Vars

Base58Next == \/ TooShort \/ Zeros \/ OutOfRoom \/ Digit \/ LastDigit
              \/ DecodeOne \/ DecodeCharacter \/ DecodeEnd
              \/ Base58Done

Base58Spec == Base58Init /\ [][Base58Next]_base58Vars

-----------------------------------------------------------------------------
(* The encoder gives base 58, whatever borrows and carries its arithmetic  *)
(* meets, for every number that is at least 58 or has no leading zero.     *)
(* (The others get a digit too many: as long as its length is above 1, a   *)
(* number counts as at least 58.)  The string and the zero byte behind it  *)
(* fit the output.                                                         *)
EncodeExact ==
    phase \in {"decode", "decoded", "refused"} =>
        /\ address[1] # 0 \/ Value >= Base => str = Reference
        /\ Len(str) < maxStrLen

(* The decoder gives back the number of a correct string, with its length. *)
DecodeExact ==
    /\ phase = "decoded" /\ str = Reference => output = address
    /\ phase = "refused" => str # Reference
=============================================================================
