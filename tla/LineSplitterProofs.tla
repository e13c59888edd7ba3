------------------------- MODULE LineSplitterProofs -------------------------
(***************************************************************************)
(* Proofs about LineSplitter: for every line that fits the buffer of       *)
(* InputLine, the arrays of GetArgs are large enough, every argument ends  *)
(* inside mArgString, and argv is the line split into its arguments.       *)
(***************************************************************************)
EXTENDS LineSplitter, Recursion, SequenceTheorems, TLAPS

(* An argument takes two characters of the line, but for the last one.     *)
TwoPerArgument ==
    /\ pc = "skip" =>
          \/ 2 * Len(argv) <= scan
          \/ /\ 2 * Len(argv) <= scan + 1
             /\ Char(scan) \in White \cup {Nul} \/ dest > stop
    /\ pc = "quoted" => 2 * Len(argv) <= scan + 1
    /\ pc = "word" => \/ 2 * Len(argv) <= scan + 1
                      \/ 2 * Len(argv) <= scan + 2 /\ InWord
    /\ pc = "done" => 2 * Len(argv) <= scan + 1

(* The argument that is being written begins behind all that are complete. *)
Writing == pc \in {"quoted", "word"} => /\ dest <= stop
                                        /\ argv # << >>
                                        /\ argv[Len(argv)] <= dest

(* Every argument that is complete has its zero byte inside mArgString,    *)
(* before the place where the next one is written, however long the line.  *)
Terminated ==
    \A i \in DOMAIN argv :
        argv[i] # EmptyString /\ (pc \in {"quoted", "word"} => i < Len(argv)) =>
            \E n \in argv[i]..(dest - 1) : mArgString[n] = Nul

IInv == TypeOK /\ TwoPerArgument /\ Writing /\ Terminated

-----------------------------------------------------------------------------
(* Behind the end of the line there is a zero byte, and only there.        *)
LEMMA CharType ==
  ASSUME line \in Lines, NEW place \in Nat
  PROVE  /\ Char(place) \in Chars \cup {Nul}
         /\ Char(place) # Nul <=> place < Len(line)
<1>1. line \in Seq(Chars)
  BY LineAssumption
<1> QED
  BY <1>1, LineAssumption DEF Char

(* Nothing has been split yet.                                             *)
LEMMA InitIInv == Init => IInv
<1> SUFFICES ASSUME Init PROVE IInv
  OBVIOUS
<1>1. /\ argv = << >> /\ argv \in Seq({EmptyString} \cup 0..(MaxArgString - 1))
      /\ Len(argv) = 0 /\ scan = 0 /\ pc = "skip" /\ dest = 0
  BY DEF Init
<1>2. line \in Lines /\ Len(line) \in Nat
  BY LineAssumption DEF Init
<1>3. mArgString \in [0..(MaxArgString - 1) -> Chars \cup {Nul, Junk}]
  BY DEF Init
<1>4. TypeOK
  BY <1>1, <1>2, <1>3, LineAssumption DEF TypeOK
<1> QED
  BY <1>1, <1>4 DEF IInv, TwoPerArgument, Writing, Terminated

(* Another argument is begun, at the end of what is written.               *)
LEMMA BeginStep ==
  ASSUME IInv, ArgumentAhead, NEW where \in {EmptyString, dest}, argv' = Append(argv, where)
  PROVE  /\ argv' \in Seq({EmptyString} \cup 0..(MaxArgString - 1))
         /\ Len(argv') = Len(argv) + 1
         /\ argv' # << >>
         /\ argv'[Len(argv')] = where
         /\ \A i \in 1..Len(argv) : argv'[i] = argv[i]
         /\ scan < Len(line)
         /\ 2 * Len(argv) <= scan
         /\ Len(argv') <= MaxArgs
<1>1. /\ argv \in Seq({EmptyString} \cup 0..(MaxArgString - 1))
      /\ dest \in 0..(MaxArgString - 1)
      /\ Len(argv) \in Nat /\ scan \in Nat /\ line \in Seq(Chars) /\ Len(line) \in Nat /\ line \in Lines
  BY LineAssumption DEF IInv, TypeOK, ArgumentAhead, stop
<1>2. /\ argv' \in Seq({EmptyString} \cup 0..(MaxArgString - 1))
      /\ Len(argv') = Len(argv) + 1
      /\ argv'[Len(argv) + 1] = where
      /\ \A i \in 1..Len(argv) : argv'[i] = argv[i]
  BY <1>1
<1>3. scan < Len(line)
  BY <1>1, CharType DEF ArgumentAhead
<1>4. 2 * Len(argv) <= scan
  BY <1>1, LineAssumption DEF IInv, TypeOK, TwoPerArgument, ArgumentAhead, stop
<1>5. Len(line) <= MaxInput
  BY LineAssumption DEF IInv, TypeOK
<1> QED
  BY <1>1, <1>2, <1>3, <1>4, <1>5, LineAssumption

(* A byte is written at dest, which is behind every complete argument.     *)
LEMMA PutStep ==
  ASSUME IInv, dest <= stop, NEW c \in Chars \cup {Nul}, Put(c)
  PROVE  /\ mArgString' \in [0..(MaxArgString - 1) -> Chars \cup {Nul, Junk}]
         /\ mArgString'[dest] = c
         /\ \A n \in 0..(dest - 1) : mArgString'[n] = mArgString[n]
         /\ dest' = dest + 1
         /\ dest' \in 0..MaxArgString
BY LineAssumption DEF IInv, TypeOK, Put, stop

(* What was terminated before stays so when only bytes from dest on change.*)
LEMMA KeepTerminated ==
  ASSUME IInv, NEW i \in 1..Len(argv), argv[i] # EmptyString,
         pc \in {"quoted", "word"} => i < Len(argv),
         dest' \in Nat, dest <= dest',
         \A n \in 0..(dest - 1) : mArgString'[n] = mArgString[n]
  PROVE  \E n \in argv[i]..(dest' - 1) : mArgString'[n] = Nul
<1>1. PICK n \in argv[i]..(dest - 1) : mArgString[n] = Nul
  BY DEF IInv, Terminated, TypeOK
<1>2. argv[i] \in Nat /\ dest \in Nat
  BY LineAssumption DEF IInv, TypeOK, EmptyString
<1> QED
  BY <1>1, <1>2

-----------------------------------------------------------------------------
(* A step between two arguments.                                           *)
LEMMA BetweenStep == IInv /\ (SkipSpace \/ Return) => IInv'
<1> SUFFICES ASSUME IInv, SkipSpace \/ Return PROVE IInv'
  OBVIOUS
<1>1. /\ UNCHANGED <<line, argv, mArgString, dest>>
      /\ pc = "skip" /\ pc' \in {"skip", "done"}
  BY DEF SkipSpace, Return
<1>2. /\ scan \in Nat /\ Len(line) \in Nat /\ Len(argv) \in Nat /\ line \in Lines
      /\ scan <= Len(line)
  BY LineAssumption DEF IInv, TypeOK
<1>3. scan' \in 0..Len(line) /\ TwoPerArgument'
  <2>1. CASE SkipSpace
    <3>1. Char(scan) # Nul /\ scan < Len(line)
      BY <1>2, <2>1, CharType, LineAssumption DEF SkipSpace, Chars
    <3>2. 2 * Len(argv) <= scan + 1
      BY <1>1, <1>2 DEF IInv, TwoPerArgument
    <3> QED
      BY <1>1, <1>2, <2>1, <3>1, <3>2 DEF SkipSpace, TwoPerArgument
  <2>2. CASE Return
    BY <1>1, <1>2, <2>2 DEF Return, IInv, TwoPerArgument
  <2> QED
    BY <2>1, <2>2
<1>4. TypeOK'
  BY <1>1, <1>3 DEF IInv, TypeOK
<1>5. Terminated'
  BY <1>1 DEF IInv, Terminated
<1> QED
  BY <1>1, <1>3, <1>4, <1>5 DEF IInv, Writing

(* An argument begins.                                                     *)
LEMMA OpenStep == IInv /\ (EmptyQuotes \/ OpenQuote \/ OpenWord) => IInv'
<1> SUFFICES ASSUME IInv, EmptyQuotes \/ OpenQuote \/ OpenWord PROVE IInv'
  OBVIOUS
<1>1. PICK where \in {EmptyString, dest} :
        /\ ArgumentAhead
        /\ argv' = Append(argv, where)
        /\ UNCHANGED <<line, mArgString, dest>>
        /\ pc' = "skip" => where = EmptyString
        /\ pc' # "skip" => where = dest
        /\ pc = "skip" /\ pc' \in {"skip", "quoted", "word"}
  BY DEF EmptyQuotes, OpenQuote, OpenWord, ArgumentAhead
<1>2. /\ argv' \in Seq({EmptyString} \cup 0..(MaxArgString - 1))
      /\ Len(argv') = Len(argv) + 1
      /\ argv' # << >>
      /\ argv'[Len(argv')] = where
      /\ \A i \in 1..Len(argv) : argv'[i] = argv[i]
      /\ scan < Len(line)
      /\ 2 * Len(argv) <= scan
      /\ Len(argv') <= MaxArgs
  BY <1>1, BeginStep
<1>3. /\ scan \in Nat /\ Len(line) \in Nat /\ Len(argv) \in Nat /\ line \in Lines
      /\ dest \in 0..MaxArgString /\ MaxArgString \in Nat
      /\ argv \in Seq({EmptyString} \cup 0..(MaxArgString - 1))
  BY LineAssumption DEF IInv, TypeOK
<1>4. scan' \in 0..Len(line) /\ TwoPerArgument'
  <2>1. CASE EmptyQuotes
    <3>1. scan + 1 < Len(line)
      BY <1>3, <2>1, CharType, LineAssumption DEF EmptyQuotes, Chars
    <3> QED
      BY <1>1, <1>2, <1>3, <2>1, <3>1 DEF EmptyQuotes, TwoPerArgument
  <2>2. CASE OpenQuote
    BY <1>1, <1>2, <1>3, <2>2 DEF OpenQuote, TwoPerArgument
  <2>3. CASE OpenWord
    <3>1. InWord' /\ scan' = scan /\ pc' = "word"
      BY <2>3 DEF OpenWord, ArgumentAhead, InWord, Char, stop
    <3> QED
      BY <1>1, <1>2, <1>3, <3>1 DEF TwoPerArgument
  <2> QED
    BY <2>1, <2>2, <2>3
<1>5. TypeOK'
  BY <1>1, <1>2, <1>4 DEF IInv, TypeOK
<1>6. Writing'
  BY <1>1, <1>2, <1>3 DEF Writing, ArgumentAhead, stop
<1>7. Terminated'
  <2> SUFFICES ASSUME NEW i \in 1..Len(argv'), argv'[i] # EmptyString,
                      pc' \in {"quoted", "word"} => i < Len(argv')
               PROVE  \E n \in argv'[i]..(dest' - 1) : mArgString'[n] = Nul
    BY DEF Terminated
  <2>1. i \in 1..Len(argv) /\ argv'[i] = argv[i]
    BY <1>1, <1>2, <1>3
  <2>2. \E n \in argv[i]..(dest - 1) : mArgString[n] = Nul
    BY <1>1, <2>1 DEF IInv, Terminated
  <2> QED
    BY <1>1, <2>1, <2>2
<1> QED
  BY <1>4, <1>5, <1>6, <1>7 DEF IInv

(* A character of an argument is copied.                                   *)
LEMMA CopyStep == IInv /\ (CopyQuoted \/ CopyWord) => IInv'
<1> SUFFICES ASSUME IInv, CopyQuoted \/ CopyWord PROVE IInv'
  OBVIOUS
<1>1. /\ pc \in {"quoted", "word"} /\ UNCHANGED <<line, pc, argv>>
      /\ scan' = scan + 1 /\ Char(scan) # Nul
      /\ dest < stop /\ Put(Char(scan))
  BY DEF CopyQuoted, CopyWord, InWord
<1>2. /\ scan \in Nat /\ Len(line) \in Nat /\ Len(argv) \in Nat /\ line \in Lines
      /\ dest \in 0..MaxArgString /\ MaxArgString \in Nat
      /\ argv \in Seq({EmptyString} \cup 0..(MaxArgString - 1))
  BY LineAssumption DEF IInv, TypeOK
<1>3. Char(scan) \in Chars \cup {Nul} /\ scan < Len(line)
  BY <1>1, <1>2, CharType
<1>4. /\ mArgString' \in [0..(MaxArgString - 1) -> Chars \cup {Nul, Junk}]
      /\ \A n \in 0..(dest - 1) : mArgString'[n] = mArgString[n]
      /\ dest' = dest + 1
      /\ dest' \in 0..MaxArgString
  BY <1>1, <1>2, <1>3, PutStep DEF stop
<1>5. TypeOK'
  BY <1>1, <1>2, <1>3, <1>4 DEF IInv, TypeOK
<1>6. TwoPerArgument'
  BY <1>1, <1>2 DEF IInv, TwoPerArgument
<1>7. Writing'
  <2>1. argv # << >> /\ argv[Len(argv)] <= dest /\ argv[Len(argv)] \in Int
    BY <1>1, <1>2 DEF IInv, Writing, EmptyString
  <2> QED
    BY <1>1, <1>2, <1>4, <2>1 DEF Writing, stop
<1>8. Terminated'
  <2> SUFFICES ASSUME NEW i \in 1..Len(argv'), argv'[i] # EmptyString, i < Len(argv')
               PROVE  \E n \in argv'[i]..(dest' - 1) : mArgString'[n] = Nul
    BY <1>1 DEF Terminated
  <2> QED
    BY <1>1, <1>2, <1>4, KeepTerminated
<1> QED
  BY <1>5, <1>6, <1>7, <1>8 DEF IInv

(* An argument is complete.                                                *)
LEMMA EndStep == IInv /\ (CloseQuote \/ EndWord) => IInv'
<1> SUFFICES ASSUME IInv, CloseQuote \/ EndWord PROVE IInv'
  OBVIOUS
<1>1. /\ pc \in {"quoted", "word"} /\ pc' = "skip" /\ UNCHANGED <<line, argv>>
      /\ Put(Nul)
  BY DEF CloseQuote, EndWord
<1>2. /\ scan \in Nat /\ Len(line) \in Nat /\ Len(argv) \in Nat /\ line \in Lines
      /\ scan <= Len(line)
      /\ dest \in 0..MaxArgString /\ MaxArgString \in Nat
      /\ argv \in Seq({EmptyString} \cup 0..(MaxArgString - 1))
  BY LineAssumption DEF IInv, TypeOK
<1>3. dest <= stop /\ argv # << >> /\ argv[Len(argv)] <= dest
  BY <1>1 DEF IInv, Writing
<1>4. /\ mArgString' \in [0..(MaxArgString - 1) -> Chars \cup {Nul, Junk}]
      /\ mArgString'[dest] = Nul
      /\ \A n \in 0..(dest - 1) : mArgString'[n] = mArgString[n]
      /\ dest' = dest + 1
      /\ dest' \in 0..MaxArgString
  BY <1>1, <1>3, PutStep
<1>5. scan' \in 0..Len(line) /\ TwoPerArgument'
  <2>1. CASE CloseQuote
    <3>1. 2 * Len(argv) <= scan + 1
      BY <2>1 DEF CloseQuote, IInv, TwoPerArgument
    <3>2. CASE Char(scan) = Quote
      <4>1. scan < Len(line) /\ scan' = scan + 1
        BY <1>2, <2>1, <3>2, CharType, LineAssumption DEF CloseQuote, Chars
      <4> QED
        BY <1>1, <1>2, <3>1, <4>1 DEF TwoPerArgument
    <3>3. CASE Char(scan) # Quote
      <4>1. scan' = scan /\ (Char(scan) = Nul \/ dest >= stop)
        BY <2>1, <3>3 DEF CloseQuote
      <4>2. Char(scan)' = Nul \/ dest' > stop
        BY <1>1, <1>2, <1>4, <4>1 DEF Char, stop
      <4> QED
        BY <1>1, <1>2, <3>1, <4>1, <4>2 DEF TwoPerArgument, stop
    <3> QED
      BY <3>2, <3>3
  <2>2. CASE EndWord
    <3>1. scan' = scan /\ ~InWord
      BY <2>2 DEF EndWord
    <3>2. 2 * Len(argv) <= scan + 1
      BY <2>2, <3>1 DEF EndWord, IInv, TwoPerArgument
    <3>3. Char(scan)' \in White \cup {Nul} \/ dest' > stop
      BY <1>1, <1>2, <1>4, <3>1 DEF InWord, Char, stop
    <3> QED
      BY <1>1, <1>2, <3>1, <3>2, <3>3 DEF TwoPerArgument, stop
  <2> QED
    BY <2>1, <2>2
<1>6. TypeOK'
  BY <1>1, <1>4, <1>5 DEF IInv, TypeOK
<1>7. Terminated'
  <2> SUFFICES ASSUME NEW i \in 1..Len(argv), argv[i] # EmptyString
               PROVE  \E n \in argv[i]..(dest' - 1) : mArgString'[n] = Nul
    BY <1>1 DEF Terminated
  <2>1. CASE i = Len(argv)
    <3>1. argv[i] \in Nat
      BY <1>2 DEF EmptyString
    <3> QED
      BY <1>2, <1>3, <1>4, <2>1, <3>1
  <2>2. CASE i # Len(argv)
    BY <1>2, <1>4, <2>2, KeepTerminated
  <2> QED
    BY <2>1, <2>2
<1> QED
  BY <1>1, <1>5, <1>6, <1>7 DEF IInv, Writing

-----------------------------------------------------------------------------
(* No step of getArgs breaks what it relies on.                            *)
LEMMA StepIInv == IInv /\ [Next]_vars => IInv'
<1>1. IInv /\ UNCHANGED vars => IInv'
  BY DEF vars, IInv, TypeOK, TwoPerArgument, Writing, Terminated, Char, InWord, stop
<1> QED
  BY <1>1, BetweenStep, OpenStep, CopyStep, EndStep DEF Next, Step, Done

(* What getArgs relies on holds at each of its steps.                      *)
THEOREM Inductive == Spec => []IInv
BY InitIInv, StepIInv, PTL DEF Spec

(* For every line that InputLine can hand over, argv and mArgString are    *)
(* large enough for all that getArgs writes, which it does not check.      *)
THEOREM SplitterTypes == Spec => []TypeOK
BY Inductive, PTL DEF IInv

(* For every line, each complete argument ends inside mArgString.          *)
THEOREM ArgumentsTerminated == Spec => []Terminated
BY Inductive, PTL DEF IInv

-----------------------------------------------------------------------------
(* A set of places that is not empty has a smallest one, which is the only *)
(* member that no other is below.                                          *)
LEMMA SmallestIs ==
  ASSUME NEW S, S \subseteq Nat, S # {}
  PROVE  Smallest(S) \in S /\ \A m \in S : Smallest(S) <= m
<1> DEFINE R == {pair \in Nat \X Nat : pair[1] < pair[2]}
<1>1. IsWellFoundedOn(R, Nat)
  BY NatLessThanWellFounded DEF OpToRel
<1> HIDE DEF R
<1>2. PICK least \in S : \A m \in S : ~(<<m, least>> \in R)
  BY <1>1, WFMin, Zenon
<1>3. \A m \in S : least <= m
  <2> SUFFICES ASSUME NEW m \in S, m < least PROVE FALSE
    OBVIOUS
  <2>1. <<m, least>> \in R
    BY DEF R
  <2> QED
    BY <1>2, <2>1
<1> QED
  BY <1>2, <1>3 DEF Smallest

(* The same, to recognize it.                                              *)
LEMMA SmallestOnly ==
  ASSUME NEW S, S \subseteq Nat, NEW n \in S, \A m \in S : n <= m
  PROVE  Smallest(S) = n
<1>1. Smallest(S) \in S /\ Smallest(S) <= n /\ n <= Smallest(S)
  BY SmallestIs
<1>2. Smallest(S) \in Nat /\ n \in Nat
  BY <1>1
<1> QED
  BY <1>1, <1>2

(* Where the next character of a set is.                                   *)
LEMMA NextOfIs ==
  ASSUME line \in Lines, NEW set, NEW place \in 0..Len(line)
  PROVE  /\ NextOf(set, place) \in place..Len(line)
         /\ NextOf(set, place) = Len(line) \/ Char(NextOf(set, place)) \in set
         /\ \A m \in place..(NextOf(set, place) - 1) : Char(m) \notin set
<1> DEFINE S == {n \in place..Len(line) : n = Len(line) \/ Char(n) \in set}
<1>1. Len(line) \in Nat
  BY LineAssumption
<1>2. S \subseteq Nat /\ Len(line) \in S
  BY <1>1
<1>3. NextOf(set, place) = Smallest(S)
  BY DEF NextOf
<1>4. NextOf(set, place) \in S /\ \A m \in S : NextOf(set, place) <= m
  <2> HIDE DEF S
  <2> QED
    BY <1>2, <1>3, SmallestIs
<1> QED
  BY <1>1, <1>4

(* The place where a loop over such characters stops is that one.          *)
LEMMA NextOfOnly ==
  ASSUME line \in Lines, NEW set, NEW place \in 0..Len(line), NEW n \in place..Len(line),
         n = Len(line) \/ Char(n) \in set,
         \A m \in place..(n - 1) : Char(m) \notin set
  PROVE  NextOf(set, place) = n
<1>1. Len(line) \in Nat
  BY LineAssumption
<1> QED
  BY <1>1, NextOfIs

-----------------------------------------------------------------------------
(* Arguments as a recursion: what the rest of the line from a place holds, *)
(* given what the rest from each later place does.                         *)
Split(f, place) ==
    IF place >= Len(line) THEN << >>
    ELSE IF Char(place) \in White THEN f[place + 1]
    ELSE IF Char(place) = Quote
    THEN <<Text(place + 1, NextOf({Quote}, place + 1))>> \o f[NextOf({Quote}, place + 1) + 1]
    ELSE <<Text(place, NextOf(White, place))>> \o f[NextOf(White, place)]

Splits(f) == f = [place \in Nat |-> Split(f, place)]

ArgumentsFrom == CHOOSE f : Splits(f)

(* It depends on later places only.                                        *)
LEMMA SplitLooksAhead ==
  ASSUME line \in Lines, NEW place \in Nat, NEW f, NEW g,
         \A q \in Nat : q > place => f[q] = g[q]
  PROVE  Split(f, place) = Split(g, place)
<1>1. Len(line) \in Nat
  BY LineAssumption
<1>2. CASE place >= Len(line)
  BY <1>2 DEF Split
<1>3. CASE place < Len(line) /\ Char(place) \in White
  <2>1. f[place + 1] = g[place + 1]
    OBVIOUS
  <2> QED
    BY <1>1, <1>3, <2>1 DEF Split
<1>4. CASE place < Len(line) /\ Char(place) \notin White /\ Char(place) = Quote
  <2>1. NextOf({Quote}, place + 1) + 1 \in Nat /\ NextOf({Quote}, place + 1) + 1 > place
    BY <1>1, <1>4, NextOfIs
  <2>2. f[NextOf({Quote}, place + 1) + 1] = g[NextOf({Quote}, place + 1) + 1]
    BY <2>1
  <2> QED
    BY <1>1, <1>4, <2>2 DEF Split
<1>5. CASE place < Len(line) /\ Char(place) \notin White /\ Char(place) # Quote
  <2>1. NextOf(White, place) \in Nat /\ NextOf(White, place) > place
    <3>1. NextOf(White, place) # place
      BY <1>1, <1>5, NextOfIs
    <3> QED
      BY <1>1, <1>5, <3>1, NextOfIs
  <2>2. f[NextOf(White, place)] = g[NextOf(White, place)]
    BY <2>1
  <2> QED
    BY <1>1, <1>5, <2>2 DEF Split
<1> QED
  BY <1>1, <1>2, <1>3, <1>4, <1>5

(* So there is a function that satisfies it: it is found from the end of   *)
(* the line backwards.                                                     *)
LEMMA SplitsExists ==
  ASSUME line \in Lines
  PROVE  \E f : Splits(f)
<1> DEFINE Upto(f, m) == /\ f = [place \in Nat |-> f[place]]
                         /\ \A place \in Nat : place >= Len(line) - m => f[place] = Split(f, place)
           S == {m \in Nat : \E f : Upto(f, m)}
<1>0. Len(line) \in Nat
  BY LineAssumption
<1>1. 0 \in S
  <2> DEFINE none == [place \in Nat |-> << >>]
  <2>1. Upto(none, 0)
    BY <1>0 DEF Split
  <2> HIDE DEF none, Upto
  <2> QED
    BY <2>1
<1>2. ASSUME NEW m \in Nat, m \in S PROVE m + 1 \in S
  <2>1. PICK f : Upto(f, m)
    BY <1>2
  <2> DEFINE new == Len(line) - m - 1
             value == Split(f, new)
             g == [place \in Nat |-> IF place = new THEN value ELSE f[place]]
  <2>2. ASSUME NEW place \in Nat, place >= new PROVE g[place] = Split(g, place)
    <3>1. Split(f, place) = Split(g, place)
      <4>1. \A q \in Nat : q > place => f[q] = g[q]
        BY <1>0, <2>2
      <4> HIDE DEF g
      <4> QED
        BY <4>1, SplitLooksAhead
    <3>2. CASE place = new
      <4>1. g[place] = Split(f, place)
        BY <3>2
      <4> QED
        BY <3>1, <4>1
    <3>3. CASE place # new
      <4>1. g[place] = f[place]
        BY <3>3
      <4>2. f[place] = Split(f, place)
        BY <1>0, <2>1, <2>2, <3>3
      <4> QED
        BY <3>1, <4>1, <4>2
    <3> QED
      BY <3>2, <3>3
  <2>3. g = [place \in Nat |-> g[place]]
    OBVIOUS
  <2> HIDE DEF g
  <2>4. Upto(g, m + 1)
    BY <1>0, <2>2, <2>3
  <2> HIDE DEF Upto
  <2> QED
    BY <2>4
<1> HIDE DEF S
<1>3. Len(line) \in S
  <2>1. Nat \subseteq S
    BY <1>1, <1>2, SetInduction
  <2> QED
    BY <1>0, <2>1
<1>4. PICK f : Upto(f, Len(line))
  BY <1>3 DEF S
<1>5. \A place \in Nat : f[place] = Split(f, place)
  BY <1>0, <1>4
<1>6. Splits(f)
  BY <1>4, <1>5 DEF Splits
<1> QED
  BY <1>6

(* What is left of the line at each place, and that it is a sequence.      *)
LEMMA ArgumentsFromIs ==
  ASSUME line \in Lines
  PROVE  /\ Arguments = ArgumentsFrom[0]
         /\ \A place \in Nat : ArgumentsFrom[place] = Split(ArgumentsFrom, place)
         /\ \A place \in Nat : ArgumentsFrom[place] \in Seq(Seq(Chars))
<1>0. Len(line) \in Nat /\ line \in Seq(Chars)
  BY LineAssumption
<1>1. Arguments = ArgumentsFrom[0]
  BY DEF Arguments, ArgumentsFrom, Splits, Split
<1> DEFINE f == ArgumentsFrom
<1>2. Splits(f)
  BY SplitsExists DEF ArgumentsFrom
<1> HIDE DEF f
<1>3. \A place \in Nat : f[place] = Split(f, place)
  BY <1>2, Zenon DEF Splits
<1> DEFINE S == {m \in Nat : \A place \in Nat :
                    place >= Len(line) - m => f[place] \in Seq(Seq(Chars))}
<1>4. 0 \in S
  <2>1. ASSUME NEW place \in Nat, place >= Len(line) PROVE f[place] = << >>
    BY <1>3, <2>1 DEF Split
  <2>2. << >> \in Seq(Seq(Chars))
    OBVIOUS
  <2>3. \A place \in Nat : place >= Len(line) - 0 => f[place] \in Seq(Seq(Chars))
    <3> SUFFICES ASSUME NEW place \in Nat, place >= Len(line)
                 PROVE  f[place] \in Seq(Seq(Chars))
      BY <1>0
    <3> QED
      BY <2>1, <2>2, Zenon
  <2> QED
    BY <2>3
<1>5. ASSUME NEW m \in Nat, m \in S PROVE m + 1 \in S
  <2> SUFFICES ASSUME NEW place \in Nat, place = Len(line) - m - 1
               PROVE  f[place] \in Seq(Seq(Chars))
    BY <1>0, <1>5
  <2>1. \A q \in Nat : q > place => f[q] \in Seq(Seq(Chars))
    BY <1>0, <1>5
  <2>2. ASSUME NEW from \in Nat, NEW to \in Nat, to <= Len(line)
        PROVE  Text(from, to) \in Seq(Chars)
    BY <1>0, <2>2 DEF Text
  <2>3. CASE Char(place) \in White
    <3>1. f[place] = f[place + 1]
      <4>1. Split(f, place) = f[place + 1]
        BY <1>0, <2>3 DEF Split
      <4> QED
        BY <1>3, <4>1
    <3> QED
      BY <2>1, <3>1
  <2>4. CASE Char(place) \notin White /\ Char(place) = Quote
    <3> DEFINE end == NextOf({Quote}, place + 1)
    <3>1. end \in Nat /\ end + 1 > place /\ end <= Len(line)
      BY <1>0, NextOfIs
    <3> HIDE DEF end
    <3>2. f[end + 1] \in Seq(Seq(Chars)) /\ Text(place + 1, end) \in Seq(Chars)
      BY <2>1, <2>2, <3>1
    <3>3. <<Text(place + 1, end)>> \o f[end + 1] \in Seq(Seq(Chars))
      BY <3>2
    <3>4. f[place] = <<Text(place + 1, end)>> \o f[end + 1]
      <4>1. Split(f, place) = <<Text(place + 1, end)>> \o f[end + 1]
        BY <1>0, <2>4 DEF Split, end
      <4> QED
        BY <1>3, <4>1
    <3> QED
      BY <3>3, <3>4
  <2>5. CASE Char(place) \notin White /\ Char(place) # Quote
    <3> DEFINE end == NextOf(White, place)
    <3>1. end \in Nat /\ end > place /\ end <= Len(line)
      BY <1>0, <2>5, NextOfIs
    <3> HIDE DEF end
    <3>2. f[end] \in Seq(Seq(Chars)) /\ Text(place, end) \in Seq(Chars)
      BY <2>1, <2>2, <3>1
    <3>3. <<Text(place, end)>> \o f[end] \in Seq(Seq(Chars))
      BY <3>2
    <3>4. f[place] = <<Text(place, end)>> \o f[end]
      <4>1. Split(f, place) = <<Text(place, end)>> \o f[end]
        BY <1>0, <2>5 DEF Split, end
      <4> QED
        BY <1>3, <4>1
    <3> QED
      BY <3>3, <3>4
  <2> QED
    BY <2>3, <2>4, <2>5
<1> HIDE DEF S
<1>6. Nat \subseteq S
  BY <1>4, <1>5, SetInduction
<1>7. \A place \in Nat : f[place] \in Seq(Seq(Chars))
  <2> TAKE place \in Nat
  <2>1. Len(line) \in S
    BY <1>0, <1>6
  <2> QED
    BY <1>0, <2>1 DEF S
<1> QED
  BY <1>1, <1>3, <1>7 DEF f

(* Its cases.  Nothing is behind the end of the line.                      *)
LEMMA FromEnd ==
  ASSUME line \in Lines, NEW place \in Nat, place >= Len(line)
  PROVE  ArgumentsFrom[place] = << >>
<1>1. ArgumentsFrom[place] = Split(ArgumentsFrom, place)
  BY ArgumentsFromIs
<1> QED
  BY <1>1 DEF Split

(* White space is passed over.                                             *)
LEMMA FromWhite ==
  ASSUME line \in Lines, NEW place \in Nat, Char(place) \in White
  PROVE  ArgumentsFrom[place] = ArgumentsFrom[place + 1]
<1>1. ArgumentsFrom[place] = Split(ArgumentsFrom, place)
  BY ArgumentsFromIs
<1>2. place < Len(line)
  BY CharType, LineAssumption DEF Chars
<1>3. Split(ArgumentsFrom, place) = ArgumentsFrom[place + 1]
  BY <1>2, LineAssumption DEF Split
<1> QED
  BY <1>1, <1>3

(* A quote that begins an argument reaches to the next one.                *)
LEMMA FromQuote ==
  ASSUME line \in Lines, NEW place \in Nat, Char(place) = Quote,
         NEW end, end = NextOf({Quote}, place + 1)
  PROVE  /\ place + 1 <= Len(line)
         /\ end \in (place + 1)..Len(line)
         /\ ArgumentsFrom[place] = <<Text(place + 1, end)>> \o ArgumentsFrom[end + 1]
<1>1. ArgumentsFrom[place] = Split(ArgumentsFrom, place)
  BY ArgumentsFromIs
<1>2. place < Len(line) /\ Quote \notin White
  BY CharType, LineAssumption DEF Chars
<1>3. Split(ArgumentsFrom, place) = <<Text(place + 1, end)>> \o ArgumentsFrom[end + 1]
  BY <1>2, LineAssumption DEF Split
<1>4. place + 1 <= Len(line)
  BY <1>2, LineAssumption
<1>5. end \in (place + 1)..Len(line)
  BY <1>2, NextOfIs, LineAssumption
<1> QED
  BY <1>1, <1>3, <1>4, <1>5, Zenon

(* Any other argument reaches to white space.                              *)
LEMMA FromWord ==
  ASSUME line \in Lines, NEW place \in Nat, Char(place) \notin White \cup {Quote, Nul},
         NEW end, end = NextOf(White, place)
  PROVE  /\ place < Len(line)
         /\ end \in place..Len(line)
         /\ ArgumentsFrom[place] = <<Text(place, end)>> \o ArgumentsFrom[end]
<1>1. ArgumentsFrom[place] = Split(ArgumentsFrom, place)
  BY ArgumentsFromIs
<1>2. place < Len(line)
  BY CharType
<1>3. Split(ArgumentsFrom, place) = <<Text(place, end)>> \o ArgumentsFrom[end]
  BY <1>2, LineAssumption DEF Split
<1>4. end \in place..Len(line)
  BY <1>2, NextOfIs, LineAssumption
<1> QED
  BY <1>1, <1>2, <1>3, <1>4, LineAssumption

-----------------------------------------------------------------------------
(* The arguments of the line behind the first n are those of its rest from *)
(* this place on.                                                          *)
Rest(place, n) ==
    /\ Len(Arguments) = n + Len(ArgumentsFrom[place])
    /\ \A i \in 1..Len(ArgumentsFrom[place]) : Arguments[n + i] = ArgumentsFrom[place][i]

(* This text is at this place of mArgString, with its zero byte.           *)
Holds(place, text) ==
    /\ text \in Seq(Chars)
    /\ IF place = EmptyString THEN text = << >>
       ELSE /\ place + Len(text) < dest
            /\ mArgString[place + Len(text)] = Nul
            /\ \A k \in 1..Len(text) : mArgString[place + (k - 1)] = text[k]

Complete(n) == \A i \in 1..n : Holds(argv[i], Arguments[i])

(* The place in the line of the first character of the argument at work,   *)
(* and what has been copied of it.                                         *)
First == scan - (dest - argv[Len(argv)])

Copied(set) == /\ argv[Len(argv)] # EmptyString
               /\ \A k \in argv[Len(argv)]..(dest - 1) :
                     /\ mArgString[k] = Char(First + (k - argv[Len(argv)]))
                     /\ mArgString[k] \notin set \cup {Nul}

(* The end of the last argument did not fit.                               *)
Cut == /\ dest > stop /\ argv # << >> /\ Len(argv) <= Len(Arguments)
       /\ Len(line) >= MaxArgString
       /\ Complete(Len(argv) - 1)
       /\ \E n \in 0..Len(Arguments[Len(argv)]) :
             Holds(argv[Len(argv)], SubSeq(Arguments[Len(argv)], 1, n))

Between == Cut \/ (Complete(Len(argv)) /\ Rest(scan, Len(argv)))

InQuotes == /\ First > 0 /\ Char(First - 1) = Quote
            /\ Complete(Len(argv) - 1) /\ Rest(First - 1, Len(argv) - 1)
            /\ Copied({Quote})

InAWord == /\ First >= 0 /\ Char(First) \notin White \cup {Quote, Nul}
           /\ Complete(Len(argv) - 1) /\ Rest(First, Len(argv) - 1)
           /\ Copied(White)

(* A line shorter than mArgString never reaches its end: no more bytes are *)
(* written than characters are passed over.                                *)
DestBehind ==
    Len(line) < MaxArgString =>
        /\ pc = "skip" => dest <= scan \/ (dest <= scan + 1 /\ Char(scan) \in White \cup {Nul})
        /\ pc = "quoted" => dest < scan
        /\ pc = "word" => dest <= scan
        /\ pc = "done" => Char(scan) = Nul

SplitInv == /\ IInv
            /\ DestBehind
            /\ pc = "skip" => Between
            /\ pc = "quoted" => InQuotes
            /\ pc = "word" => InAWord
            /\ pc = "done" => Between /\ (Char(scan) = Nul \/ dest >= stop)

-----------------------------------------------------------------------------
(* An argument of the rest is the next of the line.                        *)
LEMMA RestNext ==
  ASSUME line \in Lines, NEW place \in Nat, NEW n \in Nat, Rest(place, n),
         NEW text, NEW after \in Nat,
         ArgumentsFrom[place] = <<text>> \o ArgumentsFrom[after]
  PROVE  /\ n + 1 <= Len(Arguments)
         /\ Arguments[n + 1] = text
         /\ Rest(after, n + 1)
<1> DEFINE s == ArgumentsFrom[after]
           t == ArgumentsFrom[place]
<1>1. s \in Seq(Seq(Chars))
  BY ArgumentsFromIs
<1> HIDE DEF s
<1>2. t = <<text>> \o s
  BY DEF s
<1>3. /\ Len(t) = Len(s) + 1 /\ Len(s) \in Nat
      /\ t[1] = text
      /\ \A i \in 1..Len(s) : t[i + 1] = s[i]
  BY <1>1, <1>2, SMTT(30)
<1>4. Len(Arguments) = n + Len(t) /\ \A i \in 1..Len(t) : Arguments[n + i] = t[i]
  BY DEF Rest
<1> HIDE DEF t
<1>5. Arguments[n + 1] = text
  BY <1>3, <1>4
<1>6. \A i \in 1..Len(s) : Arguments[n + 1 + i] = s[i]
  <2> TAKE i \in 1..Len(s)
  <2>1. i + 1 \in 1..Len(t) /\ n + (i + 1) = n + 1 + i
    BY <1>3
  <2>2. Arguments[n + (i + 1)] = t[i + 1]
    BY <1>4, <2>1
  <2> QED
    BY <1>3, <2>1, <2>2
<1>7. Len(Arguments) = n + 1 + Len(s) /\ n + 1 <= Len(Arguments)
  BY <1>3, <1>4
<1> QED
  BY <1>5, <1>6, <1>7 DEF Rest, s

(* The line stays, and so do its arguments.                                *)
LEMMA LineStays ==
  ASSUME line' = line
  PROVE  /\ Arguments' = Arguments
         /\ ArgumentsFrom' = ArgumentsFrom
         /\ \A place : Char(place)' = Char(place)
         /\ \A place, n : Rest(place, n)' <=> Rest(place, n)
<1>1. \A place : Char(place)' = Char(place)
  BY DEF Char
<1>2. Arguments' = Arguments
  BY DEF Arguments, Char, NextOf, Text, Smallest
<1>3. ArgumentsFrom' = ArgumentsFrom
  BY DEF ArgumentsFrom, Splits, Split, Char, NextOf, Text, Smallest
<1> QED
  BY <1>1, <1>2, <1>3 DEF Rest

(* What is complete stays so when only bytes from dest on change.          *)
LEMMA CompleteStays ==
  ASSUME IInv, line' = line, NEW n \in Nat, n <= Len(argv), Complete(n),
         \A i \in 1..n : argv'[i] = argv[i],
         dest' \in Nat, dest <= dest',
         \A k \in 0..(dest - 1) : mArgString'[k] = mArgString[k]
  PROVE  Complete(n)'
<1> SUFFICES ASSUME NEW i \in 1..n PROVE Holds(argv[i], Arguments[i])'
  BY DEF Complete
<1>1. argv'[i] = argv[i] /\ Arguments' = Arguments
  BY LineStays
<1>2. Holds(argv[i], Arguments[i])
  BY DEF Complete
<1>4. CASE argv[i] = EmptyString
  BY <1>1, <1>2, <1>4 DEF Holds
<1>5. CASE argv[i] # EmptyString
  <2>1. argv[i] \in Nat /\ dest \in Nat
    BY <1>5, LineAssumption DEF IInv, TypeOK
  <2> DEFINE text == Arguments[i]
  <2>2. /\ text \in Seq(Chars)
        /\ argv[i] + Len(text) < dest
        /\ mArgString[argv[i] + Len(text)] = Nul
        /\ \A k \in 1..Len(text) : mArgString[argv[i] + (k - 1)] = text[k]
    BY <1>2, <1>5 DEF Holds
  <2>3. Arguments'[i] = text
    BY <1>1
  <2> HIDE DEF text
  <2>4. /\ argv[i] + Len(text) < dest'
        /\ mArgString'[argv[i] + Len(text)] = Nul
        /\ \A k \in 1..Len(text) : mArgString'[argv[i] + (k - 1)] = text[k]
    <3>1. Len(text) \in Nat
      BY <2>2
    <3>2. argv[i] + Len(text) \in 0..(dest - 1) /\ argv[i] + Len(text) < dest'
      BY <2>1, <2>2, <3>1
    <3>3. \A k \in 1..Len(text) : argv[i] + (k - 1) \in 0..(dest - 1)
      BY <2>1, <2>2, <3>1
    <3> QED
      BY <2>2, <3>2, <3>3
  <2> QED
    BY <1>1, <1>5, <2>2, <2>3, <2>4 DEF Holds
<1> QED
  BY <1>4, <1>5

(* The types that all of the steps below use.                              *)
LEMMA Typed ==
  ASSUME IInv
  PROVE  /\ line \in Lines /\ Len(line) \in Nat
         /\ scan \in Nat /\ scan <= Len(line)
         /\ dest \in Nat /\ dest <= MaxArgString
         /\ MaxArgString \in Nat /\ stop \in Nat /\ stop + 1 = MaxArgString
         /\ Len(argv) \in Nat /\ DOMAIN argv = 1..Len(argv)
         /\ \A i \in 1..Len(argv) : argv[i] = EmptyString \/ argv[i] \in Nat
BY LineAssumption DEF IInv, TypeOK, stop

(* A line that fits has dest behind scan, so that the limit is not met.    *)
LEMMA DestBehindStep ==
  ASSUME IInv, DestBehind, Step
  PROVE  DestBehind'
<1> SUFFICES ASSUME Len(line) < MaxArgString
             PROVE  DestBehind'
  BY DEF DestBehind, Step, SkipSpace, Return, EmptyQuotes, OpenQuote, OpenWord, CopyQuoted,
         CopyWord, CloseQuote, EndWord
<1> USE Typed
<1>1. /\ pc = "skip" => dest <= scan \/ (dest <= scan + 1 /\ Char(scan) \in White \cup {Nul})
      /\ pc = "quoted" => dest < scan
      /\ pc = "word" => dest <= scan
      /\ pc = "done" => Char(scan) = Nul
  BY DEF DestBehind
<1>2. ASSUME dest >= stop, dest <= scan PROVE Char(scan) = Nul
  <2>1. scan >= Len(line)
    BY <1>2
  <2> QED
    BY <2>1 DEF Char
<1>3. CASE SkipSpace
  BY <1>1, <1>3 DEF SkipSpace, DestBehind
<1>4. CASE Return
  <2>1. Char(scan) = Nul
    BY <1>1, <1>2, <1>4 DEF Return
  <2>2. Char(scan)' = Char(scan) /\ pc' = "done"
    BY <1>4 DEF Return, Char
  <2> QED
    BY <2>1, <2>2 DEF DestBehind
<1>5. CASE EmptyQuotes \/ OpenQuote \/ OpenWord
  <2>1. dest <= scan /\ dest' = dest
    BY <1>1, <1>5 DEF EmptyQuotes, OpenQuote, OpenWord, ArgumentAhead
  <2> QED
    BY <1>5, <2>1 DEF ArgumentAhead, EmptyQuotes, OpenQuote, OpenWord, DestBehind
<1>6. CASE CopyQuoted \/ CopyWord
  BY <1>1, <1>6 DEF CopyQuoted, CopyWord, Put, DestBehind
<1>7. CASE CloseQuote
  <2>1. dest < scan /\ dest' = dest + 1 /\ pc' = "skip" /\ scan' >= scan
    BY <1>1, <1>7 DEF CloseQuote, Put
  <2>2. scan' \in Nat
    BY <1>7 DEF CloseQuote
  <2> QED
    BY <2>1, <2>2 DEF DestBehind
<1>8. CASE EndWord
  <2>1. dest <= scan /\ dest' = dest + 1 /\ pc' = "skip" /\ scan' = scan /\ line' = line
    BY <1>1, <1>8 DEF EndWord, Put
  <2>2. Char(scan) \in White \cup {Nul}
    BY <1>2, <1>8, <2>1 DEF EndWord, InWord
  <2>3. Char(scan)' = Char(scan)
    BY <2>1 DEF Char
  <2>4. dest' <= scan' + 1
    BY <2>1
  <2>5. Char(scan)' \in White \cup {Nul}
    BY <2>2, <2>3, Zenon
  <2> QED
    BY <2>1, <2>4, <2>5, Zenon DEF DestBehind
<1> QED
  BY <1>3, <1>4, <1>5, <1>6, <1>7, <1>8 DEF Step

(* What is written stays when nothing is.                                  *)
LEMMA WrittenStays ==
  ASSUME UNCHANGED <<line, argv, mArgString, dest>>
  PROVE  (Cut' <=> Cut) /\ \A n : Complete(n)' <=> Complete(n)
<1>1. Arguments' = Arguments
  BY LineStays
<1>2. \A n : Complete(n)' <=> Complete(n)
  BY <1>1 DEF Complete, Holds
<1> QED
  BY <1>1, <1>2 DEF Cut, Holds, stop

(* Between two arguments.                                                  *)
LEMMA BetweenSplits ==
  ASSUME SplitInv, SkipSpace \/ Return
  PROVE  Between' /\ (pc' = "done" => Char(scan)' = Nul \/ dest' >= stop)
<1> USE Typed DEF SplitInv
<1>1. UNCHANGED <<line, argv, mArgString, dest>> /\ pc = "skip"
  BY DEF SkipSpace, Return
<1>2. PICK n \in Nat : n = Len(argv)
  OBVIOUS
<1>3. (Cut' <=> Cut) /\ (Complete(n)' <=> Complete(n))
  BY <1>1, WrittenStays
<1>4. \A place, k : Rest(place, k)' <=> Rest(place, k)
  BY <1>1, LineStays
<1>5. Between <=> Cut \/ (Complete(n) /\ Rest(scan, n))
  BY <1>2 DEF Between
<1>6. Between' <=> Cut' \/ (Complete(n)' /\ Rest(scan', n))
  <2>1. Complete(Len(argv))' <=> Complete(n)'
    BY <1>1, <1>2 DEF Complete
  <2>2. Rest(scan, Len(argv))' <=> Rest(scan', n)
    BY <1>1, <1>2, LineStays DEF Rest
  <2> QED
    BY <2>1, <2>2 DEF Between
<1>7. CASE SkipSpace
  <2>1. scan' = scan + 1 /\ ArgumentsFrom[scan] = ArgumentsFrom[scan + 1] /\ pc' = "skip"
    BY <1>1, <1>7, FromWhite DEF SkipSpace
  <2>2. Rest(scan, n) => Rest(scan', n)
    BY <2>1 DEF Rest
  <2> QED
    BY <1>1, <1>3, <1>5, <1>6, <2>1, <2>2
<1>8. CASE Return
  <2>1. scan' = scan /\ Char(scan)' = Char(scan)
    BY <1>8 DEF Return, Char
  <2>2. Char(scan) = Nul \/ dest >= stop
    BY <1>8 DEF Return
  <2> QED
    BY <1>1, <1>3, <1>5, <1>6, <2>1, <2>2 DEF stop
<1> QED
  BY <1>7, <1>8

(* An argument begins: those before it are complete.                       *)
LEMMA OpenSplits ==
  ASSUME SplitInv, EmptyQuotes \/ OpenQuote \/ OpenWord
  PROVE  /\ pc' = "skip" => Between'
         /\ pc' = "quoted" => InQuotes'
         /\ pc' = "word" => InAWord'
<1> USE Typed DEF SplitInv
<1>1. PICK where \in {EmptyString, dest} :
        /\ ArgumentAhead
        /\ argv' = Append(argv, where)
        /\ UNCHANGED <<line, mArgString, dest>>
        /\ pc' = "skip" => where = EmptyString
        /\ pc' # "skip" => where = dest
        /\ pc = "skip"
  BY DEF EmptyQuotes, OpenQuote, OpenWord, ArgumentAhead
<1>2. PICK n \in Nat : n = Len(argv)
  OBVIOUS
<1>3. /\ Len(argv') = n + 1
      /\ argv'[n + 1] = where
      /\ \A i \in 1..n : argv'[i] = argv[i]
  BY <1>1, <1>2, BeginStep
<1>4. Complete(n) /\ Rest(scan, n)
  BY <1>1, <1>2 DEF Between, Cut, ArgumentAhead
<1>5. Complete(n)'
  <2>1. \A k \in 0..(dest - 1) : mArgString'[k] = mArgString[k]
    BY <1>1
  <2> QED
    BY <1>1, <1>2, <1>3, <1>4, <2>1, CompleteStays
<1>6. /\ \A place, k : Rest(place, k)' <=> Rest(place, k)
      /\ \A place : Char(place)' = Char(place)
      /\ Arguments' = Arguments
  BY <1>1, LineStays
<1>7. Char(scan) \notin White \cup {Nul}
  BY <1>1 DEF ArgumentAhead
<1>8. CASE EmptyQuotes
  <2>1. /\ Char(scan) = Quote /\ Char(scan + 1) = Quote /\ scan' = scan + 2 /\ pc' = "skip"
        /\ where = EmptyString
    BY <1>1, <1>8 DEF EmptyQuotes, ArgumentAhead
  <2>2. scan + 1 < Len(line)
    BY <2>1, CharType, LineAssumption DEF Chars
  <2>3. NextOf({Quote}, scan + 1) = scan + 1
    BY <2>1, <2>2, NextOfOnly
  <2>4. ArgumentsFrom[scan] = <<Text(scan + 1, scan + 1)>> \o ArgumentsFrom[scan + 2]
    <3>1. PICK end : end = scan + 1
      OBVIOUS
    <3>2. end = NextOf({Quote}, scan + 1) /\ scan \in Nat /\ line \in Lines
      BY <2>3, <3>1
    <3>3. ArgumentsFrom[scan] = <<Text(scan + 1, end)>> \o ArgumentsFrom[end + 1]
      BY <2>1, <3>2, FromQuote
    <3>4. end + 1 = scan + 2
      BY <3>1, <3>2
    <3> QED
      BY <3>1, <3>3, <3>4
  <2>5. Text(scan + 1, scan + 1) = << >>
    BY LineAssumption DEF Text
  <2>6. n + 1 <= Len(Arguments) /\ Arguments[n + 1] = << >> /\ Rest(scan + 2, n + 1)
    <3>1. PICK text : text = Text(scan + 1, scan + 1)
      OBVIOUS
    <3>2. PICK after \in Nat : after = scan + 2
      OBVIOUS
    <3>3. PICK place \in Nat : place = scan
      OBVIOUS
    <3>4. Rest(place, n) /\ line \in Lines
      BY <1>4, <3>3
    <3>5. ArgumentsFrom[place] = <<text>> \o ArgumentsFrom[after]
      BY <2>4, <3>1, <3>2, <3>3
    <3>6. n + 1 <= Len(Arguments) /\ Arguments[n + 1] = text /\ Rest(after, n + 1)
      BY ONLY <3>4, <3>5, RestNext, Zenon
    <3> QED
      BY <2>5, <3>1, <3>2, <3>6
  <2>7. Complete(n + 1)'
    <3>1. << >> \in Seq(Chars)
      OBVIOUS
    <3>2. Holds(argv[n + 1], Arguments[n + 1])'
      BY <1>3, <1>6, <2>1, <2>6, <3>1 DEF Holds
    <3> QED
      BY <1>5, <3>2 DEF Complete
  <2>8. Between' <=> Cut' \/ (Complete(n + 1)' /\ Rest(scan + 2, n + 1))
    <3>1. Complete(Len(argv))' <=> Complete(n + 1)'
      BY <1>3 DEF Complete
    <3>2. Rest(scan, Len(argv))' <=> Rest(scan + 2, n + 1)
      BY <1>1, <1>3, <2>1, LineStays DEF Rest
    <3> QED
      BY <3>1, <3>2 DEF Between
  <2> QED
    BY <2>1, <2>6, <2>7, <2>8
<1>9. CASE OpenQuote
  <2>1. /\ Char(scan) = Quote /\ scan' = scan + 1 /\ pc' = "quoted" /\ where = dest
    BY <1>1, <1>9 DEF OpenQuote
  <2>2. First' = scan + 1 /\ argv'[Len(argv')] = dest
    BY <1>1, <1>3, <2>1 DEF First
  <2>3. Copied({Quote})'
    BY <1>1, <2>2 DEF Copied, EmptyString
  <2>4. Len(argv') - 1 = n /\ First' - 1 = scan
    BY <1>3, <2>2
  <2>5. Complete(Len(argv) - 1)' /\ Rest(First - 1, Len(argv) - 1)'
    <3>1. Complete(Len(argv) - 1)' <=> Complete(n)'
      BY <2>4 DEF Complete
    <3>2. Rest(First - 1, Len(argv) - 1)' <=> Rest(scan, n)
      BY <1>1, <2>4, LineStays DEF Rest
    <3> QED
      BY <1>4, <1>5, <3>1, <3>2
  <2>6. Char(First - 1)' = Quote /\ First' > 0
    BY <1>1, <2>1, <2>2, <2>4 DEF Char
  <2> QED
    BY <2>1, <2>3, <2>5, <2>6 DEF InQuotes
<1>10. CASE OpenWord
  <2>1. Char(scan) # Quote /\ scan' = scan /\ pc' = "word" /\ where = dest
    BY <1>1, <1>10 DEF OpenWord
  <2>2. First' = scan /\ argv'[Len(argv')] = dest
    BY <1>1, <1>3, <2>1 DEF First
  <2>3. Copied(White)'
    BY <1>1, <2>2 DEF Copied, EmptyString
  <2>4. Len(argv') - 1 = n
    BY <1>3
  <2>5. Complete(Len(argv) - 1)' /\ Rest(First, Len(argv) - 1)'
    <3>1. Complete(Len(argv) - 1)' <=> Complete(n)'
      BY <2>4 DEF Complete
    <3>2. Rest(First, Len(argv) - 1)' <=> Rest(scan, n)
      BY <1>1, <2>2, <2>4, LineStays DEF Rest
    <3> QED
      BY <1>4, <1>5, <3>1, <3>2
  <2>6. Char(First)' = Char(scan) /\ First' >= 0
    BY <1>1, <2>2 DEF Char
  <2> QED
    BY <1>7, <2>1, <2>3, <2>5, <2>6 DEF InAWord
<1> QED
  BY <1>8, <1>9, <1>10

(* The argument at work is not the constant, and lies before dest.         *)
LEMMA CopyingAt ==
  ASSUME SplitInv, pc \in {"quoted", "word"}
  PROVE  /\ Len(argv) \in Nat \ {0}
         /\ argv[Len(argv)] \in Nat /\ argv[Len(argv)] <= dest
         /\ dest <= stop
<1>1. argv[Len(argv)] # EmptyString
  BY DEF SplitInv, InQuotes, InAWord, Copied
<1>2. argv # << >> /\ argv[Len(argv)] <= dest /\ dest <= stop
  BY DEF SplitInv, IInv, Writing
<1>3. Len(argv) # 0
  BY <1>2 DEF SplitInv, IInv, TypeOK
<1> QED
  BY <1>1, <1>2, <1>3, Typed DEF SplitInv

(* A character is copied to the place that follows the others.             *)
LEMMA CopySplits ==
  ASSUME SplitInv, CopyQuoted \/ CopyWord
  PROVE  /\ pc' = "quoted" => InQuotes'
         /\ pc' = "word" => InAWord'
<1> USE Typed DEF SplitInv
<1>1. /\ pc \in {"quoted", "word"} /\ UNCHANGED <<line, pc, argv>>
      /\ scan' = scan + 1 /\ dest < stop /\ Put(Char(scan))
      /\ pc = "quoted" => Char(scan) \notin {Quote, Nul}
      /\ pc = "word" => Char(scan) \notin White \cup {Nul}
  BY DEF CopyQuoted, CopyWord, InWord
<1>2. PICK at \in Nat : at = argv[Len(argv)] /\ at <= dest /\ Len(argv) - 1 \in Nat
  BY <1>1, CopyingAt
<1>3. /\ mArgString'[dest] = Char(scan)
      /\ \A n \in 0..(dest - 1) : mArgString'[n] = mArgString[n]
      /\ dest' = dest + 1
  BY <1>1, CharType, PutStep
<1>4. First' = First /\ First \in Int /\ First = scan - (dest - at)
  <2>1. argv' = argv
    BY <1>1
  <2>2. First = scan - (dest - at) /\ First' = scan' - (dest' - at)
    BY <1>2, <2>1, Zenon DEF First
  <2>3. scan' = scan + 1 /\ dest' = dest + 1 /\ scan \in Nat /\ dest \in Nat
    BY <1>1, <1>3
  <2>4. scan - (dest - at) \in Int
    BY ONLY <2>3, at \in Nat
  <2>5. scan' - (dest' - at) = scan - (dest - at)
    BY ONLY <2>3, at \in Nat
  <2> QED
    BY <2>2, <2>4, <2>5, Zenon
<1>5. Complete(Len(argv) - 1) => Complete(Len(argv) - 1)'
  <2>1. PICK n \in Nat : n = Len(argv) - 1
    BY <1>2
  <2>2. Complete(n) => Complete(n)'
    BY <1>1, <1>3, <2>1, CompleteStays, SMTT(30)
  <2> QED
    BY <1>1, <2>1, <2>2 DEF Complete
<1>6. ASSUME NEW set, Copied(set), Char(scan) \notin set \cup {Nul}
      PROVE  Copied(set)'
  <2> SUFFICES ASSUME NEW k \in at..dest
               PROVE  /\ mArgString'[k] = Char(First + (k - at))
                      /\ mArgString'[k] \notin set \cup {Nul}
    <3>1. argv'[Len(argv')] = at /\ dest' - 1 = dest /\ at # EmptyString
      <4>1. argv' = argv
        BY <1>1
      <4>2. argv'[Len(argv')] = at
        BY <1>2, <4>1, Zenon
      <4>3. dest' - 1 = dest
        BY <1>3
      <4>4. at # EmptyString
        BY DEF EmptyString
      <4> QED
        BY <4>2, <4>3, <4>4
    <3>2. \A place : Char(place)' = Char(place)
      BY <1>1, LineStays
    <3>3. \A k : Char(First + (k - argv[Len(argv)]))' = Char(First + (k - at))
      BY <1>1, <1>2, <1>4 DEF Char
    <3> QED
      BY <3>1, <3>3 DEF Copied
  <2>1. CASE k = dest
    <3>1. First + (k - at) = scan
      BY <1>2, <1>4, <2>1
    <3> QED
      BY <1>3, <1>6, <2>1, <3>1
  <2>2. CASE k # dest
    <3>1. k \in at..(dest - 1) /\ k \in 0..(dest - 1)
      BY <1>2, <2>2
    <3> QED
      BY <1>2, <1>3, <1>6, <3>1 DEF Copied
  <2> QED
    BY <2>1, <2>2
<1>7. \A place, k : Rest(place, k)' <=> Rest(place, k)
  BY <1>1, LineStays
<1>8. CASE pc = "quoted"
  <2>1. InQuotes
    BY <1>8
  <2>2. Copied({Quote})'
    BY <1>1, <1>6, <1>8, <2>1 DEF InQuotes
  <2>3. Char(First - 1)' = Char(First - 1)
    BY <1>1, <1>4 DEF Char
  <2>4. Rest(First - 1, Len(argv) - 1)' <=> Rest(First - 1, Len(argv) - 1)
    BY <1>1, <1>4, LineStays DEF Rest
  <2> QED
    BY <1>1, <1>4, <1>5, <1>8, <2>1, <2>2, <2>3, <2>4 DEF InQuotes
<1>9. CASE pc = "word"
  <2>1. InAWord
    BY <1>9
  <2>2. Copied(White)'
    BY <1>1, <1>6, <1>9, <2>1 DEF InAWord
  <2>3. Char(First)' = Char(First)
    BY <1>1, <1>4 DEF Char
  <2>4. Rest(First, Len(argv) - 1)' <=> Rest(First, Len(argv) - 1)
    BY <1>1, <1>4, LineStays DEF Rest
  <2> QED
    BY <1>1, <1>4, <1>5, <1>9, <2>1, <2>2, <2>3, <2>4 DEF InAWord
<1> QED
  BY <1>1, <1>8, <1>9

(* The text between two places of the line.                                *)
LEMMA TextIs ==
  ASSUME line \in Lines, NEW from \in Nat, NEW to \in Nat, from <= to, to <= Len(line)
  PROVE  /\ Text(from, to) \in Seq(Chars)
         /\ Len(Text(from, to)) = to - from
         /\ \A k \in 1..(to - from) : Text(from, to)[k] = Char(from + (k - 1))
<1>1. line \in Seq(Chars) /\ Len(line) \in Nat
  BY LineAssumption
<1>2. /\ Text(from, to) \in Seq(Chars)
      /\ Len(Text(from, to)) = to - from
      /\ \A k \in 1..(to - from) : Text(from, to)[k] = line[from + k]
  BY <1>1 DEF Text
<1>3. ASSUME NEW k \in 1..(to - from) PROVE Char(from + (k - 1)) = line[from + k]
  <2>1. from + (k - 1) < Len(line) /\ from + (k - 1) + 1 = from + k
    BY <1>1
  <2> QED
    BY <2>1 DEF Char
<1> QED
  BY <1>2, <1>3

(* A shorter text from the same place is a prefix.                         *)
LEMMA TextPrefix ==
  ASSUME line \in Lines, NEW from \in Nat, NEW to \in Nat, NEW end \in Nat,
         from <= to, to <= end, end <= Len(line)
  PROVE  Text(from, to) = SubSeq(Text(from, end), 1, to - from)
<1>1. line \in Seq(Chars) /\ Len(line) \in Nat
  BY LineAssumption
<1> DEFINE s == Text(from, end)
           t == Text(from, to)
<1>0. from <= end /\ to <= Len(line)
  BY <1>1
<1>2. /\ Text(from, end) \in Seq(Chars) /\ Len(Text(from, end)) = end - from
      /\ \A k \in 1..(end - from) : Text(from, end)[k] = Char(from + (k - 1))
  BY <1>0, TextIs
<1>3. /\ Text(from, to) \in Seq(Chars) /\ Len(Text(from, to)) = to - from
      /\ \A k \in 1..(to - from) : Text(from, to)[k] = Char(from + (k - 1))
  BY <1>0, TextIs
<1> HIDE DEF s, t
<1>4. /\ SubSeq(s, 1, to - from) \in Seq(Chars)
      /\ Len(SubSeq(s, 1, to - from)) = to - from
      /\ \A k \in 1..(to - from) : SubSeq(s, 1, to - from)[k] = s[k]
  BY <1>2 DEF s
<1>5. \A k \in 1..(to - from) : t[k] = s[k]
  BY <1>2, <1>3 DEF s, t
<1>6. t = SubSeq(s, 1, to - from)
  BY <1>3, <1>4, <1>5, SeqEqual DEF t
<1> QED
  BY <1>6 DEF s, t

(* The zero byte completes what was copied: the text from its first        *)
(* character to here, which is the argument of the line if it ends here,   *)
(* and a prefix of it if it goes on.                                       *)
LEMMA EndHolds ==
  ASSUME SplitInv, pc \in {"quoted", "word"}, Put(Nul), UNCHANGED <<line, argv>>,
         NEW from \in Nat, from = First, NEW set, Copied(set), Complete(Len(argv) - 1),
         NEW end \in Nat, scan <= end, end <= Len(line),
         NEW n \in Nat, n = Len(argv), n <= Len(Arguments), Arguments[n] = Text(from, end)
  PROVE  /\ end = scan => Complete(n)'
         /\ dest = stop /\ Len(line) >= MaxArgString => Cut'
         /\ \A i \in from..(scan - 1) : Char(i) \notin set \cup {Nul}
<1> USE Typed DEF SplitInv
<1>1. PICK at \in Nat : at = argv[n] /\ at <= dest /\ dest <= stop /\ n > 0 /\ n - 1 \in Nat
  BY CopyingAt
<1>2. PICK text : text = Text(from, scan)
  OBVIOUS
<1>3. scan \in Nat /\ dest \in Nat /\ from = scan - (dest - at) /\ from <= scan
  <2>1. from = scan - (dest - at)
    BY <1>1 DEF First
  <2> QED
    BY <1>1, <2>1, SMTT(30)
<1>4. /\ text \in Seq(Chars)
      /\ Len(text) = dest - at
      /\ \A k \in 1..(dest - at) : text[k] = Char(from + (k - 1))
  <2>1. scan - from = dest - at
    BY ONLY <1>3, at \in Nat
  <2>2. /\ Text(from, scan) \in Seq(Chars)
        /\ Len(Text(from, scan)) = scan - from
        /\ \A k \in 1..(scan - from) : Text(from, scan)[k] = Char(from + (k - 1))
    BY <1>3, TextIs
  <2> QED
    BY <1>2, <2>1, <2>2
<1>5. /\ mArgString'[dest] = Nul
      /\ \A k \in 0..(dest - 1) : mArgString'[k] = mArgString[k]
      /\ dest' = dest + 1
  BY <1>1, PutStep
<1>6. \A k \in at..(dest - 1) : /\ mArgString[k] = Char(from + (k - at))
                                /\ mArgString[k] \notin set \cup {Nul}
  BY <1>1 DEF Copied
<1>7. Holds(at, text)'
  <2>1. at + Len(text) < dest' /\ mArgString'[at + Len(text)] = Nul
    <3>1. at + Len(text) = dest
      BY ONLY <1>3, <1>4, at \in Nat
    <3> QED
      BY <1>3, <1>5, <3>1, SMTT(30)
  <2>2. ASSUME NEW k \in 1..Len(text) PROVE mArgString'[at + (k - 1)] = text[k]
    <3>1. at + (k - 1) \in at..(dest - 1) /\ at + (k - 1) \in 0..(dest - 1)
      BY ONLY <1>3, <1>4, at \in Nat, k \in 1..Len(text)
    <3>2. from + ((at + (k - 1)) - at) = from + (k - 1)
      OBVIOUS
    <3>3. mArgString'[at + (k - 1)] = Char(from + (k - 1))
      BY <1>5, <1>6, <3>1, <3>2
    <3> QED
      BY <1>4, <3>3
  <2>3. at # EmptyString
    BY DEF EmptyString
  <2> QED
    BY <1>4, <2>1, <2>2, <2>3 DEF Holds
<1>8. Arguments' = Arguments /\ argv' = argv
  BY LineStays
<1>9. PICK m \in Nat : m = n - 1
  BY <1>1
<1>10. Complete(m)'
  <2>1. Complete(m) /\ m <= Len(argv)
    BY <1>9
  <2>2. \A i \in 1..m : argv'[i] = argv[i]
    BY <1>8
  <2>3. dest' \in Nat /\ dest <= dest'
    BY <1>3, <1>5
  <2> QED
    BY <1>5, <2>1, <2>2, <2>3, CompleteStays
<1>11. ASSUME end = scan PROVE Complete(n)'
  <2>1. Holds(argv[n], Arguments[n])'
    BY <1>1, <1>2, <1>7, <1>8, <1>11 DEF Holds
  <2>2. \A i \in 1..n : i = n \/ i \in 1..m
    BY <1>9
  <2> QED
    BY <1>10, <2>1, <2>2 DEF Complete
<1>12. ASSUME dest = stop, Len(line) >= MaxArgString PROVE Cut'
  <2>1. PICK k \in 0..Len(Arguments[n]) : text = SubSeq(Arguments[n], 1, k)
    <3>1. text = SubSeq(Text(from, end), 1, scan - from)
      BY <1>2, <1>3, TextPrefix
    <3>2. Len(Text(from, end)) = end - from
      <4>1. from <= end
        BY <1>3
      <4> QED
        BY <4>1, TextIs
    <3>3. scan - from \in 0..(end - from)
      BY <1>3
    <3> QED
      BY <3>1, <3>2, <3>3
  <2>2. Holds(argv[Len(argv)], SubSeq(Arguments[Len(argv)], 1, k))'
    BY <1>1, <1>7, <1>8, <2>1 DEF Holds
  <2>3. k \in 0..Len(Arguments'[Len(argv')])
    BY <1>8
  <2>4. Complete(Len(argv) - 1)'
    BY <1>8, <1>9, <1>10 DEF Complete
  <2>5. dest' > stop /\ argv # << >>
    BY <1>1, <1>5, <1>12
  <2> QED
    BY <1>8, <1>12, <2>2, <2>3, <2>4, <2>5 DEF Cut, stop
<1>13. ASSUME NEW i \in from..(scan - 1) PROVE Char(i) \notin set \cup {Nul}
  <2>1. at + (i - from) \in at..(dest - 1) /\ from + ((at + (i - from)) - at) = i
    BY ONLY <1>3, at \in Nat, from \in Nat, i \in from..(scan - 1)
  <2> QED
    BY <1>6, <2>1
<1> QED
  BY <1>11, <1>12, <1>13

(* An argument ends, at a quote, at white space, at the end of the line or *)
(* where mArgString does; what is left of the line is behind it.           *)
LEMMA QuoteEnds ==
  ASSUME SplitInv, CloseQuote
  PROVE  Between' /\ pc' = "skip"
<1> USE Typed DEF SplitInv
<1>1. pc = "quoted" /\ pc' = "skip" /\ Put(Nul) /\ UNCHANGED <<line, argv>> /\ InQuotes
  BY DEF CloseQuote
<1>2. PICK n \in Nat \ {0} : n = Len(argv)
  BY <1>1, CopyingAt
<1>3. dest \in Nat /\ scan \in Nat /\ argv[n] \in Nat /\ argv[n] <= dest /\ dest <= stop
  BY <1>1, <1>2, CopyingAt
<1>4. First = scan - (dest - argv[n]) /\ First > 0 /\ First <= scan
  <2>1. First = scan - (dest - argv[n])
    BY <1>2 DEF First
  <2> QED
    BY <1>1, <1>3, <2>1 DEF InQuotes
<1>5. PICK from \in Nat : from = First /\ from > 0 /\ from <= scan
  BY <1>3, <1>4
<1>6. PICK start \in Nat : start = from - 1
  BY <1>5
<1>7. Char(start) = Quote /\ Complete(n - 1) /\ Rest(start, n - 1) /\ Copied({Quote})
  BY <1>1, <1>2, <1>5, <1>6 DEF InQuotes
<1>8. PICK end : end = NextOf({Quote}, start + 1)
  OBVIOUS
<1>9. /\ start + 1 = from /\ from <= Len(line)
      /\ end \in from..Len(line)
      /\ ArgumentsFrom[start] = <<Text(from, end)>> \o ArgumentsFrom[end + 1]
  <2>1. start + 1 = from
    BY <1>6
  <2> QED
    BY <1>7, <1>8, <2>1, FromQuote
<1>10. end \in Nat /\ end <= Len(line) /\ end + 1 \in Nat
  BY <1>9
<1>11. n <= Len(Arguments) /\ Arguments[n] = Text(from, end) /\ Rest(end + 1, n)
  <2>1. PICK text : text = Text(from, end)
    OBVIOUS
  <2>2. PICK m \in Nat : m = n - 1
    <3>1. n - 1 \in Nat
      BY <1>2
    <3> QED
      BY <3>1
  <2>3. PICK after \in Nat : after = end + 1
    BY <1>10
  <2>4. Rest(start, m) /\ ArgumentsFrom[start] = <<text>> \o ArgumentsFrom[after] /\ line \in Lines
    BY <1>7, <1>9, <2>1, <2>2, <2>3
  <2>5. m + 1 <= Len(Arguments) /\ Arguments[m + 1] = text /\ Rest(after, m + 1)
    BY ONLY <2>4, RestNext, Zenon
  <2>6. m + 1 = n
    BY <2>2
  <2> QED
    BY <2>1, <2>3, <2>5, <2>6
<1>12. \A i \in from..(scan - 1) : Char(i) \notin {Quote, Nul}
  <2>1. \A k \in argv[n]..(dest - 1) : Char(from + (k - argv[n])) \notin {Quote, Nul}
    BY <1>2, <1>5, <1>7 DEF Copied
  <2> TAKE i \in from..(scan - 1)
  <2>2. /\ argv[n] + (i - from) \in argv[n]..(dest - 1)
        /\ from + ((argv[n] + (i - from)) - argv[n]) = i
    BY ONLY <1>3, <1>4, <1>5, i \in from..(scan - 1)
  <2> QED
    BY <2>1, <2>2
<1>13. scan <= end
  <2>1. end = Len(line) \/ Char(end) = Quote
    BY <1>8, <1>9, NextOfIs, SMTT(30)
  <2> QED
    BY <1>9, <1>10, <1>12, <2>1
<1>14. /\ end = scan => Complete(n)'
       /\ dest = stop /\ Len(line) >= MaxArgString => Cut'
  BY <1>1, <1>2, <1>5, <1>7, <1>10, <1>11, <1>13, EndHolds
<1>15. /\ \A place, k : Rest(place, k)' <=> Rest(place, k)
       /\ Arguments' = Arguments /\ ArgumentsFrom' = ArgumentsFrom
  BY <1>1, LineStays
<1>16. Between' <=> Cut' \/ (Complete(n)' /\ Rest(scan', n))
  <2>1. Complete(Len(argv))' <=> Complete(n)'
    BY <1>1, <1>2 DEF Complete
  <2>2. Rest(scan, Len(argv))' <=> Rest(scan', n)
    BY <1>1, <1>2, <1>15 DEF Rest
  <2> QED
    BY <2>1, <2>2 DEF Between
<1>17. CASE Char(scan) = Quote
  <2>1. scan < Len(line) /\ scan' = scan + 1
    BY <1>17, CharType, LineAssumption DEF CloseQuote, Chars
  <2>2. end = scan
    <3>1. NextOf({Quote}, from) = scan
      <4>1. /\ from \in 0..Len(line) /\ scan \in from..Len(line)
            /\ \A i \in from..(scan - 1) : Char(i) \notin {Quote}
        BY <1>5, <1>9, <1>12, <2>1
      <4>2. Char(scan) \in {Quote}
        BY <1>17
      <4> QED
        BY <4>1, <4>2, NextOfOnly
    <3> QED
      BY <1>8, <1>9, <3>1
  <2> QED
    BY <1>1, <1>11, <1>14, <1>16, <2>1, <2>2
<1>18. CASE Char(scan) = Nul
  <2>1. scan = Len(line)
    BY <1>3, <1>18, CharType
  <2>2. scan' = scan /\ end = scan
    BY <1>10, <1>13, <1>18, <2>1, LineAssumption DEF CloseQuote, Chars
  <2>3. ArgumentsFrom[end] = << >> /\ ArgumentsFrom[end + 1] = << >>
    BY <1>10, <2>1, <2>2, FromEnd
  <2>4. Rest(end, n)
    BY <1>11, <2>3 DEF Rest
  <2> QED
    BY <1>1, <1>14, <1>16, <2>2, <2>4
<1>19. CASE Char(scan) \notin {Quote, Nul}
  <2>1. dest = stop
    BY <1>3, <1>19 DEF CloseQuote
  <2>2. Len(line) >= MaxArgString
    <3>1. Len(line) < MaxArgString => dest < scan
      BY <1>1 DEF DestBehind
    <3> QED
      BY <2>1, <3>1
  <2> QED
    BY <1>1, <1>14, <1>16, <2>1, <2>2
<1> QED
  BY <1>17, <1>18, <1>19

(* The same for an argument without quotes.                                *)
LEMMA WordEnds ==
  ASSUME SplitInv, EndWord
  PROVE  Between' /\ pc' = "skip"
<1> USE Typed DEF SplitInv
<1>1. /\ pc = "word" /\ pc' = "skip" /\ Put(Nul) /\ UNCHANGED <<line, argv>> /\ InAWord
      /\ scan' = scan /\ ~InWord
  BY DEF EndWord
<1>2. PICK n \in Nat \ {0} : n = Len(argv)
  BY <1>1, CopyingAt
<1>3. dest \in Nat /\ scan \in Nat /\ argv[n] \in Nat /\ argv[n] <= dest /\ dest <= stop
  BY <1>1, <1>2, CopyingAt
<1>4. First = scan - (dest - argv[n]) /\ First >= 0 /\ First <= scan
  <2>1. First = scan - (dest - argv[n])
    BY <1>2 DEF First
  <2> QED
    BY <1>1, <1>3, <2>1 DEF InAWord
<1>5. PICK from \in Nat : from = First /\ from <= scan
  BY <1>3, <1>4
<1>7. /\ Char(from) \notin White \cup {Quote, Nul}
      /\ Complete(n - 1) /\ Rest(from, n - 1) /\ Copied(White)
  BY <1>1, <1>2, <1>5 DEF InAWord
<1>8. PICK end : end = NextOf(White, from)
  OBVIOUS
<1>9. /\ from < Len(line)
      /\ end \in from..Len(line)
      /\ ArgumentsFrom[from] = <<Text(from, end)>> \o ArgumentsFrom[end]
  BY <1>7, <1>8, FromWord
<1>10. end \in Nat /\ end <= Len(line)
  BY <1>9
<1>11. n <= Len(Arguments) /\ Arguments[n] = Text(from, end) /\ Rest(end, n)
  <2>1. PICK text : text = Text(from, end)
    OBVIOUS
  <2>2. PICK m \in Nat : m = n - 1
    <3>1. n - 1 \in Nat
      BY <1>2
    <3> QED
      BY <3>1
  <2>3. end \in Nat
    BY <1>10
  <2>4. Rest(from, m) /\ ArgumentsFrom[from] = <<text>> \o ArgumentsFrom[end] /\ line \in Lines
    BY <1>7, <1>9, <2>1, <2>2
  <2>5. m + 1 <= Len(Arguments) /\ Arguments[m + 1] = text /\ Rest(end, m + 1)
    BY ONLY <2>3, <2>4, RestNext, Zenon
  <2>6. m + 1 = n
    BY <2>2
  <2> QED
    BY <2>1, <2>5, <2>6
<1>12. \A i \in from..(scan - 1) : Char(i) \notin White \cup {Nul}
  <2>1. \A k \in argv[n]..(dest - 1) : Char(from + (k - argv[n])) \notin White \cup {Nul}
    BY <1>2, <1>5, <1>7 DEF Copied
  <2> TAKE i \in from..(scan - 1)
  <2>2. /\ argv[n] + (i - from) \in argv[n]..(dest - 1)
        /\ from + ((argv[n] + (i - from)) - argv[n]) = i
    BY ONLY <1>3, <1>4, <1>5, i \in from..(scan - 1)
  <2> QED
    BY <2>1, <2>2
<1>13. scan <= end
  <2>1. end = Len(line) \/ Char(end) \in White
    BY <1>8, <1>9, NextOfIs
  <2> QED
    BY <1>9, <1>10, <1>12, <2>1
<1>14. /\ end = scan => Complete(n)'
       /\ dest = stop /\ Len(line) >= MaxArgString => Cut'
  BY <1>1, <1>2, <1>5, <1>7, <1>10, <1>11, <1>13, EndHolds
<1>15. Between' <=> Cut' \/ (Complete(n)' /\ Rest(scan, n))
  <2>1. Complete(Len(argv))' <=> Complete(n)'
    BY <1>1, <1>2 DEF Complete
  <2>2. Rest(scan, Len(argv))' <=> Rest(scan, n)
    BY <1>1, <1>2, LineStays DEF Rest
  <2> QED
    BY <2>1, <2>2 DEF Between
<1>16. CASE Char(scan) \in White \cup {Nul}
  <2>1. scan = Len(line) \/ Char(scan) \in White
    BY <1>3, <1>16, CharType
  <2>2. NextOf(White, from) = scan
    BY <1>5, <1>9, <1>12, <2>1, NextOfOnly, SMTT(30)
  <2> QED
    BY <1>1, <1>8, <1>11, <1>14, <1>15, <2>2
<1>17. CASE Char(scan) \notin White \cup {Nul}
  <2>1. dest = stop /\ scan < Len(line)
    BY <1>1, <1>3, <1>17, CharType DEF InWord
  <2>2. Len(line) >= MaxArgString
    <3>1. Len(line) < MaxArgString => dest <= scan
      BY <1>1 DEF DestBehind
    <3> QED
      BY <2>1, <3>1
  <2> QED
    BY <1>1, <1>14, <1>15, <2>1, <2>2
<1> QED
  BY <1>16, <1>17

-----------------------------------------------------------------------------
(* Before the first step all of the line is left.                          *)
LEMMA InitSplits == Init => SplitInv
<1> SUFFICES ASSUME Init PROVE SplitInv
  OBVIOUS
<1>1. IInv
  BY InitIInv
<1>2. pc = "skip" /\ scan = 0 /\ dest = 0 /\ argv = << >> /\ Len(argv) = 0
  BY DEF Init
<1>3. Arguments = ArgumentsFrom[0] /\ ArgumentsFrom[0] \in Seq(Seq(Chars))
  BY <1>1, Typed, ArgumentsFromIs
<1>4. Rest(0, 0)
  <2>1. Len(Arguments) \in Nat
    BY <1>3
  <2> QED
    BY <1>3, <2>1 DEF Rest
<1>5. Complete(0)
  BY DEF Complete
<1>6. Between
  BY <1>2, <1>4, <1>5 DEF Between
<1>7. DestBehind
  BY <1>2 DEF DestBehind
<1> QED
  BY <1>1, <1>2, <1>6, <1>7 DEF SplitInv

(* No step of getArgs leaves the text of the line.                         *)
LEMMA StepSplits == SplitInv /\ [Next]_vars => SplitInv'
<1> SUFFICES ASSUME SplitInv, [Next]_vars PROVE SplitInv'
  OBVIOUS
<1>1. IInv'
  BY StepIInv DEF SplitInv
<1>2. CASE Step
  <2>1. DestBehind'
    BY <1>2, DestBehindStep DEF SplitInv
  <2>2. CASE SkipSpace \/ Return
    <3>1. pc' \in {"skip", "done"}
      BY <2>2 DEF SkipSpace, Return
    <3>2. (pc' = "done" => Char(scan)' = Nul \/ dest' >= stop) /\ Between'
      BY <2>2, BetweenSplits
    <3> QED
      BY <1>1, <2>1, <3>1, <3>2 DEF SplitInv, stop
  <2>3. CASE EmptyQuotes \/ OpenQuote \/ OpenWord
    <3>1. pc' \in {"skip", "quoted", "word"}
      BY <2>3 DEF EmptyQuotes, OpenQuote, OpenWord, ArgumentAhead
    <3> QED
      BY <1>1, <2>1, <2>3, <3>1, OpenSplits DEF SplitInv
  <2>4. CASE CopyQuoted \/ CopyWord
    <3>1. pc' \in {"quoted", "word"}
      BY <2>4 DEF CopyQuoted, CopyWord
    <3> QED
      BY <1>1, <2>1, <2>4, <3>1, CopySplits DEF SplitInv
  <2>5. CASE CloseQuote \/ EndWord
    <3>1. pc' = "skip" /\ Between'
      BY <2>5, QuoteEnds, WordEnds
    <3> QED
      BY <1>1, <2>1, <3>1 DEF SplitInv
  <2> QED
    BY <1>2, <2>2, <2>3, <2>4, <2>5 DEF Step
<1>3. CASE UNCHANGED vars
  <2>1. UNCHANGED <<line, argv, mArgString, dest>> /\ UNCHANGED <<scan, pc>>
    BY <1>3 DEF vars
  <2>2. Arguments' = Arguments /\ ArgumentsFrom' = ArgumentsFrom
    BY <2>1, LineStays
  <2>3. Cut' <=> Cut
    BY <2>1, WrittenStays
  <2>4. DestBehind' <=> DestBehind
    BY <2>1 DEF DestBehind, Char
  <2>5. Between' <=> Between
    BY <2>1, <2>2, <2>3 DEF Between, Complete, Holds, Rest
  <2>6. InQuotes' <=> InQuotes
    BY <2>1, <2>2 DEF InQuotes, Complete, Holds, Rest, Copied, First, Char
  <2>7. InAWord' <=> InAWord
    BY <2>1, <2>2 DEF InAWord, Complete, Holds, Rest, Copied, First, Char
  <2>8. Char(scan)' = Char(scan)
    BY <2>1 DEF Char
  <2> QED
    BY <1>1, <2>1, <2>4, <2>5, <2>6, <2>7, <2>8 DEF SplitInv, stop
<1> QED
  BY <1>2, <1>3 DEF Next, Done

(* A reader of argv finds the text that is held: its first zero byte is    *)
(* the one behind it.                                                      *)
LEMMA FoundIs ==
  ASSUME IInv, NEW place \in {EmptyString} \cup Nat, NEW text, Holds(place, text)
  PROVE  Found(place) = text
<1> USE Typed
<1>1. CASE place = EmptyString
  BY <1>1 DEF Holds, Found
<1>2. CASE place # EmptyString
  <2>1. /\ place \in Nat /\ text \in Seq(Chars)
        /\ place + Len(text) < dest
        /\ mArgString[place + Len(text)] = Nul
        /\ \A k \in 1..Len(text) : mArgString[place + (k - 1)] = text[k]
    BY <1>2 DEF Holds
  <2>2. PICK end \in Nat : end = place + Len(text)
    BY <2>1
  <2>3. end \in Zeros(place)
    BY <2>1, <2>2 DEF Zeros
  <2>4. ASSUME NEW m \in Zeros(place) PROVE end <= m
    <3> SUFFICES ASSUME m < end PROVE FALSE
      BY <2>2 DEF Zeros
    <3>1. m \in Nat /\ place <= m /\ mArgString[m] = Nul
      BY <2>1 DEF Zeros
    <3>2. m - place + 1 \in 1..Len(text) /\ place + ((m - place + 1) - 1) = m
      BY ONLY <2>1, <2>2, <3>1, m < end
    <3>3. mArgString[m] = text[m - place + 1]
      BY <2>1, <3>2
    <3>4. text[m - place + 1] \in Chars
      BY <2>1, <3>2
    <3> QED
      BY <3>1, <3>3, <3>4, LineAssumption
  <2>5. Zeros(place) \subseteq Nat
    BY <2>1 DEF Zeros
  <2>6. Smallest(Zeros(place)) = end
    BY <2>3, <2>4, <2>5, SmallestOnly
  <2>7. Found(place) = [i \in 1..(end - place) |-> mArgString[place + i - 1]]
    BY <1>2, <2>6 DEF Found
  <2>8. \A i \in 1..Len(text) : mArgString[place + i - 1] = text[i]
    <3> TAKE i \in 1..Len(text)
    <3>1. place + i - 1 = place + (i - 1)
      BY <2>1
    <3> QED
      BY <2>1, <3>1
  <2>9. end - place = Len(text)
    BY <2>1, <2>2
  <2>10. text = [i \in 1..Len(text) |-> text[i]]
    BY <2>1
  <2> QED
    BY <2>7, <2>8, <2>9, <2>10
<1> QED
  BY <1>1, <1>2

(* At the end all that was split is in argv.                               *)
LEMMA SplitIsExact == SplitInv => SplitExact
<1> SUFFICES ASSUME SplitInv, pc = "done" PROVE SplitExact
  BY DEF SplitExact
<1> USE Typed DEF SplitInv
<1>1. PICK n \in Nat : n = Len(argv)
  OBVIOUS
<1>2. \A i \in 1..n : argv[i] \in {EmptyString} \cup Nat
  BY <1>1
<1>3. /\ Arguments \in Seq(Seq(Chars))
      /\ ArgumentsFrom[scan] \in Seq(Seq(Chars))
  BY ArgumentsFromIs
<1>4. ASSUME NEW m \in 0..n, Complete(m), NEW i \in 1..m
      PROVE  Found(argv[i]) = Arguments[i]
  <2>1. Holds(argv[i], Arguments[i])
    BY <1>4 DEF Complete
  <2>2. argv[i] \in {EmptyString} \cup Nat
    BY <1>2
  <2> QED
    BY <2>1, <2>2, FoundIs
<1>5. \A s \in Seq(Chars) : IsPrefixOf(s, s)
  BY DEF IsPrefixOf
<1>6. CASE Cut
  <2>1. /\ n > 0 /\ n <= Len(Arguments) /\ Len(line) >= MaxArgString /\ Complete(n - 1)
    BY <1>1, <1>6 DEF Cut
  <2>2. PICK k \in 0..Len(Arguments[n]) : Holds(argv[n], SubSeq(Arguments[n], 1, k))
    BY <1>1, <1>6 DEF Cut
  <2>3. Found(argv[n]) = SubSeq(Arguments[n], 1, k)
    <3>1. PICK text : text = SubSeq(Arguments[n], 1, k)
      OBVIOUS
    <3>2. argv[n] \in {EmptyString} \cup Nat
      BY <1>2, <2>1
    <3> QED
      BY <2>2, <3>1, <3>2, FoundIs
  <2>4. IsPrefixOf(Found(argv[n]), Arguments[n])
    <3>1. PICK t \in Seq(Chars) : t = Arguments[n]
      BY <1>3, <2>1, SMTT(30)
    <3>2. Len(SubSeq(t, 1, k)) = k /\ k <= Len(t)
      BY <2>2, <3>1
    <3> QED
      BY <2>3, <3>1, <3>2 DEF IsPrefixOf
  <2>5. \A i \in 1..(n - 1) : Found(argv[i]) = Arguments[i]
    BY <1>4, <2>1
  <2> QED
    BY <1>1, <2>1, <2>4, <2>5 DEF SplitExact
<1>7. CASE Complete(n) /\ Rest(scan, n)
  <2>1. Len(Arguments) = n + Len(ArgumentsFrom[scan]) /\ Len(ArgumentsFrom[scan]) \in Nat
    BY <1>3, <1>7 DEF Rest
  <2>2. \A i \in 1..n : Found(argv[i]) = Arguments[i]
    BY <1>4, <1>7
  <2>3. argv # << >> => n \in 1..n /\ IsPrefixOf(Found(argv[n]), Arguments[n])
    <3> SUFFICES ASSUME argv # << >> PROVE n \in 1..n /\ IsPrefixOf(Found(argv[n]), Arguments[n])
      OBVIOUS
    <3>1. n \in 1..n
      BY <1>1 DEF IInv, TypeOK
    <3>2. Arguments[n] \in Seq(Chars)
      BY <1>3, <2>1, <3>1
    <3> QED
      BY <1>5, <2>2, <3>1, <3>2
  <2>4. Len(line) < MaxArgString => Len(Arguments) = n
    <3> SUFFICES ASSUME Len(line) < MaxArgString PROVE Len(Arguments) = n
      OBVIOUS
    <3>1. Char(scan) = Nul
      BY DEF DestBehind
    <3>2. ArgumentsFrom[scan] = << >>
      BY <3>1, CharType, FromEnd
    <3> QED
      BY <2>1, <3>2
  <2> QED
    <3>1. n <= Len(Arguments)
      BY <2>1
    <3>2. \A i \in 1..(n - 1) : Found(argv[i]) = Arguments[i]
      BY <2>2
    <3>3. argv # << >> => Found(argv[n]) = Arguments[n]
      BY <2>2, <2>3
    <3> QED
      BY <1>1, <2>3, <2>4, <3>1, <3>2, <3>3 DEF SplitExact
<1> QED
  BY <1>1, <1>6, <1>7 DEF Between

(* For every line that InputLine can hand over, the arguments that         *)
(* processCommand finds are those of the line, in order and with their     *)
(* text; of a line too long for mArgString only the end is missing.        *)
THEOREM ArgumentsAreExact == Spec => []SplitExact
<1>1. Spec => []SplitInv
  BY InitSplits, StepSplits, PTL DEF Spec
<1> QED
  BY <1>1, SplitIsExact, PTL
=============================================================================
