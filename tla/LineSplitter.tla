---------------------------- MODULE LineSplitter ----------------------------
(***************************************************************************)
(* GetArgs::getArgs of src/include/GetArgs.h: the line that the console    *)
(* hands to CommandsImpl::processInput, split into arguments.  The text of *)
(* the arguments is copied to mArgString, with a zero byte behind each,    *)
(* and argv points there.  Places in the line and in mArgString count from *)
(* 0, as in the code.  The line comes from the buffers of InputLine, which *)
(* bounds its length.                                                      *)
(***************************************************************************)
EXTENDS Integers, Sequences

CONSTANTS
    White, Quote, Letter, \* space and tab, the character 34, all others
    Nul, Junk,            \* the zero byte, and what a byte never written holds
    Lines,                \* what may be typed
    MaxInput,             \* MAX_INPUT_BUF - 1
    MaxArgs,              \* MAX_ARGS
    MaxArgString          \* MAX_ARG_STRING

Chars == White \cup {Quote} \cup Letter

ASSUME LineAssumption ==
    /\ Quote \notin White \cup Letter
    /\ White \cap Letter = {}
    /\ Nul \notin Chars
    /\ Junk \notin Chars \cup {Nul}
    /\ MaxInput \in Nat
    /\ MaxArgs \in Nat
    /\ MaxInput <= 2 * MaxArgs
    /\ MaxArgString \in Nat \ {0}
    /\ Lines \subseteq {line \in Seq(Chars) : Len(line) <= MaxInput}

VARIABLES
    line,       \* str, to its end
    scan,       \* the place of str in it
    pc,         \* the loop that is next: skip, quoted, word, or done
    argv,       \* the places of the arguments in mArgString; Len(argv) is argc
    mArgString,
    dest

vars == <<line, scan, pc, argv, mArgString, dest>>

stop == MaxArgString - 1

(* The argument of two quotes next to each other is a constant.            *)
EmptyString == -1

Char(place) == IF place < Len(line) THEN line[place + 1] ELSE Nul

Init == /\ line \in Lines
        /\ scan = 0
        /\ pc = "skip"
        /\ argv = << >>
        /\ mArgString = [place \in 0..(MaxArgString - 1) |-> Junk]
        /\ dest = 0

-----------------------------------------------------------------------------
Put(c) == /\ mArgString' = [mArgString EXCEPT ![dest] = c]
          /\ dest' = dest + 1

(* skipSpaces.                                                             *)
SkipSpace == /\ pc = "skip"
             /\ Char(scan) \in White
             /\ scan' = scan + 1
             /\ UNCHANGED <<line, pc, argv, mArgString, dest>>

(* The condition of the outer loop, behind the spaces.                     *)
ArgumentAhead == pc = "skip" /\ Char(scan) \notin White \cup {Nul} /\ dest < stop

Return == /\ pc = "skip"
          /\ Char(scan) = Nul \/ (Char(scan) \notin White /\ dest >= stop)
          /\ pc' = "done"
          /\ UNCHANGED <<line, scan, argv, mArgString, dest>>

EmptyQuotes == /\ ArgumentAhead
               /\ Char(scan) = Quote /\ Char(scan + 1) = Quote
               /\ argv' = Append(argv, EmptyString)
               /\ scan' = scan + 2
               /\ UNCHANGED <<line, pc, mArgString, dest>>

OpenQuote == /\ ArgumentAhead
             /\ Char(scan) = Quote /\ Char(scan + 1) # Quote
             /\ argv' = Append(argv, dest)
             /\ scan' = scan + 1
             /\ pc' = "quoted"
             /\ UNCHANGED <<line, mArgString, dest>>

CopyQuoted == /\ pc = "quoted"
              /\ Char(scan) \notin {Nul, Quote}
              /\ dest < stop
              /\ Put(Char(scan))
              /\ scan' = scan + 1
              /\ UNCHANGED <<line, pc, argv>>

(* Variant: the closing quote is not skipped and opens another argument.   *)
KeepQuote == /\ pc = "quoted"
             /\ Char(scan) \in {Nul, Quote} \/ dest >= stop
             /\ Put(Nul)
             /\ pc' = "skip"
             /\ UNCHANGED <<line, scan, argv>>

CloseQuote == /\ pc = "quoted"
              /\ Char(scan) \in {Nul, Quote} \/ dest >= stop
              /\ Put(Nul)
              /\ scan' = IF Char(scan) = Quote THEN scan + 1 ELSE scan
              /\ pc' = "skip"
              /\ UNCHANGED <<line, argv>>

OpenWord == /\ ArgumentAhead
            /\ Char(scan) # Quote
            /\ argv' = Append(argv, dest)
            /\ pc' = "word"
            /\ UNCHANGED <<line, scan, mArgString, dest>>

(* Variant: a quote ends a word, too.                                      *)
InWordToQuote == Char(scan) \notin White \cup {Nul, Quote} /\ dest < stop

InWord == Char(scan) \notin White \cup {Nul} /\ dest < stop

CopyWord == /\ pc = "word"
            /\ InWord
            /\ Put(Char(scan))
            /\ scan' = scan + 1
            /\ UNCHANGED <<line, pc, argv>>

EndWord == /\ pc = "word"
           /\ ~InWord
           /\ Put(Nul)
           /\ pc' = "skip"
           /\ UNCHANGED <<line, scan, argv>>

Step == \/ SkipSpace \/ Return \/ EmptyQuotes
        \/ OpenQuote \/ CopyQuoted \/ CloseQuote
        \/ OpenWord \/ CopyWord \/ EndWord

Done == pc = "done" /\ UNCHANGED vars

Next == Step \/ Done

Spec == Init /\ [][Next]_vars

-----------------------------------------------------------------------------
(* Neither array is overrun: argc is not compared with MAX_ARGS anywhere,  *)
(* it is the size of the console's buffer that bounds it.                  *)
TypeOK == /\ line \in Lines
          /\ scan \in 0..Len(line)
          /\ pc \in {"skip", "quoted", "word", "done"}
          /\ argv \in Seq({EmptyString} \cup 0..(MaxArgString - 1))
          /\ Len(argv) <= MaxArgs
          /\ mArgString \in [0..(MaxArgString - 1) -> Chars \cup {Nul, Junk}]
          /\ dest \in 0..MaxArgString

Smallest(S) == CHOOSE n \in S : \A m \in S : n <= m

(* The places behind this one where one of these characters is, or the     *)
(* end of the line.                                                        *)
NextOf(set, place) ==
    Smallest({n \in place..Len(line) : n = Len(line) \/ Char(n) \in set})

(* The text of the line from one place to before another.                  *)
Text(from, to) == SubSeq(line, from + 1, to)

(* What the arguments of the line are, with no limit on their text: a      *)
(* quote that begins an argument reaches to the next quote, and any other  *)
(* argument to the next white space.                                       *)
Arguments ==
    LET From[place \in Nat] ==
            IF place >= Len(line) THEN << >>
            ELSE IF Char(place) \in White THEN From[place + 1]
            ELSE IF Char(place) = Quote
            THEN LET end == NextOf({Quote}, place + 1)
                 IN  <<Text(place + 1, end)>> \o From[end + 1]
            ELSE LET end == NextOf(White, place)
                 IN  <<Text(place, end)>> \o From[end]
    IN  From[0]

(* What a reader of argv finds: the bytes up to the first zero byte.       *)
Zeros(place) == {n \in place..(MaxArgString - 1) : mArgString[n] = Nul}

Found(place) == IF place = EmptyString THEN << >>
                ELSE LET end == Smallest(Zeros(place))
                     IN  [i \in 1..(end - place) |-> mArgString[place + i - 1]]

IsPrefixOf(s, t) == Len(s) <= Len(t) /\ s = SubSeq(t, 1, Len(s))

(* The arguments that processCommand finds are those of the line, in order *)
(* and with their whole text; when mArgString is too small for all of it,  *)
(* only the end of the last argument and those that follow it are missing. *)
SplitExact ==
    pc = "done" =>
        /\ Len(argv) <= Len(Arguments)
        /\ \A i \in 1..(Len(argv) - 1) : Found(argv[i]) = Arguments[i]
        /\ argv # << >> => IsPrefixOf(Found(argv[Len(argv)]), Arguments[Len(argv)])
        /\ Len(line) < MaxArgString =>
              /\ Len(argv) = Len(Arguments)
              /\ argv # << >> => Found(argv[Len(argv)]) = Arguments[Len(argv)]
=============================================================================
