------------------------------ MODULE LinePipe ------------------------------
(***************************************************************************)
(* What the console promises to the person typing: an in-order pipe from   *)
(* standard input to the command interpreter.  A line that was read is     *)
(* executed once, after the lines read before it and before the lines read *)
(* after it, until a line is the exit command.  At most two lines are ever *)
(* read and not yet executed: src/src/InputLine.cpp has one input buffer   *)
(* and one result buffer.                                                  *)
(***************************************************************************)
EXTENDS Naturals, Sequences

CONSTANTS Texts,    \* what a line may say, without its end of line
          Bye       \* the text that ends the program

Lines == [text : Texts, newline : BOOLEAN]

VARIABLES accepted,     \* the lines read from standard input so far
          processed,    \* the texts executed so far
          over          \* the exit command was executed

vars == <<accepted, processed, over>>

Init == /\ accepted = << >>
        /\ processed = << >>
        /\ over = FALSE

Accept == /\ Len(accepted) < Len(processed) + 2
          /\ \E line \in Lines : accepted' = Append(accepted, line)
          /\ UNCHANGED <<processed, over>>

Process == /\ ~over
           /\ Len(processed) < Len(accepted)
           /\ LET text == accepted[Len(processed) + 1].text
              IN  /\ processed' = Append(processed, text)
                  /\ over' = (text = Bye)
           /\ UNCHANGED accepted

Next == Accept \/ Process

SafeSpec == Init /\ [][Next]_vars

(* Every line read is executed, unless the program is told to end first.   *)
Spec == SafeSpec /\ WF_vars(Process)
=============================================================================
