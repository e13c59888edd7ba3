--------------------------- MODULE ConsoleProofs ----------------------------
(***************************************************************************)
(* Proofs about Console: its invariants for every set of texts and every   *)
(* number of lines, and that each of its steps is a step of LinePipe.      *)
(***************************************************************************)
EXTENDS Console, TLAPS

(* Who holds the mutex is told by the control points.                      *)
MutexHeld == /\ mutexOwner = "main" <=> mainPc \in {"test", "enterWait", "take"}
             /\ ~inputFreed => (mutexOwner = "reader" <=> readerPc = "wakeSet")

(* The memory is given back at the very end of main.                       *)
FreedLate == inputFreed => mainPc \in {"freeWakeup", "return", "exited", "crashed"}

(* The reader is past its test of the flag only while the flag is down,    *)
(* and main is past its own only while it is up.                           *)
FlagHandsOver ==
    ~inputFreed =>
        /\ readerPc \in {"clear", "fgets", "wakeLock", "wakeSet", "notify", "publish"}
              => ~mHaveNewData
        /\ mainPc \in {"copy", "clearFlag"} => mHaveNewData

(* Main goes to wait only when it saw, under the mutex, that no work is    *)
(* pending.                                                                *)
WaitsIdle == mainPc = "enterWait" => ~mPendingWork

IInv == /\ TypeOK
        /\ MutexHeld
        /\ FreedLate
        /\ FlagHandsOver
        /\ FifoDelivery
        /\ WaitsIdle
        /\ NoLostWakeup

-----------------------------------------------------------------------------
(* The console starts with no line in either buffer and the mutex free.    *)
LEMMA InitIInv == Init => IInv
<1> SUFFICES ASSUME Init PROVE IInv
  OBVIOUS
<1>1. TypeOK
  <2>1. mainPc \in MainPcs /\ readerPc \in ReaderPcs
    BY DEF Init, MainPcs, ReaderPcs
  <2>2. accepted \in Seq(Lines) /\ processed \in Seq(Texts)
    BY DEF Init
  <2> QED
    BY <2>1, <2>2, Zenon DEF Init, TypeOK
<1>2. MutexHeld /\ FreedLate /\ FlagHandsOver /\ WaitsIdle /\ NoLostWakeup
  BY DEF Init, MutexHeld, FreedLate, FlagHandsOver, WaitsIdle, NoLostWakeup
<1>3. FifoDelivery
  BY DEF Init, FifoDelivery, InResult, InMailbox, One
<1> QED
  BY <1>1, <1>2, <1>3 DEF IInv

(* The control of both threads preserves the parts of the invariant that   *)
(* do not speak of the lines.                                              *)
LEMMA ControlStep ==
  ASSUME IInv, Next
  PROVE  (MutexHeld /\ FreedLate /\ FlagHandsOver /\ WaitsIdle /\ NoLostWakeup)'
<1> USE DEF IInv, TypeOK, MainPcs, ReaderPcs, MutexHeld, FreedLate, FlagHandsOver,
            WaitsIdle, NoLostWakeup, MainGoto, ReaderGoto, Finished,
            wakeVars, lineVars, history, vars
<1>1. CASE SleepLock \/ SleepTest \/ EnterWait \/ Relock \/ TakeWork
  BY <1>1 DEF SleepLock, SleepTest, EnterWait, Relock, TakeWork
<1>2. CASE Poll \/ CopyLine \/ ClearFlag \/ ProcessLine
  BY <1>2 DEF Poll, CopyLine, ClearFlag, ProcessLine
<1>3. CASE SetExit \/ FreeInput \/ FreeWakeup \/ Return
  BY <1>3 DEF SetExit, FreeInput, FreeWakeup, Return
<1>4. CASE CheckExit \/ CheckData \/ ClearBuffer
  BY <1>4 DEF CheckExit, CheckData, ClearBuffer
<1>5. CASE WakeLock \/ WakeSet
  BY <1>5 DEF WakeLock, WakeSet
<1>6. CASE Notify
  BY <1>6 DEF Notify
<1>7. CASE Publish
  BY <1>7 DEF Publish
<1>8. CASE Timeout \/ SpuriousWakeup
  BY <1>8 DEF Timeout, SpuriousWakeup, WaitEnds
<1>9. CASE ReadLine \/ ReadEmpty \/ ReadEof
  BY <1>9 DEF ReadLine, ReadEmpty, ReadEof
<1>10. CASE TouchFreed
  BY <1>10 DEF TouchFreed
<1>11. CASE Terminated
  BY <1>11 DEF Terminated
<1> QED
  BY <1>1, <1>2, <1>3, <1>4, <1>5, <1>6, <1>7, <1>8, <1>9, <1>10, <1>11
     DEF Next, MainStep, ReaderStep, Environment

(* StripNewline keeps what the line says, and a buffer a buffer.           *)
LEMMA StripKeepsText ==
  ASSUME NEW line \in Lines \cup {NoLine}
  PROVE  /\ StripNewline(line) \in Lines \cup {NoLine}
         /\ StripNewline(line).text = line.text
<1>1. StripNewline(line).text = line.text
  BY DEF StripNewline
<1>2. CASE line \in Lines
  <2>1. line.text \in Texts
    BY <1>2 DEF Lines
  <2> QED
    BY <1>1, <2>1, Zenon DEF StripNewline, Lines
<1>3. CASE line = NoLine
  <2>1. StripNewline(line) = NoLine
    BY <1>3, Zenon DEF StripNewline, NoLine
  <2> QED
    BY <1>1, <2>1
<1> QED
  BY <1>2, <1>3

(* No statement of either thread leaves the types.                         *)
LEMMA TypeStep ==
  ASSUME IInv, Next
  PROVE  TypeOK'
<1> USE DEF IInv, TypeOK, MainPcs, ReaderPcs, MainGoto, ReaderGoto,
            wakeVars, lineVars, history, vars
<1>1. CASE SleepLock \/ SleepTest \/ EnterWait \/ Relock \/ TakeWork
  BY <1>1 DEF SleepLock, SleepTest, EnterWait, Relock, TakeWork
<1>2. CASE Poll \/ ClearFlag
  BY <1>2 DEF Poll, ClearFlag
<1>3. CASE CopyLine
  BY <1>3, StripKeepsText DEF CopyLine
<1>4. CASE ProcessLine
  <2>1. InResult /\ ~inputFreed
    BY <1>4 DEF ProcessLine, FreedLate, InResult
  <2>2. Len(processed) + 1 \in 1..Len(accepted)
    BY <2>1 DEF FifoDelivery, One
  <2>3. accepted[Len(processed) + 1] \in Lines
    BY <2>2
  <2>4. mResultBuffer.text \in Texts
    BY <2>1, <2>3 DEF FifoDelivery, Lines
  <2> QED
    BY <1>4, <2>4 DEF ProcessLine
<1>5. CASE SetExit \/ FreeInput \/ FreeWakeup \/ Return
  BY <1>5, ZenonT(40) DEF SetExit, FreeInput, FreeWakeup, Return
<1>6. CASE ReaderStep
  BY <1>6, ZenonT(40) DEF ReaderStep, CheckExit, CheckData, ClearBuffer, WakeLock, WakeSet,
              Notify, Publish
<1>7. CASE Timeout \/ SpuriousWakeup
  BY <1>7 DEF Timeout, SpuriousWakeup, WaitEnds
<1>8. CASE ReadLine
  BY <1>8 DEF ReadLine
<1>9. CASE ReadEmpty \/ ReadEof \/ TouchFreed \/ Terminated
  BY <1>9 DEF ReadEmpty, ReadEof, TouchFreed, Terminated
<1> QED
  BY <1>1, <1>2, <1>3, <1>4, <1>5, <1>6, <1>7, <1>8, <1>9
     DEF Next, MainStep, Environment

-----------------------------------------------------------------------------
(* A step that keeps the histories, both buffers and both tests on the     *)
(* control points keeps the lines where they are.                          *)
LEMMA FifoUndisturbed ==
  ASSUME FifoDelivery, ~inputFreed' => ~inputFreed,
         InResult' = InResult, ~inputFreed' => InMailbox' = InMailbox,
         UNCHANGED <<mInputBuffer, mResultBuffer, history>>
  PROVE  FifoDelivery'
BY DEF FifoDelivery, history

(* No statement of either thread loses, repeats or reorders a line, as     *)
(* long as the reader stays off a full mailbox.                            *)
LEMMA FifoStep ==
  ASSUME IInv, Next
  PROVE  FifoDelivery'
<1> USE DEF MainGoto, ReaderGoto, wakeVars, lineVars, history
<1> DEFINE Undisturbed == /\ ~inputFreed' => ~inputFreed
                          /\ InResult' = InResult
                          /\ ~inputFreed' => InMailbox' = InMailbox
                          /\ UNCHANGED <<mInputBuffer, mResultBuffer, history>>
<1>1. CASE SleepLock \/ SleepTest \/ EnterWait \/ Relock \/ TakeWork \/ Poll
  <2>1. Undisturbed
    BY <1>1 DEF SleepLock, SleepTest, EnterWait, Relock, TakeWork, Poll, InResult, InMailbox
  <2> QED
    BY <2>1, FifoUndisturbed DEF IInv
<1>2. CASE CopyLine
  <2>1. ~inputFreed /\ mHaveNewData /\ ~InResult /\ InMailbox
    BY <1>2 DEF CopyLine, IInv, FreedLate, FlagHandsOver, InResult, InMailbox
  <2>2. InResult' /\ ~InMailbox'
    BY <1>2, <2>1 DEF CopyLine, IInv, FlagHandsOver, InResult, InMailbox
  <2>3. mResultBuffer'.text = mInputBuffer.text
    BY <1>2, StripKeepsText DEF CopyLine, IInv, TypeOK
  <2> QED
    BY <1>2, <2>1, <2>2, <2>3 DEF CopyLine, IInv, TypeOK, FifoDelivery, One
<1>3. CASE ClearFlag
  <2>1. ~inputFreed /\ InResult /\ InResult' /\ ~InMailbox /\ ~InMailbox'
    BY <1>3 DEF ClearFlag, IInv, FreedLate, FlagHandsOver, InResult, InMailbox
  <2> QED
    BY <1>3, <2>1 DEF ClearFlag, IInv, FifoDelivery, One
<1>4. CASE ProcessLine
  <2>1. ~inputFreed /\ InResult /\ ~InResult' /\ InMailbox' = InMailbox
    BY <1>4 DEF ProcessLine, IInv, FreedLate, InResult, InMailbox
  <2>2. /\ Len(processed') = Len(processed) + 1
        /\ \A i \in 1..Len(processed) : processed'[i] = processed[i]
        /\ processed'[Len(processed) + 1] = mResultBuffer.text
    BY <1>4 DEF ProcessLine, IInv, TypeOK
  <2> QED
    BY <1>4, <2>1, <2>2 DEF ProcessLine, IInv, TypeOK, FifoDelivery, One
<1>5. CASE SetExit \/ FreeInput \/ FreeWakeup \/ Return
  <2>1. Undisturbed
    BY <1>5 DEF SetExit, FreeInput, FreeWakeup, Return, IInv, FreedLate, InResult, InMailbox
  <2> QED
    BY <2>1, FifoUndisturbed DEF IInv
<1>6. CASE CheckExit \/ CheckData \/ WakeLock \/ WakeSet \/ Notify
  <2>1. Undisturbed
    BY <1>6 DEF CheckExit, CheckData, WakeLock, WakeSet, Notify, InResult, InMailbox
  <2> QED
    BY <2>1, FifoUndisturbed DEF IInv
<1>7. CASE ClearBuffer
  <2>1. ~InMailbox /\ ~InMailbox' /\ InResult' = InResult
    BY <1>7 DEF ClearBuffer, IInv, FlagHandsOver, InResult, InMailbox
  <2> QED
    BY <1>7, <2>1 DEF ClearBuffer, IInv, FifoDelivery, One
<1>8. CASE ReadLine
  <2>1. ~inputFreed /\ ~InMailbox /\ InMailbox' /\ InResult' = InResult
    BY <1>8 DEF ReadLine, IInv, FlagHandsOver, InResult, InMailbox
  <2>2. /\ Len(accepted') = Len(accepted) + 1
        /\ \A i \in 1..Len(accepted) : accepted'[i] = accepted[i]
        /\ accepted'[Len(accepted')] = mInputBuffer'
    BY <1>8 DEF ReadLine, IInv, TypeOK
  <2> QED
    BY <1>8, <2>1, <2>2 DEF ReadLine, IInv, TypeOK, FifoDelivery, One
<1>9. CASE ReadEmpty \/ ReadEof \/ Timeout \/ SpuriousWakeup \/ TouchFreed \/ Terminated
  <2>1. Undisturbed
    BY <1>9 DEF ReadEmpty, ReadEof, Timeout, SpuriousWakeup, WaitEnds, TouchFreed,
                Terminated, vars, IInv, FreedLate, FlagHandsOver, InResult, InMailbox
  <2> QED
    BY <2>1, FifoUndisturbed DEF IInv
<1>10. CASE Publish
  <2>1. Undisturbed
    BY <1>10 DEF Publish, IInv, FlagHandsOver, InResult, InMailbox
  <2> QED
    BY <2>1, FifoUndisturbed DEF IInv
<1> QED
  BY <1>1, <1>2, <1>3, <1>4, <1>5, <1>6, <1>7, <1>8, <1>9, <1>10
     DEF Next, MainStep, ReaderStep, Environment

-----------------------------------------------------------------------------
(* A stuttering step changes nothing the invariant speaks of.              *)
LEMMA StutterIInv == IInv /\ UNCHANGED vars => IInv'
<1> SUFFICES ASSUME IInv, UNCHANGED vars PROVE IInv'
  OBVIOUS
<1> USE DEF vars, wakeVars, lineVars, history
<1>1. TypeOK'
  BY DEF IInv, TypeOK
<1>2. (MutexHeld /\ FreedLate /\ FlagHandsOver /\ WaitsIdle /\ NoLostWakeup)'
  BY DEF IInv, MutexHeld, FreedLate, FlagHandsOver, WaitsIdle, NoLostWakeup
<1>3. FifoDelivery'
  BY FifoUndisturbed DEF IInv, InResult, InMailbox
<1> QED
  BY <1>1, <1>2, <1>3 DEF IInv

(* IInv holds in every reachable state of the console.                     *)
THEOREM Inductive == Spec => []IInv
<1>1. IInv /\ [Next]_vars => IInv'
  BY StutterIInv, TypeStep, ControlStep, FifoStep DEF IInv
<1> QED
  BY InitIInv, <1>1, PTL DEF Spec

(* The control points, flags, buffers and histories of InputLine.cpp and   *)
(* WakupThread.cpp keep to their types.                                    *)
THEOREM ConsoleTypes == Spec => []TypeOK
BY Inductive, PTL DEF IInv

(* Lines go through the buffers of InputLineImpl in order and exactly once,*)
(* however the two threads interleave and however many lines are typed.    *)
THEOREM ConsoleDelivers == Spec => []FifoDelivery
BY Inductive, PTL DEF IInv

(* The reader loop never writes mInputBuffer while getInputLine copies it: *)
(* the atomic flag alone gives the buffer to one thread at a time.         *)
THEOREM ConsoleExcludes == Spec => []BufferExclusion
<1>1. IInv => BufferExclusion
  BY DEF IInv, FlagHandsOver, FreedLate, BufferExclusion
<1> QED
  BY <1>1, Inductive, PTL

(* goToSleep never blocks on work that wakeup has announced already.       *)
THEOREM ConsoleWakes == Spec => []NoLostWakeup
BY Inductive, PTL DEF IInv

-----------------------------------------------------------------------------
(* Every step of the console is a step of the pipe, or none.               *)
LEMMA PipeStep == IInv /\ [Next]_vars => [Pipe!Next]_Pipe!vars
<1> SUFFICES ASSUME IInv, [Next]_vars PROVE [Pipe!Next]_Pipe!vars
  OBVIOUS
<1> USE DEF MainGoto, ReaderGoto, wakeVars, lineVars, history, vars, Over, Pipe!vars
<1>1. CASE SleepLock \/ SleepTest \/ EnterWait \/ Relock \/ TakeWork \/ Poll
           \/ CopyLine \/ ClearFlag
  BY <1>1 DEF SleepLock, SleepTest, EnterWait, Relock, TakeWork, Poll, CopyLine, ClearFlag
<1>2. CASE ProcessLine
  <2>1. InResult /\ ~inputFreed
    BY <1>2 DEF ProcessLine, IInv, FreedLate, InResult
  <2>2. /\ Len(processed) < Len(accepted)
        /\ mResultBuffer.text = accepted[Len(processed) + 1].text
    BY <2>1 DEF IInv, TypeOK, FifoDelivery, One
  <2>3. ~Over /\ Over' = (mResultBuffer.text = Bye)
    BY <1>2 DEF ProcessLine
  <2> QED
    BY <1>2, <2>2, <2>3 DEF ProcessLine, Pipe!Next, Pipe!Process
<1>3. CASE SetExit \/ FreeInput \/ FreeWakeup \/ Return
  BY <1>3 DEF SetExit, FreeInput, FreeWakeup, Return
<1>4. CASE ReaderStep
  BY <1>4 DEF ReaderStep, CheckExit, CheckData, ClearBuffer, WakeLock, WakeSet, Notify, Publish
<1>5. CASE ReadLine
  <2>1. ~inputFreed /\ ~InMailbox
    BY <1>5 DEF ReadLine, IInv, FlagHandsOver, InMailbox
  <2>2. Len(accepted) < Len(processed) + 2
    BY <2>1 DEF IInv, TypeOK, FifoDelivery, One
  <2> QED
    BY <1>5, <2>2 DEF ReadLine, Pipe!Next, Pipe!Accept, Lines, Pipe!Lines
<1>6. CASE ReadEmpty \/ ReadEof \/ Timeout \/ SpuriousWakeup \/ Terminated
  BY <1>6 DEF ReadEmpty, ReadEof, Timeout, SpuriousWakeup, WaitEnds, Terminated
<1>7. CASE TouchFreed
  BY <1>7 DEF TouchFreed, IInv, FreedLate
<1>8. CASE UNCHANGED vars
  BY <1>8
<1> QED
  BY <1>1, <1>2, <1>3, <1>4, <1>5, <1>6, <1>7, <1>8 DEF Next, MainStep, Environment

(* The console does only what the pipe allows: lines are executed in the   *)
(* order they were read, at most two wait, none after the exit command.    *)
THEOREM ConsoleRefinesPipe == Spec => Pipe!SafeSpec
<1>1. Init => Pipe!Init
  BY DEF Init, Pipe!Init, Over
<1> QED
  BY <1>1, PipeStep, Inductive, PTL DEF Spec, Pipe!SafeSpec
=============================================================================
