------------------------------ MODULE Console -------------------------------
(***************************************************************************)
(* The interactive front end of bitcoinstats: the main loop of             *)
(* src/app/main.cpp, the reader thread of src/src/InputLine.cpp and the    *)
(* sleep/wake-up object of src/src/WakupThread.cpp that joins them.        *)
(*                                                                         *)
(* Two threads share                                                       *)
(*   - the one-line mailbox mInputBuffer, guarded by the atomic flag       *)
(*     mHaveNewData only (InputLineImpl::mMutex is taken by one thread);   *)
(*   - the flag mPendingWork, guarded by mPendingWorkMutex, on which the   *)
(*     main thread waits with a timeout.                                   *)
(* A program counter per thread names the next statement.  What a line     *)
(* says is a member of Texts; Bye stands for the lines on which            *)
(* CommandsImpl::processInput returns true.                                *)
(***************************************************************************)
EXTENDS Naturals, Sequences

CONSTANTS Texts, Bye,
          MaxLines  \* bound: how many lines the person types

ASSUME ConsoleAssumption == Bye \in Texts /\ MaxLines \in Nat

Lines == [text : Texts, newline : BOOLEAN]

NoLine == [text |-> "none", newline |-> FALSE]  \* a buffer with no line in it

VARIABLES
    mainPc, readerPc,             \* the next statement of each thread
    mutexOwner,                   \* who holds mPendingWorkMutex
    mPendingWork, waitStatus,     \* WakeupThreadImpl, goToSleep
    mHaveNewData, mExit,          \* InputLineImpl, both std::atomic
    mInputBuffer, mResultBuffer,  \* InputLineImpl
    inputFreed,                   \* the InputLineImpl object was deleted
    accepted, processed           \* history: lines read, lines executed

wakeVars == <<mutexOwner, mPendingWork>>
lineVars == <<mHaveNewData, mExit, mInputBuffer, mResultBuffer, inputFreed>>
history  == <<accepted, processed>>
vars == <<mainPc, readerPc, waitStatus, wakeVars, lineVars, history>>

MainPcs == {"lock", "test", "enterWait", "wait", "relock", "take", "poll",
            "copy", "clearFlag", "process", "setExit", "freeInput",
            "freeWakeup", "return", "exited", "crashed"}

ReaderPcs == {"checkExit", "checkData", "clear", "fgets", "wakeLock",
              "wakeSet", "notify", "publish", "stopped"}

Init == /\ mainPc = "lock"
        /\ readerPc = "checkExit"
        /\ mutexOwner = "none"
        /\ mPendingWork = TRUE
        /\ waitStatus = "no_timeout"
        /\ mHaveNewData = FALSE
        /\ mExit = FALSE
        /\ mInputBuffer = NoLine
        /\ mResultBuffer = NoLine
        /\ inputFreed = FALSE
        /\ accepted = << >>
        /\ processed = << >>

Finished == mainPc \in {"exited", "crashed"}

-----------------------------------------------------------------------------
(* The main thread: WakeupThread::goToSleep.                               *)

MainGoto(from, to) == mainPc = from /\ mainPc' = to

(* std::unique_lock, and the local waitStatus.                             *)
SleepLock == /\ MainGoto("lock", "test")
             /\ mutexOwner = "none"
             /\ mutexOwner' = "main"
             /\ waitStatus' = "no_timeout"
             /\ UNCHANGED <<readerPc, mPendingWork, lineVars, history>>

(* The condition of the while loop, evaluated with the mutex held.         *)
SleepTest == /\ mainPc = "test"
             /\ mainPc' = IF ~mPendingWork /\ waitStatus = "no_timeout"
                          THEN "enterWait" ELSE "take"
             /\ UNCHANGED <<readerPc, waitStatus, wakeVars, lineVars, history>>

(* wait_for gives up the mutex and blocks, in one step.                    *)
EnterWait == /\ MainGoto("enterWait", "wait")
             /\ mutexOwner' = "none"
             /\ UNCHANGED <<readerPc, waitStatus, mPendingWork, lineVars, history>>

WaitEnds(status) == /\ MainGoto("wait", "relock")
                    /\ waitStatus' = status
                    /\ UNCHANGED <<readerPc, wakeVars, lineVars, history>>

(* Variant: the wait has no deadline.                                      *)
NoTimeout == FALSE /\ WaitEnds("timeout")

Timeout == WaitEnds("timeout")

SpuriousWakeup == WaitEnds("no_timeout")

(* wait_for takes the mutex again before it returns.                       *)
Relock == /\ MainGoto("relock", "test")
          /\ mutexOwner = "none"
          /\ mutexOwner' = "main"
          /\ UNCHANGED <<readerPc, waitStatus, mPendingWork, lineVars, history>>

(* The flag is consumed and the mutex released on return.                  *)
TakeWork == /\ MainGoto("take", "poll")
            /\ mPendingWork' = FALSE
            /\ mutexOwner' = "none"
            /\ UNCHANGED <<readerPc, waitStatus, lineVars, history>>

-----------------------------------------------------------------------------
(* The main thread: InputLine::getInputLine and the loop of main.          *)

(* Variant: the flag is taken down when it is read, before the copy.       *)
PollExchange == /\ mainPc = "poll"
                /\ mainPc' = IF mHaveNewData THEN "copy" ELSE "lock"
                /\ mHaveNewData' = FALSE
                /\ UNCHANGED <<readerPc, waitStatus, wakeVars, mExit, mInputBuffer,
                               mResultBuffer, inputFreed, history>>

(* No line: getInputLine returns nullptr and main goes back to sleep.      *)
Poll == /\ mainPc = "poll"
        /\ mainPc' = IF mHaveNewData THEN "copy" ELSE "lock"
        /\ UNCHANGED <<readerPc, waitStatus, wakeVars, lineVars, history>>

(* The copy handed to the interpreter has lost its end of line.            *)
StripNewline(line) == [text |-> line.text, newline |-> FALSE]

CopyLine == /\ MainGoto("copy", "clearFlag")
            /\ mResultBuffer' = StripNewline(mInputBuffer)
            /\ UNCHANGED <<readerPc, waitStatus, wakeVars, mHaveNewData, mExit,
                           mInputBuffer, inputFreed, history>>

(* Variant: the flag stays up after the copy.                              *)
KeepFlag == /\ MainGoto("clearFlag", "process")
            /\ UNCHANGED <<readerPc, waitStatus, wakeVars, lineVars, history>>

ClearFlag == /\ MainGoto("clearFlag", "process")
             /\ mHaveNewData' = FALSE
             /\ UNCHANGED <<readerPc, waitStatus, wakeVars, mExit, mInputBuffer,
                            mResultBuffer, inputFreed, history>>

ProcessLine == /\ mainPc = "process"
               /\ mainPc' = IF mResultBuffer.text = Bye THEN "setExit" ELSE "lock"
               /\ processed' = Append(processed, mResultBuffer.text)
               /\ UNCHANGED <<readerPc, waitStatus, wakeVars, lineVars, accepted>>

(* il->release(): the destructor sets mExit and detaches the reader, which *)
(* it does not wait for; then the memory is given back.                    *)
SetExit == /\ MainGoto("setExit", "freeInput")
           /\ mExit' = TRUE
           /\ UNCHANGED <<readerPc, waitStatus, wakeVars, mHaveNewData,
                          mInputBuffer, mResultBuffer, inputFreed, history>>

(* Variant: the destructor joins the reader instead of detaching it.       *)
JoinReader == /\ MainGoto("freeInput", "freeWakeup")
              /\ readerPc = "stopped"
              /\ inputFreed' = TRUE
              /\ UNCHANGED <<readerPc, waitStatus, wakeVars, mHaveNewData, mExit,
                             mInputBuffer, mResultBuffer, history>>

FreeInput == /\ MainGoto("freeInput", "freeWakeup")
             /\ inputFreed' = TRUE
             /\ UNCHANGED <<readerPc, waitStatus, wakeVars, mHaveNewData, mExit,
                            mInputBuffer, mResultBuffer, history>>

(* wt->release(), then the end of main, which ends both threads.           *)
FreeWakeup == /\ MainGoto("freeWakeup", "return")
              /\ UNCHANGED <<readerPc, waitStatus, wakeVars, lineVars, history>>

Return == /\ MainGoto("return", "exited")
          /\ UNCHANGED <<readerPc, waitStatus, wakeVars, lineVars, history>>

-----------------------------------------------------------------------------
(* The reader thread, as long as its object exists.                        *)

ReaderGoto(from, to) == /\ ~Finished
                        /\ ~inputFreed
                        /\ readerPc = from
                        /\ readerPc' = to

CheckExit == /\ \E to \in {"checkData", "stopped"} :
                    /\ ReaderGoto("checkExit", to)
                    /\ mExit <=> to = "stopped"
             /\ UNCHANGED <<mainPc, waitStatus, wakeVars, lineVars, history>>

(* Variant: the reader does not wait for the mailbox to be empty.          *)
IgnoreFlag == /\ ReaderGoto("checkData", "clear")
              /\ UNCHANGED <<mainPc, waitStatus, wakeVars, lineVars, history>>

(* The mailbox is full: sleep, and look again.                             *)
CheckData == /\ \E to \in {"clear", "checkExit"} :
                    /\ ReaderGoto("checkData", to)
                    /\ mHaveNewData <=> to = "checkExit"
             /\ UNCHANGED <<mainPc, waitStatus, wakeVars, lineVars, history>>

ClearBuffer == /\ ReaderGoto("clear", "fgets")
               /\ mInputBuffer' = NoLine
               /\ UNCHANGED <<mainPc, waitStatus, wakeVars, mHaveNewData, mExit,
                              mResultBuffer, inputFreed, history>>

(* fgets returns a line of non-zero strlen ...                             *)
ReadLine == /\ ReaderGoto("fgets", "wakeLock")
            /\ Len(accepted) < MaxLines
            /\ \E line \in Lines : /\ mInputBuffer' = line
                                   /\ accepted' = Append(accepted, line)
            /\ UNCHANGED <<mainPc, waitStatus, wakeVars, mHaveNewData, mExit,
                           mResultBuffer, inputFreed, processed>>

(* Variant: the length of the line is not looked at.                       *)
AcceptEmpty == /\ ReaderGoto("fgets", "wakeLock")
               /\ Len(accepted) < MaxLines
               /\ accepted' = Append(accepted, NoLine)
               /\ UNCHANGED <<mainPc, waitStatus, wakeVars, lineVars, processed>>

(* ... or one that starts with a zero byte, which is dropped ...           *)
ReadEmpty == /\ ReaderGoto("fgets", "checkExit")
             /\ UNCHANGED <<mainPc, waitStatus, wakeVars, lineVars, history>>

(* ... or reports the end of the input, and the thread ends.               *)
ReadEof == /\ ReaderGoto("fgets", "stopped")
           /\ UNCHANGED <<mainPc, waitStatus, wakeVars, lineVars, history>>

(* Variant: the flag is set without the mutex.                             *)
SetUnlocked == /\ ReaderGoto("wakeLock", "notify")
               /\ mPendingWork' = TRUE
               /\ UNCHANGED <<mainPc, waitStatus, mutexOwner, lineVars, history>>

(* WakeupThread::wakeup.                                                   *)
WakeLock == /\ ReaderGoto("wakeLock", "wakeSet")
            /\ mutexOwner = "none"
            /\ mutexOwner' = "reader"
            /\ UNCHANGED <<mainPc, waitStatus, mPendingWork, lineVars, history>>

WakeSet == /\ ReaderGoto("wakeSet", "notify")
           /\ mPendingWork' = TRUE
           /\ mutexOwner' = "none"
           /\ UNCHANGED <<mainPc, waitStatus, lineVars, history>>

(* notify_one; a wait that is notified at its deadline may report either   *)
(* status.                                                                 *)
Notify == /\ ReaderGoto("notify", "publish")
          /\ IF mainPc = "wait"
             THEN /\ mainPc' = "relock"
                  /\ waitStatus' \in {"no_timeout", "timeout"}
             ELSE UNCHANGED <<mainPc, waitStatus>>
          /\ UNCHANGED <<wakeVars, lineVars, history>>

(* Only now, after the wake-up, is the line visible to getInputLine.       *)
Publish == /\ ReaderGoto("publish", "checkExit")
           /\ mHaveNewData' = TRUE
           /\ UNCHANGED <<mainPc, waitStatus, wakeVars, mExit, mInputBuffer,
                          mResultBuffer, inputFreed, history>>

(* A reader that outlives its object reads and writes freed memory: the    *)
(* process dies, or the thread goes on at any statement.                   *)
TouchFreed == /\ inputFreed
              /\ ~Finished
              /\ readerPc # "stopped"
              /\ \/ mainPc' = "crashed" /\ UNCHANGED readerPc
                 \/ readerPc' \in ReaderPcs /\ UNCHANGED mainPc
              /\ UNCHANGED <<waitStatus, wakeVars, lineVars, history>>

-----------------------------------------------------------------------------
MainStep == \/ SleepLock \/ SleepTest \/ EnterWait \/ Relock \/ TakeWork
            \/ Poll \/ CopyLine \/ ClearFlag \/ ProcessLine
            \/ SetExit \/ FreeInput \/ FreeWakeup \/ Return

(* The reader's own statements; what fgets does is up to the environment.  *)
ReaderStep == \/ CheckExit \/ CheckData \/ ClearBuffer
              \/ WakeLock \/ WakeSet \/ Notify \/ Publish

Environment == ReadLine \/ ReadEmpty \/ ReadEof \/ SpuriousWakeup \/ TouchFreed

Terminated == Finished /\ UNCHANGED vars

Next == MainStep \/ ReaderStep \/ Timeout \/ Environment \/ Terminated

(* Each thread is scheduled.  A mutex that is free again and again is      *)
(* obtained, and spurious wake-ups do not for ever come before the         *)
(* timeout, which wait_for restarts after each of them.                    *)
Fairness == /\ WF_vars(MainStep)
            /\ WF_vars(ReaderStep)
            /\ SF_vars(WakeLock)
            /\ SF_vars(Timeout)

Spec == Init /\ [][Next]_vars /\ Fairness

-----------------------------------------------------------------------------
(* The control points of both threads, the owner of the mutex, the flags   *)
(* and the buffers have the values their declarations in InputLine.cpp and *)
(* WakupThread.cpp allow, and the histories are sequences of what was read.*)
TypeOK == /\ mainPc \in MainPcs
          /\ readerPc \in ReaderPcs
          /\ mutexOwner \in {"none", "main", "reader"}
          /\ mPendingWork \in BOOLEAN
          /\ waitStatus \in {"no_timeout", "timeout"}
          /\ mHaveNewData \in BOOLEAN
          /\ mExit \in BOOLEAN
          /\ mInputBuffer \in Lines \cup {NoLine}
          /\ mResultBuffer \in Lines \cup {NoLine}
          /\ inputFreed \in BOOLEAN
          /\ accepted \in Seq(Lines)
          /\ processed \in Seq(Texts)

(* The reader never writes mInputBuffer (the store and the fgets of the    *)
(* reader loop) while getInputLine copies it, although the mutex that      *)
(* getInputLine takes is one the reader never takes.                       *)
BufferExclusion == ~(readerPc \in {"clear", "fgets"} /\ mainPc \in {"copy", "clearFlag"})

(* The line in the mailbox, from fgets until the flag is taken down.       *)
InMailbox == /\ ~inputFreed
             /\ \/ readerPc \in {"wakeLock", "wakeSet", "notify", "publish"}
                \/ mHaveNewData /\ mainPc # "clearFlag"

(* The line handed to the interpreter and not executed yet.                *)
InResult == mainPc \in {"clearFlag", "process"}

One(condition) == IF condition THEN 1 ELSE 0

(* No line is lost, repeated, torn or overtaken on its way through the two *)
(* buffers of InputLineImpl: what was executed, then the line in the       *)
(* result buffer, then the line in the mailbox, is exactly what was read.  *)
FifoDelivery ==
    ~inputFreed =>
        /\ Len(accepted) = Len(processed) + One(InResult) + One(InMailbox)
        /\ \A i \in 1..Len(processed) : processed[i] = accepted[i].text
        /\ InResult => mResultBuffer.text = accepted[Len(processed) + 1].text
        /\ InMailbox => mInputBuffer = accepted[Len(accepted)]

(* wakeup sets the flag under the mutex and notifies after it, so the main *)
(* thread is never blocked in wait_for with work pending and nobody about  *)
(* to notify it.                                                           *)
NoLostWakeup == mainPc = "wait" /\ mPendingWork => readerPc = "notify"

(* Every line read is executed, or the program ends first.  The wake-up is *)
(* sent before the line is published, so this rests on the timeout.        *)
EveryLineProcessed ==
    \A n \in 1..MaxLines : Len(accepted) >= n ~> Len(processed) >= n \/ Finished

(* Once the exit command is read the program ends, whatever the reader is  *)
(* doing, even when it blocks in fgets for ever.                           *)
ByeEnds == (\E i \in DOMAIN accepted : accepted[i].text = Bye) ~> Finished

(* The exit command was executed: main left its loop.                      *)
Over == mainPc \in {"setExit", "freeInput", "freeWakeup", "return", "exited", "crashed"}

Pipe == INSTANCE LinePipe WITH over <- Over

(* The console implements the in-order pipe LinePipe, its promise that     *)
(* every line read before the exit command is executed included.           *)
ImplementsPipe == Pipe!Spec
=============================================================================
