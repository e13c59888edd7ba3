---------------------------- MODULE BlockReader -----------------------------
(***************************************************************************)
(* The part of src/src/BlockChain.cpp behind the block headers: readBlock  *)
(* reads the block at an index of mBlockChainHeaders and parses it, then   *)
(* processTransactions records where each transaction lies in the files    *)
(* and looks up the transactions its inputs spend; printBlock reads the    *)
(* spent transactions again from the recorded places.                      *)
(*                                                                         *)
(* The headers are the chain that BlockScan builds; blocks count from 0.   *)
(* A transaction is its hash, the hashes its inputs name, the length that  *)
(* the readers of the stream consume, and what the parser notices: odd, a  *)
(* warning is logged while it is parsed; segwit, a zero stands where the   *)
(* number of inputs is expected; huge, it reaches the limit on inputs, on  *)
(* outputs or on the script of an input.  (That on the script of an output *)
(* stands behind a test that takes every such script, and never applies.)  *)
(***************************************************************************)
EXTENDS Integers, Sequences, FiniteSets

CONSTANTS
    Hashes,       \* of transactions and of blocks
    NoHash,       \* the null pointer; also what a coinbase input names
    Garbage,      \* an address outside the array of headers
    Chains,       \* the chains that may be on disk
    PrefixLength, \* of the block prefix and the number of transactions
    MAX_BLOCK_TRANSACTION,
    WordSize,     \* 2^32: the number of values of a uint32_t
    MaxCalls      \* bound: the calls of readBlock and printBlock

Transactions == [hash : Hashes, inputs : Seq(Hashes \cup {NoHash}), length : Nat \ {0},
                 odd : BOOLEAN, segwit : BOOLEAN, huge : BOOLEAN]

(* whole: the file holds the block to its end.                             *)
Blocks == [hash : Hashes, prev : Hashes \cup {NoHash}, file : Nat, offset : Nat,
           transactions : Seq(Transactions), whole : BOOLEAN]

ASSUME ReaderAssumption ==
    /\ NoHash \notin Hashes /\ Garbage \notin Hashes \cup {NoHash}
    /\ MAX_BLOCK_TRANSACTION \in Nat /\ PrefixLength \in Nat /\ MaxCalls \in Nat /\ WordSize \in Nat \ {0}
    /\ \A chain \in Chains : /\ chain \in Seq(Blocks)
                             /\ Len(chain) \in 1..(WordSize - 1)
                             /\ \A n \in 2..Len(chain) : chain[n].prev = chain[n - 1].hash

VARIABLES
    chain,                \* mBlockChainHeaders and what they point to
    phase,                \* the loop that is being executed
    block,                \* mSingleReadBlock
    txNo,                 \* the next transaction of the loop
    mBlockRead,           \* the position in the block
    gIsWarning,
    mTransactionCount,    \* the next transaction index
    mTransactionSet,      \* the FileLocation of each hash
    mTotalTransactionCount, mTotalInputCount,
    returned,             \* readBlock returned a block
    reads, succeeded,     \* history: the blocks asked for, those returned
    calls

totals == <<mTotalTransactionCount, mTotalInputCount>>
parsing == <<mBlockRead, mTransactionCount>>
history == <<reads, succeeded, calls>>
vars == <<chain, phase, block, txNo, parsing, gIsWarning, mTransactionSet, totals,
          returned, history>>

mBlockCount == Len(chain)
Block(n) == chain[n + 1]
Header == Block(block.blockIndex)

NewBlock == [blockIndex |-> 0, nextBlockHash |-> NoHash, warning |-> FALSE,
             transactions |-> << >>]

Init == /\ chain \in Chains
        /\ phase = "idle"
        /\ block = NewBlock
        /\ txNo = 1
        /\ mBlockRead = 0
        /\ gIsWarning = FALSE
        /\ mTransactionCount = 0
        /\ mTransactionSet = [h \in {} |-> h]
        /\ mTotalTransactionCount = 0
        /\ mTotalInputCount = 0
        /\ returned = FALSE
        /\ reads = << >>
        /\ succeeded = {}
        /\ calls = 0

-----------------------------------------------------------------------------
(* readBlock up to processBlockData.                                       *)

Call == phase = "idle" /\ calls < MaxCalls /\ calls' = calls + 1

ReadOutOfRange ==
    /\ Call
    /\ returned' = FALSE
    /\ UNCHANGED <<chain, phase, block, txNo, parsing, gIsWarning, mTransactionSet, totals,
                   reads, succeeded>>

(* Variant: the last block but one counts as having two blocks behind it.  *)
NextHashTooFar(n) ==
    IF n >= (mBlockCount - 1) % WordSize THEN block.nextBlockHash
    ELSE IF n + 2 < mBlockCount THEN Block(n + 2).prev
    ELSE Garbage

(* The parent of the block after the next, when there is one; otherwise    *)
(* what the last call left.  With a single block the subtraction wraps,    *)
(* and the address lies outside the array.                                 *)
NextHash(n) ==
    IF n >= (mBlockCount - 2) % WordSize THEN block.nextBlockHash
    ELSE IF n + 2 < mBlockCount THEN Block(n + 2).prev
    ELSE Garbage

(* processBlockData has read the prefix and the number of transactions.    *)
TooMany(n) == Len(Block(n).transactions) >= MAX_BLOCK_TRANSACTION

ReadStart(n) ==
    /\ Call
    /\ Block(n).whole
    /\ ~TooMany(n)
    /\ phase' = "parse"
    /\ block' = [blockIndex |-> n, nextBlockHash |-> NextHash(n), warning |-> FALSE,
                 transactions |-> << >>]
    /\ txNo' = 1
    /\ mBlockRead' = PrefixLength
    /\ reads' = Append(reads, n)
    /\ UNCHANGED <<chain, mTransactionCount, gIsWarning, mTransactionSet, totals, returned,
                   succeeded>>

(* "BlockChain corrupted." or too many transactions: exit(1).              *)
ReadCorrupted(n) ==
    /\ Call
    /\ ~Block(n).whole \/ TooMany(n)
    /\ phase' = "exited"
    /\ reads' = Append(reads, n)
    /\ UNCHANGED <<chain, block, txNo, parsing, gIsWarning, mTransactionSet, totals, returned,
                   succeeded>>

(* Variant: the warning is cleared before it is handed over.               *)
ClearedWarning == FALSE

Warning == gIsWarning

(* The last lines of readBlock.                                            *)
Finish(result) ==
    /\ phase' = "idle"
    /\ block' = [block EXCEPT !.warning = Warning]
    /\ gIsWarning' = FALSE
    /\ returned' = result
    /\ succeeded' = IF result THEN succeeded \cup {block.blockIndex} ELSE succeeded

-----------------------------------------------------------------------------
(* processBlockData: one transaction after the other.                      *)

InLoop(loop) == phase = loop /\ txNo <= Len(Header.transactions)
LoopEnds(loop) == phase = loop /\ txNo > Len(Header.transactions)

(* Variant: the place is counted from the start of the block.              *)
OffsetInBlock == mBlockRead

FileOffset == Header.offset + mBlockRead

(* The fields of BlockTransaction that tell where it is.                   *)
Location(tx) == [file |-> Header.file, offset |-> FileOffset, length |-> tx.length,
                 index |-> mTransactionCount]

(* Where the readers have come to behind a transaction.                    *)
After(tx) == mBlockRead + tx.length

ParseTransaction ==
    /\ InLoop("parse")
    /\ LET tx == Header.transactions[txNo]
       IN  /\ ~tx.segwit /\ ~tx.huge
           /\ block' = [block EXCEPT !.transactions =
                            Append(@, [hash |-> tx.hash, location |-> Location(tx)])]
           /\ mBlockRead' = After(tx)
           /\ gIsWarning' = (gIsWarning \/ tx.odd)
    /\ mTransactionCount' = mTransactionCount + 1
    /\ txNo' = txNo + 1
    /\ UNCHANGED <<chain, phase, mTransactionSet, totals, returned, history>>

(* No inputs: readTransaction returns false, and so does readBlock.        *)
ParseFails ==
    /\ InLoop("parse")
    /\ Header.transactions[txNo].segwit /\ ~Header.transactions[txNo].huge
    /\ Finish(FALSE)
    /\ UNCHANGED <<chain, txNo, parsing, mTransactionSet, totals, reads, calls>>

(* readTransaction or readInput meets a limit: exit(1).                    *)
ParseExits ==
    /\ InLoop("parse")
    /\ Header.transactions[txNo].huge
    /\ phase' = "exited"
    /\ UNCHANGED <<chain, block, txNo, parsing, gIsWarning, mTransactionSet, totals, returned,
                   history>>

-----------------------------------------------------------------------------
(* processTransactions.                                                    *)

StartRecord ==
    /\ LoopEnds("parse")
    /\ phase' = "record"
    /\ txNo' = 1
    /\ mTotalTransactionCount' = mTotalTransactionCount + Len(block.transactions)
    /\ UNCHANGED <<chain, block, parsing, gIsWarning, mTransactionSet, mTotalInputCount,
                   returned, history>>

(* Variant: a duplicate takes the place of the location that is known.     *)
InsertOver(t) == [h \in DOMAIN mTransactionSet \cup {t.hash} |->
                     IF h = t.hash THEN t.location ELSE mTransactionSet[h]]

(* A duplicate of a recorded transaction is left out.                      *)
Insert(t) == [h \in DOMAIN mTransactionSet \cup {t.hash} |->
                 IF h \in DOMAIN mTransactionSet THEN mTransactionSet[h] ELSE t.location]

(* Variant: the coinbase, which has nothing to spend, is not recorded.     *)
RecordSpenders ==
    /\ InLoop("record")
    /\ mTransactionSet' = IF txNo = 1 THEN mTransactionSet
                                      ELSE Insert(block.transactions[txNo])
    /\ txNo' = txNo + 1
    /\ UNCHANGED <<chain, phase, block, parsing, gIsWarning, totals, returned, history>>

RecordTransaction ==
    /\ InLoop("record")
    /\ mTransactionSet' = Insert(block.transactions[txNo])
    /\ txNo' = txNo + 1
    /\ UNCHANGED <<chain, phase, block, parsing, gIsWarning, totals, returned, history>>

StartCheck ==
    /\ LoopEnds("record")
    /\ phase' = "check"
    /\ txNo' = 1
    /\ UNCHANGED <<chain, block, parsing, gIsWarning, mTransactionSet, totals, returned,
                   history>>

(* Variant: the input of a coinbase is looked up as well.                  *)
AllInputs(tx) == {tx.inputs[j] : j \in DOMAIN tx.inputs}

Spent(tx) == {tx.inputs[j] : j \in DOMAIN tx.inputs} \ {NoHash}

(* Variant: the inputs are counted, and nothing is looked up.              *)
CountInputs ==
    /\ InLoop("check")
    /\ mTotalInputCount' = mTotalInputCount + Len(Header.transactions[txNo].inputs)
    /\ txNo' = txNo + 1
    /\ UNCHANGED <<chain, phase, block, parsing, gIsWarning, mTransactionSet,
                   mTotalTransactionCount, returned, history>>

CheckInputs ==
    /\ InLoop("check")
    /\ LET tx == Header.transactions[txNo]
       IN  /\ Spent(tx) \subseteq DOMAIN mTransactionSet
           /\ mTotalInputCount' = mTotalInputCount + Len(tx.inputs)
    /\ txNo' = txNo + 1
    /\ UNCHANGED <<chain, phase, block, parsing, gIsWarning, mTransactionSet,
                   mTotalTransactionCount, returned, history>>

(* "Failed to find transaction!": exit(1).                                 *)
CheckExits ==
    /\ InLoop("check")
    /\ ~(Spent(Header.transactions[txNo]) \subseteq DOMAIN mTransactionSet)
    /\ phase' = "exited"
    /\ UNCHANGED <<chain, block, txNo, parsing, gIsWarning, mTransactionSet, totals, returned,
                   history>>

CheckDone ==
    /\ LoopEnds("check")
    /\ Finish(TRUE)
    /\ UNCHANGED <<chain, txNo, parsing, mTransactionSet, totals, reads, calls>>

-----------------------------------------------------------------------------
(* printBlock on the block that readBlock returned.                        *)

(* Where the transactions of a block start.                                *)
Starts(b) ==
    LET Start[i \in 1..(Len(b.transactions) + 1)] ==
            IF i = 1 THEN b.offset + PrefixLength
                     ELSE Start[i - 1] + b.transactions[i - 1].length
    IN  Start

(* The transaction that fills exactly this part of a file.                 *)
TransactionsAt(location) ==
    UNION {{b.transactions[i] : i \in {i \in DOMAIN b.transactions :
                                         /\ b.file = location.file
                                         /\ Starts(b)[i] = location.offset
                                         /\ b.transactions[i].length = location.length}} :
              b \in {chain[n] : n \in 1..mBlockCount}}

(* readSingleTransaction parses what an input spends, warnings included.   *)
SpentLocations == {mTransactionSet[h] : h \in UNION {Spent(Header.transactions[i]) :
                                                      i \in DOMAIN Header.transactions}}

(* processTransactionData sets the same flag as a block does.              *)
Warns(location) == \E tx \in TransactionsAt(location) : tx.odd

PrintBlock ==
    /\ Call
    /\ returned
    /\ gIsWarning' = (gIsWarning \/ \E location \in SpentLocations : Warns(location))
    /\ UNCHANGED <<chain, phase, block, txNo, parsing, mTransactionSet, totals, returned,
                   reads, succeeded>>

Step == \/ ParseTransaction \/ ParseFails \/ ParseExits
        \/ StartRecord \/ RecordTransaction
        \/ StartCheck \/ CheckInputs \/ CheckExits \/ CheckDone

(* The caller has made its last call, or the program has ended.            *)
Done == /\ phase = "exited" \/ (phase = "idle" /\ calls = MaxCalls)
        /\ UNCHANGED vars

Next == \/ \E n \in 0..(mBlockCount - 1) : ReadStart(n) \/ ReadCorrupted(n)
        \/ ReadOutOfRange \/ Step \/ PrintBlock \/ Done

Spec == Init /\ [][Next]_vars

-----------------------------------------------------------------------------
Locations == [file : Nat, offset : Nat, length : Nat, index : Nat]

(* Counters and places are unsigned, and nextBlockHash points to a hash of *)
(* the chain unless the chain has a single block.                          *)
TypeOK ==
    /\ phase \in {"idle", "parse", "record", "check", "exited"}
    /\ block.blockIndex \in 0..(mBlockCount - 1)
    /\ \/ block.nextBlockHash \in Hashes \cup {NoHash}
       \/ block.nextBlockHash = Garbage /\ mBlockCount = 1
    /\ block.warning \in BOOLEAN
    /\ block.transactions \in Seq([hash : Hashes, location : Locations])
    /\ txNo \in Nat \ {0}
    /\ mBlockRead \in Nat
    /\ gIsWarning \in BOOLEAN
    /\ mTransactionCount \in Nat
    /\ DOMAIN mTransactionSet \subseteq Hashes
    /\ \A h \in DOMAIN mTransactionSet : mTransactionSet[h] \in Locations
    /\ mTotalTransactionCount \in Nat
    /\ mTotalInputCount \in Nat
    /\ returned \in BOOLEAN

(* Every place in mTransactionSet, the only thing readSingleTransaction    *)
(* goes by, is exactly that of a transaction with the hash it is filed     *)
(* under, whatever was read in whatever order, failed reads included.      *)
LocationsExact ==
    \A h \in DOMAIN mTransactionSet :
        \E tx \in TransactionsAt(mTransactionSet[h]) : tx.hash = h

HashesOf(n) == {Block(n).transactions[i].hash : i \in DOMAIN Block(n).transactions}

(* Between calls the transactions known are those of the blocks that were  *)
(* returned: a block that fails half way leaves nothing behind, and a      *)
(* second read of a block adds nothing.                                    *)
RecordedExactly ==
    phase = "idle" => DOMAIN mTransactionSet = UNION {HashesOf(n) : n \in succeeded}

(* Whole blocks within the limits, without witness data, whose inputs      *)
(* spend transactions of earlier blocks or of the block itself.            *)
ValidChain ==
    \A n \in 0..(mBlockCount - 1) :
        /\ Block(n).whole /\ ~TooMany(n)
        /\ \A i \in DOMAIN Block(n).transactions :
              LET tx == Block(n).transactions[i]
              IN  /\ ~tx.segwit /\ ~tx.huge
                  /\ \A j \in DOMAIN tx.inputs :
                        tx.inputs[j] \in {NoHash} \cup UNION {HashesOf(m) : m \in 0..n}

(* No block is read before all blocks below it have been.                  *)
BottomUp == \A k \in DOMAIN reads : \A m \in 0..(reads[k] - 1) :
               \E j \in 1..(k - 1) : reads[j] = m

(* readBlock calls exit(1) on an input it cannot find.  On a valid chain   *)
(* this never ends the program of a caller that reads from the bottom up,  *)
(* even one that reads blocks again or out of range.                       *)
NeverExits == ValidChain /\ BottomUp => phase # "exited"

(* How many transactions there are before the i-th of a block.             *)
Ordinal(n, i) ==
    LET Count[m \in 0..n] == IF m = 0 THEN 0 ELSE Count[m - 1] + Len(Block(m - 1).transactions)
    IN  Count[n] + i - 1

TxPlaces == UNION {{n} \X DOMAIN Block(n).transactions : n \in 0..(mBlockCount - 1)}

(* Read once in order, each transaction of a valid chain is numbered by    *)
(* its first place in the chain, a duplicate keeping the lower number.     *)
NumberedInOrder ==
    ValidChain /\ reads = [k \in 1..Len(reads) |-> k - 1] =>
        \A h \in DOMAIN mTransactionSet :
            LET ordinals == {Ordinal(p[1], p[2]) : p \in {p \in TxPlaces :
                                Block(p[1]).transactions[p[2]].hash = h}}
            IN  /\ mTransactionSet[h].index \in ordinals
                /\ \A o \in ordinals : mTransactionSet[h].index <= o

(* The places of the transactions of the blocks that were returned.  What  *)
(* processTransactions has added of the block at hand does not count yet.  *)
Known == [h \in UNION {HashesOf(n) : n \in succeeded} |-> mTransactionSet[h]]

(* The counter as it was before the block at hand.                         *)
NextNumber == IF phase \in {"idle", "exited"} THEN mTransactionCount
              ELSE mTransactionCount - Len(block.transactions)

Archive == INSTANCE BlockArchive WITH
               Limit <- MAX_BLOCK_TRANSACTION, known <- Known, answer <- returned,
               next <- NextNumber, ended <- phase = "exited"

(* The loops of processBlockData and processTransactions, and the ways out *)
(* of them, are one step of the archive: a block is taken in as a whole,   *)
(* with its first places and numbers, when all it spends is known, or      *)
(* leaves what is known as it was.                                         *)
ImplementsArchive == Archive!Spec

HasOdd(b) == \E i \in DOMAIN b.transactions : b.transactions[i].odd

(* A block with a transaction that raises a warning is never returned      *)
(* without one, though the flag is a global that other reads clear.        *)
OddIsWarned == phase = "idle" /\ returned /\ HasOdd(Header) => block.warning

(* "there was a warning issued while processing this block"                *)
(* (src/include/BlockChain.h:186): a warning is about this block.          *)
WarningIsOwn == phase = "idle" /\ returned /\ block.warning => HasOdd(Header)
=============================================================================
