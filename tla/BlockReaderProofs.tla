-------------------------- MODULE BlockReaderProofs -------------------------
(***************************************************************************)
(* Proofs about BlockReader, for every chain and every series of calls:    *)
(* what is filed in mTransactionSet lies where it says, a block that fails *)
(* leaves nothing behind, and a valid chain read from the bottom up is     *)
(* read to its end and numbered in order.                                  *)
(***************************************************************************)
EXTENDS BlockReader, Recursion, SequenceTheorems, TLAPS

ParsedTransactions == [hash : Hashes, location : Locations]

ReadBlocks == [blockIndex : Nat, nextBlockHash : Hashes \cup {NoHash, Garbage},
               warning : BOOLEAN, transactions : Seq(ParsedTransactions)]

Busy == phase \in {"parse", "record", "check"}

(* The chain is the one of the start, and the calls asked for its blocks.  *)
ReadsOK == /\ chain \in Chains
           /\ block \in ReadBlocks
           /\ reads \in Seq(0..(mBlockCount - 1))
           /\ succeeded \subseteq {reads[k] : k \in DOMAIN reads}
           /\ Busy => Len(reads) > 0 /\ reads[Len(reads)] = block.blockIndex

(* What has been parsed are the first transactions of the block on disk,   *)
(* each with the place it really has.                                      *)
IsPlaced(t, i) == /\ t.hash = Header.transactions[i].hash
                  /\ t.location.file = Header.file
                  /\ t.location.offset = Starts(Header)[i]
                  /\ t.location.length = Header.transactions[i].length

Placed == \A i \in DOMAIN block.transactions :
              i \in DOMAIN Header.transactions /\ IsPlaced(block.transactions[i], i)

(* How far the loops are.                                                  *)
Progress == /\ phase = "parse" => /\ Len(block.transactions) = txNo - 1
                                  /\ FileOffset = Starts(Header)[txNo]
            /\ phase \in {"record", "check"} =>
                  /\ Len(block.transactions) = Len(Header.transactions)
                  /\ txNo <= Len(Header.transactions) + 1

(* The hashes that the loop of processTransactions has added so far.       *)
Added == IF phase = "record" THEN {Header.transactions[i].hash : i \in 1..(txNo - 1)}
         ELSE IF phase = "check" THEN HashesOf(block.blockIndex)
         ELSE {}

HashesOfAll(blocks) == UNION {HashesOf(n) : n \in blocks}

Recorded == phase # "exited" => DOMAIN mTransactionSet = HashesOfAll(succeeded) \cup Added

(* The flag that is handed over when the block is returned.                *)
Warned == /\ phase = "parse" =>
                \A i \in 1..(txNo - 1) : Header.transactions[i].odd => gIsWarning
          /\ phase \in {"record", "check"} => (HasOdd(Header) => gIsWarning)
          /\ OddIsWarned

(* On a valid chain read from the bottom up, only the block at hand has    *)
(* been asked for and not returned.                                        *)
AllReturned == ValidChain /\ BottomUp =>
    /\ phase # "exited"
    /\ phase = "idle" => \A k \in DOMAIN reads : reads[k] \in succeeded
    /\ Busy => \A k \in 1..(Len(reads) - 1) : reads[k] \in succeeded

InOrder == reads = [k \in 1..Len(reads) |-> k - 1]

(* In such a run read once in order, the counter is that of the chain.     *)
Numbered == ValidChain /\ InOrder =>
    /\ phase = "parse" => mTransactionCount = Ordinal(block.blockIndex, txNo)
    /\ phase \in {"idle", "record", "check"} => mTransactionCount = Ordinal(Len(reads), 1)
    /\ Busy => \A i \in DOMAIN block.transactions :
                   block.transactions[i].location.index = Ordinal(block.blockIndex, i)

(* The k-th transaction of the chain is the first with this hash.          *)
Same(h) == {p \in TxPlaces : Block(p[1]).transactions[p[2]].hash = h}

IsFirst(h, k) == /\ \E p \in Same(h) : k = Ordinal(p[1], p[2])
                 /\ \A p \in Same(h) : k <= Ordinal(p[1], p[2])

AllFirst == ValidChain /\ InOrder =>
                \A h \in DOMAIN mTransactionSet : IsFirst(h, mTransactionSet[h].index)

Shape == TypeOK /\ ReadsOK /\ Placed /\ Progress

IInv == /\ Shape
        /\ LocationsExact
        /\ Recorded
        /\ Warned
        /\ AllReturned
        /\ Numbered
        /\ NumberedInOrder

-----------------------------------------------------------------------------
(* What the headers and the readers of the stream deliver for a block.     *)
LEMMA TransactionTyped ==
  ASSUME NEW tx \in Transactions
  PROVE  /\ tx.hash \in Hashes
         /\ tx.inputs \in Seq(Hashes \cup {NoHash})
         /\ tx.length \in Nat /\ tx.length > 0
         /\ tx.odd \in BOOLEAN /\ tx.segwit \in BOOLEAN /\ tx.huge \in BOOLEAN
BY DEF Transactions

(* The fields of a block, with the bounds its length gives them.           *)
LEMMA BlockTyped ==
  ASSUME NEW b \in Blocks
  PROVE  /\ b.hash \in Hashes
         /\ b.prev \in Hashes \cup {NoHash}
         /\ b.file \in Nat
         /\ b.offset \in Nat
         /\ b.transactions \in Seq(Transactions)
         /\ Len(b.transactions) \in Nat
         /\ DOMAIN b.transactions = 1..Len(b.transactions)
         /\ \A i \in 1..Len(b.transactions) : b.transactions[i] \in Transactions
<1>1. b.transactions \in Seq(Transactions)
  BY DEF Blocks
<1>2. /\ b.hash \in Hashes
      /\ b.prev \in Hashes \cup {NoHash}
      /\ b.file \in Nat
      /\ b.offset \in Nat
  BY DEF Blocks
<1> QED
  BY <1>1, <1>2

(* The array of headers is a chain of blocks, at least one.                *)
LEMMA HeadersTyped ==
  ASSUME ReadsOK
  PROVE  /\ chain \in Seq(Blocks)
         /\ mBlockCount \in Nat
         /\ mBlockCount \in 1..(WordSize - 1)
         /\ \A n \in 0..(mBlockCount - 1) : Block(n) \in Blocks
<1>1. /\ chain \in Seq(Blocks)
      /\ Len(chain) \in 1..(WordSize - 1)
  BY ReaderAssumption DEF ReadsOK
<1> QED
  BY <1>1 DEF mBlockCount, Block

(* The transactions of a block follow each other without a gap, behind the *)
(* prefix.                                                                 *)
LEMMA StartsFollow ==
  ASSUME NEW b \in Blocks
  PROVE  /\ Starts(b) \in [1..(Len(b.transactions) + 1) -> Nat]
         /\ Starts(b)[1] = b.offset + PrefixLength
         /\ \A i \in 1..Len(b.transactions) :
               Starts(b)[i + 1] = Starts(b)[i] + b.transactions[i].length
<1> DEFINE n == Len(b.transactions)
           first == b.offset + PrefixLength
           size(i) == b.transactions[i].length
           sizes == [i \in 1..n |-> size(i)]
           IsStarts(f) == f = [i \in 1..(n + 1) |-> IF i = 1 THEN first
                                                    ELSE f[i - 1] + size(i - 1)]
<1>1. /\ n \in Nat
      /\ first \in Nat
      /\ \A i \in 1..n : size(i) \in Nat
  BY ReaderAssumption, BlockTyped, TransactionTyped
<1> HIDE DEF size, n, first
<1>2. /\ \A i \in 1..n : sizes[i] = size(i)
      /\ \A i \in 1..n : sizes[i] \in Nat
  BY <1>1
<1> HIDE DEF sizes
<1>3. PICK f : Adds(f, n, first, sizes)
  BY <1>1, SumsExist
<1>4. /\ f[0] = first
      /\ \A i \in 1..n : f[i] = f[i - 1] + size(i)
  BY <1>1, <1>2, <1>3 DEF Adds
<1>5. IsStarts([i \in 1..(n + 1) |-> f[i - 1]])
  BY <1>1, <1>4
<1>6. IsStarts(Starts(b))
  BY <1>5, Zenon DEF Starts, first, n, size
<1>7. /\ Starts(b)[1] = first
      /\ \A i \in 1..n : Starts(b)[i + 1] = Starts(b)[i] + size(i)
  <2>1. 1 \in 1..(n + 1) /\ \A i \in 1..n : i + 1 \in 1..(n + 1) /\ i + 1 # 1 /\ (i + 1) - 1 = i
    BY <1>1
  <2> QED
    BY <1>6, <2>1
<1>8. \A i \in 0..n : Starts(b)[i + 1] \in Nat
  <2> DEFINE g == [i \in 0..n |-> Starts(b)[i + 1]]
  <2>1. Adds(g, n, first, sizes)
    BY <1>1, <1>2, <1>7 DEF Adds
  <2>2. \A i \in 0..n : g[i] = Starts(b)[i + 1]
    OBVIOUS
  <2> HIDE DEF g
  <2>3. \A i \in 0..n : g[i] \in Nat
    BY <1>1, <1>2, <2>1, SumsRise
  <2> QED
    BY <2>2, <2>3
<1>9. Starts(b) \in [1..(n + 1) -> Nat]
  <2>1. \A i \in 1..(n + 1) : i - 1 \in 0..n /\ (i - 1) + 1 = i
    BY <1>1
  <2>2. \A i \in 1..(n + 1) : Starts(b)[i] \in Nat
    BY <1>8, <2>1
  <2> QED
    BY <1>6, <2>2
<1> QED
  BY <1>7, <1>9 DEF first, n, size

-----------------------------------------------------------------------------
(* The ordinals count the transactions of the chain: without a gap, from   *)
(* block to block, so that a later place has a higher number.              *)
LEMMA OrdinalsCount ==
  ASSUME ReadsOK
  PROVE  \E f : /\ f[0] = 0
                /\ \A n \in 0..mBlockCount : f[n] \in Nat
                /\ \A n \in 0..(mBlockCount - 1) : f[n + 1] = f[n] + Len(Block(n).transactions)
                /\ \A m \in 0..mBlockCount : \A n \in 0..m : f[n] <= f[m]
                /\ \A n \in 0..mBlockCount : \A i : Ordinal(n, i) = f[n] + i - 1
<1> DEFINE count == mBlockCount
           sizes == [m \in 1..count |-> Len(Block(m - 1).transactions)]
<1>1. count \in Nat /\ \A n \in 0..(count - 1) : Len(Block(n).transactions) \in Nat
  BY HeadersTyped, BlockTyped
<1>2. /\ \A m \in 1..count : sizes[m] \in Nat
      /\ \A n \in 0..(count - 1) : sizes[n + 1] = Len(Block(n).transactions)
  BY <1>1
<1>3. \A m \in 1..count : sizes[m] = Len(Block(m - 1).transactions)
  OBVIOUS
<1> HIDE DEF sizes, count
<1>4. PICK f : Adds(f, count, 0, sizes)
  BY <1>1, SumsExist
<1>5. /\ \A n \in 0..count : f[n] \in Nat
      /\ \A m \in 0..count : \A n \in 0..m : f[n] <= f[m]
  BY <1>1, <1>2, <1>4, SumsRise
<1>6. ASSUME NEW n \in 0..count, NEW i PROVE Ordinal(n, i) = f[n] + i - 1
  <2> DEFINE IsCount(g) ==
               g = [m \in 0..n |-> IF m = 0 THEN 0
                                   ELSE g[m - 1] + Len(Block(m - 1).transactions)]
             Count == CHOOSE g : IsCount(g)
  <2>1. n \in Nat /\ \A m \in 1..n : m \in 1..count
    BY <1>1
  <2>2. IsCount([m \in 0..n |-> f[m]])
    BY <2>1, <1>3, <1>4 DEF Adds
  <2>3. IsCount(Count)
    BY <2>2, Zenon
  <2>4. Adds(Count, n, 0, sizes)
    <3> HIDE DEF Count
    <3>1. Count[0] = 0
      BY <2>1, <2>3
    <3>2. \A m \in 1..n : Count[m] = Count[m - 1] + sizes[m]
      BY <1>3, <2>1, <2>3
    <3> QED
      BY <3>1, <3>2 DEF Adds
  <2>5. Adds(f, n, 0, sizes)
    BY <1>4, <2>1 DEF Adds
  <2>6. Count[n] = f[n]
    <3> HIDE DEF Count
    <3> QED
      BY <2>1, <2>4, <2>5, SumsUnique
  <2>7. Ordinal(n, i) = Count[n] + i - 1
    BY DEF Ordinal
  <2> QED
    BY <2>6, <2>7
<1>7. \A n \in 0..(count - 1) : f[n + 1] = f[n] + Len(Block(n).transactions)
  BY <1>1, <1>2, <1>4 DEF Adds
<1>8. f[0] = 0
  BY <1>4 DEF Adds
<1> QED
  BY <1>5, <1>6, <1>7, <1>8, Zenon DEF count

(* What the proofs need of it: the counter of a run in order steps from    *)
(* one ordinal to the next, and earlier places have lower ones.            *)
LEMMA OrdinalSteps ==
  ASSUME ReadsOK
  PROVE  /\ Ordinal(0, 1) = 0
         /\ \A n \in 0..(mBlockCount - 1) :
               Ordinal(n + 1, 1) = Ordinal(n, Len(Block(n).transactions) + 1)
         /\ \A n \in 0..mBlockCount, i \in Nat : Ordinal(n, i + 1) = Ordinal(n, i) + 1
         /\ \A n \in 0..mBlockCount, i \in Nat \ {0} : Ordinal(n, i) \in Nat
         /\ \A n \in 0..mBlockCount, i \in Nat, j \in Nat :
               i <= j => Ordinal(n, i) <= Ordinal(n, j)
         /\ \A m \in 0..mBlockCount : \A n \in 0..(m - 1) :
               \A i \in 1..Len(Block(n).transactions), j \in Nat \ {0} :
                  Ordinal(n, i) <= Ordinal(m, j)
<1>1. PICK f : /\ f[0] = 0
               /\ \A n \in 0..mBlockCount : f[n] \in Nat
               /\ \A n \in 0..(mBlockCount - 1) : f[n + 1] = f[n] + Len(Block(n).transactions)
               /\ \A m \in 0..mBlockCount : \A n \in 0..m : f[n] <= f[m]
               /\ \A n \in 0..mBlockCount : \A i : Ordinal(n, i) = f[n] + i - 1
  BY OrdinalsCount
<1>2. mBlockCount \in Nat /\ \A n \in 0..(mBlockCount - 1) : Len(Block(n).transactions) \in Nat
  BY HeadersTyped, BlockTyped
<1>3. Ordinal(0, 1) = 0
  BY <1>1, <1>2
<1>4. ASSUME NEW n \in 0..(mBlockCount - 1)
      PROVE  Ordinal(n + 1, 1) = Ordinal(n, Len(Block(n).transactions) + 1)
  <2>1. n \in 0..mBlockCount /\ n + 1 \in 0..mBlockCount
    BY <1>2
  <2>2. /\ Ordinal(n + 1, 1) = f[n + 1] + 1 - 1
        /\ Ordinal(n, Len(Block(n).transactions) + 1)
              = f[n] + (Len(Block(n).transactions) + 1) - 1
    BY <1>1, <2>1
  <2>3. f[n + 1] = f[n] + Len(Block(n).transactions) /\ f[n] \in Nat /\ f[n + 1] \in Nat
    BY <1>1, <2>1
  <2> QED
    BY <1>2, <2>2, <2>3
<1>5. ASSUME NEW n \in 0..mBlockCount, NEW i \in Nat
      PROVE  /\ Ordinal(n, i + 1) = Ordinal(n, i) + 1
             /\ i # 0 => Ordinal(n, i) \in Nat
             /\ \A j \in Nat : i <= j => Ordinal(n, i) <= Ordinal(n, j)
  <2>1. f[n] \in Nat
    BY <1>1
  <2>2. \A j : Ordinal(n, j) = f[n] + j - 1
    BY <1>1
  <2> QED
    BY <2>1, <2>2
<1>6. ASSUME NEW m \in 0..mBlockCount, NEW n \in 0..(m - 1),
             NEW i \in 1..Len(Block(n).transactions), NEW j \in Nat \ {0}
      PROVE  Ordinal(n, i) <= Ordinal(m, j)
  <2>1. n \in 0..(mBlockCount - 1) /\ n \in 0..mBlockCount /\ n + 1 \in 0..m
    BY <1>2
  <2>2. Ordinal(n, i) = f[n] + i - 1 /\ Ordinal(m, j) = f[m] + j - 1
    BY <1>1, <2>1
  <2>3. f[n + 1] <= f[m] /\ f[n + 1] = f[n] + Len(Block(n).transactions)
    BY <1>1, <2>1
  <2>4. f[n] \in Nat /\ f[m] \in Nat
    BY <1>1, <2>1
  <2> QED
    BY <1>2, <2>1, <2>2, <2>3, <2>4
<1> QED
  BY <1>3, <1>4, <1>5, <1>6

-----------------------------------------------------------------------------
(* No step touches the headers, so what is derived from them alone stays.  *)
LEMMA ChainStays ==
  ASSUME chain' = chain
  PROVE  /\ mBlockCount' = mBlockCount
         /\ \A n : Block(n)' = Block(n)
         /\ \A n : HashesOf(n)' = HashesOf(n)
         /\ \A n, i : Ordinal(n, i)' = Ordinal(n, i)
         /\ \A location : TransactionsAt(location)' = TransactionsAt(location)
         /\ TxPlaces' = TxPlaces
         /\ ValidChain' = ValidChain
         /\ (block.blockIndex)' = block.blockIndex => Header' = Header
BY DEF mBlockCount, Block, HashesOf, Ordinal, TransactionsAt, TxPlaces, ValidChain, TooMany,
       Header

(* The block that readBlock is reading is one of the chain.                *)
LEMMA HeaderTyped ==
  ASSUME TypeOK, ReadsOK
  PROVE  /\ Header \in Blocks
         /\ Header = Block(block.blockIndex)
         /\ block.blockIndex \in 0..(mBlockCount - 1)
         /\ Len(Header.transactions) \in Nat
         /\ DOMAIN Header.transactions = 1..Len(Header.transactions)
         /\ \A i \in DOMAIN Header.transactions : Header.transactions[i] \in Transactions
<1>1. block.blockIndex \in 0..(mBlockCount - 1)
  BY DEF TypeOK
<1>2. Header \in Blocks
  BY <1>1, HeadersTyped DEF Header
<1> QED
  BY <1>1, <1>2, BlockTyped DEF Header

(* Nothing has been read when the headers have been built.                 *)
LEMMA InitIInv == Init => IInv
<1> SUFFICES ASSUME Init PROVE IInv
  OBVIOUS
<1> USE DEF Init, NewBlock
<1>1. Len(chain) \in 1..(WordSize - 1)
  BY ReaderAssumption
<1>2. block.transactions = << >> /\ reads = << >> /\ DOMAIN mTransactionSet = {}
  OBVIOUS
<1>3. TypeOK
  <2>1. block.transactions \in Seq([hash : Hashes, location : Locations])
    BY <1>2
  <2>2. block.blockIndex \in 0..(mBlockCount - 1)
    BY <1>1 DEF mBlockCount
  <2>3. block.nextBlockHash = NoHash /\ block.warning = FALSE
    OBVIOUS
  <2>4. DOMAIN mTransactionSet \subseteq Hashes
    BY <1>2
  <2>5. gIsWarning \in BOOLEAN /\ returned \in BOOLEAN
    BY Zenon
  <2> QED
    BY <1>2, <2>1, <2>2, <2>3, <2>4, <2>5 DEF TypeOK
<1>4. block \in ReadBlocks
  BY DEF ReadBlocks
<1>5. ReadsOK
  BY <1>4 DEF ReadsOK, Busy
<1>6. Placed /\ Progress /\ LocationsExact
  BY <1>2 DEF Placed, Progress, LocationsExact
<1>7. Recorded /\ Warned /\ AllReturned
  BY <1>2 DEF Recorded, HashesOfAll, Added, Warned, OddIsWarned, AllReturned, Busy
<1>8. Numbered /\ NumberedInOrder
  <2>1. mTransactionCount = Ordinal(Len(reads), 1)
    BY <1>2, <1>5, OrdinalSteps
  <2> QED
    BY <1>2, <2>1 DEF Numbered, NumberedInOrder, Busy
<1> QED
  BY <1>3, <1>5, <1>6, <1>7, <1>8 DEF IInv, Shape

-----------------------------------------------------------------------------
(* readBlock starts on a block of the chain with no transaction parsed, at *)
(* the place behind the prefix.  The subtraction for the next hash wraps   *)
(* only when the chain has a single block.                                 *)
LEMMA NextHashTyped ==
  ASSUME TypeOK, ReadsOK, NEW n \in 0..(mBlockCount - 1)
  PROVE  \/ NextHash(n) \in Hashes \cup {NoHash}
         \/ NextHash(n) = Garbage /\ mBlockCount = 1
<1>1. mBlockCount \in 1..(WordSize - 1) /\ WordSize \in Nat \ {0}
  BY HeadersTyped, ReaderAssumption
<1>2. CASE mBlockCount = 1
  BY <1>2 DEF TypeOK, NextHash
<1>3. CASE mBlockCount > 1
  <2>1. (mBlockCount - 2) % WordSize = mBlockCount - 2
    BY <1>1, <1>3
  <2>2. CASE n >= mBlockCount - 2
    BY <1>1, <1>3, <2>1, <2>2 DEF TypeOK, NextHash
  <2>3. CASE n < mBlockCount - 2
    <3>1. n + 2 \in 0..(mBlockCount - 1)
      BY <1>1, <2>3
    <3>2. Block(n + 2).prev \in Hashes \cup {NoHash}
      BY <3>1, HeadersTyped, BlockTyped
    <3>3. NextHash(n) = Block(n + 2).prev
      BY <1>1, <2>1, <2>3 DEF NextHash
    <3> QED
      BY <3>2, <3>3
  <2> QED
    BY <1>1, <2>2, <2>3
<1> QED
  BY <1>1, <1>2, <1>3

(* readBlock's first step, that reads the header, leaves the walk at the   *)
(* first transaction.                                                      *)
LEMMA ReadStartShape ==
  ASSUME Shape, NEW n \in 0..(mBlockCount - 1), ReadStart(n)
  PROVE  Shape'
<1> USE DEF Shape, parsing, totals, history
<1>1. /\ chain' = chain
      /\ block' = [blockIndex |-> n, nextBlockHash |-> NextHash(n), warning |-> FALSE,
                   transactions |-> << >>]
      /\ phase' = "parse" /\ txNo' = 1 /\ mBlockRead' = PrefixLength
      /\ reads' = Append(reads, n)
      /\ UNCHANGED <<mTransactionCount, gIsWarning, mTransactionSet, totals, returned,
                     succeeded>>
  BY DEF ReadStart, Call
<1>2. n \in Nat /\ mBlockCount' = mBlockCount /\ Header' = Block(n) /\ Block(n) \in Blocks
  BY <1>1, ChainStays, HeadersTyped DEF Header, Block
<1>3. block'.transactions = << >> /\ block'.blockIndex = n /\ block'.nextBlockHash = NextHash(n)
      /\ block'.warning = FALSE
  BY <1>1
<1>4. TypeOK'
  <2>1. block'.transactions \in Seq([hash : Hashes, location : Locations])
    BY <1>3
  <2>2. \/ block'.nextBlockHash \in Hashes \cup {NoHash}
        \/ block'.nextBlockHash = Garbage /\ mBlockCount' = 1
    BY <1>2, <1>3, NextHashTyped
  <2> QED
    BY <1>1, <1>2, <1>3, <2>1, <2>2, ReaderAssumption DEF TypeOK
<1>5. ReadsOK'
  <2>1. block' \in ReadBlocks
    BY <1>1, <1>2, NextHashTyped DEF ReadBlocks
  <2>2. reads \in Seq(0..(mBlockCount - 1))
    BY DEF ReadsOK
  <2>3. /\ reads' \in Seq(0..(mBlockCount - 1))
        /\ Len(reads') = Len(reads) + 1 /\ Len(reads) \in Nat
        /\ reads'[Len(reads')] = n
        /\ \A k \in DOMAIN reads : k \in DOMAIN reads' /\ reads'[k] = reads[k]
    BY <1>1, <2>2, AppendProperties
  <2> QED
    BY <1>1, <1>2, <1>3, <2>1, <2>3 DEF ReadsOK
<1>6. Placed' /\ Progress'
  <2>1. Starts(Header')[1] = Header'.offset + PrefixLength
    BY <1>2, StartsFollow
  <2> QED
    BY <1>1, <1>2, <1>3, <2>1 DEF Placed, Progress, FileOffset
<1> QED
  BY <1>4, <1>5, <1>6

(* A parsed transaction is given the place where it lies, and the reader   *)
(* stands behind it.                                                       *)
LEMMA ParseShape ==
  ASSUME Shape, ParseTransaction
  PROVE  /\ Shape'
         /\ block'.transactions
              = Append(block.transactions,
                       [hash |-> Header.transactions[txNo].hash,
                        location |-> Location(Header.transactions[txNo])])
<1> USE DEF Shape, totals, history
<1> DEFINE tx == Header.transactions[txNo]
           t == [hash |-> tx.hash, location |-> Location(tx)]
<1>1. /\ phase = "parse" /\ phase' = "parse" /\ txNo <= Len(Header.transactions)
      /\ block' = [block EXCEPT !.transactions = Append(@, t)]
      /\ mBlockRead' = After(tx)
      /\ gIsWarning' = (gIsWarning \/ tx.odd)
      /\ mTransactionCount' = mTransactionCount + 1
      /\ txNo' = txNo + 1
      /\ UNCHANGED <<chain, mTransactionSet, totals, returned, history>>
  BY DEF ParseTransaction, InLoop
<1>2. /\ txNo \in 1..Len(Header.transactions) /\ tx \in Transactions
      /\ Len(block.transactions) = txNo - 1
      /\ Header \in Blocks
  BY <1>1, HeaderTyped DEF TypeOK, Progress
<1>3. block \in ReadBlocks
  BY DEF ReadsOK
<1>4. tx.hash \in Hashes /\ tx.length \in Nat /\ tx.odd \in BOOLEAN
  BY <1>2, TransactionTyped
<1>5. Location(tx) \in Locations
  <2>1. Header.file \in Nat /\ Header.offset \in Nat
    BY <1>2, BlockTyped
  <2> QED
    BY <1>4, <2>1 DEF Location, Locations, FileOffset, TypeOK
<1>6. t \in ParsedTransactions
  BY <1>4, <1>5 DEF ParsedTransactions
<1> HIDE DEF t, tx
<1>7. /\ block'.transactions = Append(block.transactions, t)
      /\ block' \in ReadBlocks
      /\ block'.blockIndex = block.blockIndex
      /\ block'.nextBlockHash = block.nextBlockHash
      /\ block'.warning = block.warning
  <2>1. block.transactions \in Seq(ParsedTransactions)
    BY <1>3 DEF ReadBlocks
  <2>2. Append(block.transactions, t) \in Seq(ParsedTransactions)
    BY <1>6, <2>1, AppendProperties
  <2> QED
    BY <1>1, <1>3, <2>2 DEF ReadBlocks
<1>8. mBlockCount' = mBlockCount /\ Header' = Header
  BY <1>1, <1>7, ChainStays
<1>9. TypeOK'
  <2>1. block'.transactions \in Seq([hash : Hashes, location : Locations])
    BY <1>7 DEF ReadBlocks, ParsedTransactions
  <2>2. mBlockRead' \in Nat /\ mTransactionCount' \in Nat /\ txNo' \in Nat \ {0}
    <3>1. mBlockRead \in Nat /\ mTransactionCount \in Nat /\ txNo \in Nat \ {0}
      BY DEF TypeOK
    <3>2. mBlockRead' = mBlockRead + tx.length
      BY <1>1 DEF After
    <3>3. mBlockRead' \in Nat
      BY <1>4, <3>1, <3>2
    <3> QED
      BY <1>1, <3>1, <3>3
  <2>3. gIsWarning' \in BOOLEAN
    BY <1>1
  <2> QED
    BY <1>1, <1>7, <1>8, <2>1, <2>2, <2>3 DEF TypeOK
<1>10. ReadsOK'
  BY <1>1, <1>7, <1>8 DEF ReadsOK, Busy
<1>11. Placed'
  <2>1. t.hash = tx.hash /\ t.location = Location(tx)
    BY DEF t
  <2>2. IsPlaced(t, txNo)
    BY <1>1, <2>1 DEF IsPlaced, Location, Progress, tx
  <2>3. block.transactions \in Seq(ParsedTransactions)
    BY <1>3 DEF ReadBlocks
  <2>4. /\ DOMAIN block'.transactions = 1..txNo
        /\ \A i \in 1..(txNo - 1) : /\ i \in DOMAIN block.transactions
                                    /\ block'.transactions[i] = block.transactions[i]
        /\ block'.transactions[txNo] = t
    BY <1>2, <1>6, <1>7, <2>3, AppendProperties
  <2>5. \A i \in 1..txNo : IsPlaced(block'.transactions[i], i)
    <3> TAKE i \in 1..txNo
    <3>1. CASE i = txNo
      BY <2>2, <2>4, <3>1
    <3>2. CASE i # txNo
      <4>1. i \in 1..(txNo - 1)
        BY <1>2, <3>2
      <4>2. IsPlaced(block.transactions[i], i)
        BY <2>4, <4>1 DEF Placed
      <4> QED
        BY <2>4, <4>1, <4>2
    <3> QED
      BY <3>1, <3>2
  <2>6. DOMAIN Header.transactions = 1..Len(Header.transactions)
    BY HeaderTyped
  <2>7. \A i \in DOMAIN block'.transactions :
           i \in DOMAIN Header.transactions /\ IsPlaced(block'.transactions[i], i)
    BY <1>2, <2>4, <2>5, <2>6
  <2>8. ASSUME NEW i \in DOMAIN block'.transactions
        PROVE  /\ i \in DOMAIN Header'.transactions
               /\ block'.transactions[i].hash = Header'.transactions[i].hash
               /\ block'.transactions[i].location.file = Header'.file
               /\ block'.transactions[i].location.offset = Starts(Header')[i]
               /\ block'.transactions[i].location.length = Header'.transactions[i].length
    BY <1>8, <2>7 DEF IsPlaced
  <2> QED
    BY <2>8 DEF Placed, IsPlaced
<1>12. Progress'
  <2>1. Len(block'.transactions) = txNo
    BY <1>2, <1>3, <1>6, <1>7, AppendProperties DEF ReadBlocks
  <2>2. Starts(Header)[txNo + 1] = Starts(Header)[txNo] + tx.length
    BY <1>2, StartsFollow DEF tx
  <2>3. FileOffset = Starts(Header)[txNo]
    BY <1>1 DEF Progress
  <2>4. Header.offset \in Nat /\ mBlockRead \in Nat
    BY <1>2, BlockTyped DEF TypeOK
  <2>5. FileOffset' = Starts(Header)[txNo + 1]
    BY <1>1, <1>4, <1>8, <2>2, <2>3, <2>4 DEF FileOffset, After
  <2> QED
    BY <1>1, <1>2, <1>8, <2>1, <2>5 DEF Progress
<1> QED
  BY <1>7, <1>9, <1>10, <1>11, <1>12 DEF t, tx

(* The last lines of readBlock leave what was parsed and hand over the     *)
(* warning.                                                                *)
LEMMA FinishShape ==
  ASSUME Shape, NEW result \in BOOLEAN, Finish(result),
         UNCHANGED <<chain, txNo, parsing, mTransactionSet, totals, reads, calls>>,
         result => block.blockIndex \in {reads[k] : k \in DOMAIN reads}
  PROVE  Shape' /\ Header' = Header /\ block'.warning = gIsWarning
<1> USE DEF Shape, totals, parsing
<1>1. /\ phase' = "idle" /\ gIsWarning' = FALSE /\ returned' = result
      /\ block' = [block EXCEPT !.warning = gIsWarning]
      /\ succeeded' \subseteq succeeded \cup {block.blockIndex}
      /\ succeeded' # succeeded => result
  BY DEF Finish, Warning
<1>2. block \in ReadBlocks /\ gIsWarning \in BOOLEAN
  BY DEF ReadsOK, TypeOK
<1>3. /\ block' \in ReadBlocks
      /\ block'.blockIndex = block.blockIndex
      /\ block'.nextBlockHash = block.nextBlockHash
      /\ block'.warning = gIsWarning
      /\ block'.transactions = block.transactions
  BY <1>1, <1>2 DEF ReadBlocks
<1>4. mBlockCount' = mBlockCount /\ Header' = Header
  BY <1>3, ChainStays
<1>5. TypeOK'
  <2>1. gIsWarning' \in BOOLEAN /\ returned' \in BOOLEAN /\ block'.warning \in BOOLEAN
    BY <1>1, <1>2, <1>3, Zenon
  <2> QED
    BY <1>1, <1>3, <1>4, <2>1 DEF TypeOK
<1>6. ReadsOK'
  <2>1. succeeded' \subseteq {reads[k] : k \in DOMAIN reads}
    BY <1>1 DEF ReadsOK
  <2> QED
    BY <1>1, <1>3, <1>4, <2>1 DEF ReadsOK, Busy
<1>7. Placed' /\ Progress'
  BY <1>1, <1>3, <1>4 DEF Placed, IsPlaced, Progress
<1> QED
  BY <1>3, <1>4, <1>5, <1>6, <1>7

(* mTransactionSet gets the place of a parsed transaction, or keeps the    *)
(* one it has.                                                             *)
LEMMA RecordShape ==
  ASSUME Shape, RecordTransaction
  PROVE  /\ Shape'
         /\ txNo \in DOMAIN block.transactions
         /\ block.transactions[txNo] \in ParsedTransactions
         /\ Header' = Header
<1> USE DEF Shape, totals, parsing, history
<1>1. /\ phase = "record" /\ phase' = "record" /\ txNo <= Len(Header.transactions)
      /\ mTransactionSet' = Insert(block.transactions[txNo])
      /\ txNo' = txNo + 1
      /\ UNCHANGED <<chain, block, parsing, gIsWarning, totals, returned, history>>
  BY DEF RecordTransaction, InLoop
<1>2. mBlockCount' = mBlockCount /\ Header' = Header
  BY <1>1, ChainStays
<1>3. block.transactions \in Seq(ParsedTransactions)
  BY DEF ReadsOK, ReadBlocks
<1>4. txNo \in DOMAIN block.transactions /\ block.transactions[txNo] \in ParsedTransactions
  BY <1>1, <1>3 DEF Progress, TypeOK
<1>5. TypeOK'
  <2>1. /\ DOMAIN mTransactionSet' \subseteq Hashes
        /\ \A h \in DOMAIN mTransactionSet' : mTransactionSet'[h] \in Locations
    BY <1>1, <1>4 DEF Insert, TypeOK, ParsedTransactions
  <2>2. txNo' \in Nat \ {0}
    BY <1>1 DEF TypeOK
  <2> QED
    BY <1>1, <1>2, <2>1, <2>2 DEF TypeOK
<1>6. ReadsOK' /\ Placed'
  BY <1>1, <1>2 DEF ReadsOK, Busy, Placed, IsPlaced
<1>7. Progress'
  BY <1>1, <1>2, HeaderTyped DEF Progress, TypeOK
<1> QED
  BY <1>2, <1>4, <1>5, <1>6, <1>7

(* The other steps leave the block and what has been recorded of it.       *)
LEMMA OtherShape ==
  ASSUME Shape,
         \/ ReadOutOfRange \/ PrintBlock \/ UNCHANGED vars
         \/ ParseExits \/ StartRecord \/ StartCheck \/ CheckInputs \/ CheckExits
  PROVE  Shape'
<1> USE DEF Shape, totals, parsing, history
<1>1. CASE ReadOutOfRange \/ PrintBlock \/ UNCHANGED vars
  <2>1. /\ UNCHANGED <<chain, phase, block, txNo, parsing, mTransactionSet, totals, reads,
                       succeeded>>
        /\ gIsWarning' \in BOOLEAN
        /\ returned' \in BOOLEAN
    BY <1>1 DEF ReadOutOfRange, PrintBlock, vars, TypeOK
  <2> QED
    BY <2>1 DEF TypeOK, ReadsOK, Busy, Placed, IsPlaced, Progress, mBlockCount, Header, Block,
                FileOffset
<1>2. CASE ParseExits \/ CheckExits
  <2>1. /\ UNCHANGED <<chain, block, txNo, parsing, gIsWarning, mTransactionSet, totals,
                       returned, history>>
        /\ phase' = "exited"
    BY <1>2 DEF ParseExits, CheckExits
  <2> QED
    BY <2>1 DEF TypeOK, ReadsOK, Busy, Placed, IsPlaced, Progress, mBlockCount, Header, Block
<1>3. CASE StartRecord \/ StartCheck
  <2>1. /\ UNCHANGED <<chain, block, parsing, gIsWarning, mTransactionSet, mTotalInputCount,
                       returned, history>>
        /\ mTotalTransactionCount' \in Nat
        /\ txNo > Len(Header.transactions) /\ txNo' = 1
        /\ phase \in {"parse", "record"} /\ phase' \in {"record", "check"}
    BY <1>3 DEF StartRecord, StartCheck, LoopEnds, TypeOK
  <2>2. mBlockCount' = mBlockCount /\ Header' = Header
    BY <2>1, ChainStays
  <2>3. Len(block.transactions) = Len(Header.transactions) /\ Len(Header.transactions) \in Nat
    <3>1. block.transactions \in Seq(ParsedTransactions)
      BY DEF ReadsOK, ReadBlocks
    <3>2. phase = "parse" => /\ Len(block.transactions) = txNo - 1
                             /\ Len(block.transactions) <= Len(Header.transactions)
      BY <3>1, HeaderTyped DEF Progress, Placed
    <3> QED
      BY <2>1, <3>1, <3>2, HeaderTyped DEF Progress, TypeOK
  <2>4. TypeOK' /\ ReadsOK' /\ Placed'
    BY <2>1, <2>2 DEF TypeOK, ReadsOK, Busy, Placed, IsPlaced
  <2>5. Progress'
    BY <2>1, <2>2, <2>3 DEF Progress
  <2> QED
    BY <2>4, <2>5
<1>4. CASE CheckInputs
  <2>1. /\ UNCHANGED <<chain, phase, block, parsing, gIsWarning, mTransactionSet,
                       mTotalTransactionCount, returned, history>>
        /\ phase = "check" /\ txNo <= Len(Header.transactions) /\ txNo' = txNo + 1
        /\ mTotalInputCount' = mTotalInputCount + Len(Header.transactions[txNo].inputs)
    BY <1>4 DEF CheckInputs, InLoop
  <2>2. mBlockCount' = mBlockCount /\ Header' = Header
    BY <2>1, ChainStays
  <2>3. mTotalInputCount' \in Nat /\ txNo' \in Nat \ {0}
    <3>1. Header.transactions[txNo].inputs \in Seq(Hashes \cup {NoHash})
      BY <2>1, HeaderTyped, TransactionTyped DEF TypeOK
    <3> QED
      BY <2>1, <3>1 DEF TypeOK
  <2>4. TypeOK' /\ ReadsOK' /\ Placed'
    BY <2>1, <2>2, <2>3 DEF TypeOK, ReadsOK, Busy, Placed, IsPlaced
  <2>5. Progress'
    BY <2>1, <2>2, HeaderTyped DEF Progress, TypeOK
  <2> QED
    BY <2>4, <2>5
<1> QED
  BY <1>1, <1>2, <1>3, <1>4

(* A corrupted block or one with too many transactions ends the program.   *)
LEMMA CorruptedShape ==
  ASSUME Shape, NEW n \in 0..(mBlockCount - 1), ReadCorrupted(n)
  PROVE  Shape'
<1> USE DEF Shape, totals, parsing
<1>1. /\ UNCHANGED <<chain, block, txNo, parsing, gIsWarning, mTransactionSet, totals, returned,
                     succeeded>>
      /\ phase' = "exited" /\ reads' = Append(reads, n)
  BY DEF ReadCorrupted
<1>2. mBlockCount' = mBlockCount /\ Header' = Header
  BY <1>1, ChainStays
<1>3. ReadsOK'
  <2>1. reads \in Seq(0..(mBlockCount - 1))
    BY DEF ReadsOK
  <2>2. /\ reads' \in Seq(0..(mBlockCount - 1))
        /\ \A k \in DOMAIN reads : k \in DOMAIN reads' /\ reads'[k] = reads[k]
    BY <1>1, <2>1, AppendProperties
  <2> QED
    BY <1>1, <1>2, <2>2 DEF ReadsOK, Busy
<1>4. TypeOK' /\ Placed' /\ Progress'
  BY <1>1, <1>2 DEF TypeOK, Placed, IsPlaced, Progress
<1> QED
  BY <1>3, <1>4

(* What changes with each step, in the terms of the proofs below: readBlock*)
(* starts, a transaction is parsed, recorded or checked, or a call ends.   *)
LEMMA FinishSteps ==
  ASSUME Shape, ParseFails \/ CheckDone
  PROVE  Shape' /\ Header' = Header /\ block'.warning = gIsWarning
<1>1. CASE ParseFails
  BY <1>1, FinishShape DEF ParseFails
<1>2. CASE CheckDone
  <2>1. Len(reads) \in DOMAIN reads /\ reads[Len(reads)] = block.blockIndex
    BY <1>2 DEF CheckDone, LoopEnds, Shape, ReadsOK, Busy
  <2> QED
    BY <1>2, <2>1, FinishShape DEF CheckDone
<1> QED
  BY <1>1, <1>2

(* No step of readBlock, of processTransactions or of the caller leaves the *)
(* shape.                                                                  *)
LEMMA ShapeStep ==
  ASSUME Shape, [Next]_vars
  PROVE  Shape'
BY ReadStartShape, CorruptedShape, ParseShape, FinishSteps, RecordShape, OtherShape
DEF Next, Step, Done

(* No step changes the chain.                                              *)
LEMMA ChainFixed ==
  ASSUME [Next]_vars
  PROVE  chain' = chain
BY DEF Next, Step, Done, vars, ReadStart, ReadCorrupted, ReadOutOfRange, ParseTransaction,
       ParseFails, ParseExits, StartRecord, RecordTransaction, StartCheck, CheckInputs,
       CheckExits, CheckDone, PrintBlock

(* Only processTransactions records, and the rest leaves mTransactionSet.  *)
LEMMA SetFixed ==
  ASSUME [Next]_vars, ~RecordTransaction
  PROVE  mTransactionSet' = mTransactionSet
BY DEF Next, Step, Done, vars, ReadStart, ReadCorrupted, ReadOutOfRange, ParseTransaction,
       ParseFails, ParseExits, StartRecord, StartCheck, CheckInputs,
       CheckExits, CheckDone, PrintBlock

-----------------------------------------------------------------------------
(* A transaction of the block at hand that has been parsed has the place   *)
(* that the readers of a single transaction will find it at.               *)
LEMMA PlacedLies ==
  ASSUME Shape, NEW i \in DOMAIN block.transactions
  PROVE  \E tx \in TransactionsAt(block.transactions[i].location) :
            tx.hash = block.transactions[i].hash
<1> USE DEF Shape
<1> DEFINE t == block.transactions[i]
           tx == Header.transactions[i]
<1>1. i \in DOMAIN Header.transactions /\ IsPlaced(t, i)
  BY DEF Placed
<1>2. Header \in {chain[n] : n \in 1..mBlockCount}
  BY HeaderTyped, HeadersTyped DEF Header, Block
<1>3. /\ Header.file = t.location.file
      /\ Starts(Header)[i] = t.location.offset
      /\ tx.length = t.location.length
      /\ tx.hash = t.hash
  BY <1>1 DEF IsPlaced
<1> HIDE DEF t
<1>4. tx \in TransactionsAt(t.location)
  BY <1>1, <1>2, <1>3 DEF TransactionsAt
<1> QED
  BY <1>3, <1>4 DEF t

(* Only processTransactions files a place, and it files that of the        *)
(* transaction it is at.                                                   *)
LEMMA LocationsStep ==
  ASSUME Shape, LocationsExact, [Next]_vars
  PROVE  LocationsExact'
<1>1. \A location : TransactionsAt(location)' = TransactionsAt(location)
  BY ChainFixed, ChainStays
<1>2. CASE ~RecordTransaction
  <2>1. mTransactionSet' = mTransactionSet
    BY <1>2, SetFixed
  <2> QED
    BY <1>1, <2>1 DEF LocationsExact
<1>3. CASE RecordTransaction
  <2> DEFINE t == block.transactions[txNo]
  <2>1. mTransactionSet' = Insert(t)
    BY <1>3 DEF RecordTransaction
  <2>2. \E tx \in TransactionsAt(t.location) : tx.hash = t.hash
    BY <1>3, RecordShape, PlacedLies
  <2> HIDE DEF t
  <2>3. ASSUME NEW h \in DOMAIN mTransactionSet'
        PROVE  \E tx \in TransactionsAt(mTransactionSet'[h]) : tx.hash = h
    <3>1. CASE h \in DOMAIN mTransactionSet
      BY <2>1, <3>1 DEF Insert, LocationsExact
    <3>2. CASE h \notin DOMAIN mTransactionSet
      BY <2>1, <2>2, <2>3, <3>2 DEF Insert
    <3> QED
      BY <3>1, <3>2
  <2>4. \A location : TransactionsAt(location)' = TransactionsAt(location)
    BY <1>1
  <2> QED
    BY <2>3, <2>4 DEF LocationsExact
<1> QED
  BY <1>2, <1>3

-----------------------------------------------------------------------------
(* The hashes that are known grow by those of the block that is recorded,  *)
(* one by one; when all are in, the block is returned or the program ends. *)
LEMMA HeaderHashes ==
  ASSUME Shape
  PROVE  HashesOf(block.blockIndex)
           = {Header.transactions[i].hash : i \in 1..Len(Header.transactions)}
BY HeaderTyped DEF Shape, HashesOf, Header

(* What is filed stays in step with the blocks that were returned: a read  *)
(* files all of its block or, when it fails, nothing of it.                *)
LEMMA RecordedStep ==
  ASSUME Shape, Recorded, [Next]_vars
  PROVE  Recorded'
<1> USE DEF totals, parsing, history
<1>1. Shape' /\ chain' = chain /\ \A n : HashesOf(n)' = HashesOf(n)
  BY ShapeStep, ChainFixed, ChainStays
<1>2. HashesOfAll(succeeded)' = HashesOfAll(succeeded')
  BY <1>1 DEF HashesOfAll
<1>3. Recorded' <=> (phase' # "exited" =>
                        DOMAIN mTransactionSet' = HashesOfAll(succeeded') \cup Added')
  BY <1>2 DEF Recorded
<1>4. Recorded <=> (phase # "exited" =>
                       DOMAIN mTransactionSet = HashesOfAll(succeeded) \cup Added)
  BY DEF Recorded
<1>5. CASE \/ \E n \in 0..(mBlockCount - 1) : ReadStart(n)
           \/ ReadOutOfRange \/ PrintBlock \/ ParseTransaction \/ ParseFails
  <2>1. /\ phase \in {"idle", "parse"} /\ phase' \in {"idle", "parse"}
        /\ UNCHANGED <<mTransactionSet, succeeded>>
    BY <1>5 DEF ReadStart, ReadOutOfRange, PrintBlock, ParseTransaction, ParseFails, Call,
                InLoop, Finish
  <2>2. Added = {} /\ Added' = {}
    BY <2>1 DEF Added
  <2> QED
    BY <1>3, <1>4, <2>1, <2>2
<1>6. CASE \/ \E n \in 0..(mBlockCount - 1) : ReadCorrupted(n)
           \/ ParseExits \/ CheckExits
  BY <1>6 DEF Recorded, ReadCorrupted, ParseExits, CheckExits
<1>7. CASE StartRecord
  <2>1. Added = {} /\ Added' = {}
    BY <1>7 DEF StartRecord, LoopEnds, Added
  <2> QED
    BY <1>3, <1>4, <1>7, <2>1 DEF StartRecord, LoopEnds
<1>8. CASE RecordTransaction
  <2> DEFINE t == block.transactions[txNo]
  <2>1. /\ phase = "record" /\ phase' = "record" /\ txNo' = txNo + 1 /\ txNo \in Nat \ {0}
        /\ succeeded' = succeeded /\ mTransactionSet' = Insert(t) /\ Header' = Header
    BY <1>8, RecordShape DEF RecordTransaction, InLoop, Shape, TypeOK
  <2>2. t.hash = Header.transactions[txNo].hash
    BY <1>8, RecordShape DEF Shape, Placed, IsPlaced
  <2>3. Added' = Added \cup {Header.transactions[txNo].hash}
    BY <2>1 DEF Added
  <2> HIDE DEF t
  <2>4. DOMAIN mTransactionSet' = DOMAIN mTransactionSet \cup {t.hash}
    BY <2>1 DEF Insert
  <2> QED
    BY <1>3, <1>4, <2>1, <2>2, <2>3, <2>4
<1>9. CASE StartCheck
  <2>1. /\ phase = "record" /\ phase' = "check" /\ txNo > Len(Header.transactions)
        /\ UNCHANGED <<block, mTransactionSet, succeeded>>
    BY <1>9 DEF StartCheck, LoopEnds
  <2>2. txNo - 1 = Len(Header.transactions)
    BY <2>1, HeaderTyped DEF Shape, Progress, TypeOK
  <2>3. Added = HashesOf(block.blockIndex)
    BY <2>1, <2>2, HeaderHashes DEF Added
  <2>4. Added' = HashesOf(block.blockIndex)
    BY <1>1, <2>1 DEF Added
  <2> QED
    BY <1>3, <1>4, <2>1, <2>3, <2>4
<1>10. CASE CheckInputs
  <2>1. /\ phase = "check" /\ phase' = "check" /\ UNCHANGED <<block, mTransactionSet, succeeded>>
    BY <1>10 DEF CheckInputs, InLoop
  <2>2. Added' = Added
    BY <1>1, <2>1 DEF Added
  <2> QED
    BY <1>3, <1>4, <2>1, <2>2
<1>11. CASE CheckDone
  <2>1. /\ phase = "check" /\ phase' = "idle"
        /\ succeeded' = succeeded \cup {block.blockIndex}
        /\ mTransactionSet' = mTransactionSet
    BY <1>11 DEF CheckDone, LoopEnds, Finish
  <2>2. Added = HashesOf(block.blockIndex) /\ Added' = {}
    BY <2>1 DEF Added
  <2>3. HashesOfAll(succeeded') = HashesOfAll(succeeded) \cup HashesOf(block.blockIndex)
    BY <2>1 DEF HashesOfAll
  <2> QED
    BY <1>3, <1>4, <2>1, <2>2, <2>3
<1>12. CASE UNCHANGED vars
  BY <1>12, <1>3, <1>4 DEF vars, Added, HashesOf, Header, Block
<1> QED
  BY <1>5, <1>6, <1>7, <1>8, <1>9, <1>10, <1>11, <1>12 DEF Next, Step, Done

-----------------------------------------------------------------------------
(* The flag is up from an odd transaction to the end of the call, which    *)
(* hands it over.                                                          *)
LEMMA WarnedStep ==
  ASSUME Shape, Warned, [Next]_vars
  PROVE  Warned'
<1> USE DEF totals, parsing, history
<1>1. CASE ReadOutOfRange \/ \E n \in 0..(mBlockCount - 1) : ReadCorrupted(n)
  BY <1>1 DEF ReadOutOfRange, ReadCorrupted, Call, Warned, OddIsWarned
<1>2. CASE \E n \in 0..(mBlockCount - 1) : ReadStart(n)
  BY <1>2 DEF ReadStart, Warned, OddIsWarned
<1>3. CASE ParseExits \/ CheckExits
  BY <1>3 DEF ParseExits, CheckExits, Warned, OddIsWarned
<1>4. CASE ParseFails
  BY <1>4 DEF ParseFails, Finish, Warned, OddIsWarned
<1>5. CASE ParseTransaction
  <2>1. /\ phase = "parse" /\ phase' = "parse"
        /\ txNo' = txNo + 1 /\ txNo \in Nat
        /\ gIsWarning' = (gIsWarning \/ Header.transactions[txNo].odd)
    BY <1>5 DEF ParseTransaction, InLoop, Shape, TypeOK
  <2>2. Header' = Header
    <3>1. block \in ReadBlocks
      BY DEF Shape, ReadsOK
    <3>2. block'.blockIndex = block.blockIndex
      BY <1>5, <3>1 DEF ParseTransaction, ReadBlocks
    <3> QED
      BY <3>2, ChainFixed, ChainStays
  <2>3. \A i \in 1..txNo : Header.transactions[i].odd => gIsWarning'
    <3>1. (gIsWarning => gIsWarning') /\ (Header.transactions[txNo].odd => gIsWarning')
      BY <2>1, Zenon
    <3>2. \A i \in 1..(txNo - 1) : Header.transactions[i].odd => gIsWarning
      BY <2>1 DEF Warned
    <3>3. \A i \in 1..txNo : i \in 1..(txNo - 1) \/ i = txNo
      BY <2>1
    <3> HIDE <2>1
    <3> QED
      BY <3>1, <3>2, <3>3, Zenon
  <2> QED
    BY <2>1, <2>2, <2>3 DEF Warned, OddIsWarned
<1>6. CASE StartRecord
  <2>1. /\ phase = "parse" /\ phase' = "record" /\ txNo > Len(Header.transactions)
        /\ UNCHANGED <<block, gIsWarning>>
    BY <1>6 DEF StartRecord, LoopEnds
  <2>2. Header' = Header
    BY <2>1, ChainFixed, ChainStays
  <2>3. HasOdd(Header) => gIsWarning
    BY <2>1, HeaderTyped DEF Warned, HasOdd, Shape, TypeOK
  <2> QED
    BY <2>1, <2>2, <2>3 DEF Warned, OddIsWarned
<1>7. CASE RecordTransaction \/ StartCheck \/ CheckInputs
  <2>1. /\ phase \in {"record", "check"} /\ phase' \in {"record", "check"}
        /\ UNCHANGED <<block, gIsWarning>>
    BY <1>7 DEF RecordTransaction, StartCheck, CheckInputs, InLoop, LoopEnds
  <2>2. Header' = Header
    BY <2>1, ChainFixed, ChainStays
  <2> QED
    BY <2>1, <2>2 DEF Warned, OddIsWarned
<1>8. CASE CheckDone
  <2>1. phase = "check" /\ phase' = "idle"
    BY <1>8 DEF CheckDone, LoopEnds, Finish
  <2>2. Header' = Header /\ block'.warning = gIsWarning
    BY <1>8, FinishSteps
  <2> QED
    BY <2>1, <2>2 DEF Warned, OddIsWarned
<1>9. CASE PrintBlock \/ UNCHANGED vars
  <2>1. /\ UNCHANGED <<chain, phase, block, txNo, returned>>
        /\ phase = "idle" \/ gIsWarning' = gIsWarning
    BY <1>9 DEF PrintBlock, Call, vars
  <2>2. Header' = Header
    BY <2>1, ChainStays
  <2> QED
    BY <2>1, <2>2 DEF Warned, OddIsWarned
<1> QED
  BY <1>1, <1>2, <1>3, <1>4, <1>5, <1>6, <1>7, <1>8, <1>9 DEF Next, Step, Done

-----------------------------------------------------------------------------
(* Calls only add to the reads, so a series from the bottom up has been    *)
(* one all along.                                                          *)
LEMMA BottomUpBefore ==
  ASSUME Shape, [Next]_vars, BottomUp'
  PROVE  BottomUp
<1>1. reads \in Seq(0..(mBlockCount - 1))
  BY DEF Shape, ReadsOK
<1>2. CASE reads' = reads
  BY <1>2 DEF BottomUp
<1>3. CASE \E n \in 0..(mBlockCount - 1) : reads' = Append(reads, n)
  <2>1. PICK n \in 0..(mBlockCount - 1) : reads' = Append(reads, n)
    BY <1>3
  <2>2. \A k \in DOMAIN reads : k \in DOMAIN reads' /\ reads'[k] = reads[k]
    BY <1>1, <2>1, AppendProperties
  <2>3. \A k \in DOMAIN reads : \A j \in 1..(k - 1) : j \in DOMAIN reads
    BY <1>1
  <2> QED
    BY <2>2, <2>3 DEF BottomUp
<1> QED
  BY <1>2, <1>3 DEF Next, Step, Done, vars, history, ReadStart, ReadCorrupted, ReadOutOfRange,
     ParseTransaction, ParseFails, ParseExits, StartRecord, RecordTransaction, StartCheck,
     CheckInputs, CheckExits, CheckDone, PrintBlock

(* On a valid chain read from the bottom up the block at hand finds the    *)
(* transactions it spends, which are recorded by then.                     *)
LEMMA SpentKnown ==
  ASSUME Shape, Recorded, AllReturned, ValidChain, BottomUp, phase = "check",
         NEW i \in DOMAIN Header.transactions
  PROVE  Spent(Header.transactions[i]) \subseteq DOMAIN mTransactionSet
<1> DEFINE b == block.blockIndex
           tx == Header.transactions[i]
<1>1. /\ b \in 0..(mBlockCount - 1) /\ Header = Block(b)
      /\ i \in DOMAIN Block(b).transactions
  BY HeaderTyped DEF Shape
<1>2. \A j \in DOMAIN tx.inputs :
         tx.inputs[j] \in {NoHash} \cup UNION {HashesOf(m) : m \in 0..b}
  BY <1>1 DEF ValidChain
<1>3. DOMAIN mTransactionSet = HashesOfAll(succeeded) \cup HashesOf(b)
  BY DEF Recorded, Added
<1>4. \A m \in 0..(b - 1) : m \in succeeded
  <2>1. /\ Len(reads) \in DOMAIN reads /\ reads[Len(reads)] = b
        /\ \A k \in 1..(Len(reads) - 1) : reads[k] \in succeeded
    BY DEF Shape, ReadsOK, Busy, AllReturned
  <2> QED
    BY <2>1 DEF BottomUp
<1>5. \A m \in 0..b : HashesOf(m) \subseteq DOMAIN mTransactionSet
  BY <1>1, <1>3, <1>4 DEF HashesOfAll
<1> HIDE DEF tx
<1>6. \A j \in DOMAIN tx.inputs : tx.inputs[j] # NoHash => tx.inputs[j] \in DOMAIN mTransactionSet
  BY <1>2, <1>5
<1>7. Spent(tx) \subseteq DOMAIN mTransactionSet
  BY <1>6 DEF Spent
<1> QED
  BY <1>7 DEF tx

(* On a valid chain read from the bottom up every read returns its block:  *)
(* its inputs are found, so that exit(1) is not reached.                   *)
LEMMA AllReturnedStep ==
  ASSUME Shape, Recorded, AllReturned, [Next]_vars
  PROVE  AllReturned'
<1> USE DEF totals, parsing, history
<1>1. SUFFICES ASSUME ValidChain', BottomUp'
               PROVE  /\ phase' # "exited"
                      /\ phase' = "idle" => \A k \in DOMAIN reads' : reads'[k] \in succeeded'
                      /\ Busy' => \A k \in 1..(Len(reads') - 1) : reads'[k] \in succeeded'
  BY DEF AllReturned
<1>2. ValidChain /\ BottomUp
  BY <1>1, BottomUpBefore, ChainFixed, ChainStays
<1>3. reads \in Seq(0..(mBlockCount - 1)) /\ DOMAIN reads = 1..Len(reads)
  BY DEF Shape, ReadsOK
<1>4. CASE \E n \in 0..(mBlockCount - 1) : ReadStart(n)
  <2>1. PICK n \in 0..(mBlockCount - 1) : ReadStart(n)
    BY <1>4
  <2>2. phase = "idle" /\ phase' = "parse" /\ reads' = Append(reads, n) /\ succeeded' = succeeded
    BY <2>1 DEF ReadStart, Call
  <2>3. Len(reads') - 1 = Len(reads) /\ \A k \in 1..Len(reads) : reads'[k] = reads[k]
    BY <1>3, <2>2, AppendProperties
  <2> QED
    BY <1>2, <1>3, <2>2, <2>3 DEF AllReturned
<1>5. CASE \E n \in 0..(mBlockCount - 1) : ReadCorrupted(n)
  BY <1>2, <1>5 DEF ReadCorrupted, ValidChain
<1>6. CASE ParseExits \/ ParseFails
  <2>1. txNo \in DOMAIN Header.transactions
    <3>1. InLoop("parse")
      BY <1>6, Zenon DEF ParseExits, ParseFails
    <3> HIDE <1>6
    <3> QED
      BY <3>1, HeaderTyped DEF InLoop, Shape, TypeOK
  <2>3. Header.transactions[txNo].segwit \/ Header.transactions[txNo].huge
    BY <1>6, Zenon DEF ParseExits, ParseFails
  <2>2. /\ block.blockIndex \in 0..(mBlockCount - 1)
        /\ Header = Block(block.blockIndex)
    BY HeaderTyped DEF Shape
  <2> QED
    BY <1>2, <2>1, <2>2, <2>3 DEF ValidChain
<1>7. CASE CheckExits
  <2>1. phase = "check" /\ txNo \in DOMAIN Header.transactions
    BY <1>7, HeaderTyped DEF CheckExits, InLoop, Shape, TypeOK
  <2> QED
    BY <1>2, <1>7, <2>1, SpentKnown DEF CheckExits
<1>8. CASE CheckDone
  <2>1. /\ phase = "check" /\ phase' = "idle" /\ reads' = reads
        /\ succeeded' = succeeded \cup {block.blockIndex}
    BY <1>8 DEF CheckDone, LoopEnds, Finish
  <2>2. /\ reads[Len(reads)] = block.blockIndex
        /\ \A k \in 1..(Len(reads) - 1) : reads[k] \in succeeded
    BY <1>2, <2>1 DEF Shape, ReadsOK, Busy, AllReturned
  <2> QED
    BY <1>3, <2>1, <2>2 DEF Busy
<1>9. CASE \/ ReadOutOfRange \/ PrintBlock \/ UNCHANGED vars
           \/ ParseTransaction \/ StartRecord \/ RecordTransaction \/ StartCheck \/ CheckInputs
  <2>1. /\ reads' = reads /\ succeeded' = succeeded
        /\ phase' = phase \/ (Busy /\ Busy')
    BY <1>9 DEF ReadOutOfRange, PrintBlock, vars, ParseTransaction, StartRecord,
       RecordTransaction, StartCheck, CheckInputs, InLoop, LoopEnds, Busy
  <2> QED
    BY <1>2, <2>1 DEF AllReturned, Busy
<1> QED
  BY <1>4, <1>5, <1>6, <1>7, <1>8, <1>9 DEF Next, Step, Done

-----------------------------------------------------------------------------
(* Reading once in order is reading from the bottom up, and has been so    *)
(* all along; the block at hand is the one asked for last.                 *)
LEMMA InOrderBefore ==
  ASSUME Shape, [Next]_vars, InOrder'
  PROVE  InOrder
<1>1. reads \in Seq(0..(mBlockCount - 1))
  BY DEF Shape, ReadsOK
<1>2. CASE reads' = reads
  BY <1>2 DEF InOrder
<1>3. CASE \E n \in 0..(mBlockCount - 1) : reads' = Append(reads, n)
  <2>1. PICK n \in 0..(mBlockCount - 1) : reads' = Append(reads, n)
    BY <1>3
  <2>2. Len(reads') = Len(reads) + 1 /\ \A k \in 1..Len(reads) : reads'[k] = reads[k]
    BY <1>1, <2>1, AppendProperties
  <2>3. \A k \in 1..Len(reads) : reads[k] = k - 1
    BY <1>1, <2>2 DEF InOrder
  <2> QED
    BY <1>1, <2>3 DEF InOrder
<1> QED
  BY <1>2, <1>3 DEF Next, Step, Done, vars, history, ReadStart, ReadCorrupted, ReadOutOfRange,
     ParseTransaction, ParseFails, ParseExits, StartRecord, RecordTransaction, StartCheck,
     CheckInputs, CheckExits, CheckDone, PrintBlock

(* Reading in order is reading from the bottom up, and the block at work is *)
(* the one of the last read.                                               *)
LEMMA InOrderReads ==
  ASSUME Shape, InOrder
  PROVE  /\ BottomUp
         /\ Len(reads) \in Nat
         /\ \A k \in 1..Len(reads) : reads[k] = k - 1
         /\ Busy => Len(reads) > 0 /\ block.blockIndex = Len(reads) - 1
<1>1. Len(reads) \in Nat /\ DOMAIN reads = 1..Len(reads)
  BY DEF Shape, ReadsOK
<1>2. \A k \in 1..Len(reads) : reads[k] = k - 1
  BY <1>1 DEF InOrder
<1>3. BottomUp
  <2>1. ASSUME NEW k \in 1..Len(reads), NEW m \in 0..(reads[k] - 1)
        PROVE  m + 1 \in 1..(k - 1) /\ reads[m + 1] = m
    BY <1>1, <1>2
  <2> QED
    BY <1>1, <2>1 DEF BottomUp
<1> QED
  BY <1>1, <1>2, <1>3 DEF Shape, ReadsOK

(* The counter of a run in order is that of the chain, block after block.  *)
LEMMA NumberedStep ==
  ASSUME Shape, AllReturned, Numbered, [Next]_vars
  PROVE  Numbered'
<1> USE DEF totals, parsing, history
<1> DEFINE b == block.blockIndex
<1>1. SUFFICES ASSUME ValidChain', InOrder'
               PROVE  Numbered'
  BY DEF Numbered
<1>2. ValidChain /\ InOrder /\ \A n, i : Ordinal(n, i)' = Ordinal(n, i)
  BY <1>1, InOrderBefore, ChainFixed, ChainStays
<1>3. /\ phase = "parse" => mTransactionCount = Ordinal(b, txNo)
      /\ phase \in {"idle", "record", "check"} => mTransactionCount = Ordinal(Len(reads), 1)
      /\ Busy => \A i \in DOMAIN block.transactions :
                    block.transactions[i].location.index = Ordinal(b, i)
  BY <1>2 DEF Numbered
<1>4. Shape'
  BY ShapeStep
<1>5. CASE phase' = "exited"
  BY <1>5 DEF Numbered, Busy
<1>6. CASE \E n \in 0..(mBlockCount - 1) : ReadStart(n)
  <2>1. PICK n \in 0..(mBlockCount - 1) : ReadStart(n)
    BY <1>6
  <2>2. /\ phase = "idle" /\ phase' = "parse" /\ txNo' = 1
        /\ mTransactionCount' = mTransactionCount
        /\ reads' = Append(reads, n)
        /\ block'.transactions = << >> /\ block'.blockIndex = n
    BY <2>1 DEF ReadStart, Call
  <2>3. n = Len(reads)
    <3>1. reads \in Seq(0..(mBlockCount - 1))
      BY DEF Shape, ReadsOK
    <3>2. /\ Len(reads') = Len(reads) + 1 /\ reads'[Len(reads) + 1] = n
          /\ Len(reads) + 1 \in 1..Len(reads')
      BY <2>2, <3>1, AppendProperties
    <3>3. reads'[Len(reads) + 1] = Len(reads) + 1 - 1
      BY <1>1, <3>2 DEF InOrder
    <3> QED
      BY <3>1, <3>2, <3>3
  <2>4. mTransactionCount' = Ordinal(n, 1)
    BY <1>3, <2>2, <2>3
  <2> QED
    BY <1>2, <2>2, <2>4 DEF Numbered
<1>7. CASE ParseTransaction
  <2> DEFINE tx == Header.transactions[txNo]
             t == [hash |-> tx.hash, location |-> Location(tx)]
  <2>1. /\ phase = "parse" /\ phase' = "parse" /\ txNo' = txNo + 1
        /\ mTransactionCount' = mTransactionCount + 1
    BY <1>7 DEF ParseTransaction, InLoop
  <2>2. block'.transactions = Append(block.transactions, t) /\ block'.blockIndex = b
    <3>1. block \in ReadBlocks
      BY DEF Shape, ReadsOK
    <3> QED
      BY <1>7, <3>1, ParseShape DEF ParseTransaction, ReadBlocks
  <2>3. t.location.index = Ordinal(b, txNo)
    BY <1>3, <2>1 DEF Location
  <2>4. /\ Len(block.transactions) = txNo - 1 /\ txNo \in Nat
        /\ block.transactions \in Seq(ParsedTransactions)
        /\ Append(block.transactions, t) \in Seq(ParsedTransactions)
    BY <1>4, <2>1, <2>2 DEF Shape, Progress, TypeOK, ReadsOK, ReadBlocks
  <2> HIDE DEF t
  <2>5. /\ DOMAIN block'.transactions = 1..txNo
        /\ \A i \in 1..(txNo - 1) : block'.transactions[i] = block.transactions[i]
        /\ block'.transactions[txNo] = t
    BY <2>2, <2>4
  <2>6. \A i \in 1..txNo : block'.transactions[i].location.index = Ordinal(b, i)
    <3> TAKE i \in 1..txNo
    <3>1. CASE i = txNo
      BY <2>3, <2>5, <3>1
    <3>2. CASE i # txNo
      <4>1. i \in 1..(txNo - 1) /\ DOMAIN block.transactions = 1..(txNo - 1)
        BY <2>4, <3>2
      <4>2. block.transactions[i].location.index = Ordinal(b, i)
        BY <1>3, <2>1, <4>1 DEF Busy
      <4> QED
        BY <2>5, <4>1, <4>2
    <3> QED
      BY <3>1, <3>2
  <2>7. Ordinal(b, txNo + 1) = Ordinal(b, txNo) + 1
    <3>1. b \in 0..mBlockCount
      BY HeaderTyped, HeadersTyped DEF Shape
    <3> QED
      BY <2>4, <3>1, OrdinalSteps DEF Shape
  <2> QED
    BY <1>2, <1>3, <2>1, <2>2, <2>5, <2>6, <2>7 DEF Numbered
<1>8. CASE StartRecord
  <2>1. /\ phase = "parse" /\ phase' = "record" /\ txNo > Len(Header.transactions)
        /\ UNCHANGED <<block, mTransactionCount, reads>>
    BY <1>8 DEF StartRecord, LoopEnds
  <2>2. txNo = Len(Header.transactions) + 1
    <3>1. block.transactions \in Seq(ParsedTransactions)
      BY DEF Shape, ReadsOK, ReadBlocks
    <3>2. Len(block.transactions) = txNo - 1 /\ Len(block.transactions) <= Len(Header.transactions)
      BY <2>1, <3>1, HeaderTyped DEF Shape, Progress, Placed
    <3> QED
      BY <2>1, <3>1, <3>2, HeaderTyped DEF Shape, TypeOK
  <2>3. b + 1 = Len(reads)
    BY <1>2, <2>1, InOrderReads DEF Busy
  <2>4. Ordinal(b + 1, 1) = Ordinal(b, Len(Header.transactions) + 1)
    BY HeaderTyped, OrdinalSteps DEF Shape
  <2> QED
    BY <1>2, <1>3, <2>1, <2>2, <2>3, <2>4 DEF Numbered, Busy
<1>9. CASE RecordTransaction \/ StartCheck \/ CheckInputs
  <2>1. /\ phase \in {"record", "check"} /\ phase' \in {"record", "check"}
        /\ UNCHANGED <<block, mTransactionCount, reads>>
    BY <1>9 DEF RecordTransaction, StartCheck, CheckInputs, InLoop, LoopEnds
  <2> QED
    BY <1>2, <1>3, <2>1 DEF Numbered, Busy
<1>10. CASE ParseFails
  <2>1. phase' = "idle" /\ Header.transactions[txNo].segwit
    BY <1>10 DEF ParseFails, Finish
  <2>2. txNo \in DOMAIN Header.transactions
    <3>1. InLoop("parse")
      BY <1>10 DEF ParseFails
    <3> HIDE <1>10
    <3> QED
      BY <3>1, HeaderTyped DEF InLoop, Shape, TypeOK
  <2> QED
    BY <1>2, <2>1, <2>2, HeaderTyped DEF ValidChain, Shape
<1>11. CASE CheckDone
  <2>1. /\ phase = "check" /\ phase' = "idle" /\ UNCHANGED <<mTransactionCount, reads>>
    BY <1>11 DEF CheckDone, LoopEnds, Finish
  <2> QED
    BY <1>2, <1>3, <2>1 DEF Numbered, Busy
<1>12. CASE ReadOutOfRange \/ PrintBlock \/ UNCHANGED vars
  <2>1. UNCHANGED <<phase, txNo, block, mTransactionCount, reads>>
    BY <1>12 DEF ReadOutOfRange, PrintBlock, vars
  <2> QED
    BY <1>2, <1>3, <2>1 DEF Numbered, Busy
<1>13. CASE ParseExits \/ CheckExits \/ \E n \in 0..(mBlockCount - 1) : ReadCorrupted(n)
  BY <1>5, <1>13 DEF ParseExits, CheckExits, ReadCorrupted
<1> QED
  BY <1>6, <1>7, <1>8, <1>9, <1>10, <1>11, <1>12, <1>13 DEF Next, Step, Done

(* A transaction that is recorded for the first time in such a run has     *)
(* only later places in the chain besides this one: those of the blocks    *)
(* below are all known, and so are those before it in its own block.       *)
LEMMA NewIsFirst ==
  ASSUME Shape, Recorded, AllReturned, Numbered, ValidChain, InOrder, phase = "record",
         NEW i \in DOMAIN block.transactions, i = txNo,
         block.transactions[i].hash \notin DOMAIN mTransactionSet
  PROVE  IsFirst(block.transactions[i].hash, block.transactions[i].location.index)
<1> DEFINE b == block.blockIndex
           h == block.transactions[i].hash
<1>1. /\ b \in 0..(mBlockCount - 1) /\ Header = Block(b) /\ mBlockCount \in Nat
      /\ DOMAIN Header.transactions = 1..Len(Header.transactions)
      /\ Len(Header.transactions) \in Nat
  BY HeaderTyped, HeadersTyped DEF Shape
<1>2. i \in DOMAIN Header.transactions /\ h = Header.transactions[i].hash
  BY DEF Shape, Placed, IsPlaced
<1>3. block.transactions[i].location.index = Ordinal(b, i)
  BY DEF Numbered, Busy
<1>4. DOMAIN mTransactionSet =
         HashesOfAll(succeeded) \cup {Header.transactions[j].hash : j \in 1..(i - 1)}
  BY DEF Recorded, Added
<1>5. \A n \in 0..(b - 1) : n \in succeeded
  <2>1. /\ BottomUp /\ Len(reads) \in Nat
        /\ \A k \in 1..Len(reads) : reads[k] = k - 1
        /\ b = Len(reads) - 1
    BY InOrderReads DEF Busy
  <2>2. \A k \in 1..(Len(reads) - 1) : reads[k] \in succeeded
    BY <2>1 DEF AllReturned, Busy
  <2>3. ASSUME NEW n \in 0..(b - 1) PROVE n \in succeeded
    <3>1. n + 1 \in 1..(Len(reads) - 1) /\ n + 1 \in 1..Len(reads)
      BY <2>1
    <3>2. reads[n + 1] = n
      BY <2>1, <3>1
    <3> QED
      BY <2>2, <3>1, <3>2
  <2> QED
    BY <2>3
<1> HIDE DEF h
<1>6. /\ <<b, i>> \in TxPlaces /\ Block(<<b, i>>[1]).transactions[<<b, i>>[2]].hash = h
      /\ Ordinal(b, i) = Ordinal(<<b, i>>[1], <<b, i>>[2])
  BY <1>1, <1>2 DEF TxPlaces
<1>7. ASSUME NEW p \in Same(h) PROVE Ordinal(b, i) <= Ordinal(p[1], p[2])
  <2>1. PICK n \in 0..(mBlockCount - 1) :
           p \in {n} \X DOMAIN Block(n).transactions /\ p \in TxPlaces
    BY DEF Same, TxPlaces
  <2>2. /\ p[1] = n /\ p[2] \in DOMAIN Block(n).transactions
        /\ Block(n).transactions[p[2]].hash = h
    BY <2>1 DEF Same
  <2> DEFINE j == p[2]
  <2>3. Block(n) \in Blocks /\ j \in 1..Len(Block(n).transactions)
        /\ Len(Block(n).transactions) \in Nat
    BY <2>2, HeadersTyped, BlockTyped DEF Shape
  <2>4. CASE n < b
    <3>1. h \in HashesOf(n)
      BY <2>2 DEF HashesOf
    <3>2. n \in succeeded
      BY <1>1, <1>5, <2>4
    <3>3. h \in DOMAIN mTransactionSet
      BY <1>4, <3>1, <3>2 DEF HashesOfAll
    <3> QED
      BY <3>3 DEF h
  <2>5. CASE n = b
    <3>1. ~(j < i)
      <4>1. SUFFICES ASSUME j < i PROVE h \in DOMAIN mTransactionSet
        BY DEF h
      <4>2. j \in 1..(i - 1) /\ h = Header.transactions[j].hash
        BY <1>1, <1>2, <2>2, <2>3, <2>5, <4>1
      <4> QED
        BY <1>4, <4>2
    <3>2. i \in Nat /\ j \in Nat /\ i <= j /\ b \in 0..mBlockCount
      BY <1>1, <1>2, <2>3, <3>1
    <3> QED
      BY <2>2, <2>5, <3>2, OrdinalSteps DEF Shape
  <2>6. CASE b < n
    <3>1. n \in 0..mBlockCount /\ b \in 0..(n - 1) /\ i \in 1..Len(Block(b).transactions)
          /\ j \in Nat \ {0}
      BY <1>1, <1>2, <2>3, <2>6
    <3>2. Ordinal(b, i) <= Ordinal(n, j)
      BY <3>1, OrdinalSteps DEF Shape
    <3> QED
      BY <2>2, <3>2
  <2> QED
    BY <1>1, <2>4, <2>5, <2>6
<1>8. IsFirst(h, Ordinal(b, i))
  <2>1. <<b, i>> \in Same(h)
    BY <1>6 DEF Same
  <2> QED
    BY <1>6, <1>7, <2>1 DEF IsFirst
<1> QED
  BY <1>3, <1>8 DEF h

(* In these words the property says of each recorded hash that the index   *)
(* filed for it is that of its first place.                                *)
LEMMA NumberedInOrderIs == NumberedInOrder <=> AllFirst
<1> DEFINE Ordinals(h) == {Ordinal(p[1], p[2]) : p \in Same(h)}
<1>1. ASSUME NEW h, NEW k
      PROVE  IsFirst(h, k) <=> k \in Ordinals(h) /\ \A o \in Ordinals(h) : k <= o
  BY DEF IsFirst
<1>2. NumberedInOrder <=>
        (ValidChain /\ InOrder =>
           \A h \in DOMAIN mTransactionSet :
              /\ mTransactionSet[h].index \in Ordinals(h)
              /\ \A o \in Ordinals(h) : mTransactionSet[h].index <= o)
  BY DEF NumberedInOrder, InOrder, Same
<1> QED
  BY <1>1, <1>2 DEF AllFirst

(* A transaction that is filed takes its ordinal in the chain when it is   *)
(* new, and a duplicate leaves the lower number alone.                     *)
LEMMA NumberedInOrderStep ==
  ASSUME Shape, Recorded, AllReturned, Numbered, NumberedInOrder, [Next]_vars
  PROVE  NumberedInOrder'
<1>1. SUFFICES ASSUME ValidChain', InOrder', NEW h \in DOMAIN mTransactionSet'
               PROVE  IsFirst(h, mTransactionSet[h].index)'
  <2>1. NumberedInOrder' <=> AllFirst'
    BY NumberedInOrderIs, PTL
  <2> QED
    BY <2>1 DEF AllFirst
<1>2. ValidChain /\ InOrder
  BY <1>1, InOrderBefore, ChainFixed, ChainStays
<1>3. Same(h)' = Same(h) /\ \A n, i : Ordinal(n, i)' = Ordinal(n, i)
  BY ChainFixed, ChainStays DEF Same
<1>4. \A g \in DOMAIN mTransactionSet : IsFirst(g, mTransactionSet[g].index)
  BY <1>2, NumberedInOrderIs DEF AllFirst
<1>5. IsFirst(h, mTransactionSet'[h].index)
  <2>1. CASE ~RecordTransaction
    <3>1. mTransactionSet' = mTransactionSet
      BY <2>1, SetFixed
    <3> QED
      BY <1>4, <3>1
  <2>2. CASE RecordTransaction
    <3> DEFINE t == block.transactions[txNo]
    <3>1. mTransactionSet' = Insert(t) /\ phase = "record"
      BY <2>2 DEF RecordTransaction, InLoop
    <3>2. t.hash \notin DOMAIN mTransactionSet => IsFirst(t.hash, t.location.index)
      BY <1>2, <2>2, <3>1, RecordShape, NewIsFirst
    <3> HIDE DEF t
    <3> QED
      BY <1>1, <1>4, <3>1, <3>2 DEF Insert
  <2> QED
    BY <2>1, <2>2
<1> QED
  BY <1>3, <1>5 DEF IsFirst

-----------------------------------------------------------------------------
(* Every step of the reader preserves the conjunction of all of these.     *)
LEMMA StepIInv == IInv /\ [Next]_vars => IInv'
BY ShapeStep, LocationsStep, RecordedStep, WarnedStep, AllReturnedStep, NumberedStep,
   NumberedInOrderStep
DEF IInv

(* The invariant of readBlock and processTransactions as a whole.          *)
THEOREM Invariant == Spec => []IInv
BY InitIInv, StepIInv, PTL DEF Spec

(* Counters and places are unsigned, and the pointer readBlock leaves in   *)
(* nextBlockHash is wild only on a chain of a single block, where the      *)
(* subtraction wraps.                                                      *)
THEOREM TypeCorrect == Spec => []TypeOK
<1>1. IInv => TypeOK
  BY DEF IInv, Shape
<1> QED
  BY <1>1, Invariant, PTL

(* Every place that processTransactions has filed is exactly that of a     *)
(* transaction with that hash, so readSingleTransaction reads the right    *)
(* bytes, whatever was read, and failed, before.                           *)
THEOREM LocationsAreExact == Spec => []LocationsExact
<1>1. IInv => LocationsExact
  BY DEF IInv
<1> QED
  BY <1>1, Invariant, PTL

(* Between calls of readBlock exactly the transactions of the blocks that  *)
(* were returned are known.                                                *)
THEOREM RecordsAreExact == Spec => []RecordedExactly
<1>1. IInv => RecordedExactly
  BY DEF IInv, Recorded, Added, HashesOfAll, RecordedExactly
<1> QED
  BY <1>1, Invariant, PTL

(* A valid chain read from the bottom up never makes processTransactions   *)
(* or the parser call exit(1).                                             *)
THEOREM ValidChainIsRead == Spec => []NeverExits
<1>1. IInv => NeverExits
  BY DEF IInv, AllReturned, NeverExits
<1> QED
  BY <1>1, Invariant, PTL

(* A valid chain read once in order has its transactions numbered by       *)
(* processBlockData as they follow each other in the chain, a duplicate    *)
(* keeping its first number.                                               *)
THEOREM NumberedAsInChain == Spec => []NumberedInOrder
<1>1. IInv => NumberedInOrder
  BY DEF IInv
<1> QED
  BY <1>1, Invariant, PTL

(* readBlock never returns a block with an odd transaction without its     *)
(* warning, though the flag is a global that printBlock sets as well.      *)
THEOREM OddGetsWarning == Spec => []OddIsWarned
<1>1. IInv => OddIsWarned
  BY DEF IInv, Warned
<1> QED
  BY <1>1, Invariant, PTL
-----------------------------------------------------------------------------
(* The refinement.  Besides what holds above it takes three facts about    *)
(* the block at hand: its transactions are numbered from the counter at    *)
(* its start, the new ones are filed by their first place, and what the    *)
(* loops have passed was in order.                                         *)
FirstOfBlock(i) == \A j \in 1..(i - 1) : block.transactions[j].hash # block.transactions[i].hash

Indexed == Busy => \A i \in DOMAIN block.transactions :
                       block.transactions[i].location.index = NextNumber + i - 1

Filed == phase \in {"record", "check"} =>
            \A i \in DOMAIN block.transactions :
               /\ phase = "record" => i < txNo
               /\ block.transactions[i].hash \notin HashesOfAll(succeeded)
               /\ FirstOfBlock(i)
               => mTransactionSet[block.transactions[i].hash] = block.transactions[i].location

Parseable(i) == ~Header.transactions[i].segwit /\ ~Header.transactions[i].huge

Passed == Busy =>
    /\ Header.whole /\ Len(Header.transactions) < MAX_BLOCK_TRANSACTION
    /\ \A i \in DOMAIN Header.transactions : (phase = "parse" => i < txNo) => Parseable(i)
    /\ phase = "check" => \A i \in 1..(txNo - 1) :
                             Spent(Header.transactions[i]) \subseteq DOMAIN mTransactionSet

AInv == Shape /\ Recorded /\ Indexed /\ Filed /\ Passed
(* What the proofs below need of the shape: the lengths of the loops and   *)
(* where the block at hand lies.                                           *)
LEMMA LoopFacts ==
  ASSUME Shape
  PROVE  /\ txNo \in Nat \ {0}
         /\ mTransactionCount \in Nat
         /\ block \in ReadBlocks
         /\ block.transactions \in Seq(ParsedTransactions)
         /\ Len(block.transactions) \in Nat
         /\ DOMAIN block.transactions = 1..Len(block.transactions)
         /\ Len(Header.transactions) \in Nat
         /\ DOMAIN Header.transactions = 1..Len(Header.transactions)
         /\ block.blockIndex + 1 \in DOMAIN chain
         /\ Header = chain[block.blockIndex + 1]
<1>1. block \in ReadBlocks /\ block.transactions \in Seq(ParsedTransactions)
  BY DEF Shape, ReadsOK, ReadBlocks
<1>2. block.blockIndex + 1 \in DOMAIN chain
  BY HeaderTyped, HeadersTyped DEF Shape, mBlockCount
<1> QED
  BY <1>1, <1>2, HeaderTyped DEF Shape, TypeOK, Header, Block

(* The counter at the start of the block stays while its transactions are  *)
(* parsed, each counted and numbered from there.                           *)
LEMMA IndexedStep ==
  ASSUME Shape, Indexed, [Next]_vars
  PROVE  Indexed'
<1> USE DEF totals, parsing, history
<1>1. CASE \E n \in 0..(mBlockCount - 1) : ReadStart(n)
  <2>1. block'.transactions = << >>
    BY <1>1 DEF ReadStart
  <2> QED
    BY <2>1 DEF Indexed
<1>2. CASE ParseTransaction
  <2> DEFINE tx == Header.transactions[txNo]
             t == [hash |-> tx.hash, location |-> Location(tx)]
  <2>1. /\ phase = "parse" /\ phase' = "parse" /\ mTransactionCount' = mTransactionCount + 1
        /\ Len(block.transactions) = txNo - 1
    BY <1>2 DEF ParseTransaction, InLoop, Shape, Progress
  <2>2. block'.transactions = Append(block.transactions, t)
    BY <1>2, ParseShape
  <2>3. t.location.index = mTransactionCount
    BY DEF Location
  <2> HIDE DEF t
  <2>4. t \in ParsedTransactions
    <3>1. Shape'
      BY <1>2, ParseShape
    <3>2. block'.transactions \in Seq(ParsedTransactions)
      BY <3>1 DEF Shape, ReadsOK, ReadBlocks
    <3>3. /\ Len(block.transactions) + 1 \in DOMAIN block'.transactions
          /\ block'.transactions[Len(block.transactions) + 1] = t
      BY <2>2, LoopFacts
    <3> QED
      BY <3>2, <3>3
  <2>5. /\ DOMAIN block'.transactions = 1..txNo /\ Len(block'.transactions) = txNo
        /\ \A i \in 1..(txNo - 1) : block'.transactions[i] = block.transactions[i]
        /\ block'.transactions[txNo] = t
    BY <2>1, <2>2, <2>4, LoopFacts, AppendProperties
  <2>6. NextNumber' = NextNumber /\ NextNumber = mTransactionCount - (txNo - 1)
    BY <2>1, <2>5, LoopFacts DEF NextNumber
  <2>7. ASSUME NEW i \in 1..txNo
        PROVE  block'.transactions[i].location.index = NextNumber + i - 1
    <3>1. CASE i = txNo
      BY <2>3, <2>5, <2>6, <3>1, LoopFacts
    <3>2. CASE i # txNo
      <4>1. i \in 1..(txNo - 1) /\ i \in DOMAIN block.transactions
        BY <2>1, <3>2, LoopFacts
      <4>2. block.transactions[i].location.index = NextNumber + i - 1
        BY <2>1, <4>1 DEF Indexed, Busy
      <4> QED
        BY <2>5, <4>1, <4>2
    <3> QED
      BY <3>1, <3>2
  <2> QED
    BY <2>5, <2>6, <2>7 DEF Indexed
<1>3. CASE StartRecord \/ RecordTransaction \/ StartCheck \/ CheckInputs
  <2>1. /\ Busy /\ phase # "idle" /\ phase # "exited" /\ phase' # "idle" /\ phase' # "exited"
        /\ UNCHANGED <<block, mTransactionCount>>
    BY <1>3 DEF StartRecord, RecordTransaction, StartCheck, CheckInputs, InLoop, LoopEnds, Busy
  <2>2. NextNumber' = NextNumber
    BY <2>1 DEF NextNumber
  <2> QED
    BY <2>1, <2>2 DEF Indexed
<1>4. CASE \/ \E n \in 0..(mBlockCount - 1) : ReadCorrupted(n)
           \/ ReadOutOfRange \/ ParseFails \/ ParseExits \/ CheckExits \/ CheckDone
           \/ PrintBlock
  <2>1. ~Busy'
    BY <1>4 DEF ReadCorrupted, ReadOutOfRange, ParseFails, ParseExits, CheckExits, CheckDone,
                PrintBlock, Call, Finish, Busy
  <2> QED
    BY <2>1 DEF Indexed
<1>5. CASE UNCHANGED vars
  BY <1>5 DEF vars, Indexed, Busy, NextNumber
<1> QED
  BY <1>1, <1>2, <1>3, <1>4, <1>5 DEF Next, Step, Done

(* A hash that is new to the archive and to the block is new to            *)
(* mTransactionSet, which takes its place; later ones find it there.       *)
LEMMA FiledStep ==
  ASSUME Shape, Recorded, Filed, [Next]_vars
  PROVE  Filed'
<1> USE DEF totals, parsing, history
<1>1. CASE phase' \notin {"record", "check"}
  BY <1>1 DEF Filed
<1>2. CASE StartRecord
  <2>1. phase' = "record" /\ txNo' = 1 /\ block' = block
    BY <1>2 DEF StartRecord
  <2> QED
    BY <2>1, LoopFacts DEF Filed
<1>3. CASE RecordTransaction
  <2> DEFINE t == block.transactions[txNo]
  <2>1. /\ phase = "record" /\ phase' = "record" /\ txNo' = txNo + 1
        /\ UNCHANGED <<chain, block, succeeded>> /\ mTransactionSet' = Insert(t)
        /\ txNo \in DOMAIN block.transactions
    BY <1>3, RecordShape DEF RecordTransaction, InLoop
  <2>2. HashesOfAll(succeeded)' = HashesOfAll(succeeded)
    BY <2>1, ChainStays DEF HashesOfAll
  <2>3. \A i \in DOMAIN block.transactions :
           block.transactions[i].hash = Header.transactions[i].hash
    BY DEF Shape, Placed, IsPlaced
  <2>4. DOMAIN mTransactionSet = HashesOfAll(succeeded) \cup
                                    {Header.transactions[j].hash : j \in 1..(txNo - 1)}
    BY <2>1 DEF Recorded, Added
  <2> HIDE DEF t
  <2>5. ASSUME NEW i \in DOMAIN block.transactions, i < txNo + 1,
               block.transactions[i].hash \notin HashesOfAll(succeeded), FirstOfBlock(i)
        PROVE  mTransactionSet'[block.transactions[i].hash] = block.transactions[i].location
    <3> DEFINE h == block.transactions[i].hash
    <3>1. CASE i < txNo
      <4>1. mTransactionSet[h] = block.transactions[i].location
        BY <2>1, <2>5, <3>1 DEF Filed
      <4>2. h \in DOMAIN mTransactionSet
        BY <2>3, <2>4, <3>1, LoopFacts
      <4> QED
        BY <2>1, <4>1, <4>2 DEF Insert
    <3>2. CASE i = txNo
      <4>1. h \notin DOMAIN mTransactionSet
        <5>1. ASSUME NEW j \in 1..(txNo - 1) PROVE Header.transactions[j].hash # h
          BY <2>1, <2>3, <2>5, <3>2, LoopFacts DEF FirstOfBlock
        <5> QED
          BY <2>4, <2>5, <5>1
      <4>2. t = block.transactions[i]
        BY <3>2 DEF t
      <4> QED
        BY <2>1, <4>1, <4>2 DEF Insert
    <3> QED
      BY <2>1, <2>5, <3>1, <3>2, LoopFacts
  <2> QED
    BY <2>1, <2>2, <2>5 DEF Filed, FirstOfBlock
<1>4. CASE StartCheck
  <2>1. /\ phase = "record" /\ txNo > Len(Header.transactions)
        /\ UNCHANGED <<chain, block, succeeded, mTransactionSet>>
    BY <1>4 DEF StartCheck, LoopEnds
  <2>2. HashesOfAll(succeeded)' = HashesOfAll(succeeded)
    BY <2>1, ChainStays DEF HashesOfAll
  <2>3. \A i \in DOMAIN block.transactions : i < txNo
    BY <2>1, LoopFacts DEF Shape, Progress
  <2> QED
    BY <2>1, <2>2, <2>3 DEF Filed, FirstOfBlock
<1>5. CASE CheckInputs \/ UNCHANGED vars
  <2>1. /\ UNCHANGED <<chain, phase, block, succeeded, mTransactionSet>>
        /\ txNo' = txNo \/ phase = "check"
    BY <1>5 DEF CheckInputs, InLoop, vars
  <2>2. HashesOfAll(succeeded)' = HashesOfAll(succeeded)
    BY <2>1, ChainStays DEF HashesOfAll
  <2> QED
    BY <2>1, <2>2 DEF Filed, FirstOfBlock
<1>6. CASE \/ \E n \in 0..(mBlockCount - 1) : ReadStart(n) \/ ReadCorrupted(n)
           \/ ReadOutOfRange \/ ParseTransaction \/ ParseFails \/ ParseExits \/ CheckExits
           \/ CheckDone \/ PrintBlock
  <2>1. phase' \notin {"record", "check"}
    BY <1>6 DEF ReadStart, ReadCorrupted, ReadOutOfRange, ParseTransaction, InLoop, ParseFails,
                ParseExits, CheckExits, CheckDone, PrintBlock, Call, Finish
  <2> QED
    BY <1>1, <2>1
<1> QED
  BY <1>2, <1>3, <1>4, <1>5, <1>6 DEF Next, Step, Done

(* The loops go on only past what the parser can read and the lookup finds.*)
LEMMA PassedStep ==
  ASSUME Shape, Passed, [Next]_vars
  PROVE  Passed'
<1> USE DEF totals, parsing, history
<1>1. CASE \E n \in 0..(mBlockCount - 1) : ReadStart(n)
  <2>1. PICK n \in 0..(mBlockCount - 1) : ReadStart(n)
    BY <1>1
  <2>2. /\ phase' = "parse" /\ txNo' = 1 /\ chain' = chain /\ block'.blockIndex = n
        /\ Block(n).whole /\ ~TooMany(n)
    BY <2>1 DEF ReadStart
  <2>3. Header' = Block(n)
    BY <2>2 DEF Header, Block
  <2>4. DOMAIN Block(n).transactions = 1..Len(Block(n).transactions)
        /\ Len(Block(n).transactions) \in Nat
    BY HeadersTyped, BlockTyped DEF Shape
  <2>5. Len(Block(n).transactions) < MAX_BLOCK_TRANSACTION
    BY <2>2, <2>4, ReaderAssumption DEF TooMany
  <2> QED
    BY <2>2, <2>3, <2>4, <2>5 DEF Passed
<1>2. CASE ParseTransaction
  <2>1. /\ phase = "parse" /\ phase' = "parse" /\ txNo' = txNo + 1
        /\ Parseable(txNo)
    BY <1>2 DEF ParseTransaction, InLoop, Parseable
  <2>2. Header' = Header
    <3>1. block'.blockIndex = block.blockIndex
      BY <1>2, LoopFacts DEF ParseTransaction, ReadBlocks
    <3> QED
      BY <3>1, ChainFixed, ChainStays
  <2>3. \A i \in DOMAIN Header.transactions : i < txNo + 1 => i < txNo \/ i = txNo
    BY LoopFacts
  <2>4. \A i \in DOMAIN Header.transactions : i < txNo + 1 => Parseable(i)
    BY <2>1, <2>3 DEF Passed, Busy
  <2> QED
    BY <2>1, <2>2, <2>4 DEF Passed, Parseable, Busy
<1>3. CASE StartRecord \/ RecordTransaction \/ StartCheck \/ CheckInputs
  <2>1. /\ UNCHANGED <<chain, block>> /\ Busy
        /\ phase' \in {"record", "check"}
        /\ phase = "parse" => txNo > Len(Header.transactions)
    BY <1>3 DEF StartRecord, RecordTransaction, StartCheck, CheckInputs, InLoop, LoopEnds, Busy
  <2>2. Header' = Header
    BY <2>1, ChainStays
  <2>3. \A i \in DOMAIN Header.transactions : Parseable(i)
    BY <2>1, LoopFacts DEF Passed
  <2>4. phase' = "check" => \A i \in 1..(txNo' - 1) :
                               Spent(Header.transactions[i]) \subseteq DOMAIN mTransactionSet'
    <3>1. CASE StartRecord \/ RecordTransaction
      BY <3>1 DEF StartRecord, RecordTransaction, InLoop
    <3>2. CASE StartCheck
      BY <3>2 DEF StartCheck
    <3>3. CASE CheckInputs
      <4>1. /\ phase = "check" /\ txNo' = txNo + 1 /\ mTransactionSet' = mTransactionSet
            /\ Spent(Header.transactions[txNo]) \subseteq DOMAIN mTransactionSet
        BY <3>3 DEF CheckInputs, InLoop
      <4>2. \A i \in 1..(txNo' - 1) : i \in 1..(txNo - 1) \/ i = txNo
        BY <4>1, LoopFacts
      <4> QED
        BY <2>1, <4>1, <4>2 DEF Passed
    <3> QED
      BY <1>3, <3>1, <3>2, <3>3
  <2>5. Spent(Header.transactions[1])' = Spent(Header.transactions[1])
        /\ \A i : Spent(Header.transactions[i])' = Spent(Header.transactions[i])
    BY <2>2 DEF Spent
  <2> QED
    BY <2>1, <2>2, <2>3, <2>4, <2>5 DEF Passed, Parseable
<1>4. CASE \/ \E n \in 0..(mBlockCount - 1) : ReadCorrupted(n)
           \/ ReadOutOfRange \/ ParseFails \/ ParseExits \/ CheckExits \/ CheckDone
           \/ PrintBlock
  <2>1. ~Busy'
    BY <1>4 DEF ReadCorrupted, ReadOutOfRange, ParseFails, ParseExits, CheckExits, CheckDone,
                PrintBlock, Call, Finish, Busy
  <2> QED
    BY <2>1 DEF Passed
<1>5. CASE UNCHANGED vars
  BY <1>5 DEF vars, Passed, Busy, Parseable, Header, Block, Spent
<1> QED
  BY <1>1, <1>2, <1>3, <1>4, <1>5 DEF Next, Step, Done

(* The invariant of the refinement holds at the start and after each step. *)
LEMMA InvariantOfArchive == Spec => []AInv
<1>1. Init => AInv
  <2>1. Init => Indexed /\ Filed /\ Passed
    BY DEF Init, Indexed, Filed, Passed, Busy
  <2> QED
    BY <2>1, InitIInv DEF AInv, IInv
<1>2. AInv /\ [Next]_vars => AInv'
  BY ShapeStep, RecordedStep, IndexedStep, FiledStep, PassedStep DEF AInv
<1> QED
  BY <1>1, <1>2, PTL DEF Spec
-----------------------------------------------------------------------------
(* What the archive sees is left alone as long as no block is returned: a  *)
(* place that is filed is not filed again.                                 *)
LEMMA KnownStays ==
  ASSUME chain' = chain, succeeded' = succeeded,
         \/ mTransactionSet' = mTransactionSet
         \/ Shape /\ Recorded /\ RecordTransaction
  PROVE  Known' = Known
<1>1. HashesOfAll(succeeded)' = HashesOfAll(succeeded)
  BY ChainStays DEF HashesOfAll
<1>2. ASSUME NEW h \in HashesOfAll(succeeded)
      PROVE  mTransactionSet'[h] = mTransactionSet[h]
  <2>1. CASE RecordTransaction /\ Recorded
    <3>1. h \in DOMAIN mTransactionSet
      BY <2>1 DEF RecordTransaction, InLoop, Recorded
    <3> QED
      BY <2>1, <3>1 DEF RecordTransaction, Insert
  <2> QED
    BY <2>1
<1> QED
  BY <1>1, <1>2 DEF Known, HashesOfAll

LEMMA KnownHashes ==
  ASSUME Recorded, phase # "exited"
  PROVE  /\ DOMAIN Known = HashesOfAll(succeeded)
         /\ DOMAIN mTransactionSet = DOMAIN Known \cup Added
         /\ \A h \in DOMAIN Known : Known[h] = mTransactionSet[h]
BY DEF Recorded, Known, HashesOfAll

(* Both modules count the same starts and name the same hashes.            *)
LEMMA SameWords ==
  ASSUME Shape
  PROVE  /\ Archive!Starts(Header) = Starts(Header)
         /\ Archive!HashesOf(Header) = HashesOf(block.blockIndex)
         /\ Archive!Intact(Header)
               <=> Header.whole /\ Len(Header.transactions) < MAX_BLOCK_TRANSACTION
<1>1. Archive!Starts(Header) = Starts(Header)
  BY DEF Archive!Starts, Starts
<1>2. Archive!HashesOf(Header) = HashesOf(block.blockIndex)
  BY DEF Archive!HashesOf, HashesOf, Header
<1> QED
  BY <1>1, <1>2 DEF Archive!Intact

(* When the loop over the inputs is reached, everything is known that is   *)
(* known to the archive or in the block at hand.                           *)
LEMMA CoveredIs ==
  ASSUME AInv, phase = "check", NEW i \in DOMAIN Header.transactions
  PROVE  Archive!Covered(Header, i)
           <=> Spent(Header.transactions[i]) \subseteq DOMAIN mTransactionSet
<1>1. DOMAIN mTransactionSet = DOMAIN Known \cup HashesOf(block.blockIndex)
  BY KnownHashes DEF AInv, Added
<1>2. Archive!HashesOf(Header) = HashesOf(block.blockIndex)
  BY SameWords DEF AInv
<1> QED
  BY <1>1, <1>2 DEF Archive!Covered, Spent

(* What is filed of the block at hand is its first places, as the archive  *)
(* names them.                                                             *)
LEMMA FirstPlaceIs ==
  ASSUME AInv, phase = "check", NEW h \in HashesOf(block.blockIndex),
         h \notin HashesOfAll(succeeded)
  PROVE  mTransactionSet[h] = Archive!FirstPlace(Header, h)
<1> USE DEF AInv
<1> DEFINE hash(j) == Header.transactions[j].hash
           First(j) == hash(j) = h /\ Archive!IsFirst(Header, j)
           i == CHOOSE j \in DOMAIN Header.transactions : First(j)
<1>1. /\ DOMAIN Header.transactions = 1..Len(Header.transactions)
      /\ Len(Header.transactions) \in Nat
      /\ DOMAIN block.transactions = DOMAIN Header.transactions
      /\ Busy
  BY LoopFacts DEF Shape, Progress, Busy
<1>2. \A j \in DOMAIN Header.transactions :
         /\ IsPlaced(block.transactions[j], j)
         /\ block.transactions[j].location.index = NextNumber + j - 1
         /\ block.transactions[j].location \in Locations
  <2>1. \A j \in DOMAIN Header.transactions : IsPlaced(block.transactions[j], j)
    BY <1>1 DEF Shape, Placed
  <2>2. \A j \in DOMAIN Header.transactions :
           block.transactions[j].location.index = NextNumber + j - 1
    BY <1>1, Zenon DEF Indexed
  <2>3. block.transactions \in Seq(ParsedTransactions)
    BY LoopFacts
  <2>4. \A j \in DOMAIN Header.transactions : block.transactions[j] \in ParsedTransactions
    BY <1>1, <2>3
  <2> QED
    BY <2>1, <2>2, <2>4 DEF ParsedTransactions
<1>3. \E j \in DOMAIN Header.transactions : First(j)
  <2> DEFINE S == {j \in DOMAIN Header.transactions : hash(j) = h}
  <2>1. S # {} /\ S \subseteq Nat
    BY <1>1 DEF HashesOf, Header
  <2>2. PICK j \in S : \A k \in S : j <= k
    <3> HIDE DEF S
    <3> QED
      BY <2>1, LeastExists
  <2>3. \A k \in 1..(j - 1) : hash(k) # hash(j)
    <3>1. ASSUME NEW k \in 1..(j - 1), hash(k) = hash(j) PROVE FALSE
      <4>1. k \in S
        BY <1>1, <2>2, <3>1
      <4> QED
        BY <1>1, <2>2, <4>1
    <3> QED
      BY <3>1
  <2> QED
    BY <2>2, <2>3 DEF Archive!IsFirst
<1>4. i \in DOMAIN Header.transactions /\ First(i)
  BY <1>3, Zenon
<1>5. mTransactionSet[h] = block.transactions[i].location
  <2> HIDE DEF i
  <2>1. block.transactions[i].hash = h
    BY <1>2, <1>4 DEF IsPlaced
  <2>2. FirstOfBlock(i)
    <3>1. \A j \in 1..(i - 1) : j \in DOMAIN Header.transactions
      BY <1>1, <1>4
    <3> QED
      BY <1>2, <1>4, <2>1, <3>1 DEF FirstOfBlock, Archive!IsFirst, IsPlaced
  <2> QED
    BY <1>1, <1>4, <2>1, <2>2 DEF Filed
<1>6. block.transactions[i].location = Archive!Place(Header, i)
  <2> HIDE DEF i
  <2> DEFINE l == block.transactions[i].location
  <2>1. /\ l \in Locations /\ l.index = NextNumber + i - 1 /\ l.file = Header.file
        /\ l.offset = Starts(Header)[i] /\ l.length = Header.transactions[i].length
    BY <1>2, <1>4 DEF IsPlaced
  <2> HIDE DEF l
  <2>2. l = [file |-> l.file, offset |-> l.offset, length |-> l.length, index |-> l.index]
    BY <2>1 DEF Locations
  <2>3. Archive!Place(Header, i)
           = [file |-> Header.file, offset |-> Starts(Header)[i],
              length |-> Header.transactions[i].length, index |-> NextNumber + i - 1]
    BY SameWords DEF Archive!Place
  <2>4. l = Archive!Place(Header, i)
    BY <2>1, <2>2, <2>3, Zenon
  <2> QED
    BY <2>4 DEF l
<1> QED
  BY <1>5, <1>6, Zenon DEF Archive!FirstPlace
(* The loops before a block is returned, and printBlock, are nothing that  *)
(* the archive sees.                                                       *)
LEMMA StutterSteps ==
  ASSUME AInv,
         \/ \E n \in 0..(mBlockCount - 1) : ReadStart(n)
         \/ ParseTransaction \/ StartRecord \/ RecordTransaction \/ StartCheck \/ CheckInputs
         \/ PrintBlock \/ UNCHANGED vars
  PROVE  UNCHANGED Archive!vars
<1> USE DEF totals, parsing, history, AInv
<1>1. Known' = Known /\ chain' = chain /\ returned' = returned
  <2>1. UNCHANGED <<chain, succeeded, returned>>
    BY DEF ReadStart, ParseTransaction, StartRecord, RecordTransaction, StartCheck, CheckInputs,
           PrintBlock, vars
  <2>2. mTransactionSet' = mTransactionSet \/ RecordTransaction
    BY DEF ReadStart, ParseTransaction, StartRecord, StartCheck, CheckInputs, PrintBlock, vars
  <2> QED
    BY <2>1, <2>2, KnownStays
<1>2. (phase = "exited") = (phase' = "exited")
  BY DEF ReadStart, Call, ParseTransaction, StartRecord, RecordTransaction, StartCheck,
         CheckInputs, InLoop, LoopEnds, PrintBlock, vars
<1>3. NextNumber' = NextNumber
  <2>1. CASE \E n \in 0..(mBlockCount - 1) : ReadStart(n)
    <3>1. /\ phase = "idle" /\ phase' = "parse" /\ mTransactionCount' = mTransactionCount
          /\ block'.transactions = << >>
      BY <2>1 DEF ReadStart, Call
    <3> QED
      BY <3>1, LoopFacts DEF NextNumber
  <2>2. CASE ParseTransaction
    <3> DEFINE t == [hash |-> Header.transactions[txNo].hash,
                     location |-> Location(Header.transactions[txNo])]
    <3>1. /\ phase = "parse" /\ phase' = "parse"
          /\ mTransactionCount' = mTransactionCount + 1
          /\ block'.transactions = Append(block.transactions, t)
      BY <2>2, ParseShape DEF ParseTransaction, InLoop
    <3> HIDE DEF t
    <3>2. Len(block'.transactions) = Len(block.transactions) + 1
      BY <3>1, LoopFacts
    <3>3. /\ NextNumber = mTransactionCount - Len(block.transactions)
          /\ NextNumber' = mTransactionCount' - Len(block'.transactions)
      BY <3>1, Zenon DEF NextNumber
    <3>4. mTransactionCount \in Nat /\ Len(block.transactions) \in Nat
      BY LoopFacts
    <3> QED
      BY <3>1, <3>2, <3>3, <3>4
  <2>3. CASE StartRecord \/ RecordTransaction \/ StartCheck \/ CheckInputs
    <3>1. /\ phase \notin {"idle", "exited"} /\ phase' \notin {"idle", "exited"}
          /\ UNCHANGED <<block, mTransactionCount>>
      BY <2>3 DEF StartRecord, RecordTransaction, StartCheck, CheckInputs, InLoop, LoopEnds
    <3> QED
      BY <3>1 DEF NextNumber
  <2>4. CASE PrintBlock \/ UNCHANGED vars
    BY <2>4 DEF PrintBlock, vars, NextNumber
  <2> QED
    BY <2>1, <2>2, <2>3, <2>4
<1> QED
  BY <1>1, <1>2, <1>3 DEF Archive!vars

(* Without a block of the chain to read, or with one the parser refuses,   *)
(* nothing becomes known.                                                  *)
LEMMA RefuseSteps ==
  ASSUME AInv, ReadOutOfRange \/ ParseFails
  PROVE  Archive!Next
<1> USE DEF totals, parsing, history, AInv
<1>1. CASE ReadOutOfRange
  <2>1. /\ phase = "idle" /\ returned' = FALSE
        /\ UNCHANGED <<chain, phase, block, mTransactionCount, mTransactionSet, succeeded>>
    BY <1>1 DEF ReadOutOfRange, Call
  <2>2. Known' = Known /\ NextNumber' = NextNumber
    BY <2>1, KnownStays DEF NextNumber
  <2> QED
    BY <2>1, <2>2 DEF Archive!Next, Archive!RefuseIndex
<1>2. CASE ParseFails
  <2>1. /\ phase = "parse" /\ phase' = "idle" /\ returned' = FALSE
        /\ UNCHANGED <<chain, mTransactionCount, mTransactionSet, succeeded>>
        /\ txNo <= Len(Header.transactions) /\ Header.transactions[txNo].segwit
    BY <1>2 DEF ParseFails, InLoop, Finish
  <2>2. Known' = Known
    BY <2>1, KnownStays
  <2>3. NextNumber' = NextNumber + txNo - 1
    BY <2>1, LoopFacts DEF NextNumber, Shape, Progress
  <2>4. txNo \in DOMAIN Header.transactions
    BY <2>1, LoopFacts
  <2>5. Archive!Intact(Header)
    BY <2>1, SameWords DEF Passed, Busy
  <2>6. Archive!Refuse(Header)
    BY <2>1, <2>2, <2>3, <2>4, <2>5 DEF Archive!Refuse
  <2> QED
    BY <2>1, <2>6, LoopFacts DEF Archive!Next
<1> QED
  BY <1>1, <1>2

(* exit(1) is called on a block that is cut off or beyond the limits, or   *)
(* that spends what neither the archive nor the block itself knows.        *)
LEMMA EndSteps ==
  ASSUME AInv,
         \/ \E n \in 0..(mBlockCount - 1) : ReadCorrupted(n)
         \/ ParseExits \/ CheckExits
  PROVE  Archive!Next
<1> USE DEF totals, parsing, history, AInv
<1>1. /\ phase # "exited" /\ phase' = "exited"
      /\ UNCHANGED <<chain, mTransactionCount, mTransactionSet, succeeded, returned>>
  BY DEF ReadCorrupted, Call, ParseExits, CheckExits, InLoop
<1>2. Known' = Known
  BY <1>1, KnownStays
<1>3. CASE \E n \in 0..(mBlockCount - 1) : ReadCorrupted(n)
  <2>1. PICK n \in 0..(mBlockCount - 1) : ReadCorrupted(n)
    BY <1>3
  <2>2. phase = "idle" /\ (~Block(n).whole \/ TooMany(n))
    BY <2>1 DEF ReadCorrupted, Call
  <2>3. Len(Block(n).transactions) \in Nat /\ n + 1 \in DOMAIN chain
    BY HeadersTyped, BlockTyped DEF Shape, mBlockCount
  <2>4. ~Archive!Intact(Block(n))
    BY <2>2, <2>3, ReaderAssumption DEF TooMany, Archive!Intact
  <2>5. NextNumber' = NextNumber
    BY <1>1, <2>2 DEF NextNumber
  <2>6. Archive!End(Block(n))
    BY <1>1, <1>2, <2>4, <2>5 DEF Archive!End
  <2> QED
    BY <1>1, <2>3, <2>6 DEF Archive!Next, Block
<1>4. CASE ParseExits
  <2>1. /\ phase = "parse" /\ txNo <= Len(Header.transactions)
        /\ Header.transactions[txNo].huge
    BY <1>4 DEF ParseExits, InLoop
  <2>2. NextNumber' = NextNumber + txNo - 1
    BY <1>1, <2>1, LoopFacts DEF NextNumber, Shape, Progress
  <2>3. txNo \in DOMAIN Header.transactions
    BY <2>1, LoopFacts
  <2>4. Archive!Intact(Header)
    BY <2>1, SameWords DEF Passed, Busy
  <2>5. Archive!End(Header)
    BY <1>1, <1>2, <2>1, <2>2, <2>3, <2>4 DEF Archive!End
  <2> QED
    BY <1>1, <2>5, LoopFacts DEF Archive!Next
<1>5. CASE CheckExits
  <2>1. /\ phase = "check" /\ txNo <= Len(Header.transactions)
        /\ ~(Spent(Header.transactions[txNo]) \subseteq DOMAIN mTransactionSet)
    BY <1>5 DEF CheckExits, InLoop
  <2>2. NextNumber' = NextNumber + Len(Header.transactions)
    BY <1>1, <2>1, LoopFacts DEF NextNumber, Shape, Progress
  <2>3. txNo \in DOMAIN Header.transactions
    BY <2>1, LoopFacts
  <2>4. Archive!Intact(Header)
    BY <2>1, SameWords DEF Passed, Busy
  <2>5. ~Archive!Covered(Header, txNo)
    BY <2>1, <2>3, CoveredIs
  <2>6. Archive!End(Header)
    BY <1>1, <1>2, <2>2, <2>3, <2>4, <2>5 DEF Archive!End
  <2> QED
    BY <1>1, <2>6, LoopFacts DEF Archive!Next
<1> QED
  BY <1>3, <1>4, <1>5

(* readBlock returns a block: all of it is known from then on.             *)
LEMMA ReturnStep ==
  ASSUME AInv, CheckDone
  PROVE  Archive!Next
<1> USE DEF totals, parsing, history, AInv
<1> DEFINE b == block.blockIndex
<1>1. /\ phase = "check" /\ phase' = "idle" /\ returned' = TRUE
      /\ UNCHANGED <<chain, mTransactionCount, mTransactionSet>>
      /\ succeeded' = succeeded \cup {b} /\ txNo > Len(Header.transactions)
  BY DEF CheckDone, LoopEnds, Finish
<1>2. \A i \in DOMAIN Header.transactions : i \in 1..(txNo - 1)
  BY <1>1, LoopFacts
<1>3. \A i \in DOMAIN Header.transactions : /\ ~Header.transactions[i].segwit
                                            /\ ~Header.transactions[i].huge
                                            /\ Archive!Covered(Header, i)
  BY <1>1, <1>2, CoveredIs DEF Passed, Parseable, Busy
<1>4. Archive!Intact(Header)
  BY <1>1, SameWords DEF Passed, Busy
<1>5. NextNumber' = NextNumber + Len(Header.transactions)
  BY <1>1, LoopFacts DEF NextNumber, Shape, Progress
<1>6. Known' = [h \in DOMAIN Known \cup Archive!HashesOf(Header) |->
                   IF h \in DOMAIN Known THEN Known[h] ELSE Archive!FirstPlace(Header, h)]
  <2>1. DOMAIN Known = HashesOfAll(succeeded) /\ Archive!HashesOf(Header) = HashesOf(b)
    BY <1>1, KnownHashes, SameWords
  <2>2. HashesOfAll(succeeded)' = HashesOfAll(succeeded) \cup HashesOf(b)
    BY <1>1, ChainStays DEF HashesOfAll
  <2>3. Known' = [h \in HashesOfAll(succeeded)' |-> mTransactionSet[h]]
    BY <1>1 DEF Known, HashesOfAll
  <2>4. \A h \in HashesOfAll(succeeded) : mTransactionSet[h] = Known[h]
    BY DEF Known, HashesOfAll
  <2>5. \A h \in HashesOf(b) : h \notin HashesOfAll(succeeded) =>
           mTransactionSet[h] = Archive!FirstPlace(Header, h)
    BY <1>1, FirstPlaceIs
  <2> QED
    BY <2>1, <2>2, <2>3, <2>4, <2>5
<1>7. Archive!Return(Header)
  <2>1. (phase = "exited") = FALSE /\ (phase' = "exited") = FALSE
    BY <1>1
  <2> QED
    BY <1>1, <1>3, <1>4, <1>5, <1>6, <2>1, Zenon DEF Archive!Return
<1> QED
  BY <1>1, <1>7, LoopFacts DEF Archive!Next

(* For every chain and every series of calls, what the callers of          *)
(* readBlock see is the archive: a block is taken in as a whole, with its  *)
(* first places and its numbers, when all it spends is known, and a read   *)
(* that fails on the way changes nothing that is known.                    *)
THEOREM ReaderIsArchive == Spec => ImplementsArchive
<1>1. Init => Archive!Init
  <2>1. SUFFICES ASSUME Init PROVE Archive!Init
    OBVIOUS
  <2>2. chain \in Seq(Blocks)
    BY <2>1, ReaderAssumption DEF Init
  <2>3. Known = [h \in {} |-> h]
    BY <2>1 DEF Init, Known
  <2> QED
    BY <2>1, <2>2, <2>3 DEF Init, NextNumber, Archive!Init
<1>2. AInv /\ [Next]_vars => [Archive!Next]_(Archive!vars)
  BY StutterSteps, RefuseSteps, EndSteps, ReturnStep DEF Next, Step, Done
<1> QED
  BY <1>1, <1>2, InvariantOfArchive, PTL DEF Spec, ImplementsArchive, Archive!Spec
=============================================================================
