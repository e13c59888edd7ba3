----------------------------- MODULE BlockScan ------------------------------
(***************************************************************************)
(* BlockChainImpl of src/src/BlockChain.cpp from its construction to the   *)
(* array of block headers: scanBlockChain collects the header of every     *)
(* block in the files blk00000.dat, blk00001.dat, ...; buildBlockChain     *)
(* then walks from the last header back to the first, once to count and    *)
(* once to fill mBlockChainHeaders.                                        *)
(*                                                                         *)
(* A file is a sequence of cells.  A block on disk is a magic id, a length *)
(* and that many cells, the first of which is the 80-byte prefix; a cell   *)
(* stands for what the code reads or skips in one go, and MAX_BLOCK_SIZE   *)
(* is counted in cells.  The hash of a prefix is the block's name: SHA-256 *)
(* is taken to be injective.  Bytes that are no block's prefix, where the  *)
(* code takes them for one, have a hash in Junk.                           *)
(***************************************************************************)
EXTENDS Integers, Sequences, FiniteSets

CONSTANTS
    Blocks,        \* the blocks that may be on disk
    Junk,          \* the hashes of bytes that are no block's prefix
    NoBlock,       \* the hash of no block: the parent of a first block
    Prev,          \* the parent that stands in the bytes with a hash
    Size,          \* the length of a block, in cells
    Layouts,       \* the contents the block files may have
    MagicId,       \* MAGIC_ID, as a number
    MaxBlockSize,  \* MAX_BLOCK_SIZE, in cells
    MaxBlocks,     \* the values the argument maxBlocks may have
    WordSize       \* 2^32: the number of values of a uint32_t

Hashes == Blocks \cup Junk

ASSUME ScanAssumption ==
    /\ Blocks \cap Junk = {}
    /\ NoBlock \notin Hashes
    /\ Prev \in [Hashes -> Hashes \cup {NoBlock}]
    /\ Size \in [Blocks -> Nat \ {0}]
    /\ MaxBlockSize \in Nat \ {0}
    /\ MagicId \in Nat /\ MagicId >= MaxBlockSize
    /\ MaxBlocks \subseteq Nat
    /\ WordSize \in Nat \ {0}

-----------------------------------------------------------------------------
(* What is on disk: in each file a sequence of records.  A record is a     *)
(* block of which the first so many cells were written, or so many cells   *)
(* that are no block (block = NoBlock).  All cells but those of a header   *)
(* hold the word of the record, which may be the magic id.                 *)

Word(n) == [kind |-> "word", value |-> n]
Magic == Word(MagicId)
LengthCell(b) == Word(Size[b])

(* The first word of a prefix is a version; as a prefix stands behind a    *)
(* length, it is never read as one.                                        *)
PrefixCell(b) == [kind |-> "prefix", value |-> 1, block |-> b]

Cells == [kind : {"word"}, value : Nat] \cup {PrefixCell(b) : b \in Blocks}

FullSize(b) == Size[b] + 2

CellOf(r, i) ==
    IF r.block = NoBlock \/ i > 3 THEN Word(r.word)
    ELSE <<Magic, LengthCell(r.block), PrefixCell(r.block)>>[i]

(* Where each record ends, as the number of cells up to there.             *)
Ends(records) ==
    LET End[k \in 0..Len(records)] == IF k = 0 THEN 0 ELSE End[k - 1] + records[k].cells
    IN  End

FileOf(records) ==
    LET End == Ends(records)
        Owner(p) == CHOOSE k \in 1..Len(records) : End[k - 1] < p /\ p <= End[k]
    IN  [p \in 1..End[Len(records)] |-> CellOf(records[Owner(p)], p - End[Owner(p) - 1])]

Records == [block : Blocks \cup {NoBlock}, cells : Nat \ {0}, word : Nat]

ASSUME LayoutAssumption == Layouts \subseteq Seq(Seq(Records))

VARIABLES
    layout, disk,         \* what the files hold
    mMaxBlocks,           \* the argument of the constructor
    phase,                \* what the caller does next
    mBlockIndex,          \* the file being scanned
    position,             \* the position in that file
    mScanCount,
    mBlockHeaderSet,
    mLastBlockHeader,
    blockCount, index, found,       \* the locals of buildBlockChain
    mBlockChainHeaders, mBlockCount,
    walked                \* history: the headers the counting pass visited

fixed == <<layout, disk, mMaxBlocks>>
scanVars == <<mBlockIndex, position, mBlockHeaderSet, mLastBlockHeader>>
resultVars == <<mBlockChainHeaders, mBlockCount>>
walkVars == <<blockCount, index, found, walked>>
vars == <<fixed, phase, scanVars, mScanCount, walkVars, resultVars>>

NoHeader == [hash |-> NoBlock, prev |-> NoBlock, file |-> 0, offset |-> 0, length |-> 0]

(* The constructor opens blk00000.dat.                                     *)
Init == /\ layout \in Layouts
        /\ disk = [f \in DOMAIN layout |-> FileOf(layout[f])]
        /\ mMaxBlocks \in MaxBlocks
        /\ phase = "scanning"
        /\ mBlockIndex = 0
        /\ position = 0
        /\ mScanCount = 0
        /\ mBlockHeaderSet = {}
        /\ mLastBlockHeader = NoHeader
        /\ blockCount = 0
        /\ index = 0
        /\ found = NoHeader
        /\ walked = << >>
        /\ mBlockChainHeaders = << >>
        /\ mBlockCount = 0

-----------------------------------------------------------------------------
(* readBlockHeader.  Files, and positions in them, count from 0.           *)

Readable(f, p) == f < Len(disk) /\ p < Len(disk[f + 1])
Cell(f, p) == disk[f + 1][p + 1]
IsMagic(f, p) == Readable(f, p) /\ Cell(f, p) = Magic

(* The next cell, of the next file if this one is at its end.  A search    *)
(* for a magic id starts at that cell, in a file just opened behind it.    *)
NextCell ==
    IF Readable(mBlockIndex, position)
    THEN [file |-> mBlockIndex, start |-> position, search |-> position]
    ELSE [file |-> mBlockIndex + 1, start |-> 0, search |-> 1]

Hits(at) == {p \in at.search..(at.search + MaxBlockSize - 1) : IsMagic(at.file, p)}

(* The next block starts here, or at the first magic id of the next        *)
(* MaxBlockSize cells, or else at the start of the file after this one.    *)
Candidates(at) ==
    IF IsMagic(at.file, at.start) THEN {<<at.file, at.start>>}
    ELSE IF Hits(at) = {} THEN {<<at.file + 1, 0>>}
    ELSE {<<at.file, p>> : p \in {p \in Hits(at) : \A q \in Hits(at) : p <= q}}

(* Behind the magic id: a length within the limit and 80 bytes.            *)
HasHeader(file, p) == Readable(file, p + 2) /\ Cell(file, p + 1).value < MaxBlockSize

(* The bytes taken for a prefix, whatever they are, and their hash.        *)
IsPrefix(file, p) == \E b \in Blocks : Cell(file, p) = PrefixCell(b)
HashesAt(file, p) == IF IsPrefix(file, p) THEN {Cell(file, p).block} ELSE Junk

(* Variant: the offset is taken before the length is read.                 *)
HeaderWithLength(file, p, hash) ==
    [hash |-> hash, prev |-> Prev[hash],
     file |-> file, offset |-> p + 1, length |-> Cell(file, p + 1).value]

HeaderBehind(file, p, hash) ==
    [hash |-> hash, prev |-> Prev[hash],
     file |-> file, offset |-> p + 2, length |-> Cell(file, p + 1).value]

(* Behind the magic id: a length over the limit.                           *)
TooLong(file, p) == Readable(file, p + 1) /\ Cell(file, p + 1).value >= MaxBlockSize

(* Where readBlockHeader reads a magic id: a set of at most one place.     *)
BlockStarts ==
    LET at == NextCell
    IN  {start \in Candidates(at) : /\ Readable(at.file, at.start)
                                    /\ IsMagic(start[1], start[2])}

(* The header that it finds there, if it finds one.                        *)
NextHeaders ==
    UNION {{HeaderBehind(start[1], start[2], hash) : hash \in HashesAt(start[1], start[2] + 2)} :
              start \in {start \in BlockStarts : HasHeader(start[1], start[2])}}

(* It may find none: the end of a file can come within 80 bytes that are   *)
(* no prefix.                                                              *)
NoHeaderRead ==
    \A start \in BlockStarts :
        ~(HasHeader(start[1], start[2]) /\ IsPrefix(start[1], start[2] + 2))

(* Variant: the prefix is skipped a second time.                           *)
SkipPrefixAgain(header) == header.offset + header.length + 1

(* The rest of the block is skipped, whatever the file holds there.        *)
PositionAfter(header) == header.offset + header.length

(* unordered_set::insert keeps the header that is there already.           *)
Insert(header) ==
    IF \E h \in mBlockHeaderSet : h.hash = header.hash
    THEN mBlockHeaderSet
    ELSE mBlockHeaderSet \cup {header}

ReadHeader(header) == /\ mBlockIndex' = header.file
                      /\ position' = PositionAfter(header)
                      /\ mLastBlockHeader' = header
                      /\ mBlockHeaderSet' = Insert(header)

-----------------------------------------------------------------------------
(* scanBlockChain, which the caller calls until it returns true.           *)

ScanBlock == /\ phase = "scanning"
             /\ mScanCount < mMaxBlocks
             /\ \E header \in NextHeaders : ReadHeader(header)
             /\ mScanCount' = mScanCount + 1
             /\ UNCHANGED <<fixed, phase, walkVars, resultVars>>

(* The limit is looked at after the header was read and recorded.          *)
ScanLimit == /\ phase = "scanning"
             /\ mScanCount >= mMaxBlocks
             /\ \E header \in NextHeaders : ReadHeader(header)
             /\ phase' = "scanned"
             /\ UNCHANGED <<fixed, mScanCount, walkVars, resultVars>>

(* No header: the scan is over, and nothing reads mBlockIndex or the       *)
(* position again.                                                         *)
ScanEnd == /\ phase = "scanning"
           /\ NoHeaderRead
           /\ phase' = "scanned"
           /\ UNCHANGED <<fixed, scanVars, mScanCount, walkVars, resultVars>>

(* assert(header.mBlockLength < MAX_BLOCK_SIZE): where a release build     *)
(* ends the scan, a debug build ends the program.                          *)
ScanAsserts == /\ phase = "scanning"
               /\ \E start \in BlockStarts : TooLong(start[1], start[2])
               /\ phase' = "aborted"
               /\ UNCHANGED <<fixed, scanVars, mScanCount, walkVars, resultVars>>

-----------------------------------------------------------------------------
(* buildBlockChain.                                                        *)

Lookup(hash) == IF \E h \in mBlockHeaderSet : h.hash = hash
                THEN CHOOSE h \in mBlockHeaderSet : h.hash = hash
                ELSE NoHeader

(* Variant: a parent that is not found leaves the iterator where it was.   *)
ParentOrSelf(header) == IF Lookup(header.prev) = NoHeader THEN header ELSE Lookup(header.prev)

Parent(header) == Lookup(header.prev)

BuildNothing == /\ phase = "scanned"
                /\ mScanCount = 0
                /\ phase' = "built"
                /\ UNCHANGED <<fixed, scanVars, mScanCount, walkVars, resultVars>>

BuildStart == /\ phase = "scanned"
              /\ mScanCount > 0
              /\ phase' = "counting"
              /\ blockCount' = 0
              /\ found' = Lookup(mLastBlockHeader.hash)
              /\ UNCHANGED <<fixed, scanVars, mScanCount, index, walked, resultVars>>

(* Variant: a block without a parent on disk is not counted.               *)
CountWithParent == /\ phase = "counting"
                   /\ found # NoHeader
                   /\ blockCount' = IF Parent(found) = NoHeader THEN blockCount
                                                                ELSE blockCount + 1
                   /\ walked' = Append(walked, found)
                   /\ found' = Parent(found)
                   /\ UNCHANGED <<fixed, phase, scanVars, mScanCount, index, resultVars>>

(* Bound: blockCount, a uint32_t, does not wrap.                            *)
Count == /\ phase = "counting"
         /\ found # NoHeader
         /\ blockCount < WordSize - 1
         /\ blockCount' = blockCount + 1
         /\ walked' = Append(walked, found)
         /\ found' = Parent(found)
         /\ UNCHANGED <<fixed, phase, scanVars, mScanCount, index, resultVars>>

(* Variant: the array is filled from one past its last element.            *)
OnePast(count) == count

LastIndex(count) == (count - 1) % WordSize

CountDone == /\ phase = "counting"
             /\ found = NoHeader
             /\ phase' = "filling"
             /\ mBlockChainHeaders' = [i \in 0..(blockCount - 1) |-> NoHeader]
             /\ index' = LastIndex(blockCount)
             /\ found' = Lookup(mLastBlockHeader.hash)
             /\ UNCHANGED <<fixed, scanVars, mScanCount, blockCount, walked, mBlockCount>>

(* Variant: the index is a signed integer.                                 *)
SignedDecrement(i) == i - 1

(* uint32_t: the index wraps when the first block has been stored.         *)
Decrement(i) == (i - 1) % WordSize

Fill == /\ phase = "filling"
        /\ found # NoHeader
        /\ mBlockChainHeaders' = [mBlockChainHeaders EXCEPT ![index] = found]
        /\ index' = Decrement(index)
        /\ found' = Parent(found)
        /\ UNCHANGED <<fixed, phase, scanVars, mScanCount, blockCount, walked, mBlockCount>>

FillDone == /\ phase = "filling"
            /\ found = NoHeader
            /\ phase' = "built"
            /\ mBlockCount' = blockCount
            /\ mScanCount' = 0
            /\ UNCHANGED <<fixed, scanVars, walkVars, mBlockChainHeaders>>

Scan == ScanBlock \/ ScanLimit \/ ScanEnd \/ ScanAsserts

Build == BuildNothing \/ BuildStart \/ Count \/ CountDone \/ Fill \/ FillDone

(* The chain is built and readBlock is what comes next, or there is no     *)
(* program any more.                                                       *)
Done == phase \in {"built", "aborted"} /\ UNCHANGED vars

Next == Scan \/ Build \/ Done

(* The caller, a single thread, goes on until the chain is built.          *)
Spec == Init /\ [][Next]_vars /\ WF_vars(Scan \/ Build)

-----------------------------------------------------------------------------
Headers == [hash : Hashes, prev : Hashes \cup {NoBlock}, file : Nat, offset : Nat, length : Nat]

(* The counters and positions are unsigned integers, every stored header   *)
(* is one that was read, and array slots hold a header or nothing.         *)
TypeOK == /\ phase \in {"scanning", "scanned", "counting", "filling", "built", "aborted"}
          /\ mMaxBlocks \in Nat
          /\ mBlockIndex \in Nat
          /\ position \in Nat
          /\ mScanCount \in Nat
          /\ mBlockHeaderSet \subseteq Headers
          /\ mLastBlockHeader \in Headers \cup {NoHeader}
          /\ blockCount \in Nat
          /\ index \in 0..(WordSize - 1)
          /\ found \in Headers \cup {NoHeader}
          /\ walked \in Seq(Headers)
          /\ \A i \in DOMAIN mBlockChainHeaders :
                mBlockChainHeaders[i] \in Headers \cup {NoHeader}
          /\ mBlockCount \in Nat

Places == UNION {{f} \X DOMAIN layout[f] : f \in DOMAIN layout}

RecordAt(place) == layout[place[1]][place[2]]

(* What the header of the record at a place should be.                     *)
HeaderOf(place) ==
    LET block == RecordAt(place).block
    IN  [hash |-> block, prev |-> Prev[block], file |-> place[1] - 1,
         offset |-> Ends(layout[place[1]])[place[2] - 1] + 2, length |-> Size[block]]

BlockPlaces == {place \in Places : RecordAt(place).block # NoBlock}

Before(place, other) == \/ place[1] < other[1]
                        \/ place[1] = other[1] /\ place[2] < other[2]

(* The first copy on disk of each block.                                   *)
FirstCopies ==
    {place \in BlockPlaces :
        ~\E other \in BlockPlaces : /\ Before(other, place)
                                    /\ RecordAt(other).block = RecordAt(place).block}

(* Files as the node leaves them: whole blocks within the size limit, each *)
(* file starting with one, and padding of any length at the end of a file  *)
(* but shorter than the search window between two blocks.  The magic id    *)
(* may be in a block, but not in padding.                                  *)
Clean ==
    \A f \in DOMAIN layout :
        /\ layout[f] # << >>
        /\ layout[f][1].block # NoBlock
        /\ \A k \in DOMAIN layout[f] :
              LET r == layout[f][k]
              IN  IF r.block = NoBlock
                  THEN /\ r.word # MagicId
                       /\ k < Len(layout[f]) => /\ r.cells < MaxBlockSize
                                                /\ layout[f][k + 1].block # NoBlock
                  ELSE r.cells = FullSize(r.block) /\ Size[r.block] < MaxBlockSize

(* Each magic id is followed by the length and the prefix of a block, or   *)
(* by the end of the file before there could be both.                      *)
HeadersWhole(cells) ==
    \A p \in 1..(Len(cells) - 2) :
        cells[p] = Magic =>
            \E b \in Blocks : cells[p + 1] = LengthCell(b) /\ cells[p + 2] = PrefixCell(b)

(* A header that readBlockHeader stores is one of a record on disk, with   *)
(* the place and length that readBlock will seek and read.  There is one   *)
(* exception: where a magic id stands in front of something else (a header *)
(* was cut off and the file goes on, or the magic id is in a payload or in *)
(* padding), what follows is stored as the header of a block that does not *)
(* exist.  Such a header has the hash of no block, and so never takes the  *)
(* place of one; a file in which all headers are whole yields none.        *)
ScanSound ==
    \A h \in mBlockHeaderSet :
        \/ h \in {HeaderOf(place) : place \in BlockPlaces}
        \/ h.hash \in Junk /\ ~HeadersWhole(disk[h.file + 1])

(* A scan of clean files that is not stopped by maxBlocks finds every      *)
(* block, across padding and file boundaries, and keeps of a block that is *)
(* on disk twice the place of the first copy.                              *)
ScanComplete ==
    phase \notin {"scanning", "aborted"} /\ Clean /\ Cardinality(BlockPlaces) <= mMaxBlocks
        => mBlockHeaderSet = {HeaderOf(place) : place \in FirstCopies}

(* The filling pass of buildBlockChain stays inside the array that the     *)
(* counting pass sized, and fills all of it: index, which wraps at the     *)
(* end, is in range at every store and each slot is stored once.           *)
FillInRange ==
    /\ phase = "filling" /\ found # NoHeader =>
          /\ index \in DOMAIN mBlockChainHeaders
          /\ mBlockChainHeaders[index] = NoHeader
    /\ phase = "built" => \A i \in DOMAIN mBlockChainHeaders : mBlockChainHeaders[i] # NoHeader

(* The chain that readBlock indexes ends with the last header scanned, has *)
(* each block directly after its parent, and starts where no parent is on  *)
(* disk: nothing between two blocks is left out.                           *)
ChainLinked ==
    phase = "built" /\ mBlockCount > 0 =>
        /\ DOMAIN mBlockChainHeaders = 0..(mBlockCount - 1)
        /\ mBlockChainHeaders[mBlockCount - 1].hash = mLastBlockHeader.hash
        /\ \A i \in 1..(mBlockCount - 1) :
              mBlockChainHeaders[i].prev = mBlockChainHeaders[i - 1].hash
        /\ \A h \in mBlockHeaderSet : h.hash # mBlockChainHeaders[0].prev

(* The scan reaches the end of the files and both walks of buildBlockChain *)
(* reach a block without a parent, whatever the files hold.                *)
Terminates == <>(phase \in {"built", "aborted"})

(* How many blocks a walk back from a header meets.                        *)
Depth(header) ==
    LET D[n \in 0..Cardinality(Blocks), h \in mBlockHeaderSet \cup {NoHeader}] ==
            IF n = 0 \/ h = NoHeader THEN 0 ELSE 1 + D[n - 1, Parent(h)]
    IN  D[Cardinality(Blocks), header]

(* Every block is on disk once and after its parent, as in files written   *)
(* in the order the blocks were accepted.                                  *)
ParentsFirst ==
    /\ BlockPlaces = FirstCopies
    /\ \A place \in BlockPlaces :
          LET parent == Prev[RecordAt(place).block]
          IN  parent # NoBlock =>
                  \E other \in BlockPlaces : /\ Before(other, place)
                                             /\ RecordAt(other).block = parent

(* buildBlockChain is documented to "successfully skip orphaned blocks"    *)
(* (src/include/BlockChain.h:203): no branch on disk is longer than the    *)
(* chain it builds.                                                        *)
SkipsOrphans ==
    phase = "built" /\ Clean /\ ParentsFirst =>
        \A h \in mBlockHeaderSet : Depth(h) <= mBlockCount
=============================================================================
