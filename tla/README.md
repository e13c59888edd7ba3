# bitcoinstats in TLA+

bitcoinstats is a console program over the data directory of a Bitcoin node. It
opens the node's LevelDB index of blocks, adds the blocks up by height and by
day, and answers commands typed on standard input. The library next to it
(`BlockChain`) scans the node's block files themselves, rebuilds the chain from
them and parses blocks. This directory holds models of that code, the TLC
configurations that check them on small instances, and TLAPS proofs of their
main invariants.

Paths below are relative to the repository (`src/src/X.cpp` is its `src/X.cpp`).

| module | what it is |
| --- | --- |
| `LinePipe` | what the console promises: an in-order pipe from keyboard to interpreter |
| `Console` | the two threads of the console, statement by statement |
| `ConsoleProofs` | its invariants, and that it implements `LinePipe` |
| `BlockScan`, `MCBlockScan` | block files, the scan, and the building of the chain |
| `BlockScanProofs` | the scan finds the blocks of any files, exactly; the two walks of `buildBlockChain` agree and give a chain |
| `BlockArchive` | what `readBlock` promises: a block is taken in as a whole or not at all |
| `BlockReader`, `MCBlockReader` | reading, recording and printing blocks |
| `BlockReaderProofs` | what is filed is where it says; a valid chain is read to its end and numbered in order; the reader implements `BlockArchive` |
| `BlockIndex`, `MCBlockIndex` | the database iterator, the index, the days, the commands |
| `BlockIndexProofs` | index, heights, days and their numbering are exact; any record is read back as it was stored |
| `SortedStore` | what the database promises: contents that stay, a range read in order |
| `DbFiles` | tables, versions, edits, compactions and directories, as operators |
| `LevelDb`, `MCLevelDb` | opening, reading, compacting and closing a database, with crashes |
| `LevelDbProofs` | references are balanced, no file in use is ever deleted or overwritten, newer writes lie above older ones, nothing is lost, and a reading is one of `SortedStore` |
| `OutputScripts`, `MCOutputScripts` | what `readOutput` makes of the script of an output |
| `OutputScriptsProofs` | its arrays are never overrun; keys lie inside the script; standard scripts and outputs without a warning are decoded; Base58 is exact in both directions |
| `LineSplitter`, `MCLineSplitter` | `getArgs`: a line becomes an argument vector |
| `LineSplitterProofs` | its two arrays are large enough for any line, and what they hold is the line split |
| `IndexRecord`, `MCIndexRecord` | the decoder of one record of the index |
| `Base58`, `MCBase58` | Base58 in both directions, with its big-number arithmetic |
| `Recursion` | induction, loops and sums along a sequence, for the proofs |

## The system

### Components

**Main loop, `InputLine`, `WakeupThread`** (`app/main.cpp`, `InputLine.cpp`,
`WakupThread.cpp`). State: one input buffer, one result buffer, the atomics
`mHaveNewData` and `mExit`, the flag `mPendingWork` with its mutex and condition
variable. A reader thread blocks in `fgets`; the main thread sleeps in
`goToSleep(1000)` (main.cpp:28), polls `getInputLine` and executes the line.
Hard: two threads share the input buffer with no common lock (the mutex in
`getInputLine` is taken by main alone); the wake-up is sent at InputLine.cpp:43,
before the line is published at line 45, so the notified main may find nothing
and only its timeout finds the line; the destructor detaches a reader that may
still be running. Correct when no line is lost, repeated, torn or overtaken, no
wake-up is lost, every line is executed, and `bye` ends the program.

**`BlockChainImpl`: scan and build** (`BlockChain.cpp` 1081-1285). State: the
open files and the position in the last of them, `mBlockHeaderSet`,
`mLastBlockHeader`, `mScanCount`; then the array `mBlockChainHeaders`.
Operations: `openBlock`, `readBlockHeader`, `scanBlockChain`,
`buildBlockChain`. Hard: padding and cut-off blocks, magic ids in front of no
header, blocks on disk twice, forks, two walks over a hash set that must agree on
the size of an array, unsigned wrap-around. Correct when each header stored for a
block says where the block really is, no block of intact files is missed, and the
array is an unbroken chain.

**`BlockChainImpl`: reading** (`BlockChain.cpp` 800-1075, 1287-1425, 1500-1655).
State: the single `mSingleReadBlock`, the global `gIsWarning`, the numbering
`mTransactionCount`, the set of `FileLocation`s `mTransactionSet`, totals.
Operations: `readBlock`, `processBlockData`, `processTransactions`,
`printBlock`, `readSingleTransaction`. Hard: calls of these in any order; a block
that fails half way; a global warning flag several calls set and clear; places
recorded now and used much later; `exit(1)` on an input that is not known.
Correct when every recorded place is exactly that of the transaction it is
filed under, and a valid chain read from the bottom up never exits.

**`BlocksImpl`, `KeyValueDatabase`, `CBlockIndex`** (`blocks.cpp`,
`KeyValueDatabase.cpp`, `CBlockIndex.h`). State: the LevelDB iterator, `mBlocks`
by height, `mBlockHeight`, `mDays` by date, `mDayIndex` by number. All of it is
built in the constructor. Hard: entries come in the order of hashes, with other
prefixes before and after; heights repeat (forks) and have gaps; times are not
in the order of heights, so a day is met again after it was left.

**LevelDB** (`src/src/leveldb`, vendored), as far as the program sets it in
motion. State: the directory (CURRENT, manifests, tables, logs), `VersionSet`
(versions with their references, the next file number, the last sequence),
`DBImpl` (`background_compaction_scheduled_`, `shutting_down_`, `bg_error_`,
`pending_outputs_`), one iterator, one compaction. The program never writes a
key, yet opening always writes: it turns the logs into tables, starts a new log
and a new manifest, renames CURRENT and deletes what is obsolete, and a level
that is too full, or a table with too many seeks, starts a compaction in the
background thread while the index is read. Hard: the order of these writes when the
process is killed; a failed write that may have reached the file; file numbers
that a manifest does not know; files in use by an iterator or a compaction whose
version has been replaced; closing in the middle of a compaction. Correct when the
directory always opens with what was stored, a reading delivers exactly that, and
closing ends.

**Commands** (`Commands.cpp`, `ParseBlock.cpp`): `bye`, `help`, `block <n>`.
They read the index; nothing they do changes it.

**Output scripts** (`readOutput`, `BlockChain.cpp` 546-830). State: the output
being filled (key type, up to five keys, their format bits, addresses) and the
global warning flag. Hard: tests by length, by first and by last instruction
that overlap and depend on their order; a loop over keys that trusts a length
byte; a fallback to a constant key. Correct when the standard forms get their
own keys, keys lie inside the script, and nothing is guessed silently.

**Line splitter** (`GetArgs.h`). State: the buffer for the texts of the
arguments, the array of pointers into it, two scan pointers. Hard: quotes, empty
quotes, a line that ends anywhere, a buffer that is full in the middle of an
argument, and an array that is never compared with its size. Correct when
`argv` is the arguments of the line, each with its zero byte.

**Index records** (`CBlockIndex.h`). State: a pointer into the record and the
fields read. Hard: a variable-length integer in which each continued byte counts
one more, and three fields that are there only when bits of a fourth say so.
Correct when what the node wrote is what is read, to the last byte.

**Base58** (`Base58.cpp`). State: a big number as an array of bytes and the
string. Hard: carries, borrows and lengths by hand, leading zeros, the room in
the output. Correct when a string and a number determine each other.

**Other helpers**: `varint.h`, `readVariableLengthInteger` of `BlockChain.cpp`,
`BitcoinAddress.cpp`, `HeapSort.h`, `rand.h`, `StandardDeviation.h`, `sutil`,
`ScopedTime.h`, `InParser`, the hash functions, logging, the platform layer.
**Vendored**: LevelDB, Snappy, RapidJSON (which no source of the program includes).

### How they interact

`main` creates the `Blocks` object (which opens the database, reads it to the
end and closes it), the wake-up object, the reader thread and the interpreter,
with LevelDB's background thread as the only company; from then on the only
concurrency is main against the reader.
A line goes through `getArgs` to the commands, commands call `Blocks`, and `Blocks`
decodes each record with `CBlockIndex`. The `BlockChain` class is a library: its interface
prescribes scan until true, build, read and print, but `main` does not call it.
Its modules take the calls its header documents, by one thread.

## The models

### Console and LinePipe

One program counter per thread, one action per statement that touches shared
state. `SleepLock` .. `TakeWork` are `goToSleep`, with the mutex, `wait_for`
(`EnterWait`, `Timeout`, `SpuriousWakeup`, `Relock`), its `while` condition, and
the flag it consumes; `Poll`, `CopyLine`, `ClearFlag` are `getInputLine`;
`ProcessLine` is the call of the interpreter; `SetExit`, `FreeInput`,
`FreeWakeup`, `Return` the end of `main`. The reader has `CheckExit`,
`CheckData`, `ClearBuffer`, `fgets` with its three outcomes (`ReadLine`,
`ReadEmpty`, `ReadEof`), the wake-up (`WakeLock`, `WakeSet`, `Notify`) and
`Publish`. After `FreeInput` the reader works on freed memory: `TouchFreed` lets
the process crash or the reader continue at any statement. A line is its text,
with or without an end of line. `accepted` and `processed` are histories.

`LinePipe` is the abstract specification: lines are accepted, at most two ahead
of execution, and executed in order until one is the exit command.

### BlockScan

A file is a sequence of cells: words (a magic id is one, a length another, as is
the data of a payload and of padding) and prefixes. A record on disk is a block of
which so many cells were written, or padding; the word its data consist of may be
the magic id. A file is any sequence of records, so a header may be cut off and the
file go on behind it. What `readBlockHeader` finds behind a magic id it takes for
a length and a prefix, whatever it is; if it is no prefix, its hash is in `Junk`
(`HashesAt`), or the end of the file comes first (`NoHeaderRead`).
`NextCell`, `Candidates`, `BlockStarts` and `NextHeaders` are the parts of
`readBlockHeader` in its order: the next magic id here, at the next file, behind
a search of `MAX_BLOCK_SIZE`, or at the start of the file after; then the length
check and the prefix. In a file that was just opened the search begins behind the
first read, as in the code (line 1119 sets `lastBlockRead` after the read).
`ScanBlock`, `ScanLimit`, `ScanEnd` are the outcomes of `scanBlockChain`;
`ScanAsserts` is the assert that only a debug build has, so both builds are
covered (`build_linux64.sh` makes both). `BuildStart`, `Count`, `CountDone`,
`Fill`, `FillDone` are the two walks, one step per iteration, on `uint32_t`
values modulo `WordSize`. `Count` carries the only bound, that the number of
blocks is below 2^32. SHA-256 of a prefix is the name of the block.

### BlockArchive and BlockReader

`BlockArchive` is what the callers of `readBlock` may rely on. `known` is a partial
map from hashes to places and numbers. `Return` adds all transactions of a block in
one step, a new one by its first place in the block, under the condition that the
block is whole, within the limits, and spends only what is known or its own;
`Refuse` and `End` say which blocks are refused and which end the program, and how
many numbers are lost on the way. The mapping hides the loops: `Known` is
`mTransactionSet` without what the block at hand has added so far, `NextNumber` the
counter as it was before that block.

The chain is what `BlockScan` ends with: its `mBlockChainHeaders`, plus the
contents of each block. A call of `readBlock` is `ReadOutOfRange`,
`ReadCorrupted` or `ReadStart`, then one step per iteration of the loops over
transactions: parsing (`ParseTransaction`, `ParseFails`), recording
(`RecordTransaction`), looking inputs up (`CheckInputs`, `CheckExits`) and
`CheckDone`. `PrintBlock` parses the spent transactions again at their recorded
places. A transaction whose number of inputs reads as zero (that is how witness
data looks to this parser) fails the block, after the transactions before it
took their numbers. `nextBlockHash` follows the code: the parent of the block
after the next, nothing assigned for the last two, and an address outside the
array when the chain has one block and `mBlockCount - 2` wraps. The limits that
exit the program are there: on the number of transactions (`TooMany`), and on
input scripts, inputs and outputs (`ParseExits`; a transaction is `huge` when it
reaches one of them; the one on the script of an output stands behind the test
for 8192 bytes, BlockChain.cpp:564, which takes every such script, so it never
applies). A transaction's length is what the readers of the stream
consume for it, so a misread count (see the list of disagreements) is a
transaction of another length, not a different behaviour.

### BlockIndex

A database is a sequence of entries sorted by prefix. `Begin` and `NextEnds` are
`KeyValueDatabase::begin` and the end of `next`; `ReadNew`, `ReadKnown`,
`ReadKnownAsserts` the body of the reading loop with its assert; `LowAsserts`,
`StartDays`, `DayOfHeight`, `DaysDone` the day loop; `NumberDay`,
`NumberingDone` the walk over the sorted map of days; `ProcessCommand` a command
line split into arguments. `debugBuild` says whether asserts are compiled in. A
date string sorts as the number of its day, which is what the model keeps.

### SortedStore, DbFiles and LevelDb

`SortedStore` is the promise `BlockIndex` relies on: `contents` that no opening,
reading or crash changes, and a reading that delivers the pairs of a range in
order, each once, until none is left or it is given up. `LevelDb` implements it
(`ImplementsStore`).

An entry is one write of a key, `[key, seq, del]`. A table is the set of its
entries, a log a sequence of records of which the last may be cut off, a manifest a
sequence of edits. `DbFiles` has what is computed from them: `BuildVersion` and
`ApplyEdit` (`VersionSet::Builder`), `GetOverlappingInputs`, `SetupOtherInputs`,
`PickCompaction`, `IsTrivialMove`, `IsBaseLevelForKey`, `Kept` (the entries that
`DoCompactionWork` writes again), `Acceptable` (the entries at which `DBIter`
stops), `Cleaned` (`DeleteObsoleteFiles`).

`LevelDb` has a program counter for each thread. Main: `Start`, `NewDB`,
`Recover`, one `RecoverLogFile` per table it writes, `NewLog`, `WriteManifest`,
`WriteTemp`, `RenameAndInstall`, `Opened` are `DB::Open`, one step per thing the
disk may see; `NewIterator`, `Seek`, `NextPair`, `DeleteIterator` are
`KeyValueDatabase` on top of `DBIter`; `ShutDown` and `Closed` are `~DBImpl`.
Background: `TrivialMove` or `StartCompaction`, `OpenCompactionOutputFile`,
`FinishCompactionOutputFile`, `InstallCompactionResults`, `WriteEdit`,
`InstallVersion`, and `AbandonCompaction` on every failing path. An action ends
where the code releases `mutex_` or where the disk has changed.

Faults: `Crash` kills the process at any step; the file being written is then cut
off at any of the places that matter, and any part of the deletions may have
happened (`CutOff`, `PartlyCleaned`). `CompactionFails` and `OpenFails` are failed
writes; a failed append to the manifest may or may not be in the file.

Abstracted: the size of a table (levels are full by their number of tables), where
an output ends, which table `compact_pointer_` comes to, how many seeks a table
has left, and when a memtable is full in recovery: each is an arbitrary choice.
The memtable of the open database stays empty and is left out, as are
`PrevLogNumber` (always 0) and everything only a writer reaches. `ReplaceFile` is
taken to be atomic, and the lock file to keep others out. A power failure and
files that cannot be read are not modelled: see the list of disagreements.

The directories a run may find are a constant. `LevelDbAssumption` says of each
what the node's own writing guarantees (`IsDirectory`): there is no manifest 0, the
next file number that the manifest records is above that of CURRENT's manifest and
those of all tables of the version, and these tables are there and are what the
manifest says of them. It says nothing of logs, of stray tables and manifests, or
of how the entries of different tables lie. `Intact` adds what three of the theorems
need of a directory in which the node left its writes as it should: the version of
the manifest is `Layered` (below level 0 no two tables of a level meet, and of the
writes of a key the newer lie above the older), its writes are no newer than the
last sequence number of the manifest, the records of the logs are newer still and
follow one another, and the number of the oldest log to read has been given out
(`VersionSet::LogAndApply` asserts it, `version_set.cc:824`). All directories of the
run `database` are `Intact`, that of `database_boundary` is not: TLC evaluates
`MCLevelDbAssumption`, which says both. `WantedAssumption` says that the keys of the
prefix that is read are a range without a gap, as keys with a common prefix are.

### OutputScripts

The script is real bytes and the opcodes have their real values, since the order
in which `readOutput` tests lengths and bytes is all there is to it. The forms
told apart by length and content, and the fallbacks, are actions; the loop over
the keys of a multi-signature script and the search for a hash script inside
another one go one step per iteration; the final switch makes the addresses. A
key is a place in the script or one of the two constant keys, an address is the
conversion and its key. The copy of a truncated key leaves a byte unwritten
(BlockChain.cpp:790): its value is a choice over `UninitializedBytes`. A
`BlockReader` transaction is `odd` when one of its outputs warns.

### LineSplitter

The actions follow the loops of `getArgs` and `skipSpaces`, one character per
step, with `scan` and `dest` as the two pointers; a line is one `InputLine` can
hand over. `Arguments` is the independent definition of what the arguments of a
line are.

### IndexRecord

A record is written by `Serialized`, the node's own format as the header quotes
it (modelled as external), and read byte by byte: `ContinuedByte` and `LastByte`
are the iterations of `readVarint128`, `NextField` the conditions on the status
bits, `ReadCell` the fixed-size header, `CheckSize` the assert at the end, which
a release build does not have. A byte behind the end of the record may be
anything. The specification is `RecordSpec` with `RecordInit` and `RecordNext`,
so that a module can extend `BlockIndex` and this one.

### Base58

Numbers and characters are the real ones (bytes, 58 digits); only addresses are
shorter. Each routine of the big-number arithmetic is an operator with its
carries, borrows and the length it leaves; the loops of `CBEncodeBase58` and
`CBDecodeBase58` go one digit per step, and the string the first one makes is
what the second one reads. The specification is `Base58Spec` with `Base58Init` and
`Base58Next`, so that one module of proofs can extend `OutputScripts` and this one.

## The runs

| run | what it shows |
| --- | --- |
| `console` | types; the reader never writes the buffer main copies (`BufferExclusion`); nothing is lost, repeated or overtaken (`FifoDelivery`); main never blocks with work pending and no notification coming (`NoLostWakeup`); every line is executed (`EveryLineProcessed`) although its wake-up precedes it; `bye` ends the program (`ByeEnds`); `LinePipe` is implemented, liveness included (`ImplementsPipe`) |
| `block_scan` | what is stored for a block is the place and length of a record of it, whatever the files hold, and what is stored for no block comes from a file with a broken header and has no block's hash (`ScanSound`), intact files are scanned completely (`ScanComplete`), the array is filled exactly (`FillInRange`) with a linked chain (`ChainLinked`), and everything ends (`Terminates`) |
| `block_index` | exactly the block entries reach the index (`IndexExact`), three separately kept heights agree (`HeightsExact`), each day adds up its own blocks once (`DaysExact`), days are numbered by calendar (`DaysInOrder`) |
| `block_reader` | recorded places are exact (`LocationsExact`), only blocks that were returned are recorded (`RecordedExactly`), reading a valid chain bottom up never exits (`NeverExits`), numbers follow the chain (`NumberedInOrder`), no odd block is returned without a warning (`OddIsWarned`), and a read takes in a block as a whole or leaves what is known as it was (`ImplementsArchive`) |
| `output_scripts` | arrays are never overrun (`TypeOK`), standard forms get their own type and keys (`StandardDecoded`), every key lies inside its script (`KeysInside`), an output without a warning has nothing made up in it (`SilentMeansDecoded`) |
| `line_splitter` | the buffers are large enough (`TypeOK`), the arguments are those of the line even when text is cut off (`SplitExact`) |
| `index_record` | what the node stored is what is read, the assert holds, and the pointer stays in the record (`RecordExact`) |
| `base58` | encoding (`EncodeExact`) and decoding (`DecodeExact`) are those of base 58 and the string fits the output |
| `database` | references of versions are balanced (`TypeOK`); at every step and after every crash the directory opens with what was stored (`NothingLost`); no file is deleted or changed that a version in use names (`FilesKept`); tables of a level do not meet and newer writes lie above older ones (`NewestAbove`); a reading is one of `SortedStore` (`ImplementsStore`); the program ends (`Ends`) |
| `block_scan_orphan`, `block_reader_warning`, `database_boundary` | one disagreement each between the code and what the repository says of it (below) |

### Bounds

- `Console.cfg`: three lines, two texts (one the exit command). Two buffers and
  the line just read make three the first number at which all places are full
  and one has been executed; the proofs cover any number.
- `BlockScan.cfg`: a chain of three, a fork, a block over the size limit, a
  block with the magic id in its payload, padding shorter and longer than the
  search window, a block that lost the end of its payload, and one that lost the
  prefix, or length and prefix; every file of up to four of these records, and
  every split of up to three of them over up to three files, empty files included.
  No file is left out: headers cut off in front of padding or of another block
  occur, as do searches that end at the magic id in a payload. Bytes that are no
  prefix name no parent, or a block on disk. The search window is 3 cells, so a
  block can be found inside it, at its edge and behind it. Every copy twice and
  every order of parents and children occurs.
- `BlockIndex.cfg`: up to three block entries with three heights, three times
  (two days) and two transaction counts, in any order, with and without entries
  of other prefixes around them: forks, gaps, days met again, an index that does
  not start at zero.
- `BlockReader.cfg`: chains of up to three blocks over eight bodies (spends within
  a block and across blocks, duplicates, a transaction that warns, one that
  cannot be parsed, one over a limit, a block over the limit, a cut-off last
  block), and every sequence of five calls.
  Three blocks are the first length at which `nextBlockHash` is assigned.
- The `uint32_t` of `BlockScan` and `BlockReader` has 16 or 8 values: more than
  the chains have blocks, as 2^32 is, and small enough for the wrap to be seen.
- `OutputScripts.cfg`: twelve forms, the standard ones and every special case of
  the code, and everything one edit away from them: a part left out, another one
  put in anywhere, or put in its place. The parts hold what the tests look for,
  among them a key that contains the bytes of a hash script.
- `LineSplitter.cfg`: every line of up to six characters over two letters, space
  and quote, three arguments, a text buffer of six bytes: too small for the
  longest lines, so the cut-off happens. `MaxInput` is twice `MaxArgs`, as 8191
  characters are less than twice 4096 arguments; that relation is the assumption
  of the proofs.
- `IndexRecord.cfg`: a byte of the encoding holds four values instead of 128, and
  a word 256 instead of 2^64, so that fields take one to four bytes; every pair
  of fields at the edges between lengths, under six values of the status that
  between them have every combination of the two bits.
- `Base58.cfg`: numbers of three bytes, every value of the lowest and the edges of
  bytes and digits in the others; outputs of two to seven characters, from
  too short to longer than needed.

- `LevelDb.cfg`: three levels, of which level 0 and level 1 overflow at two
  tables (7 levels and 4 tables in the code): three is the least with a level that
  is neither the one with overlaps nor the last. Four histories of two or three
  writes (a deletion of an earlier key, one key written twice, keys on both sides
  of the range), each write in any place an earlier run may have left it: two
  deep levels, two tables of level 0, two logs, with a record cut off or not, and
  the empty directory. Two starts and one fault, which is enough for a crash,
  the recovery from it, and a compaction after that. `MaxRuns = 3` and
  `MaxFaults = 2` without the temporal properties show no error either, but take
  longer. `LevelDbBoundary.cfg` starts from one directory and needs one start.

### Fairness

`Console`: each thread keeps being scheduled (`WF` on each thread's own
statements). The environment gets none: nobody need type, and `fgets` may block
for ever. `SF(WakeLock)`: a mutex that main holds for a few statements at a time
and frees again and again is obtained. `SF(Timeout)`: spurious wake-ups do not
come for ever before the deadline that `wait_for` starts again after each of
them (WakupThread.cpp:38). `EveryLineProcessed` fails without it: the timeout is
what makes the early wake-up harmless.

`LevelDb`: both threads go on as long as they can (`WF` on each). Nobody has to
start the program, and faults have no fairness. `Ends` needs the background
thread's: `~DBImpl` waits for it.

`BlockScan`: one thread that goes on until its work is done (`WF` on its
steps). The other modules check no liveness and state no fairness.

## What is proved

The provers work on the specifications themselves, for any value of the constants
that satisfies the named assumptions of the module.

- `ConsoleProofs`: `ConsoleTypes`, `ConsoleDelivers`, `ConsoleExcludes`,
  `ConsoleWakes`, `ConsoleRefinesPipe`. `FifoDelivery` is not inductive: it needs
  `FlagHandsOver` (the reader is past its test only while the flag is down, main
  past its own only while it is up), which is also why the missing lock does no
  harm. `NoLostWakeup` needs `MutexHeld` and `WaitsIdle` (main decides to wait
  under the mutex, with no work pending). `FreedLate` limits where the reader may
  run wild. The refinement is the safety part, `Pipe!SafeSpec`: `ReadLine` is
  `Accept`, `ProcessLine` is `Process`, every other step stutters.
- `BlockScanProofs`: `ScanTypes`, `FillsExactly`, `BuildsChain`,
  `HeadersAreSound`, `ScanIsComplete`. For the walks the invariant follows the
  history `walked` of the counting pass: the filling pass visits
  `walked[blockCount - index]`, so it ends exactly when `index` wraps. That needs
  `LastStored` (the head of the chain is in the set, hence at least one slot).
  The files are arbitrary: `LayoutAssumption` says only that they are sequences of
  records. For the scan, the cells of a file are its records one after the other
  (a lemma by induction over the records). `HeaderSound` takes what was read
  behind a magic id back to the records: bytes with the hash of a block are its
  prefix, a prefix is the third cell of its record, so the magic id was the
  first. All other bytes have a hash in `Junk`, and the magic id in front of them
  a header that is broken. `CleanScan` says that in clean files the scan stands
  between two records, with the first copies of all the blocks before it stored.
  `ScanComplete` is this at the end of the last file.
- `BlockReaderProofs`: `TypeCorrect`, `LocationsAreExact`, `RecordsAreExact`,
  `ValidChainIsRead`, `NumberedAsInChain`, `OddGetsWarning`, `ReaderIsArchive`, for
  every chain of blocks and every series of calls, repeated, failing and out of
  range included.
  `LocationsExact` is not inductive: `Placed` and `Progress` say that what has
  been parsed are the first transactions of the block, and that `FileOffset` is
  the start of the next one. `Recorded` extends `RecordedExactly` to the middle of
  `processTransactions`. `AllReturned` (on a valid chain read from the bottom up,
  every block asked for before has been returned) is why an input is always known,
  and so why `exit` is not reached. For the numbering, `Numbered` gives the
  counter in terms of the place in the chain, and the least of the places of a
  hash is kept because a known hash is not entered again.
  `ReaderIsArchive` is the refinement `ImplementsArchive`. The loops are stutters;
  what they have done so far is in `Indexed` (the transactions of the block are
  numbered from `NextNumber` on), `Filed` (those new to the archive are filed by
  their first place in the block) and `Passed` (what the loops have gone past could
  be parsed, and what it spends was found). At `CheckDone` these three are the
  condition and the effect of `Return`; at each way out they give the disjunct of
  `Refuse` or `End`.
- `BlockIndexProofs`: `IndexTypes`, `IndexIsExact`, `HeightsAreExact`,
  `DaysAreInOrder`, `DaysAreExact`, for every sorted database. `IteratorInv` says
  what the iterator has passed and what is ahead of it; `IndexInv` states
  `IndexExact` of the entries delivered so far; `NumberInv` states `DaysInOrder`
  of the days up to `lastDay`. `DaysExact` is inductive once each block is known
  to be filed under its own height (`OwnHeight`) and the sum it speaks of is shown
  to grow by what one block more adds (`MoreTransactions`, by induction over the
  heights).
- The second part of `BlockIndexProofs`: `RecordIsExact` of `IndexRecord`, for any
  values of the fields, any header and any base of the encoding; nothing is assumed
  but that a field fits the word.
  Two recursions are unfolded first: the bytes of an integer (`BeforeIs`: the
  recursion of `Varint` defines a function, since `Shorter` falls) and the record as
  the bytes of its fields one after the other (`Layout`). In the middle of an integer
  `InInteger` says what the value read so far stands for: if the bytes read are all
  but the last of a shorter integer, then one more than it; from it, `ContinuedIs`
  and `LastIs` give that the value never exceeds the integer, hence does not wrap,
  and ends as it. `FieldsRead` says which fields have been passed, and `NextFieldIs` that
  the status, once it is read, leads to the next field that is in the record: the
  fields skipped take no place in it (`LeftOut`).
- `OutputScriptsProofs`: `ScriptTypes`, `SilentOutputsDecoded`, `KeysInBounds`,
  `StandardForms`, for every script. `SilentMeansDecoded` speaks of the end;
  `KeysFound` says what is true of keys, type and warning at each part of the
  function before it, and `BehindScan` that the keys found so far lie before the
  place the scan has come to, which is why they are in order. `KeysInv` adds
  where the scan of multi-signature scripts stands (at the start of an
  instruction) and so that a key it takes lies inside. `DecodeInv` follows the
  scripts of each standard form through the function: which tests they pass, and
  for multi-signature scripts, of any number of keys, that the keys found are
  those pushed before the place of the scan (`MultisigInv`).
- The second part of `OutputScriptsProofs`: `EncodesExactly` and `DecodesExactly`
  of `Base58`, for addresses of any length and outputs of any size.
  `NumberOf` is what a big number stands for, by Horner's rule, and each routine is
  shown to be exact on it: `ModuloIs`, `SubtractionIs`, `DivisionIs`,
  `MultiplicationIs`, `PlaceValueIs`, `AdditionIs`. These are where a lost borrow
  or carry would show: the overflow of an addition is told by comparing the sum of
  a byte with one summand, and a quotient loses at most one byte. `DigitsAre`
  unfolds the recursion of the reference. While digits are taken off (`Peeled`), the
  string holds the last digits of the value, the lowest first, and the number the
  others; there is room for two characters more. While they are read (`Pending`),
  what the unread characters stand for, times their place value, plus the number so
  far, is the value of the string. `WholeAddress` closes the circle: a number with
  no zero byte on top is written in one way (`StrictUnique`), so that the bytes
  decoded are those of the address, in number as well as in value.
- `LineSplitterProofs`: `SplitterTypes`, `ArgumentsTerminated`,
  `ArgumentsAreExact`, for every line. Nothing in the code compares `argc` with
  its limit. `TwoPerArgument` (each argument begun has used two characters, the
  last one perhaps one) bounds it, from the assumption that
  `MaxInput <= 2 * MaxArgs`. For `SplitExact` the recursive definition of the
  arguments of a line is first shown to exist (`SplitsExists`, by induction from
  the end of the line); `SplitInv` then says, in each state of the loop, that the
  arguments copied so far followed by the arguments of the rest of the line are
  those of the line (`Between`, `InQuotes`, `InAWord`), and `DestBehind` that the
  copy does not get ahead of the place it is read from, so that a line that fits
  is never cut.
- `LevelDbProofs`: `StaysSound`, `ReferencesAreBalanced`, `FilesAreKept`, for any
  directories that satisfy `LevelDbAssumption`, any number of levels, starts and
  faults. Neither `TypeOK` nor `FilesKept` is inductive. `Referenced` counts a
  version's holders: it is current, under compaction, or read by the iterator.
  `Versions` says that every file of a version has a number below `next`, is there
  and is what the version says, so that a new file meets none of them, and that a
  table whose seeks are used up is one of the version's. The files of a version are
  built from the manifest, hence `Recovering` (until CURRENT is renamed it names
  the old manifest, whose recorded next number becomes the number of the new
  manifest: nothing that Open writes has a number the old version uses) and
  `Synced` (afterwards CURRENT's manifest describes the current version, with
  the edit being installed once it is written, unless an append failed). That is
  why `IsDirectory` survives a crash at any point, and with it a next start.
  `Compacting` says that an output under way has a number of no version's file and
  of no finished output, and that the edit is made of files that are there.
  `NewestStaysAbove` and `NothingIsLost` are about what is in those files, for any
  set of keys and writes and any `Intact` directories. `OInv` strengthens both:
  - `Lasting`: after every step, and so after a crash, the directory is `Intact` and
    holds `contents`. A crash cuts off an append, which `Intact` tells apart from a
    written record, and `CutOff` and `PartlyCleaned` remove nothing that counts.
  - `InVersions`: every version in use is `Settled` (`Layered`, of finite tables,
    no write newer than the last) and, once the database is open, shows `contents`,
    so that readers of an old version and of a new one see the same.
  - `InRecovery`, `InTables`: the records that recovery has yet to read are newer
    than all in the version it is making, and with them that version has what the
    directory has. Hence the next table goes on top of level 0; when CURRENT is
    switched, all is in the tables, and the log that the new manifest names is empty.
  - `InCompaction`: what a merge has written and has left to write is what `Kept`
    keeps of its inputs, in the order of keys, and the finished outputs do not meet.

  The lemma behind a compaction is that `PickCompaction` and `SetupOtherInputs`
  leave nothing behind (`Separate`): no other table of the level shares a key with
  an input, in level 0 because the inputs are closed under overlap, elsewhere
  because tables of a level do not meet; and of the level below, exactly the tables
  that meet the range are inputs. Then all other writes of a key of the inputs lie
  above all of the inputs or below them; an entry that `Kept` drops is hidden by a
  newer one, or is a deletion of a key that no deeper level holds
  (`IsBaseLevelForKey`), and `Visible` stays as it was. `Separate` is what fails in
  `database_boundary`: there two tables of a level hold writes of one key.

  `DatabaseIsStore` proves the refinement `ImplementsStore` from that: in each state
  of a reading `ReadInv` says that the iterator stands at the next pair of
  `contents`: none of the range lies between what was handed out and it. No
  compaction can disturb this, because it is said of `contents` and not of tables;
  that the next move of the iterator comes to the next pair (`NextUserEntry`,
  `StandsAtNext`) uses that its version still shows `contents`, by `OInv`. The end of
  the range rests on `WantedAssumption`.
- `Recursion`: `SetInduction` and what follows from it. The library states its
  induction theorems for an operator, which no prover here can instantiate; for
  the set of the numbers for which a fact holds, induction follows from the
  naturals being well founded. Existence, monotonicity and uniqueness of sums
  along a sequence (`SumsExist`, `SumsRise`, `SumsUnique`) are what the layout of a
  file, the places of transactions and the sums of a day rest on. `LoopUp` and
  `LoopDown` give, for the recursive function that stands for a loop over bytes,
  that it exists and what its equation is; the arithmetic of `Base58` is built of
  such loops.

Only model-checked is what needs fairness (`EveryLineProcessed`, `ByeEnds`, the
liveness half of `ImplementsPipe`, `Terminates`, `Ends`), which is beyond the prover.
Every safety property and every action property that a passing run checks is a
theorem, for all values of the constants that the named assumptions allow.

## Where the code and its documentation disagree

Each of these is a run that TLC finds violated.

1. `buildBlockChain` starts from the last header on disk. When that is an orphan
   the longer branch is dropped, where BlockChain.h:203 promises to
   "successfully skip orphaned blocks".
2. A warning raised by `printBlock` is reported for the next block read
   (BlockChain.cpp:1418), whatever that block is.
3. A compaction leaves out a deletion marker because older writes of its key in
   its layers "will be dropped in the next few iterations" (db_impl.cc:972). When
   an earlier compaction, made while a snapshot was held, ended a table between two
   writes of one key, the next table of that level is not among the inputs
   (`SetupOtherInputs` has no boundary check), and the deleted key is back. The
   program holds no snapshot; the node that wrote the directory may have.

The models also show, where no run is spent on it:

- `block <n>` refuses the highest block: `getBlockHeight` is a height and is
  compared as a count (Commands.cpp:101).
- The search for a hash script inside another stops one place before the last
  at which it fits (BlockChain.cpp:706).
- Where a header was cut off and the file goes on, or a search ends at a magic id
  inside a payload, `readBlockHeader` ("Ok, this is a valid block",
  BlockChain.cpp:1179) takes what follows for a length and a prefix and stores the
  header of no block. It cannot replace a block's, but as the last header it is
  the head of the chain, and the whole chain unless its bytes name a parent.
  Where what follows is no length within the limit, the scan ends, and blocks
  behind it are lost.
- `scanBlockChain` records a header before it compares with `mMaxBlocks`
  (BlockChain.cpp:1085): one more than the maximum, and that one is the head of
  the chain.
- Of two entries at one height a release build keeps the one whose hash sorts
  first, a debug build aborts (blocks.cpp:62).
- `nextBlockHash` is neither null for the last block nor set for the last but
  one, although BlockChain.h:185 says so (BlockChain.cpp:1320).
- `Base58` gives a number below 58 with leading zero bytes a digit too many
  (`EncodeExact` leaves these numbers out). No address is such a number.
- `signatureCount` is 1 for every output, however many keys it has; the copy of
  a truncated key overwrites the prefix byte set for it (BlockChain.cpp:790).
- In `Console` the end of the input stops the reader but not the program, and the
  detached reader may touch freed memory after `bye`.

Seen while reading, with no model: `varint.h` reads the wide values from the
prefix byte on; `readVariableLengthInteger` (BlockChain.cpp 401-433) does not
tell the widths of 0xFD, 0xFE and 0xFF apart as the format does;
`BitcoinAddress.cpp` 105-108 joins with `||` what has to be joined with `&&`;
`Sync` of the Windows port flushes only the buffer of the process
(env_windows.cc:298), so that after a power failure CURRENT may name a manifest
that never reached the disk; a log that cannot be opened is skipped and then
deleted (db_impl.cc:391), as `paranoid_checks` off allows; and `KeyValueDatabase`
takes an iterator that stopped at a read error for one at its end
(KeyValueDatabase.cpp:79).

## What is not modelled

- The larger part of the repository is vendored: RapidJSON (no source of the
  program includes it), Snappy, and those parts of LevelDB that hold its formats
  and containers (tables, blocks, filters, the records of a log, caches, skip list,
  arena) or that the program never calls (writes, snapshots, manual compaction,
  backward iteration, repair, the C interface). Of LevelDB exactly what the
  program sets in motion is modelled; a model of the rest would say nothing about
  this program. That is why the mapped lines are a small share of all lines,
  and the greater part of the program's own.
- Power failures, files that cannot be read, two processes on one database.
- SHA-256, RIPEMD-160, CRC-32: fixed-size word algorithms; hashes are taken to be
  injective names.
- Block files in which the 80 bytes of a prefix stand anywhere but in a record of
  their block, say a copy of a block inside a payload: in `BlockScan` the other
  data of a record are words.
- Logging, files and the platform layer: input and output only.
- The ASCII text report and the statistics on amounts in `BlockReader`.
- The text of an address and the bytes behind it in `OutputScripts`; the checksum
  test of `BitcoinAddress`, a chain of comparisons without state.
- `readVariableLengthInteger` and `varint.h`: decoders without state, of which the
  second is not called. What is wrong with them is said above.
- `InParser`, `HeapSort.h`, `rand.h`: not called by the program.
- `StandardDeviation.h`, `ScopedTime.h`, formatting: floating point and text.

## Plan

The most important behaviour came first. Done are the models, and the proofs of all
that their runs check, fairness aside, with the three refinements `LinePipe`,
`BlockArchive` and `SortedStore`.

What could come next is a module that composes `BlockScan` and `BlockReader`, so
that what is read is what was scanned: the chain that `BlockReader` starts from is
a constant, and that `BlockScan` ends with a chain of parents is proved of the
other module. Beyond that, the parts listed above as not modelled.
