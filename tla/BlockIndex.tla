----------------------------- MODULE BlockIndex -----------------------------
(***************************************************************************)
(* The index of all blocks: src/src/KeyValueDatabase.cpp walks the keys of *)
(* the node's LevelDB that start with "b"; the constructor of BlocksImpl   *)
(* (src/src/blocks.cpp) keeps one entry per height, adds the entries up by *)
(* day and numbers the days; CommandsImpl::processCommand                  *)
(* (src/src/Commands.cpp) answers from the result.                         *)
(*                                                                         *)
(* LevelDB keeps its keys sorted, so a database is a sequence of entries   *)
(* whose prefixes do not decrease.  Within a prefix the key is a block     *)
(* hash: the order of the entries says nothing about their heights.        *)
(***************************************************************************)
EXTENDS Integers, Sequences, FiniteSets

CONSTANTS
    Databases,      \* the contents the database may have
    Prefix,         \* "b", as a number; other prefixes sort around it
    SecondsPerDay,
    Requests        \* the argument vectors a line may be split into

Entries == [prefix : Nat, height : Nat, mTime : Nat, mTransactionCount : Nat]

ASSUME IndexAssumption ==
    /\ SecondsPerDay \in Nat \ {0}
    /\ Prefix \in Nat
    /\ Databases \subseteq Seq(Entries)
    /\ \A db \in Databases : \A i, j \in 1..Len(db) : i <= j => db[i].prefix <= db[j].prefix

VARIABLES
    database,                        \* the sorted entries
    debugBuild,                      \* assert is compiled in
    opened,                          \* KeyValueDatabase::create returned a database
    phase,                           \* the next part of the constructor
    mIterator,                       \* the next entry; 0 is no iterator
    mBlocks, mBlockHeight,           \* BlocksImpl
    blockLow, blockHigh, firstBlock, \* the locals of the reading loop
    height,                          \* the local i of the day loop
    mDays, mDayCount, mDayIndex,     \* BlocksImpl
    lastDay,                         \* the day that was numbered last
    reply                            \* the answer to the last command

dbVars == <<database, debugBuild>>
readVars == <<mIterator, mBlocks, mBlockHeight, blockLow, blockHigh, firstBlock>>
dayVars == <<height, mDays>>
numberVars == <<mDayCount, mDayIndex, lastDay>>
vars == <<dbVars, opened, phase, readVars, dayVars, numberVars, reply>>

Empty == [k \in {} |-> k]

Put(map, key, value) ==
    [k \in DOMAIN map \cup {key} |-> IF k = key THEN value ELSE map[k]]

Init == /\ database \in Databases
        /\ debugBuild \in BOOLEAN
        /\ opened = FALSE
        /\ phase = "open"
        /\ mIterator = 0
        /\ mBlocks = Empty
        /\ mBlockHeight = 0
        /\ blockLow = 0
        /\ blockHigh = 0
        /\ firstBlock = TRUE
        /\ height = 0
        /\ mDays = Empty
        /\ mDayCount = 0
        /\ mDayIndex = Empty
        /\ lastDay = -1
        /\ reply = << >>

Goto(from, to) == phase = from /\ phase' = to

-----------------------------------------------------------------------------
(* KeyValueDatabase.                                                       *)

(* The database cannot be opened: the index stays empty.                   *)
OpenFails == /\ Goto("open", "ready")
             /\ UNCHANGED <<dbVars, opened, readVars, dayVars, numberVars, reply>>

Valid(i) == i \in 1..Len(database)

(* Iterator::Seek: the first key that is not below the prefix.             *)
SeekTo(i) == /\ i \in 1..(Len(database) + 1)
             /\ \A j \in 1..Len(database) : j < i <=> database[j].prefix < Prefix

Begin == /\ phase = "open"
         /\ \E i \in 1..(Len(database) + 1) :
               /\ SeekTo(i)
               /\ mIterator' = IF Valid(i) THEN i ELSE 0
               /\ phase' = IF Valid(i) THEN "reading" ELSE "read"
         /\ opened' = TRUE
         /\ UNCHANGED <<dbVars, mBlocks, mBlockHeight, blockLow, blockHigh, firstBlock,
                        dayVars, numberVars, reply>>

HasPrefix(i) == Valid(i) /\ database[i].prefix = Prefix

(* KeyValueDatabase::next finds the end or another prefix, and drops the   *)
(* iterator.                                                               *)
NextEnds == /\ Goto("reading", "read")
            /\ ~HasPrefix(mIterator)
            /\ mIterator' = 0
            /\ UNCHANGED <<dbVars, opened, mBlocks, mBlockHeight, blockLow, blockHigh, firstBlock,
                           dayVars, numberVars, reply>>

-----------------------------------------------------------------------------
(* The constructor of BlocksImpl: reading.                                 *)

(* Variant: the first block is not told from the others, and the lowest    *)
(* height starts from zero.                                                *)
TrackHeightsFromZero(h) ==
    /\ mBlockHeight' = IF h > mBlockHeight THEN h ELSE mBlockHeight
    /\ blockLow' = IF h < blockLow THEN h ELSE blockLow
    /\ blockHigh' = IF h >= blockLow /\ h > blockHigh THEN h ELSE blockHigh
    /\ firstBlock' = FALSE

TrackHeights(h) ==
    /\ mBlockHeight' = IF h > mBlockHeight THEN h ELSE mBlockHeight
    /\ blockLow' = IF firstBlock \/ h < blockLow THEN h ELSE blockLow
    /\ blockHigh' = IF firstBlock \/ (h >= blockLow /\ h > blockHigh) THEN h ELSE blockHigh
    /\ firstBlock' = FALSE

ReadNew == /\ phase = "reading"
           /\ HasPrefix(mIterator)
           /\ LET cb == database[mIterator]
              IN  /\ cb.height \notin DOMAIN mBlocks
                  /\ mBlocks' = Put(mBlocks, cb.height, cb)
                  /\ TrackHeights(cb.height)
           /\ mIterator' = mIterator + 1
           /\ UNCHANGED <<dbVars, opened, phase, dayVars, numberVars, reply>>

(* Variant: the block that comes last replaces the one that came first.    *)
ReadReplaces == /\ phase = "reading"
                /\ HasPrefix(mIterator)
                /\ ~debugBuild
                /\ database[mIterator].height \in DOMAIN mBlocks
                /\ mBlocks' = Put(mBlocks, database[mIterator].height, database[mIterator])
                /\ mIterator' = mIterator + 1
                /\ UNCHANGED <<dbVars, opened, phase, mBlockHeight, blockLow, blockHigh, firstBlock,
                               dayVars, numberVars, reply>>

(* A second block at a height, from a branch the node has seen.            *)
ReadKnown == /\ phase = "reading"
             /\ HasPrefix(mIterator)
             /\ ~debugBuild
             /\ database[mIterator].height \in DOMAIN mBlocks
             /\ mIterator' = mIterator + 1
             /\ UNCHANGED <<dbVars, opened, phase, mBlocks, mBlockHeight, blockLow, blockHigh,
                            firstBlock, dayVars, numberVars, reply>>

(* assert(0).                                                              *)
ReadKnownAsserts == /\ Goto("reading", "aborted")
                    /\ HasPrefix(mIterator)
                    /\ debugBuild
                    /\ database[mIterator].height \in DOMAIN mBlocks
                    /\ UNCHANGED <<dbVars, opened, readVars, dayVars, numberVars, reply>>

-----------------------------------------------------------------------------
(* The constructor of BlocksImpl: the days.                                *)

(* assert(blockLow == 0).                                                  *)
LowAsserts == /\ Goto("read", "aborted")
              /\ debugBuild
              /\ blockLow # 0
              /\ UNCHANGED <<dbVars, opened, readVars, dayVars, numberVars, reply>>

StartDays == /\ Goto("read", "days")
             /\ debugBuild => blockLow = 0
             /\ height' = blockLow
             /\ UNCHANGED <<dbVars, opened, readVars, mDays, numberVars, reply>>

(* Variant: the date is that of a clock west of Greenwich.                 *)
LocalTime(cb) == (cb.mTime - 1) \div SecondsPerDay

(* getBlockTime: the text of the date sorts as the number of the day.      *)
BlockTime(cb) == cb.mTime \div SecondsPerDay

NewDay(cb) == [mDayNumber |-> 0, mBlockTime |-> cb.mTime, mMinBlockHeight |-> cb.height,
               mMaxBlockHeight |-> cb.height, mTransactionCount |-> cb.mTransactionCount,
               mBlockCount |-> 1]

(* Variant: the day keeps the transactions of its first block.             *)
AddHeightOnly(bd, cb) ==
    [bd EXCEPT !.mMaxBlockHeight = IF cb.height > @ THEN cb.height ELSE @,
               !.mBlockCount = @ + 1]

AddToDay(bd, cb) ==
    [bd EXCEPT !.mMinBlockHeight = IF cb.height < @ THEN cb.height ELSE @,
               !.mMaxBlockHeight = IF cb.height > @ THEN cb.height ELSE @,
               !.mTransactionCount = @ + cb.mTransactionCount,
               !.mBlockCount = @ + 1]

NextHeight == height + 1

DayOfHeight == /\ phase = "days"
               /\ height <= blockHigh
               /\ IF height \in DOMAIN mBlocks
                  THEN LET cb == mBlocks[height]
                           day == BlockTime(cb)
                       IN  mDays' = Put(mDays, day, IF day \in DOMAIN mDays
                                                    THEN AddToDay(mDays[day], cb)
                                                    ELSE NewDay(cb))
                  ELSE UNCHANGED mDays
               /\ height' = NextHeight
               /\ UNCHANGED <<dbVars, opened, phase, readVars, numberVars, reply>>

DaysDone == /\ Goto("days", "numbering")
            /\ height > blockHigh
            /\ UNCHANGED <<dbVars, opened, readVars, dayVars, numberVars, reply>>

(* The days that the loop over the sorted map has not come to.             *)
DaysAhead == {day \in DOMAIN mDays : lastDay < day}

(* Variant: the days come in any order, as from an unordered_map.          *)
AnyDay(day) == day \in DOMAIN mDays /\ \A n \in DOMAIN mDayIndex : mDayIndex[n] # day

NextDay(day) == day \in DaysAhead /\ \A other \in DaysAhead : day <= other

NumberDay == /\ phase = "numbering"
             /\ \E day \in DOMAIN mDays :
                   /\ NextDay(day)
                   /\ mDays' = [mDays EXCEPT ![day].mDayNumber = mDayCount]
                   /\ mDayIndex' = Put(mDayIndex, mDayCount, day)
                   /\ lastDay' = day
             /\ mDayCount' = mDayCount + 1
             /\ UNCHANGED <<dbVars, opened, phase, readVars, height, reply>>

(* The database is released.                                               *)
NumberingDone == /\ Goto("numbering", "ready")
                 /\ DaysAhead = {}
                 /\ UNCHANGED <<dbVars, opened, readVars, dayVars, numberVars, reply>>

-----------------------------------------------------------------------------
(* CommandsImpl::processCommand.                                           *)

(* What the command block prints for a number.                             *)
BlockReply(n) ==
    IF ~(n >= 0 /\ n < mBlockHeight) THEN <<"invalid">>
    ELSE IF n \notin DOMAIN mBlocks THEN <<"failed to find">>
    ELSE <<"block", mBlocks[n]>>

Reply(argv) ==
    CASE argv = << >>                              -> << >>
      [] Len(argv) >= 1 /\ argv[1] = "bye"         -> <<"exit">>
      [] Len(argv) >= 1 /\ argv[1] = "help"        -> <<"help">>
      [] Len(argv) = 1 /\ argv[1] = "block"        -> <<"usage">>
      [] Len(argv) >= 2 /\ argv[1] = "block"       -> BlockReply(argv[2])
      [] OTHER                                     -> <<"unknown">>

ProcessCommand == /\ phase = "ready"
                  /\ \E argv \in Requests : reply' = Reply(argv)
                  /\ UNCHANGED <<dbVars, opened, phase, readVars, dayVars, numberVars>>

Aborted == phase = "aborted" /\ UNCHANGED vars

Read == OpenFails \/ Begin \/ ReadNew \/ ReadKnown \/ ReadKnownAsserts \/ NextEnds

Number == LowAsserts \/ StartDays \/ DayOfHeight \/ DaysDone \/ NumberDay \/ NumberingDone

Next == Read \/ Number \/ ProcessCommand \/ Aborted

Spec == Init /\ [][Next]_vars

-----------------------------------------------------------------------------
Days == [mDayNumber : Nat, mBlockTime : Nat, mMinBlockHeight : Nat, mMaxBlockHeight : Nat,
         mTransactionCount : Nat, mBlockCount : Nat]

(* The maps hold what their declarations in blocks.cpp say, and every      *)
(* counter is an unsigned integer.                                         *)
TypeOK == /\ phase \in {"open", "reading", "read", "days", "numbering", "ready", "aborted"}
          /\ opened \in BOOLEAN
          /\ mIterator \in Nat
          /\ DOMAIN mBlocks \subseteq Nat
          /\ \A h \in DOMAIN mBlocks : mBlocks[h] \in Entries
          /\ mBlockHeight \in Nat
          /\ blockLow \in Nat
          /\ blockHigh \in Nat
          /\ firstBlock \in BOOLEAN
          /\ height \in Nat
          /\ DOMAIN mDays \subseteq Nat
          /\ \A day \in DOMAIN mDays : mDays[day] \in Days
          /\ mDayCount \in Nat
          /\ DOMAIN mDayIndex \subseteq Nat
          /\ \A n \in DOMAIN mDayIndex : mDayIndex[n] \in Nat
          /\ lastDay \in Nat \cup {-1}

BlockKeys == {k \in 1..Len(database) : database[k].prefix = Prefix}

FirstAtHeight(k) ==
    ~\E j \in BlockKeys : j < k /\ database[j].height = database[k].height

HasRead == opened /\ phase \notin {"open", "reading", "aborted"}

(* begin and next deliver every "b" entry and no other, wherever the       *)
(* prefix lies among the keys: mBlocks has exactly the heights of these    *)
(* entries, each with the entry whose key comes first.                     *)
IndexExact ==
    HasRead =>
        /\ DOMAIN mBlocks = {database[k].height : k \in BlockKeys}
        /\ \A k \in BlockKeys :
              FirstAtHeight(k) => mBlocks[database[k].height] = database[k]

(* The three heights that the reading loop keeps separately agree with the *)
(* map: getBlockHeight is the highest block, and the day loop runs from    *)
(* the lowest to the highest.                                              *)
HeightsExact ==
    HasRead /\ DOMAIN mBlocks # {} =>
        /\ {blockLow, blockHigh} \subseteq DOMAIN mBlocks
        /\ \A h \in DOMAIN mBlocks : blockLow <= h /\ h <= blockHigh
        /\ mBlockHeight = blockHigh

(* The heights the day loop has seen, and those of them on one day.        *)
HeightsSeen == {h \in DOMAIN mBlocks : phase = "days" => h < height}
HeightsOn(day) == {h \in HeightsSeen : BlockTime(mBlocks[h]) = day}

(* The transactions of the blocks at these heights.                        *)
TransactionsAt(heights) ==
    LET total[n \in 0..(blockHigh + 1)] ==
            IF n = 0 THEN 0
            ELSE total[n - 1] + IF n - 1 \in heights THEN mBlocks[n - 1].mTransactionCount ELSE 0
    IN  total[blockHigh + 1]

(* Blocks are not in the order of their times, so the blocks of a day are  *)
(* met apart from each other; yet each day adds up exactly its blocks,     *)
(* once, and dates from the lowest of them.                                *)
DaysExact ==
    HasRead /\ phase # "read" =>
        /\ DOMAIN mDays = {BlockTime(mBlocks[h]) : h \in HeightsSeen}
        /\ \A day \in DOMAIN mDays :
              LET bd == mDays[day]
                  on == HeightsOn(day)
              IN  /\ bd.mBlockCount = Cardinality(on)
                  /\ bd.mTransactionCount = TransactionsAt(on)
                  /\ {bd.mMinBlockHeight, bd.mMaxBlockHeight} \subseteq on
                  /\ \A h \in on : bd.mMinBlockHeight <= h /\ h <= bd.mMaxBlockHeight
                  /\ bd.mBlockTime = mBlocks[bd.mMinBlockHeight].mTime

(* getDay and mDayNumber are inverse to each other and count the days from *)
(* zero in the order of the calendar, without a gap.                       *)
DaysInOrder ==
    phase = "ready" =>
        /\ DOMAIN mDayIndex = 0..(mDayCount - 1)
        /\ {mDayIndex[n] : n \in DOMAIN mDayIndex} = DOMAIN mDays
        /\ \A n \in DOMAIN mDayIndex : mDays[mDayIndex[n]].mDayNumber = n
        /\ \A m, n \in DOMAIN mDayIndex : m < n => mDayIndex[m] < mDayIndex[n]
=============================================================================
