-------------------------- MODULE BlockIndexProofs --------------------------
(***************************************************************************)
(* Proofs about BlockIndex: what the reading loop leaves in mBlocks is     *)
(* exact for every sorted database, the three heights agree with it, and   *)
(* the days are numbered in order.  The second part is about IndexRecord:  *)
(* the fields of an entry, which the first part speaks of, are those that  *)
(* the node stored.                                                        *)
(***************************************************************************)
EXTENDS BlockIndex, IndexRecord, Recursion, FiniteSetTheorems, TLAPS

(* The "b" entries that next has delivered so far.                         *)
Delivered == {k \in BlockKeys : phase = "reading" => k < mIterator}

(* The iterator stands behind the last entry delivered: no key before it   *)
(* sorts above the prefix and none from it on sorts below.                 *)
IteratorInv ==
    /\ phase = "open" => ~opened /\ DOMAIN mBlocks = {}
    /\ phase = "reading" =>
          /\ opened
          /\ mIterator \in 1..(Len(database) + 1)
          /\ \A j \in 1..Len(database) : /\ j < mIterator => database[j].prefix <= Prefix
                                         /\ j >= mIterator => database[j].prefix >= Prefix

IndexInv ==
    opened /\ phase # "aborted" =>
        /\ DOMAIN mBlocks = {database[k].height : k \in Delivered}
        /\ \A k \in Delivered : FirstAtHeight(k) => mBlocks[database[k].height] = database[k]

HeightsInv ==
    /\ firstBlock <=> DOMAIN mBlocks = {}
    /\ DOMAIN mBlocks = {} => blockLow = 0 /\ blockHigh = 0 /\ mBlockHeight = 0
    /\ DOMAIN mBlocks # {} => {blockLow, blockHigh} \subseteq DOMAIN mBlocks
    /\ \A h \in DOMAIN mBlocks : blockLow <= h /\ h <= blockHigh
    /\ mBlockHeight = blockHigh

(* The days up to lastDay have been numbered, in order.                    *)
NumberInv ==
    /\ phase \in {"open", "reading", "read"} => DOMAIN mDays = {}
    /\ phase \notin {"numbering", "ready"} => lastDay = -1
    /\ phase = "ready" => DaysAhead = {}
    /\ DOMAIN mDayIndex = 0..(mDayCount - 1)
    /\ \A n \in DOMAIN mDayIndex : mDayIndex[n] \in DOMAIN mDays /\ mDayIndex[n] <= lastDay
    /\ \A day \in DOMAIN mDays : day <= lastDay => \E n \in DOMAIN mDayIndex : mDayIndex[n] = day
    /\ \A n \in DOMAIN mDayIndex : mDays[mDayIndex[n]].mDayNumber = n
    /\ \A m, n \in DOMAIN mDayIndex : m < n => mDayIndex[m] < mDayIndex[n]

DatabaseInv == /\ database \in Seq(Entries)
               /\ \A i, j \in 1..Len(database) : i <= j => database[i].prefix <= database[j].prefix
               /\ debugBuild \in BOOLEAN

IInv == DatabaseInv /\ TypeOK /\ IteratorInv /\ IndexInv /\ HeightsInv /\ NumberInv

(* The constructor starts from an empty index in which all of this holds.  *)
LEMMA InitIInv == Init => IInv
<1> SUFFICES ASSUME Init PROVE IInv
  OBVIOUS
<1> USE DEF Init, Empty
<1>1. DatabaseInv
  BY IndexAssumption DEF DatabaseInv
<1>2. TypeOK
  BY DEF TypeOK
<1>3. IteratorInv /\ IndexInv /\ HeightsInv
  BY DEF IteratorInv, IndexInv, HeightsInv
<1>4. NumberInv
  BY DEF NumberInv, DaysAhead
<1> QED
  BY <1>1, <1>2, <1>3, <1>4 DEF IInv

(* The fields of an entry of the database are unsigned.                    *)
LEMMA EntryTypes ==
    ASSUME database \in Seq(Entries), NEW j \in 1..Len(database)
    PROVE  /\ database[j] \in Entries
           /\ database[j].prefix \in Nat
           /\ database[j].height \in Nat
           /\ database[j].mTime \in Nat
           /\ database[j].mTransactionCount \in Nat
<1>1. database[j] \in Entries
  OBVIOUS
<1> QED
  BY <1>1 DEF Entries

(* What stepping over one more entry adds to the entries delivered.        *)
LEMMA DeliverOne ==
    ASSUME IInv, phase = "reading", HasPrefix(mIterator), phase' = phase,
           mIterator' = mIterator + 1, UNCHANGED <<database, opened>>
    PROVE  /\ Delivered' = Delivered \cup {mIterator}
           /\ mIterator \in BlockKeys
           /\ mIterator \notin Delivered
           /\ database[mIterator] \in Entries
           /\ IteratorInv'
<1>1. mIterator \in 1..Len(database) /\ database[mIterator].prefix = Prefix
  BY DEF HasPrefix, Valid
<1>2. database \in Seq(Entries) /\ mIterator \in Nat /\ Prefix \in Nat
  BY IndexAssumption DEF IInv, DatabaseInv, TypeOK
<1>3. /\ Delivered' = Delivered \cup {mIterator}
      /\ mIterator \in BlockKeys /\ mIterator \notin Delivered
  BY <1>1, <1>2 DEF Delivered, BlockKeys
<1>4. \A j \in 1..Len(database) : database[j].prefix \in Nat
  BY <1>2, EntryTypes
<1>5. \A j \in 1..Len(database) : j >= mIterator + 1 => database[j].prefix >= Prefix
  BY <1>1, <1>2 DEF IInv, IteratorInv
<1>6. \A j \in 1..Len(database) : j < mIterator + 1 => database[j].prefix <= Prefix
  BY <1>1, <1>2, <1>4 DEF IInv, IteratorInv
<1>7. mIterator + 1 \in 1..(Len(database) + 1)
  BY <1>1, <1>2
<1>8. IteratorInv'
  BY <1>5, <1>6, <1>7 DEF IInv, IteratorInv
<1> QED
  BY <1>1, <1>2, <1>3, <1>8

(* When next stops, every "b" entry has been delivered: the database is    *)
(* sorted, so none lies behind an entry of another prefix.                 *)
LEMMA AllDelivered ==
    ASSUME IInv, phase = "reading", ~HasPrefix(mIterator)
    PROVE  Delivered = BlockKeys
<1> SUFFICES ASSUME NEW k \in BlockKeys, k >= mIterator PROVE FALSE
  BY DEF Delivered, BlockKeys, IInv, TypeOK, DatabaseInv
<1>1. /\ k \in 1..Len(database) /\ database[k].prefix = Prefix
      /\ mIterator \in 1..(Len(database) + 1)
      /\ database \in Seq(Entries) /\ Len(database) \in Nat
  BY DEF BlockKeys, IInv, IteratorInv, DatabaseInv
<1>2. mIterator \in 1..Len(database)
  BY <1>1
<1>3. database[mIterator].prefix # Prefix
  BY <1>2 DEF HasPrefix, Valid
<1>4. database[mIterator].prefix >= Prefix
  BY <1>2, <1>1 DEF IInv, IteratorInv
<1>5. database[mIterator].prefix <= database[k].prefix
  BY <1>1, <1>2 DEF IInv, DatabaseInv
<1>6. database[mIterator].prefix \in Nat /\ Prefix \in Nat
  BY <1>1, <1>2, IndexAssumption, EntryTypes
<1> QED
  BY <1>1, <1>3, <1>4, <1>5, <1>6

(* Seek, on a sorted database, puts the iterator where IteratorInv wants   *)
(* it; if it finds nothing there is no "b" entry.                          *)
LEMMA BeginStep == IInv /\ Begin => IInv'
<1> SUFFICES ASSUME IInv, Begin PROVE IInv'
  OBVIOUS
<1>0. database \in Seq(Entries) /\ Len(database) \in Nat /\ Prefix \in Nat
      /\ \A j \in 1..Len(database) : database[j].prefix \in Nat
  <2>1. database \in Seq(Entries)
    BY DEF IInv, DatabaseInv
  <2> QED
    BY <2>1, EntryTypes, IndexAssumption
<1>1. PICK i \in 1..(Len(database) + 1) :
          /\ SeekTo(i)
          /\ mIterator' = IF Valid(i) THEN i ELSE 0
          /\ phase' = IF Valid(i) THEN "reading" ELSE "read"
  BY DEF Begin
<1>2. \A j \in 1..Len(database) : j < i <=> database[j].prefix < Prefix
  BY <1>1 DEF SeekTo
<1>3. DatabaseInv'
  BY DEF IInv, DatabaseInv, Begin, dbVars
<1>4. TypeOK'
  BY <1>0, <1>1 DEF IInv, TypeOK, Begin, dbVars, dayVars, numberVars, Valid
<1>5. IteratorInv'
  BY <1>0, <1>1, <1>2 DEF IInv, IteratorInv, Begin, dbVars, Valid
<1>6. Delivered' = {}
  BY <1>0, <1>1, <1>2 DEF Delivered, BlockKeys, Begin, dbVars, Valid
<1>7. IndexInv'
  BY <1>6 DEF IInv, IteratorInv, IndexInv, Begin
<1>8. HeightsInv'
  BY DEF IInv, HeightsInv, Begin
<1>9. NumberInv'
  BY <1>1 DEF IInv, NumberInv, Begin, dayVars, numberVars, DaysAhead
<1> QED
  BY <1>3, <1>4, <1>5, <1>7, <1>8, <1>9 DEF IInv

(* A new height: the entry just delivered is the first of its height, and  *)
(* the three heights move with the map.                                    *)
LEMMA ReadNewStep == IInv /\ ReadNew => IInv'
<1> SUFFICES ASSUME IInv, ReadNew PROVE IInv'
  OBVIOUS
<1> DEFINE cb == database[mIterator]
<1>0. /\ phase = "reading" /\ HasPrefix(mIterator) /\ phase' = phase
      /\ mIterator' = mIterator + 1 /\ UNCHANGED <<database, debugBuild, opened>>
      /\ UNCHANGED <<height, mDays, mDayCount, mDayIndex, lastDay>>
      /\ cb.height \notin DOMAIN mBlocks
      /\ mBlocks' = Put(mBlocks, cb.height, cb)
      /\ TrackHeights(cb.height)
  BY DEF ReadNew, dbVars, dayVars, numberVars
<1>1. /\ Delivered' = Delivered \cup {mIterator}
      /\ mIterator \in BlockKeys /\ mIterator \notin Delivered
      /\ cb \in Entries /\ cb.height \in Nat
      /\ IteratorInv'
  BY <1>0, DeliverOne DEF Entries
<1>2. DatabaseInv'
  BY <1>0 DEF IInv, DatabaseInv
<1>3. /\ DOMAIN mBlocks' = DOMAIN mBlocks \cup {cb.height}
      /\ mBlocks'[cb.height] = cb
      /\ \A h \in DOMAIN mBlocks : mBlocks'[h] = mBlocks[h]
  BY <1>0 DEF Put
<1>4. /\ mBlockHeight \in Nat /\ blockLow \in Nat /\ blockHigh \in Nat
      /\ DOMAIN mBlocks \subseteq Nat /\ HeightsInv
  BY DEF IInv, TypeOK
<1>5. mBlockHeight' \in Nat /\ blockLow' \in Nat /\ blockHigh' \in Nat /\ firstBlock' = FALSE
  BY <1>0, <1>1, <1>4 DEF TrackHeights
<1>6. TypeOK'
  <2>1. DOMAIN mBlocks' \subseteq Nat /\ \A h \in DOMAIN mBlocks' : mBlocks'[h] \in Entries
    BY <1>1, <1>3, <1>4 DEF IInv, TypeOK
  <2>2. mIterator' \in Nat
    BY <1>0 DEF IInv, TypeOK
  <2> QED
    BY <2>1, <2>2, <1>0, <1>5 DEF IInv, TypeOK
<1>7. IndexInv'
  <2>1. /\ DOMAIN mBlocks = {database[k].height : k \in Delivered}
        /\ \A k \in Delivered : FirstAtHeight(k) => mBlocks[database[k].height] = database[k]
    BY <1>0 DEF IInv, IndexInv, IteratorInv
  <2>2. DOMAIN mBlocks' = {database[k].height : k \in Delivered'}
    BY <2>1, <1>1, <1>3
  <2>3. ASSUME NEW k \in Delivered', FirstAtHeight(k)'
        PROVE  mBlocks'[database[k].height] = database[k]
    <3>1. FirstAtHeight(k)
      BY <2>3, <1>0 DEF FirstAtHeight, BlockKeys
    <3>2. CASE k = mIterator
      BY <3>2, <1>3
    <3>3. CASE k \in Delivered
      BY <3>1, <3>3, <2>1, <1>3
    <3> QED
      BY <3>2, <3>3, <1>1
  <2> QED
    BY <2>2, <2>3, <1>0 DEF IndexInv
<1>8. HeightsInv'
  <2>1. CASE firstBlock
    <3>1. DOMAIN mBlocks = {} /\ blockLow = 0 /\ blockHigh = 0 /\ mBlockHeight = 0
      BY <2>1, <1>4 DEF HeightsInv
    <3>2. blockLow' = cb.height /\ blockHigh' = cb.height /\ mBlockHeight' = cb.height
      BY <2>1, <3>1, <1>0, <1>1 DEF TrackHeights
    <3>3. DOMAIN mBlocks' = {cb.height}
      BY <3>1, <1>3
    <3> QED
      BY <3>2, <3>3, <1>1, <1>5 DEF HeightsInv
  <2>2. CASE ~firstBlock
    <3>1. DOMAIN mBlocks # {} /\ blockLow \in DOMAIN mBlocks /\ blockHigh \in DOMAIN mBlocks
      BY <2>2, <1>4 DEF HeightsInv
    <3>2. blockLow <= blockHigh
      BY <3>1, <1>4 DEF HeightsInv
    <3>3. /\ blockLow' = IF cb.height < blockLow THEN cb.height ELSE blockLow
          /\ blockHigh' = IF cb.height > blockHigh THEN cb.height ELSE blockHigh
          /\ mBlockHeight' = IF cb.height > blockHigh THEN cb.height ELSE blockHigh
      BY <2>2, <3>2, <1>0, <1>1, <1>4 DEF HeightsInv, TrackHeights
    <3>4. \A h \in DOMAIN mBlocks' : blockLow' <= h /\ h <= blockHigh'
      BY <3>2, <3>3, <1>1, <1>3, <1>4 DEF HeightsInv
    <3> QED
      BY <3>1, <3>3, <3>4, <1>3, <1>5 DEF HeightsInv
  <2> QED
    BY <2>1, <2>2
<1>9. NumberInv'
  BY <1>0 DEF IInv, NumberInv, DaysAhead
<1> QED
  BY <1>1, <1>2, <1>6, <1>7, <1>8, <1>9 DEF IInv

(* A height seen before: the entry is not the first of its height.         *)
LEMMA ReadKnownStep == IInv /\ ReadKnown => IInv'
<1> SUFFICES ASSUME IInv, ReadKnown PROVE IInv'
  OBVIOUS
<1> DEFINE cb == database[mIterator]
<1>0. /\ phase = "reading" /\ HasPrefix(mIterator) /\ phase' = phase
      /\ mIterator' = mIterator + 1 /\ UNCHANGED <<database, debugBuild, opened>>
      /\ UNCHANGED <<mBlocks, mBlockHeight, blockLow, blockHigh, firstBlock>>
      /\ UNCHANGED <<height, mDays, mDayCount, mDayIndex, lastDay>>
      /\ cb.height \in DOMAIN mBlocks
  BY DEF ReadKnown, dbVars, dayVars, numberVars
<1>1. /\ Delivered' = Delivered \cup {mIterator}
      /\ mIterator \in BlockKeys /\ mIterator \notin Delivered
      /\ IteratorInv'
  BY <1>0, DeliverOne
<1>2. DatabaseInv' /\ TypeOK'
  BY <1>0 DEF IInv, DatabaseInv, TypeOK
<1>3. IndexInv'
  <2>1. /\ DOMAIN mBlocks = {database[k].height : k \in Delivered}
        /\ \A k \in Delivered : FirstAtHeight(k) => mBlocks[database[k].height] = database[k]
    BY <1>0 DEF IInv, IndexInv, IteratorInv
  <2>2. PICK j \in Delivered : database[j].height = cb.height
    BY <2>1, <1>0
  <2>3. j \in BlockKeys /\ j < mIterator
    BY <1>0 DEF Delivered
  <2>4. ~FirstAtHeight(mIterator)
    BY <2>2, <2>3 DEF FirstAtHeight
  <2>5. \A k : FirstAtHeight(k)' = FirstAtHeight(k)
    BY <1>0 DEF FirstAtHeight, BlockKeys
  <2>6. \A k \in Delivered' : FirstAtHeight(k)' => mBlocks[database[k].height] = database[k]
    BY <2>1, <2>4, <2>5, <1>1
  <2> QED
    BY <2>1, <2>2, <2>6, <1>0, <1>1 DEF IndexInv
<1>4. HeightsInv' /\ NumberInv'
  BY <1>0 DEF IInv, HeightsInv, NumberInv, DaysAhead
<1> QED
  BY <1>1, <1>2, <1>3, <1>4 DEF IInv

(* The end of reading: everything is delivered, the index stays.           *)
LEMMA NextEndsStep == IInv /\ NextEnds => IInv'
<1> SUFFICES ASSUME IInv, NextEnds PROVE IInv'
  OBVIOUS
<1>0. /\ phase = "reading" /\ phase' = "read" /\ ~HasPrefix(mIterator)
      /\ mIterator' = 0 /\ UNCHANGED <<database, debugBuild, opened>>
      /\ UNCHANGED <<mBlocks, mBlockHeight, blockLow, blockHigh, firstBlock>>
      /\ UNCHANGED <<height, mDays, mDayCount, mDayIndex, lastDay>>
  BY DEF NextEnds, Goto, dbVars, dayVars, numberVars
<1>1. Delivered = BlockKeys /\ Delivered' = Delivered
  BY <1>0, AllDelivered DEF Delivered, BlockKeys
<1>2. DatabaseInv' /\ TypeOK' /\ IteratorInv'
  BY <1>0 DEF IInv, DatabaseInv, TypeOK, IteratorInv
<1>3. IndexInv'
  <2>1. \A k : FirstAtHeight(k)' = FirstAtHeight(k)
    BY <1>0 DEF FirstAtHeight, BlockKeys
  <2> QED
    BY <2>1, <1>0, <1>1 DEF IInv, IndexInv
<1>4. HeightsInv' /\ NumberInv'
  BY <1>0 DEF IInv, HeightsInv, NumberInv, DaysAhead
<1> QED
  BY <1>2, <1>3, <1>4 DEF IInv

(* A step that leaves the reading of the index alone keeps what is known   *)
(* of it.                                                                  *)
LEMMA IndexFrame ==
    ASSUME IInv, UNCHANGED <<database, debugBuild, opened>>,
           UNCHANGED <<mIterator, mBlocks, mBlockHeight, blockLow, blockHigh, firstBlock>>,
           phase' # "reading", phase' # "open",
           phase = "reading" => phase' = "aborted",
           phase = "aborted" => phase' = "aborted"
    PROVE  DatabaseInv' /\ IteratorInv' /\ IndexInv' /\ HeightsInv'
<1>1. DatabaseInv' /\ IteratorInv' /\ HeightsInv'
  BY DEF IInv, DatabaseInv, IteratorInv, HeightsInv
<1>2. CASE phase' = "aborted"
  BY <1>1, <1>2 DEF IndexInv
<1>3. CASE phase' # "aborted"
  <2>1. phase # "aborted" /\ Delivered' = Delivered
    BY <1>3 DEF Delivered, BlockKeys
  <2>2. \A k : FirstAtHeight(k)' = FirstAtHeight(k)
    BY DEF FirstAtHeight, BlockKeys
  <2> QED
    BY <1>1, <2>1, <2>2 DEF IInv, IndexInv
<1> QED
  BY <1>2, <1>3

(* The steps between the loops, and the two asserts.                       *)
LEMMA ControlStep ==
    IInv /\ (OpenFails \/ ReadKnownAsserts \/ LowAsserts \/ StartDays \/ DaysDone
                \/ NumberingDone)
        => IInv'
<1> SUFFICES ASSUME IInv,
                    OpenFails \/ ReadKnownAsserts \/ LowAsserts \/ StartDays \/ DaysDone
                        \/ NumberingDone
             PROVE  IInv'
  OBVIOUS
<1> USE DEF OpenFails, ReadKnownAsserts, LowAsserts, StartDays, DaysDone, NumberingDone, Goto,
            dbVars, readVars, dayVars, numberVars
<1>1. DatabaseInv' /\ IteratorInv' /\ IndexInv' /\ HeightsInv'
  BY IndexFrame
<1>2. TypeOK'
  BY DEF IInv, TypeOK
<1>3. /\ UNCHANGED <<mDays, mDayCount, mDayIndex, lastDay>>
      /\ phase' = "ready" => DaysAhead = {}
      /\ phase' \in {"open", "reading", "read"} => DOMAIN mDays = {}
      /\ phase' \notin {"numbering", "ready"} => lastDay = -1
  BY DEF IInv, NumberInv, DaysAhead
<1>4. DaysAhead' = DaysAhead
  BY <1>3 DEF DaysAhead
<1>5. NumberInv'
  BY <1>3, <1>4 DEF IInv, NumberInv
<1> QED
  BY <1>1, <1>2, <1>5 DEF IInv

(* The day loop touches the days only, and no day has a number yet.        *)
LEMMA DayOfHeightStep == IInv /\ DayOfHeight => IInv'
<1> SUFFICES ASSUME IInv, DayOfHeight PROVE IInv'
  OBVIOUS
<1>0. /\ phase = "days" /\ phase' = phase /\ height' = height + 1
      /\ UNCHANGED <<database, debugBuild, opened>>
      /\ UNCHANGED <<mIterator, mBlocks, mBlockHeight, blockLow, blockHigh, firstBlock>>
      /\ UNCHANGED <<mDayCount, mDayIndex, lastDay>>
  BY DEF DayOfHeight, NextHeight, dbVars, readVars, numberVars
<1>1. DatabaseInv' /\ IteratorInv' /\ IndexInv' /\ HeightsInv'
  BY <1>0, IndexFrame
<1>2. /\ DOMAIN mDays' \subseteq Nat
      /\ \A day \in DOMAIN mDays' : mDays'[day] \in Days
  <2>0. /\ DOMAIN mDays \subseteq Nat
        /\ \A day \in DOMAIN mDays : mDays[day] \in Days
        /\ \A h \in DOMAIN mBlocks : mBlocks[h] \in Entries
    BY DEF IInv, TypeOK
  <2>1. CASE height \notin DOMAIN mBlocks
    BY <2>0, <2>1 DEF DayOfHeight
  <2>2. CASE height \in DOMAIN mBlocks
    <3> DEFINE cb == mBlocks[height]
               day == BlockTime(cb)
               bd == IF day \in DOMAIN mDays THEN AddToDay(mDays[day], cb) ELSE NewDay(cb)
    <3>1. cb \in Entries
      BY <2>0, <2>2
    <3>2. /\ cb.height \in Nat /\ cb.mTime \in Nat /\ cb.mTransactionCount \in Nat
      BY <3>1 DEF Entries
    <3>3. day \in Nat
      BY <3>2, IndexAssumption DEF BlockTime
    <3>4. NewDay(cb) \in Days
      BY <3>2 DEF NewDay, Days
    <3>5. ASSUME NEW b \in Days PROVE AddToDay(b, cb) \in Days
      <4>1. /\ b.mMinBlockHeight \in Nat /\ b.mMaxBlockHeight \in Nat
            /\ b.mTransactionCount \in Nat /\ b.mBlockCount \in Nat
        BY <3>5 DEF Days
      <4> DEFINE low == IF cb.height < b.mMinBlockHeight THEN cb.height ELSE b.mMinBlockHeight
                 high == IF cb.height > b.mMaxBlockHeight THEN cb.height ELSE b.mMaxBlockHeight
                 sum == b.mTransactionCount + cb.mTransactionCount
                 count == b.mBlockCount + 1
      <4>2. low \in Nat /\ high \in Nat /\ sum \in Nat /\ count \in Nat
        BY <3>2, <4>1
      <4>3. AddToDay(b, cb) = [b EXCEPT !.mMinBlockHeight = low, !.mMaxBlockHeight = high,
                                        !.mTransactionCount = sum, !.mBlockCount = count]
        BY DEF AddToDay
      <4> HIDE DEF low, high, sum, count
      <4> QED
        BY <3>5, <4>2, <4>3 DEF Days
    <3>6. bd \in Days
      BY <2>0, <3>4, <3>5
    <3>7. mDays' = Put(mDays, day, bd)
      BY <2>2 DEF DayOfHeight
    <3> HIDE DEF bd, day
    <3> QED
      BY <2>0, <3>3, <3>6, <3>7 DEF Put
  <2> QED
    BY <2>1, <2>2
<1>3. TypeOK'
  BY <1>0, <1>2 DEF IInv, TypeOK
<1>4. mDayIndex = [n \in {} |-> n] \/ DOMAIN mDayIndex = {}
  <2>1. lastDay = -1 /\ DOMAIN mDays \subseteq Nat
    BY <1>0 DEF IInv, NumberInv, TypeOK
  <2> QED
    BY <2>1 DEF IInv, NumberInv
<1>5. NumberInv'
  <2>1. lastDay' = -1 /\ DOMAIN mDayIndex' = {} /\ DOMAIN mDayIndex' = 0..(mDayCount' - 1)
    BY <1>0, <1>4 DEF IInv, NumberInv
  <2>2. \A day \in DOMAIN mDays' : ~(day <= lastDay')
    BY <1>2, <2>1
  <2> QED
    BY <1>0, <2>1, <2>2 DEF NumberInv
<1> QED
  BY <1>1, <1>3, <1>5 DEF IInv

(* The next day of the sorted map gets the next number.                    *)
LEMMA NumberDayStep == IInv /\ NumberDay => IInv'
<1> SUFFICES ASSUME IInv, NumberDay PROVE IInv'
  OBVIOUS
<1>0. /\ phase = "numbering" /\ phase' = phase /\ mDayCount' = mDayCount + 1
      /\ UNCHANGED <<database, debugBuild, opened, height>>
      /\ UNCHANGED <<mIterator, mBlocks, mBlockHeight, blockLow, blockHigh, firstBlock>>
  BY DEF NumberDay, dbVars, readVars
<1>1. PICK day \in DOMAIN mDays :
          /\ NextDay(day)
          /\ mDays' = [mDays EXCEPT ![day].mDayNumber = mDayCount]
          /\ mDayIndex' = Put(mDayIndex, mDayCount, day)
          /\ lastDay' = day
  BY DEF NumberDay
<1>2. DatabaseInv' /\ IteratorInv' /\ IndexInv' /\ HeightsInv'
  BY <1>0, IndexFrame
<1>3. /\ mDayCount \in Nat /\ lastDay \in Nat \cup {-1} /\ DOMAIN mDays \subseteq Nat
      /\ \A d \in DOMAIN mDays : mDays[d] \in Days
      /\ DOMAIN mDayIndex = 0..(mDayCount - 1)
      /\ \A n \in DOMAIN mDayIndex : mDayIndex[n] \in DOMAIN mDays /\ mDayIndex[n] <= lastDay
      /\ \A d \in DOMAIN mDays : d <= lastDay => \E n \in DOMAIN mDayIndex : mDayIndex[n] = d
      /\ \A n \in DOMAIN mDayIndex : mDays[mDayIndex[n]].mDayNumber = n
      /\ \A m, n \in DOMAIN mDayIndex : m < n => mDayIndex[m] < mDayIndex[n]
  BY DEF IInv, TypeOK, NumberInv
<1>4. /\ lastDay < day
      /\ \A d \in DOMAIN mDays : lastDay < d => day <= d
  BY <1>1 DEF NextDay, DaysAhead
<1>5. /\ DOMAIN mDayIndex' = DOMAIN mDayIndex \cup {mDayCount}
      /\ mDayIndex'[mDayCount] = day
      /\ \A n \in DOMAIN mDayIndex : mDayIndex'[n] = mDayIndex[n] /\ n < mDayCount
  BY <1>1, <1>3 DEF Put
<1>6. /\ DOMAIN mDays' = DOMAIN mDays
      /\ \A d \in DOMAIN mDays : d # day => mDays'[d] = mDays[d]
      /\ mDays'[day] = [mDays[day] EXCEPT !.mDayNumber = mDayCount]
  BY <1>1
<1>7. mDays'[day] \in Days /\ mDays'[day].mDayNumber = mDayCount
  <2>1. mDays[day] \in Days
    BY <1>3
  <2> QED
    BY <1>3, <1>6, <2>1 DEF Days
<1>8. TypeOK'
  <2>1. \A d \in DOMAIN mDays' : mDays'[d] \in Days
    BY <1>3, <1>6, <1>7
  <2>2. DOMAIN mDayIndex' \subseteq Nat /\ \A n \in DOMAIN mDayIndex' : mDayIndex'[n] \in Nat
    BY <1>3, <1>5
  <2>3. mDayCount' \in Nat /\ lastDay' \in Nat \cup {-1}
    BY <1>0, <1>1, <1>3
  <2> QED
    BY <2>1, <2>2, <2>3, <1>0, <1>6 DEF IInv, TypeOK
<1>9. NumberInv'
  <2>1. DOMAIN mDayIndex' = 0..(mDayCount' - 1)
    BY <1>0, <1>3, <1>5
  <2>2. \A n \in DOMAIN mDayIndex' :
            mDayIndex'[n] \in DOMAIN mDays' /\ mDayIndex'[n] <= lastDay'
    BY <1>1, <1>3, <1>4, <1>5, <1>6
  <2>3. \A d \in DOMAIN mDays' :
            d <= lastDay' => \E n \in DOMAIN mDayIndex' : mDayIndex'[n] = d
    <3>1. SUFFICES ASSUME NEW d \in DOMAIN mDays, d <= day
                   PROVE  \E n \in DOMAIN mDayIndex' : mDayIndex'[n] = d
      BY <1>1, <1>6
    <3>2. CASE d = day
      BY <3>2, <1>5
    <3>3. CASE d # day
      <4>1. d <= lastDay
        BY <3>1, <3>3, <1>3, <1>4
      <4> QED
        BY <4>1, <1>3, <1>5
    <3> QED
      BY <3>2, <3>3
  <2>4. \A n \in DOMAIN mDayIndex' : mDays'[mDayIndex'[n]].mDayNumber = n
    <3>1. ASSUME NEW n \in DOMAIN mDayIndex PROVE mDays'[mDayIndex'[n]].mDayNumber = n
      <4>1. mDayIndex'[n] = mDayIndex[n] /\ mDayIndex[n] \in DOMAIN mDays /\ mDayIndex[n] # day
        BY <1>3, <1>4, <1>5
      <4> QED
        BY <4>1, <1>3, <1>6
    <3>2. mDays'[mDayIndex'[mDayCount]].mDayNumber = mDayCount
      BY <1>5, <1>7
    <3> QED
      BY <3>1, <3>2, <1>5
  <2>5. \A m, n \in DOMAIN mDayIndex' : m < n => mDayIndex'[m] < mDayIndex'[n]
    <3>1. ASSUME NEW m \in DOMAIN mDayIndex', NEW n \in DOMAIN mDayIndex', m < n
          PROVE  mDayIndex'[m] < mDayIndex'[n]
      <4>1. m \in DOMAIN mDayIndex
        BY <3>1, <1>3, <1>5
      <4>2. CASE n = mDayCount
        BY <4>1, <4>2, <1>3, <1>4, <1>5
      <4>3. CASE n \in DOMAIN mDayIndex
        BY <4>1, <4>3, <3>1, <1>3, <1>5
      <4> QED
        BY <4>2, <4>3, <1>5
    <3> QED
      BY <3>1
  <2> QED
    BY <1>0, <2>1, <2>2, <2>3, <2>4, <2>5 DEF NumberInv
<1> QED
  BY <1>2, <1>8, <1>9 DEF IInv

(* Commands change nothing but the answer.                                 *)
LEMMA CommandStep == IInv /\ (ProcessCommand \/ UNCHANGED vars) => IInv'
<1> SUFFICES ASSUME IInv, ProcessCommand \/ UNCHANGED vars PROVE IInv'
  OBVIOUS
<1>0. /\ UNCHANGED <<database, debugBuild, opened, phase>>
      /\ UNCHANGED <<mIterator, mBlocks, mBlockHeight, blockLow, blockHigh, firstBlock>>
      /\ UNCHANGED <<height, mDays, mDayCount, mDayIndex, lastDay>>
  BY DEF ProcessCommand, vars, dbVars, readVars, dayVars, numberVars
<1>1. DatabaseInv' /\ TypeOK' /\ IteratorInv' /\ HeightsInv' /\ NumberInv'
  BY <1>0 DEF IInv, DatabaseInv, TypeOK, IteratorInv, HeightsInv, NumberInv, DaysAhead
<1>2. Delivered' = Delivered /\ \A k : FirstAtHeight(k)' = FirstAtHeight(k)
  BY <1>0 DEF Delivered, FirstAtHeight, BlockKeys
<1>3. IndexInv'
  BY <1>0, <1>2 DEF IInv, IndexInv
<1> QED
  BY <1>1, <1>3 DEF IInv

(* Every step of the constructor and every command keeps the invariant.    *)
LEMMA NextIInv == IInv /\ [Next]_vars => IInv'
<1> SUFFICES ASSUME IInv, [Next]_vars PROVE IInv'
  OBVIOUS
<1>1. CASE Begin
  BY <1>1, BeginStep
<1>2. CASE ReadNew
  BY <1>2, ReadNewStep
<1>3. CASE ReadKnown
  BY <1>3, ReadKnownStep
<1>4. CASE NextEnds
  BY <1>4, NextEndsStep
<1>5. CASE OpenFails \/ ReadKnownAsserts \/ LowAsserts \/ StartDays \/ DaysDone \/ NumberingDone
  BY <1>5, ControlStep
<1>6. CASE DayOfHeight
  BY <1>6, DayOfHeightStep
<1>7. CASE NumberDay
  BY <1>7, NumberDayStep
<1>8. CASE ProcessCommand \/ Aborted \/ UNCHANGED vars
  BY <1>8, CommandStep DEF Aborted
<1> QED
  BY <1>1, <1>2, <1>3, <1>4, <1>5, <1>6, <1>7, <1>8 DEF Next, Read, Number

(* The strengthened invariant holds in every state of the program.         *)
THEOREM Inductive == Spec => []IInv
<1>1. Init => IInv
  BY InitIInv
<1>2. IInv /\ [Next]_vars => IInv'
  BY NextIInv
<1> QED
  BY <1>1, <1>2, PTL DEF Spec

(* The index, the days and the counters have their declared types.         *)
THEOREM IndexTypes == Spec => []TypeOK
<1>1. IInv => TypeOK
  BY DEF IInv
<1> QED
  BY <1>1, Inductive, PTL

(* Whatever sorted database the node left: exactly the "b" entries reach   *)
(* mBlocks, the first of each height.                                      *)
THEOREM IndexIsExact == Spec => []IndexExact
<1>1. IInv => IndexExact
  <2> SUFFICES ASSUME IInv, HasRead PROVE /\ DOMAIN mBlocks = {database[k].height : k \in BlockKeys}
                                          /\ \A k \in BlockKeys :
                                                FirstAtHeight(k) => mBlocks[database[k].height] = database[k]
    BY DEF IndexExact
  <2>1. Delivered = BlockKeys
    BY DEF HasRead, Delivered
  <2> QED
    BY <2>1 DEF IInv, IndexInv, HasRead
<1> QED
  BY <1>1, Inductive, PTL

(* getBlockHeight is the highest block of the index and the day loop runs  *)
(* over all of them.                                                       *)
THEOREM HeightsAreExact == Spec => []HeightsExact
<1>1. IInv => HeightsExact
  BY DEF IInv, HeightsInv, HeightsExact
<1> QED
  BY <1>1, Inductive, PTL

(* The days of the calendar are numbered from zero, in order, without gap. *)
THEOREM DaysAreInOrder == Spec => []DaysInOrder
<1>1. IInv => DaysInOrder
  <2> SUFFICES ASSUME IInv, phase = "ready"
               PROVE  /\ DOMAIN mDayIndex = 0..(mDayCount - 1)
                      /\ {mDayIndex[n] : n \in DOMAIN mDayIndex} = DOMAIN mDays
                      /\ \A n \in DOMAIN mDayIndex : mDays[mDayIndex[n]].mDayNumber = n
                      /\ \A m, n \in DOMAIN mDayIndex : m < n => mDayIndex[m] < mDayIndex[n]
    BY DEF DaysInOrder
  <2>1. \A day \in DOMAIN mDays : day <= lastDay
    BY DEF IInv, TypeOK, NumberInv, DaysAhead
  <2>2. /\ DOMAIN mDayIndex = 0..(mDayCount - 1)
        /\ \A n \in DOMAIN mDayIndex : mDays[mDayIndex[n]].mDayNumber = n
        /\ \A m, n \in DOMAIN mDayIndex : m < n => mDayIndex[m] < mDayIndex[n]
        /\ \A n \in DOMAIN mDayIndex : mDayIndex[n] \in DOMAIN mDays
        /\ \A day \in DOMAIN mDays : day <= lastDay =>
               \E n \in DOMAIN mDayIndex : mDayIndex[n] = day
    BY DEF IInv, NumberInv
  <2>3. \A day : day \in DOMAIN mDays <=> \E n \in DOMAIN mDayIndex : day = mDayIndex[n]
    BY <2>1, <2>2
  <2>4. {mDayIndex[n] : n \in DOMAIN mDayIndex} = DOMAIN mDays
    BY <2>3, Zenon
  <2> QED
    BY <2>2, <2>4
<1> QED
  BY <1>1, Inductive, PTL

-----------------------------------------------------------------------------
(* Each entry of the map is filed under its own height.                    *)
OwnHeight == \A h \in DOMAIN mBlocks : mBlocks[h].height = h

DaysInv == IInv /\ OwnHeight /\ DaysExact

(* The transactions at these heights below each height.                    *)
Totals(f, heights) ==
    /\ f[0] = 0
    /\ \A n \in 0..blockHigh :
          f[n + 1] = f[n] + IF n \in heights THEN mBlocks[n].mTransactionCount ELSE 0

(* The sum that DaysExact speaks of adds up the heights one by one.        *)
LEMMA TotalsExist ==
  ASSUME blockHigh \in Nat, NEW heights
  PROVE  \E f : Totals(f, heights) /\ TransactionsAt(heights) = f[blockHigh + 1]
<1> DEFINE top == blockHigh + 1
           size(n) == IF n \in heights THEN mBlocks[n].mTransactionCount ELSE 0
           sizes == [i \in 1..top |-> size(i - 1)]
           IsTotal(f) == f = [n \in 0..top |-> IF n = 0 THEN 0 ELSE f[n - 1] + size(n - 1)]
           total == CHOOSE f : IsTotal(f)
<1>1. top \in Nat /\ \A i \in 1..top : sizes[i] = size(i - 1)
  OBVIOUS
<1> HIDE DEF top, sizes, size
<1>2. PICK f : Adds(f, top, 0, sizes)
  BY <1>1, SumsExist
<1>3. f[0] = 0 /\ \A i \in 1..top : f[i] = f[i - 1] + size(i - 1)
  BY <1>1, <1>2 DEF Adds
<1>4. IsTotal([n \in 0..top |-> f[n]])
  BY <1>1, <1>3
<1>5. IsTotal(total)
  BY <1>4
<1>6. TransactionsAt(heights) = total[top]
  BY Zenon DEF TransactionsAt, top, size
<1> HIDE DEF total
<1>7. total[0] = 0 /\ \A n \in 0..blockHigh : total[n + 1] = total[n] + size(n)
  <2>1. 0 \in 0..top /\ \A n \in 0..blockHigh : /\ n + 1 \in 0..top /\ n + 1 # 0
                                               /\ (n + 1) - 1 = n
    BY <1>1 DEF top
  <2> QED
    BY <1>5, <2>1
<1> QED
  BY <1>6, <1>7 DEF Totals, top, size

(* At no heights there are no transactions.                                *)
LEMMA NoTransactions ==
  ASSUME blockHigh \in Nat
  PROVE  TransactionsAt({}) = 0
<1>1. PICK f : Totals(f, {}) /\ TransactionsAt({}) = f[blockHigh + 1]
  BY TotalsExist
<1> DEFINE S == {n \in Nat : n <= blockHigh + 1 => f[n] = 0}
<1>2. 0 \in S
  BY <1>1 DEF Totals
<1>3. ASSUME NEW n \in Nat, n \in S PROVE n + 1 \in S
  BY <1>1, <1>3 DEF Totals
<1> HIDE DEF S
<1>4. Nat \subseteq S
  BY <1>2, <1>3, SetInduction
<1>5. blockHigh + 1 \in S
  BY <1>4
<1> QED
  BY <1>1, <1>5 DEF S

(* The types of the blocks of the map that the sums add up.                *)
CountsTyped == /\ blockHigh \in Nat
               /\ \A h \in DOMAIN mBlocks : mBlocks[h].mTransactionCount \in Nat

(* One height more adds its transactions.                                  *)
LEMMA MoreTransactions ==
  ASSUME CountsTyped, NEW heights \in SUBSET DOMAIN mBlocks, NEW h \in DOMAIN mBlocks,
         h \in 0..blockHigh, h \notin heights
  PROVE  /\ TransactionsAt(heights) \in Nat
         /\ TransactionsAt(heights \cup {h}) = TransactionsAt(heights) + mBlocks[h].mTransactionCount
<1> DEFINE size(n) == IF n \in heights THEN mBlocks[n].mTransactionCount ELSE 0
           more(n) == IF n \in heights \cup {h} THEN mBlocks[n].mTransactionCount ELSE 0
           c == mBlocks[h].mTransactionCount
<1>1. PICK f : Totals(f, heights) /\ TransactionsAt(heights) = f[blockHigh + 1]
  BY TotalsExist DEF CountsTyped
<1>2. PICK g : Totals(g, heights \cup {h}) /\ TransactionsAt(heights \cup {h}) = g[blockHigh + 1]
  BY TotalsExist DEF CountsTyped
<1>3. /\ f[0] = 0 /\ g[0] = 0
      /\ \A n \in 0..blockHigh : f[n + 1] = f[n] + size(n) /\ g[n + 1] = g[n] + more(n)
  BY <1>1, <1>2 DEF Totals
<1>4. /\ \A n \in 0..blockHigh : size(n) \in Nat
      /\ \A n \in 0..blockHigh : n # h => more(n) = size(n)
      /\ size(h) = 0 /\ more(h) = c /\ c \in Nat /\ h \in Nat /\ blockHigh \in Nat /\ h <= blockHigh
  BY DEF CountsTyped
<1> HIDE DEF size, more, c
<1> DEFINE S == {n \in Nat : n <= blockHigh + 1 =>
                               f[n] \in Nat /\ g[n] = f[n] + IF n <= h THEN 0 ELSE c}
<1>5. 0 \in S
  BY <1>3, <1>4
<1>6. ASSUME NEW n \in Nat, n \in S PROVE n + 1 \in S
  <2> SUFFICES ASSUME n + 1 <= blockHigh + 1
               PROVE  f[n + 1] \in Nat /\ g[n + 1] = f[n + 1] + IF n + 1 <= h THEN 0 ELSE c
    OBVIOUS
  <2>1. /\ n \in 0..blockHigh
        /\ f[n] \in Nat /\ g[n] = f[n] + IF n <= h THEN 0 ELSE c
        /\ f[n + 1] = f[n] + size(n) /\ g[n + 1] = g[n] + more(n)
        /\ size(n) \in Nat
    BY <1>3, <1>4, <1>6
  <2>2. CASE n = h
    BY <2>1, <2>2, <1>4
  <2>3. CASE n # h
    BY <2>1, <2>3, <1>4
  <2> QED
    BY <2>2, <2>3
<1> HIDE DEF S
<1>7. Nat \subseteq S
  BY <1>5, <1>6, SetInduction
<1>8. blockHigh + 1 \in S
  BY <1>4, <1>7
<1>9. f[blockHigh + 1] \in Nat /\ g[blockHigh + 1] = f[blockHigh + 1] + c
  BY <1>4, <1>8 DEF S
<1> QED
  BY <1>1, <1>2, <1>9 DEF c

(* The blocks of a day are finitely many, so that they can be counted.     *)
LEMMA DayFinite ==
  ASSUME IInv, NEW day
  PROVE  /\ IsFiniteSet(HeightsOn(day))
         /\ HeightsOn(day) \subseteq DOMAIN mBlocks
         /\ CountsTyped
<1>1. /\ blockHigh \in Nat /\ DOMAIN mBlocks \subseteq Nat
      /\ \A h \in DOMAIN mBlocks : mBlocks[h] \in Entries /\ h <= blockHigh
  BY DEF IInv, TypeOK, HeightsInv
<1>2. HeightsOn(day) \subseteq DOMAIN mBlocks
  BY DEF HeightsOn, HeightsSeen
<1>3. HeightsOn(day) \subseteq 0..blockHigh
  BY <1>1, <1>2
<1>4. IsFiniteSet(0..blockHigh)
  BY <1>1, FS_Interval
<1>5. IsFiniteSet(HeightsOn(day))
  BY <1>3, <1>4, FS_Subset
<1> QED
  BY <1>1, <1>2, <1>5 DEF CountsTyped, Entries

(* A new block of the map is filed under its height, the others stay.      *)
LEMMA OwnHeightStep == IInv /\ OwnHeight /\ [Next]_vars => OwnHeight'
<1> SUFFICES ASSUME IInv, OwnHeight, [Next]_vars PROVE OwnHeight'
  OBVIOUS
<1>1. CASE ReadNew
  <2>1. mBlocks' = Put(mBlocks, database[mIterator].height, database[mIterator])
    BY <1>1 DEF ReadNew
  <2> QED
    BY <2>1 DEF OwnHeight, Put
<1>2. CASE UNCHANGED mBlocks
  BY <1>2 DEF OwnHeight
<1> QED
  BY <1>1, <1>2 DEF Next, Read, Number, OpenFails, Begin, ReadKnown, ReadKnownAsserts, NextEnds,
     LowAsserts, StartDays, DayOfHeight, DaysDone, NumberDay, NumberingDone, ProcessCommand,
     Aborted, vars, readVars

(* What a block brings to the record of its day.                           *)
LEMMA AddedToDay ==
  ASSUME NEW bd \in Days, NEW cb \in Entries
  PROVE  /\ AddToDay(bd, cb).mBlockCount = bd.mBlockCount + 1
         /\ AddToDay(bd, cb).mTransactionCount = bd.mTransactionCount + cb.mTransactionCount
         /\ AddToDay(bd, cb).mMinBlockHeight = IF cb.height < bd.mMinBlockHeight
                                               THEN cb.height ELSE bd.mMinBlockHeight
         /\ AddToDay(bd, cb).mMaxBlockHeight = IF cb.height > bd.mMaxBlockHeight
                                               THEN cb.height ELSE bd.mMaxBlockHeight
         /\ AddToDay(bd, cb).mBlockTime = bd.mBlockTime
BY DEF AddToDay, Days

(* A height without a block changes nothing; a block joins those of its    *)
(* day, behind all of them.                                                *)
LEMMA DayAddsBlock == DaysInv /\ HasRead /\ DayOfHeight => DaysExact'
<1> SUFFICES ASSUME DaysInv, HasRead, DayOfHeight PROVE DaysExact'
  OBVIOUS
<1> DEFINE cb == mBlocks[height]
           today == BlockTime(cb)
           new == IF today \in DOMAIN mDays THEN AddToDay(mDays[today], cb) ELSE NewDay(cb)
<1>1. /\ phase = "days" /\ phase' = "days" /\ height' = height + 1 /\ height <= blockHigh
      /\ UNCHANGED <<opened, mBlocks, blockHigh>>
      /\ height \in Nat /\ blockHigh \in Nat /\ DOMAIN mBlocks \subseteq Nat
      /\ IInv /\ OwnHeight
  BY DEF DayOfHeight, NextHeight, DaysInv, dbVars, readVars, IInv, TypeOK
<1>2. /\ DOMAIN mDays = {BlockTime(mBlocks[h]) : h \in HeightsSeen}
      /\ \A day \in DOMAIN mDays :
            LET bd == mDays[day]
                on == HeightsOn(day)
            IN  /\ bd.mBlockCount = Cardinality(on)
                /\ bd.mTransactionCount = TransactionsAt(on)
                /\ {bd.mMinBlockHeight, bd.mMaxBlockHeight} \subseteq on
                /\ \A h \in on : bd.mMinBlockHeight <= h /\ h <= bd.mMaxBlockHeight
                /\ bd.mBlockTime = mBlocks[bd.mMinBlockHeight].mTime
  BY <1>1 DEF DaysInv, DaysExact
<1>3. \A heights : TransactionsAt(heights)' = TransactionsAt(heights)
  BY <1>1 DEF TransactionsAt
<1>4. /\ HeightsSeen = {h \in DOMAIN mBlocks : h < height}
      /\ HeightsSeen' = {h \in DOMAIN mBlocks : h < height + 1}
  BY <1>1 DEF HeightsSeen
<1>5. CASE height \notin DOMAIN mBlocks
  <2>1. HeightsSeen' = HeightsSeen /\ mDays' = mDays
    BY <1>1, <1>4, <1>5 DEF DayOfHeight
  <2>2. \A day : HeightsOn(day)' = HeightsOn(day)
    BY <1>1, <2>1 DEF HeightsOn, BlockTime
  <2> QED
    BY <1>1, <1>2, <1>3, <2>1, <2>2 DEF DaysExact, HasRead, BlockTime
<1>6. CASE height \in DOMAIN mBlocks
  <2>1. /\ HeightsSeen' = HeightsSeen \cup {height} /\ height \notin HeightsSeen
        /\ mDays' = Put(mDays, today, new)
    BY <1>1, <1>4, <1>6 DEF DayOfHeight
  <2>2. /\ \A day : day # today => HeightsOn(day)' = HeightsOn(day)
        /\ \A day : day = today => HeightsOn(day)' = HeightsOn(day) \cup {height}
        /\ height \notin HeightsOn(today)
    BY <1>1, <2>1 DEF HeightsOn, BlockTime
  <2>3. /\ cb \in Entries /\ cb.height = height
        /\ \A day \in DOMAIN mDays : mDays[day] \in Days
    BY <1>1, <1>6 DEF IInv, TypeOK, OwnHeight
  <2> DEFINE on == HeightsOn(today)
  <2>4. /\ IsFiniteSet(on) /\ on \subseteq DOMAIN mBlocks /\ CountsTyped
        /\ \A h \in on : h < height /\ h \in Nat
    BY <1>1, <1>4, DayFinite DEF HeightsOn
  <2>5. /\ TransactionsAt(on) \in Nat
        /\ TransactionsAt(on \cup {height}) = TransactionsAt(on) + cb.mTransactionCount
        /\ Cardinality(on \cup {height}) = Cardinality(on) + 1
    <3>1. height \in 0..blockHigh /\ height \notin on
      BY <1>1, <2>2
    <3>2. Cardinality(on \cup {height}) = Cardinality(on) + 1
      BY <2>4, <3>1, FS_AddElement
    <3> QED
      BY <1>6, <2>4, <3>1, <3>2, MoreTransactions
  <2>6. today \notin DOMAIN mDays => on = {}
    BY <1>2 DEF HeightsOn
  <2>7. /\ new.mBlockCount = Cardinality(on \cup {height})
        /\ new.mTransactionCount = TransactionsAt(on \cup {height})
        /\ new.mMaxBlockHeight = height
        /\ new.mMinBlockHeight \in on \cup {height}
        /\ \A h \in on : new.mMinBlockHeight <= h
        /\ new.mMinBlockHeight <= height
        /\ new.mBlockTime = mBlocks[new.mMinBlockHeight].mTime
    <3>1. CASE today \in DOMAIN mDays
      <4> DEFINE bd == mDays[today]
      <4>1. /\ bd \in Days
            /\ bd.mBlockCount = Cardinality(on)
            /\ bd.mTransactionCount = TransactionsAt(on)
            /\ bd.mMinBlockHeight \in on /\ bd.mMaxBlockHeight \in on
            /\ \A h \in on : bd.mMinBlockHeight <= h
            /\ bd.mBlockTime = mBlocks[bd.mMinBlockHeight].mTime
        BY <1>2, <2>3, <3>1
      <4>2. bd.mMinBlockHeight < height /\ bd.mMaxBlockHeight < height
        BY <2>4, <4>1
      <4>3. new = AddToDay(bd, cb)
        BY <3>1
      <4> HIDE DEF bd, new, on
      <4>4. /\ new.mBlockCount = Cardinality(on) + 1
            /\ new.mTransactionCount = TransactionsAt(on) + cb.mTransactionCount
            /\ new.mMinBlockHeight = bd.mMinBlockHeight
            /\ new.mMaxBlockHeight = height
            /\ new.mBlockTime = bd.mBlockTime
        <5>1. /\ new.mMinBlockHeight = IF height < bd.mMinBlockHeight THEN height ELSE bd.mMinBlockHeight
              /\ new.mMaxBlockHeight = IF height > bd.mMaxBlockHeight THEN height ELSE bd.mMaxBlockHeight
              /\ new.mBlockCount = bd.mBlockCount + 1
              /\ new.mTransactionCount = bd.mTransactionCount + cb.mTransactionCount
              /\ new.mBlockTime = bd.mBlockTime
          BY <2>3, <4>1, <4>3, AddedToDay
        <5>2. bd.mMinBlockHeight \in Nat /\ bd.mMaxBlockHeight \in Nat
          BY <2>4, <4>1
        <5> QED
          BY <1>1, <4>1, <4>2, <5>1, <5>2
      <4>5. \A h \in on : new.mMinBlockHeight <= h
        BY <4>1, <4>4
      <4>6. new.mMinBlockHeight \in on /\ new.mMinBlockHeight <= height
        BY <1>1, <2>4, <4>1, <4>2, <4>4
      <4>7. new.mBlockTime = mBlocks[new.mMinBlockHeight].mTime
        BY <4>1, <4>4
      <4> QED
        BY <2>5, <4>1, <4>4, <4>5, <4>6, <4>7
    <3>2. CASE today \notin DOMAIN mDays
      <4>1. new = NewDay(cb) /\ on = {}
        BY <2>6, <3>2
      <4>2. Cardinality(on) = 0 /\ TransactionsAt(on) = 0
        BY <1>1, <4>1, NoTransactions, FS_EmptySet
      <4>3. cb.mTransactionCount \in Nat
        BY <2>3 DEF Entries
      <4>4. /\ new.mBlockCount = 1 /\ new.mTransactionCount = cb.mTransactionCount
            /\ new.mMinBlockHeight = height /\ new.mMaxBlockHeight = height
            /\ new.mBlockTime = cb.mTime
        BY <2>3, <4>1 DEF NewDay
      <4> HIDE DEF on, new
      <4> QED
        BY <1>1, <2>5, <4>1, <4>2, <4>3, <4>4
    <3> QED
      BY <3>1, <3>2
  <2>8. /\ DOMAIN mDays' = DOMAIN mDays \cup {today}
        /\ mDays'[today] = new
        /\ \A day \in DOMAIN mDays : day # today => mDays'[day] = mDays[day]
    BY <2>1 DEF Put
  <2>9. DOMAIN mDays' = {BlockTime(mBlocks[h]) : h \in HeightsSeen'}
    BY <1>2, <2>1, <2>8
  <2> HIDE DEF new, on, today
  <2>10. ASSUME NEW day \in DOMAIN mDays'
         PROVE  LET bd == mDays'[day]
                    on1 == HeightsOn(day)'
                IN  /\ bd.mBlockCount = Cardinality(on1)
                    /\ bd.mTransactionCount = TransactionsAt(on1)
                    /\ {bd.mMinBlockHeight, bd.mMaxBlockHeight} \subseteq on1
                    /\ \A h \in on1 : bd.mMinBlockHeight <= h /\ h <= bd.mMaxBlockHeight
                    /\ bd.mBlockTime = mBlocks[bd.mMinBlockHeight].mTime
    <3>1. CASE day = today
      <4>1. mDays'[day] = new /\ HeightsOn(day)' = on \cup {height}
        <5>1. HeightsOn(day)' = HeightsOn(day) \cup {height} /\ HeightsOn(day) = on
          BY <2>2, <3>1 DEF on
        <5> QED
          BY <2>8, <3>1, <5>1
      <4>2. \A h \in on \cup {height} : h <= height
        BY <1>1, <2>4
      <4> QED
        BY <2>7, <4>1, <4>2
    <3>2. CASE day # today
      <4>1. day \in DOMAIN mDays /\ mDays'[day] = mDays[day] /\ HeightsOn(day)' = HeightsOn(day)
        BY <2>2, <2>8, <3>2, <2>10 DEF today
      <4> QED
        BY <1>2, <4>1
    <3> QED
      BY <3>1, <3>2
  <2> QED
    BY <1>1, <1>3, <2>9, <2>10 DEF DaysExact, BlockTime
<1> QED
  BY <1>5, <1>6

(* The other steps leave what DaysExact compares alone, or start it with   *)
(* no day and no block seen.                                               *)
LEMMA DaysStay ==
  ASSUME DaysInv, HasRead', phase' # "read",
         UNCHANGED <<opened, mBlocks, blockHigh, mDays>>,
         \/ phase = "days" /\ phase' = "numbering" /\ height > blockHigh
         \/ HasRead /\ phase # "read" /\ (phase' = "days" <=> phase = "days") /\ UNCHANGED height
  PROVE  DaysExact'
<1>1. HasRead /\ phase # "read"
  BY DEF HasRead
<1>2. HeightsSeen' = HeightsSeen
  <2>1. \A h \in DOMAIN mBlocks : h <= blockHigh /\ h \in Nat
    BY DEF DaysInv, IInv, TypeOK, HeightsInv
  <2>2. blockHigh \in Nat /\ height \in Nat
    BY DEF DaysInv, IInv, TypeOK
  <2> QED
    BY <2>1, <2>2 DEF HeightsSeen
<1>3. \A day : HeightsOn(day)' = HeightsOn(day)
  BY <1>2 DEF HeightsOn, BlockTime
<1>4. \A heights : TransactionsAt(heights)' = TransactionsAt(heights)
  BY DEF TransactionsAt
<1> QED
  BY <1>1, <1>2, <1>3, <1>4 DEF DaysInv, DaysExact, BlockTime

(* The numbers that the days get touch nothing else of them.               *)
LEMMA NumberingKeepsDays == DaysInv /\ HasRead /\ NumberDay => DaysExact'
<1> SUFFICES ASSUME DaysInv, HasRead, NumberDay PROVE DaysExact'
  OBVIOUS
<1>1. /\ phase = "numbering" /\ phase' = "numbering"
      /\ UNCHANGED <<opened, mBlocks, blockHigh, height>>
  BY DEF NumberDay, dbVars, readVars
<1>2. HeightsSeen' = HeightsSeen
  BY <1>1 DEF HeightsSeen
<1>3. \A day : HeightsOn(day)' = HeightsOn(day)
  BY <1>1, <1>2 DEF HeightsOn, BlockTime
<1>4. \A heights : TransactionsAt(heights)' = TransactionsAt(heights)
  BY <1>1 DEF TransactionsAt
<1>5. PICK next \in DOMAIN mDays : mDays' = [mDays EXCEPT ![next].mDayNumber = mDayCount]
  BY DEF NumberDay
<1>6. DOMAIN mDays' = DOMAIN mDays
  BY <1>5
<1>7. ASSUME NEW day \in DOMAIN mDays
      PROVE  /\ mDays'[day].mBlockCount = mDays[day].mBlockCount
             /\ mDays'[day].mTransactionCount = mDays[day].mTransactionCount
             /\ mDays'[day].mMinBlockHeight = mDays[day].mMinBlockHeight
             /\ mDays'[day].mMaxBlockHeight = mDays[day].mMaxBlockHeight
             /\ mDays'[day].mBlockTime = mDays[day].mBlockTime
  <2>1. mDays[day] \in Days
    BY DEF DaysInv, IInv, TypeOK
  <2>2. \/ mDays'[day] = mDays[day]
        \/ mDays'[day] = [mDays[day] EXCEPT !.mDayNumber = mDayCount]
    BY <1>5
  <2> QED
    BY <2>1, <2>2 DEF Days
<1> QED
  BY <1>1, <1>2, <1>3, <1>4, <1>6, <1>7 DEF DaysInv, DaysExact, HasRead, BlockTime

(* The loop over the heights starts with no block seen and no day.         *)
LEMMA DaysStart == DaysInv /\ HasRead /\ StartDays => DaysExact'
<1> SUFFICES ASSUME DaysInv, HasRead, StartDays PROVE DaysExact'
  OBVIOUS
<1>1. /\ phase = "read" /\ phase' = "days" /\ height' = blockLow
      /\ UNCHANGED <<mBlocks, mDays>>
  BY DEF StartDays, Goto, readVars
<1>2. DOMAIN mDays = {} /\ \A h \in DOMAIN mBlocks : blockLow <= h /\ h \in Nat /\ blockLow \in Nat
  BY <1>1 DEF DaysInv, IInv, TypeOK, NumberInv, HeightsInv
<1>3. HeightsSeen' = {}
  BY <1>1, <1>2 DEF HeightsSeen
<1> QED
  BY <1>1, <1>2, <1>3 DEF DaysExact

(* Every step keeps the days exact.                                        *)
LEMMA NextDaysInv == DaysInv /\ [Next]_vars => DaysInv'
<1> SUFFICES ASSUME DaysInv, [Next]_vars PROVE DaysInv'
  OBVIOUS
<1>1. IInv' /\ OwnHeight'
  BY NextIInv, OwnHeightStep DEF DaysInv
<1> SUFFICES ASSUME HasRead', phase' # "read" PROVE DaysExact'
  BY <1>1 DEF DaysInv, DaysExact
<1>2. CASE OpenFails \/ Begin \/ ReadNew \/ ReadKnown \/ ReadKnownAsserts \/ NextEnds \/ LowAsserts
  <2>1. phase = "open" => ~opened
    BY DEF DaysInv, IInv, IteratorInv
  <2> QED
    BY <1>2, <2>1 DEF OpenFails, Begin, ReadNew, ReadKnown, ReadKnownAsserts, NextEnds, LowAsserts,
       Goto, HasRead
<1>3. CASE StartDays
  BY <1>3, DaysStart DEF StartDays, Goto, HasRead
<1>4. CASE DayOfHeight
  BY <1>4, DayAddsBlock DEF DayOfHeight, HasRead
<1>5. CASE NumberDay
  BY <1>5, NumberingKeepsDays DEF NumberDay, HasRead
<1>6. CASE DaysDone
  BY <1>6, DaysStay DEF DaysDone, Goto, readVars, dayVars
<1>7. CASE NumberingDone \/ ProcessCommand \/ Aborted \/ UNCHANGED vars
  BY <1>7, DaysStay DEF NumberingDone, ProcessCommand, Aborted, Goto, vars, readVars, dayVars, HasRead
<1> QED
  BY <1>2, <1>3, <1>4, <1>5, <1>6, <1>7 DEF Next, Read, Number

(* For every sorted database, whatever the order of the times: a day adds  *)
(* up exactly its blocks, each once, and dates from the lowest.            *)
THEOREM DaysAreExact == Spec => []DaysExact
<1>1. Init => DaysInv
  BY InitIInv DEF Init, DaysInv, OwnHeight, DaysExact, HasRead, Empty
<1>2. DaysInv /\ [Next]_vars => DaysInv'
  BY NextDaysInv
<1>3. DaysInv => DaysExact
  BY DEF DaysInv
<1> QED
  BY <1>1, <1>2, <1>3, PTL DEF Spec

-----------------------------------------------------------------------------
(***************************************************************************)
(* Second part: the records.  Whatever 64-bit values the fields of one     *)
(* have and whichever of them its status bits announce, readBlockIndex     *)
(* gives back what the node stored, and stays inside the record.           *)
(***************************************************************************)

(* Quotient and remainder of a division.                                   *)
LEMMA DivideIs ==
  ASSUME NEW h \in Nat \ {0}, NEW n \in Nat
  PROVE  /\ n \div h \in Nat
         /\ n % h \in 0..(h - 1)
         /\ n = ((n \div h) * h) + (n % h)
         /\ n \div h <= n
         /\ n >= h => n \div h >= 1
         /\ n < h => n % h = n
<1>1. /\ n \div h \in Nat
      /\ n % h \in 0..(h - 1)
      /\ n = ((n \div h) * h) + (n % h)
  OBVIOUS
<1>2. n \div h <= n
  OBVIOUS
<1>3. n >= h => n \div h >= 1
  OBVIOUS
<1>4. n < h => n % h = n
  OBVIOUS
<1> QED
  BY <1>1, <1>2, <1>3, <1>4

(* Half is taken off the bytes before the last.                            *)
LEMMA DivideOnce ==
  ASSUME NEW h \in Nat \ {0}, NEW r \in 0..(h - 1)
  PROVE  (r + h) % h = r
OBVIOUS

(* The index of the byte before, in the recursion of Varint.               *)
Shorter(k) == (k \div Half) - 1

(* It falls, so the recursion ends.                                        *)
LEMMA ShorterIs ==
  ASSUME NEW k \in Nat, ~(k < Half)
  PROVE  /\ Shorter(k) \in Nat
         /\ Shorter(k) < k
         /\ k = ((Shorter(k) + 1) * Half) + (k % Half)
         /\ k % Half \in 0..(Half - 1)
<1>1. Half \in Nat \ {0}
  BY RecordAssumption
<1>2. /\ k \div Half \in Nat
      /\ k % Half \in 0..(Half - 1)
      /\ k = ((k \div Half) * Half) + (k % Half)
      /\ k \div Half <= k
      /\ k >= Half => k \div Half >= 1
  BY <1>1, DivideIs, Zenon
<1>3. /\ Shorter(k) \in Nat
      /\ Shorter(k) < k
      /\ Shorter(k) + 1 = k \div Half
  BY <1>1, <1>2 DEF Shorter
<1> QED
  BY <1>2, <1>3

-----------------------------------------------------------------------------
(* The bytes before the last, as Varint computes them.                     *)
Digits(f, k) == IF k < Half THEN <<k + Half>>
                            ELSE Append(f[Shorter(k)], (k % Half) + Half)

IsBefore(f) == f = [k \in Nat |-> Digits(f, k)]

Before == CHOOSE f : IsBefore(f)

(* A function that satisfies the recursion below m.                        *)
Upto(f, m) == \A k \in Nat : k < m => f[k] = Digits(f, k)

(* Two of them agree below m.                                              *)
LEMMA UptoUnique ==
  ASSUME NEW m \in Nat, NEW f, Upto(f, m), NEW g, Upto(g, m)
  PROVE  \A k \in Nat : k < m => f[k] = g[k]
<1> DEFINE S == {n \in Nat : \A k \in Nat : k < n /\ k < m => f[k] = g[k]}
<1>1. 0 \in S
  OBVIOUS
<1>2. ASSUME NEW n \in Nat, n \in S PROVE n + 1 \in S
  <2>1. n < m => f[n] = g[n]
    <3> SUFFICES ASSUME n < m PROVE f[n] = g[n]
      OBVIOUS
    <3>1. Digits(f, n) = Digits(g, n)
      <4>1. CASE n < Half
        BY <4>1 DEF Digits
      <4>2. CASE ~(n < Half)
        <5>1. Shorter(n) \in Nat /\ Shorter(n) < n
          BY <4>2, ShorterIs
        <5>2. f[Shorter(n)] = g[Shorter(n)]
          BY <1>2, <5>1
        <5> QED
          BY <4>2, <5>2 DEF Digits
      <4> QED
        BY <4>1, <4>2
    <3> QED
      BY <3>1 DEF Upto
  <2> QED
    BY <1>2, <2>1
<1> HIDE DEF S
<1>3. Nat \subseteq S
  BY <1>1, <1>2, SetInduction
<1>4. m \in S
  BY <1>3
<1> QED
  BY <1>4 DEF S

(* There is one for each m, by induction: its last value follows from those*)
(* before.                                                                 *)
LEMMA UptoExists ==
  ASSUME NEW m \in Nat
  PROVE  \E f : Upto(f, m)
<1> DEFINE S == {n \in Nat : \E f : Upto(f, n)}
<1>1. 0 \in S
  BY DEF Upto
<1>2. ASSUME NEW n \in Nat, n \in S PROVE n + 1 \in S
  <2>1. PICK f : Upto(f, n)
    BY <1>2
  <2> DEFINE g == [k \in Nat |-> IF k = n THEN Digits(f, n) ELSE f[k]]
  <2>2. ASSUME NEW k \in Nat, k < n + 1 PROVE g[k] = Digits(g, k)
    <3>1. Digits(f, k) = Digits(g, k)
      <4>1. CASE k < Half
        BY <4>1 DEF Digits
      <4>2. CASE ~(k < Half)
        <5>1. Shorter(k) \in Nat /\ Shorter(k) < k
          BY <4>2, ShorterIs
        <5>2. f[Shorter(k)] = g[Shorter(k)]
          BY <2>2, <5>1
        <5> QED
          BY <4>2, <5>2 DEF Digits
      <4> QED
        BY <4>1, <4>2
    <3>2. CASE k = n
      BY <3>1, <3>2
    <3>3. CASE k # n
      <4>1. g[k] = f[k] /\ f[k] = Digits(f, k)
        BY <2>1, <2>2, <3>3 DEF Upto
      <4> QED
        BY <3>1, <4>1
    <3> QED
      BY <3>2, <3>3
  <2> HIDE DEF g
  <2>3. Upto(g, n + 1)
    BY <2>2 DEF Upto
  <2> QED
    BY <2>3
<1> HIDE DEF S
<1>3. Nat \subseteq S
  BY <1>1, <1>2, SetInduction
<1>4. m \in S
  BY <1>3
<1> QED
  BY <1>4 DEF S

(* So the recursion of Varint defines a function.                          *)
LEMMA BeforeIs ==
  ASSUME NEW k \in Nat
  PROVE  Before[k] = Digits(Before, k)
<1> DEFINE F(n) == CHOOSE f : Upto(f, n + 1)
           h == [n \in Nat |-> F(n)[n]]
<1>1. ASSUME NEW n \in Nat PROVE Upto(F(n), n + 1)
  BY UptoExists
<1> HIDE DEF F
<1>2. ASSUME NEW n \in Nat PROVE h[n] = Digits(h, n)
  <2>1. h[n] = Digits(F(n), n)
    BY <1>1 DEF Upto
  <2>2. Digits(F(n), n) = Digits(h, n)
    <3>1. CASE n < Half
      BY <3>1 DEF Digits
    <3>2. CASE ~(n < Half)
      <4> DEFINE j == Shorter(n)
      <4>1. j \in Nat /\ j < n
        BY <3>2, ShorterIs
      <4> HIDE DEF j
      <4>2. Upto(F(j), j + 1) /\ Upto(F(n), j + 1)
        BY <1>1, <4>1 DEF Upto
      <4>3. F(j)[j] = F(n)[j]
        BY <4>1, <4>2, UptoUnique
      <4>4. F(n)[j] = h[j]
        BY <4>1, <4>3
      <4> QED
        BY <3>2, <4>4 DEF Digits, j
    <3> QED
      BY <3>1, <3>2
  <2> QED
    BY <2>1, <2>2
<1>3. h = [n \in Nat |-> h[n]]
  OBVIOUS
<1> HIDE DEF h
<1>4. IsBefore(h)
  BY <1>2, <1>3 DEF IsBefore
<1>5. IsBefore(Before)
  BY <1>4 DEF Before
<1> QED
  BY <1>5, Zenon DEF IsBefore

-----------------------------------------------------------------------------
High == Half..((2 * Half) - 1)

(* Before gives one byte or more, each with the high bit.                  *)
LEMMA BeforeBytes ==
  ASSUME NEW k \in Nat
  PROVE  /\ Before[k] \in Seq(High)
         /\ Len(Before[k]) >= 1
         /\ k < Half => Before[k] = <<k + Half>>
         /\ ~(k < Half) => Before[k] = Append(Before[Shorter(k)], (k % Half) + Half)
<1>1. Half \in Nat \ {0}
  BY RecordAssumption
<1> DEFINE S == {n \in Nat : \A i \in Nat : i < n => /\ Before[i] \in Seq(High)
                                                      /\ Len(Before[i]) >= 1}
<1>2. 0 \in S
  OBVIOUS
<1>3. ASSUME NEW n \in Nat, n \in S PROVE n + 1 \in S
  <2>1. Before[n] \in Seq(High) /\ Len(Before[n]) >= 1
    <3>1. CASE n < Half
      <4>1. Before[n] = <<n + Half>>
        BY <3>1, BeforeIs DEF Digits
      <4>2. n + Half \in High
        BY <1>1, <3>1 DEF High
      <4> QED
        BY <4>1, <4>2
    <3>2. CASE ~(n < Half)
      <4>1. /\ Shorter(n) \in Nat /\ Shorter(n) < n
            /\ n % Half \in 0..(Half - 1)
        BY <3>2, ShorterIs
      <4>2. (n % Half) + Half \in High
        BY <1>1, <4>1 DEF High
      <4>3. Before[Shorter(n)] \in Seq(High)
        BY <1>3, <4>1
      <4>4. Before[n] = Append(Before[Shorter(n)], (n % Half) + Half)
        BY <3>2, BeforeIs DEF Digits
      <4> QED
        BY <4>2, <4>3, <4>4
    <3> QED
      BY <3>1, <3>2
  <2> QED
    BY <1>3, <2>1
<1> HIDE DEF S
<1>4. Nat \subseteq S
  BY <1>2, <1>3, SetInduction
<1>5. k + 1 \in S
  BY <1>4
<1>6. Before[k] \in Seq(High) /\ Len(Before[k]) >= 1
  BY <1>5 DEF S
<1> QED
  BY <1>6, BeforeIs DEF Digits

(* So Varint is Before of a shorter number and a last byte.                *)
LEMMA VarintIs ==
  ASSUME NEW n \in Nat
  PROVE  Varint(n) = IF n < Half THEN <<n>> ELSE Append(Before[Shorter(n)], n % Half)
BY DEF Varint, Before, IsBefore, Digits, Shorter

(* All bytes of an integer have the high bit, but for the last.            *)
LEMMA VarintBytes ==
  ASSUME NEW n \in Nat
  PROVE  /\ Varint(n) \in Seq(Bytes)
         /\ Len(Varint(n)) >= 1
         /\ \A j \in 1..(Len(Varint(n)) - 1) : Varint(n)[j] >= Half
         /\ Varint(n)[Len(Varint(n))] < Half
<1>1. Half \in Nat \ {0}
  BY RecordAssumption
<1>2. CASE n < Half
  <2>1. Varint(n) = <<n>> /\ n \in Bytes
    BY <1>1, <1>2, VarintIs DEF Bytes
  <2> QED
    BY <1>2, <2>1
<1>3. CASE ~(n < Half)
  <2>1. Shorter(n) \in Nat /\ n % Half \in 0..(Half - 1)
    BY <1>3, ShorterIs
  <2> DEFINE b == Before[Shorter(n)]
  <2>2. b \in Seq(High) /\ Len(b) >= 1 /\ Varint(n) = Append(b, n % Half)
    BY <1>3, <2>1, BeforeBytes, VarintIs
  <2> HIDE DEF b
  <2>3. n % Half \in Bytes /\ High \subseteq Bytes /\ \A x \in High : x >= Half
    BY <1>1, <2>1 DEF Bytes, High
  <2>4. b \in Seq(Bytes) /\ \A j \in 1..Len(b) : b[j] \in High
    BY <2>2, <2>3
  <2> QED
    BY <1>1, <2>1, <2>2, <2>3, <2>4
<1> QED
  BY <1>2, <1>3

-----------------------------------------------------------------------------
(* What readVarint128 has after j bytes of n: if a shorter number has the  *)
(* same j bytes for its bytes before the last, then one more than it.      *)
InInteger(n, j, sofar) ==
    /\ j = 0 => sofar = 0
    /\ \A k \in 0..Shorter(n) :
          /\ Len(Before[k]) = j
          /\ \A p \in 1..j : Before[k][p] = Varint(n)[p]
          => sofar = k + 1

(* What the bytes before the last stand for is less than the number.       *)
LEMMA ShorterSmall ==
  ASSUME NEW n \in Nat
  PROVE  Shorter(n) \in Int /\ Shorter(n) < n
<1>1. Half \in Nat \ {0}
  BY RecordAssumption
<1>2. n \div Half \in Nat /\ n \div Half <= n
  BY <1>1, DivideIs
<1> QED
  BY <1>2 DEF Shorter

(* A byte that is not the last brings it one byte further.                 *)
LEMMA ContinuedIs ==
  ASSUME NEW n \in Values, NEW j \in Nat, j + 1 < Len(Varint(n)),
         NEW sofar, InInteger(n, j, sofar)
  PROVE  InInteger(n, j + 1, ((sofar * Half) + (Varint(n)[j + 1] % Half) + 1) % WordSize)
<1>1. Half \in Nat \ {0} /\ WordSize \in Nat \ {0} /\ n \in Nat /\ n < WordSize
  BY RecordAssumption DEF Values
<1> DEFINE byte == Varint(n)[j + 1]
<1> SUFFICES ASSUME NEW k \in 0..Shorter(n), Len(Before[k]) = j + 1,
                    \A p \in 1..(j + 1) : Before[k][p] = Varint(n)[p]
             PROVE  ((sofar * Half) + (byte % Half) + 1) % WordSize = k + 1
  BY DEF InInteger
<1>2. /\ Shorter(n) \in Int /\ Shorter(n) < n
      /\ k \in Nat /\ k + 1 < WordSize /\ Before[k][j + 1] = byte
  BY <1>1, ShorterSmall
<1>3. (sofar * Half) + (byte % Half) = k
  <2>1. CASE k < Half
    <3>1. Before[k] = <<k + Half>>
      BY <1>2, <2>1, BeforeBytes
    <3>2. j = 0 /\ byte = k + Half
      BY <1>2, <3>1
    <3>3. sofar = 0
      BY <3>2 DEF InInteger
    <3>4. k \in 0..(Half - 1)
      BY <1>1, <1>2, <2>1
    <3>5. byte % Half = k
      BY <1>1, <3>2, <3>4, DivideOnce, Zenon
    <3> QED
      BY <1>1, <1>2, <3>3, <3>5
  <2>2. CASE ~(k < Half)
    <3> DEFINE s == Shorter(k)
               r == k % Half
    <3>1. s \in Nat /\ s < k /\ k = ((s + 1) * Half) + r /\ r \in 0..(Half - 1)
      BY <1>2, <2>2, ShorterIs
    <3>2. Before[k] = Append(Before[s], r + Half) /\ Before[s] \in Seq(High)
      BY <1>2, <2>2, <3>1, BeforeBytes
    <3> HIDE DEF s, r
    <3>3. /\ Len(Before[s]) = j
          /\ byte = r + Half
          /\ \A p \in 1..j : Before[s][p] = Before[k][p]
      BY <1>2, <3>2
    <3>4. s \in 0..Shorter(n) /\ \A p \in 1..j : Before[s][p] = Varint(n)[p]
      BY <1>2, <3>1, <3>3
    <3>5. sofar = s + 1
      BY <3>3, <3>4 DEF InInteger
    <3>6. byte % Half = r
      BY <1>1, <3>1, <3>3, DivideOnce, Zenon
    <3> QED
      BY <3>1, <3>5, <3>6
  <2> QED
    BY <2>1, <2>2
<1>4. ((sofar * Half) + (byte % Half)) + 1 = k + 1 /\ (k + 1) % WordSize = k + 1
  <2>1. k + 1 \in Nat
    BY <1>2
  <2>2. (k + 1) % WordSize = k + 1
    BY <1>1, <1>2, <2>1, DivideIs, Zenon
  <2> QED
    BY <1>3, <2>2
<1> QED
  BY <1>4

(* And the last byte completes the number.                                 *)
LEMMA LastIs ==
  ASSUME NEW n \in Values, NEW sofar, InInteger(n, Len(Varint(n)) - 1, sofar)
  PROVE  (sofar * Half + Varint(n)[Len(Varint(n))]) % WordSize = n
<1>1. Half \in Nat \ {0} /\ WordSize \in Nat \ {0} /\ n \in Nat /\ n < WordSize
  BY RecordAssumption DEF Values
<1>2. sofar * Half + Varint(n)[Len(Varint(n))] = n
  <2>1. CASE n < Half
    <3>1. Varint(n) = <<n>>
      BY <1>1, <2>1, VarintIs
    <3>2. sofar = 0
      BY <3>1 DEF InInteger
    <3> QED
      BY <1>1, <3>1, <3>2
  <2>2. CASE ~(n < Half)
    <3> DEFINE s == Shorter(n)
               r == n % Half
    <3>1. s \in Nat /\ n = ((s + 1) * Half) + r /\ r \in 0..(Half - 1)
      BY <1>1, <2>2, ShorterIs
    <3>2. Varint(n) = Append(Before[s], r) /\ Before[s] \in Seq(High)
      BY <1>1, <2>2, <3>1, VarintIs, BeforeBytes
    <3>3. /\ Len(Before[s]) = Len(Varint(n)) - 1
          /\ Varint(n)[Len(Varint(n))] = r
          /\ \A p \in 1..(Len(Varint(n)) - 1) : Before[s][p] = Varint(n)[p]
      <4> HIDE DEF s, r
      <4> QED
        BY <3>2
    <3>4. s \in 0..Shorter(n)
      BY <3>1
    <3> HIDE DEF s, r
    <3>5. sofar = s + 1
      BY <3>3, <3>4 DEF InInteger
    <3> QED
      BY <3>1, <3>3, <3>5
  <2> QED
    BY <2>1, <2>2
<1> QED
  BY <1>1, <1>2, DivideIs

-----------------------------------------------------------------------------
(* The fields, and the cells of the header.                                *)
LEMMA FieldsAre ==
  /\ Len(Fields) = 7 /\ DOMAIN Fields = 1..7 /\ Behind = 8
  /\ Fields[1] = "mVersionNumber" /\ Fields[2] = "mBlockHeight"
  /\ Fields[3] = "mBlockStatus" /\ Fields[4] = "mTransactionCount"
  /\ Fields[5] = "mFileIndex" /\ Fields[6] = "mFileOffset" /\ Fields[7] = "mUndoOffset"
  /\ Len(HeaderFields) = 6
BY DEF Fields, HeaderFields, Behind

(* Each name is that of one field.                                         *)
LEMMA FieldNames ==
  /\ \A i \in 1..7 : Fields[i] \in Names
  /\ \A name \in Names : \E i \in 1..7 : name = Fields[i]
  /\ \A i, j \in 1..7 : Fields[i] = Fields[j] => i = j
<1>1. /\ \A i \in 1..7 : Fields[i] \in Names
      /\ \A name \in Names : \E i \in 1..7 : name = Fields[i]
  BY FieldsAre DEF Names
<1>2. \A i, j \in 1..7 : Fields[i] = Fields[j] => i = j
  BY FieldsAre
<1> QED
  BY <1>1, <1>2

Held(o, i) == Stored(o.fields["mBlockStatus"], Fields[i])

(* The bytes of a field.                                                   *)
Part(o, i) == IF Held(o, i) THEN Varint(o.fields[Fields[i]]) ELSE << >>

(* It holds a 64-bit value in bytes, or nothing.                           *)
LEMMA PartIs ==
  ASSUME NEW o \in Objects, NEW i \in 1..7
  PROVE  /\ o.fields[Fields[i]] \in Values /\ o.fields[Fields[i]] \in Nat
         /\ Part(o, i) \in Seq(Bytes)
<1>1. o.fields[Fields[i]] \in Values
  BY RecordAssumption, FieldNames
<1>2. o.fields[Fields[i]] \in Nat
  BY <1>1, RecordAssumption DEF Values
<1>3. << >> \in Seq(Bytes)
  OBVIOUS
<1> QED
  BY <1>1, <1>2, <1>3, VarintBytes, Zenon DEF Part

Joins(f, o) ==
    f = [i \in 0..Len(Fields) |-> IF i = 0 THEN << >> ELSE f[i - 1] \o Part(o, i)]

Joined(o) == CHOOSE f : Joins(f, o)

(* The record up to each of its fields, as Serialized puts it together, is *)
(* a function: there are finitely many fields.                             *)
LEMMA JoinsExist ==
  ASSUME NEW o
  PROVE  \E f : Joins(f, o)
<1> DEFINE Join(f, m) == f = [i \in 0..m |-> IF i = 0 THEN << >> ELSE f[i - 1] \o Part(o, i)]
           S == {m \in Nat : \E f : Join(f, m)}
<1>1. 0 \in S
  <2>1. Join([i \in 0..0 |-> << >>], 0)
    OBVIOUS
  <2> QED
    BY <2>1
<1>2. ASSUME NEW m \in Nat, m \in S PROVE m + 1 \in S
  <2>1. PICK f : Join(f, m)
    BY <1>2
  <2> DEFINE last == f[m] \o Part(o, m + 1)
             g == [i \in 0..(m + 1) |-> IF i <= m THEN f[i] ELSE last]
  <2>2. \A i \in 0..(m + 1) : g[i] = IF i = 0 THEN << >> ELSE g[i - 1] \o Part(o, i)
    <3> SUFFICES ASSUME NEW i \in 0..(m + 1)
                 PROVE  g[i] = IF i = 0 THEN << >> ELSE g[i - 1] \o Part(o, i)
      OBVIOUS
    <3>1. CASE i = 0
      BY <2>1, <3>1
    <3>2. CASE i \in 1..m
      <4>1. i # 0 /\ i \in 0..m /\ i - 1 \in 0..m
        BY <3>2
      <4>2. f[i] = f[i - 1] \o Part(o, i)
        BY <2>1, <4>1, Zenon
      <4>3. g[i] = f[i] /\ g[i - 1] = f[i - 1]
        BY <4>1
      <4> QED
        BY <4>1, <4>2, <4>3, Zenon
    <3>3. CASE i = m + 1
      BY <3>3
    <3> QED
      BY <3>1, <3>2, <3>3
  <2>3. Join(g, m + 1)
    BY <2>2
  <2> HIDE DEF g, Join
  <2> QED
    BY <2>3
<1> HIDE DEF S
<1>3. Nat \subseteq S
  BY <1>1, <1>2, SetInduction
<1>4. 7 \in S
  BY <1>3
<1>5. PICK f : Join(f, 7)
  BY <1>4 DEF S
<1>6. Joins(f, o)
  BY <1>5, FieldsAre DEF Joins
<1> QED
  BY <1>6

(* Each field is put behind those before it.                               *)
LEMMA JoinedIs ==
  ASSUME NEW o
  PROVE  /\ Joined(o)[0] = << >>
         /\ \A i \in 1..7 : Joined(o)[i] = Joined(o)[i - 1] \o Part(o, i)
<1> DEFINE f == Joined(o)
<1>1. Joins(f, o)
  BY JoinsExist DEF Joined
<1> HIDE DEF f
<1>2. f[0] = << >>
  BY <1>1, FieldsAre DEF Joins
<1>3. ASSUME NEW i \in 1..7 PROVE f[i] = f[i - 1] \o Part(o, i)
  <2>1. i \in 0..Len(Fields) /\ i # 0
    BY FieldsAre
  <2> QED
    BY <1>1, <2>1, Zenon DEF Joins
<1> QED
  BY <1>2, <1>3 DEF f

(* And the header behind them all.                                         *)
LEMMA SerializedIs ==
  ASSUME NEW o
  PROVE  Serialized(o) = Joined(o)[Len(Fields)] \o o.header
BY DEF Serialized, Joined, Joins, Part, Held

(* Where a field begins.                                                   *)
Start(o, i) == Len(Joined(o)[i - 1])

(* All of it is bytes.                                                     *)
LEMMA JoinedBytes ==
  ASSUME NEW o \in Objects, NEW i \in 0..7
  PROVE  Joined(o)[i] \in Seq(Bytes)
<1> DEFINE S == {m \in Nat : m <= 7 => Joined(o)[m] \in Seq(Bytes)}
<1>1. 0 \in S
  <2>1. Joined(o)[0] = << >> /\ << >> \in Seq(Bytes)
    BY JoinedIs
  <2> QED
    BY <2>1, Zenon
<1>2. ASSUME NEW m \in Nat, m \in S PROVE m + 1 \in S
  <2>1. CASE m + 1 <= 7
    <3>1. m + 1 \in 1..7 /\ (m + 1) - 1 = m /\ Joined(o)[m] \in Seq(Bytes)
      BY <1>2, <2>1
    <3>2. Joined(o)[m + 1] = Joined(o)[m] \o Part(o, m + 1)
      BY <3>1, JoinedIs
    <3>3. Part(o, m + 1) \in Seq(Bytes)
      BY <3>1, PartIs
    <3>4. Joined(o)[m] \o Part(o, m + 1) \in Seq(Bytes)
      BY <3>1, <3>3
    <3>5. Joined(o)[m + 1] \in Seq(Bytes)
      BY <3>2, <3>4, Zenon
    <3> QED
      BY <3>5
  <2> QED
    BY <2>1
<1> HIDE DEF S
<1>3. Nat \subseteq S
  BY <1>1, <1>2, SetInduction
<1> QED
  BY <1>3 DEF S

(* The record begins with the bytes of its first fields.                   *)
LEMMA BeginsWith ==
  ASSUME NEW o \in Objects, NEW i \in 0..7
  PROVE  /\ Len(Joined(o)[i]) <= Len(Joined(o)[7])
         /\ \A p \in 1..Len(Joined(o)[i]) : Serialized(o)[p] = Joined(o)[i][p]
<1> DEFINE J == Joined(o)
           Begins(k) == /\ Len(J[k]) <= Len(J[7])
                        /\ \A p \in 1..Len(J[k]) : Serialized(o)[p] = J[k][p]
           S == {m \in Nat : m <= 7 => Begins(7 - m)}
<1>1. \A k \in 0..7 : J[k] \in Seq(Bytes)
  BY JoinedBytes
<1>2. \A k \in 1..7 : J[k] = J[k - 1] \o Part(o, k) /\ Part(o, k) \in Seq(Bytes)
  BY JoinedIs, PartIs
<1>3. Serialized(o) = J[7] \o o.header /\ o.header \in Seq(Bytes)
  BY SerializedIs, FieldsAre, RecordAssumption
<1> HIDE DEF J
<1>4. 0 \in S
  <2>1. J[7] \in Seq(Bytes)
    BY <1>1
  <2> DEFINE a == J[7]
             b == o.header
  <2>2. a \in Seq(Bytes) /\ b \in Seq(Bytes) /\ Serialized(o) = a \o b
    BY <1>3, <2>1
  <2> HIDE DEF a, b
  <2>3. Len(a) <= Len(a) /\ \A p \in 1..Len(a) : Serialized(o)[p] = a[p]
    BY <2>2
  <2>4. Begins(7)
    BY <2>3 DEF a
  <2> QED
    BY <2>4
<1>5. ASSUME NEW m \in Nat, m \in S PROVE m + 1 \in S
  <2>1. CASE m + 1 <= 7
    <3> DEFINE k == 7 - m
    <3>1. k \in 1..7 /\ k - 1 \in 0..7 /\ Begins(k) /\ 7 - (m + 1) = k - 1
      BY <1>5, <2>1
    <3> HIDE DEF k
    <3>2. /\ J[k] = J[k - 1] \o Part(o, k) /\ Part(o, k) \in Seq(Bytes)
          /\ J[k - 1] \in Seq(Bytes)
      BY <1>1, <1>2, <3>1
    <3>3. /\ Len(J[k - 1]) <= Len(J[k])
          /\ \A p \in 1..Len(J[k - 1]) : J[k][p] = J[k - 1][p]
      BY <3>2
    <3>4. Len(J[k - 1]) \in Nat /\ Len(J[k]) \in Nat /\ Len(J[7]) \in Nat
      BY <1>1, <3>1
    <3>5. Begins(k - 1)
      BY <3>1, <3>3, <3>4
    <3> QED
      BY <3>1, <3>5
  <2> QED
    BY <2>1
<1> HIDE DEF S
<1>6. Nat \subseteq S
  BY <1>4, <1>5, SetInduction
<1>7. 7 - i \in S /\ 7 - (7 - i) = i
  BY <1>6
<1> QED
  BY <1>7 DEF S, J

(* How a record is laid out.                                               *)
LEMMA Layout ==
  ASSUME NEW o \in Objects
  PROVE  /\ Start(o, 1) = 0
         /\ \A i \in 1..8 : Start(o, i) \in Nat /\ Start(o, i) <= Start(o, 8)
         /\ \A i \in 1..7 :
               /\ Start(o, i + 1) = Start(o, i) + Len(Part(o, i))
               /\ \A j \in 1..Len(Part(o, i)) : Serialized(o)[Start(o, i) + j] = Part(o, i)[j]
         /\ Len(Serialized(o)) = Start(o, 8) + 6
         /\ \A j \in 1..6 : Serialized(o)[Start(o, 8) + j] = o.header[j]
<1> DEFINE J == Joined(o)
<1>1. \A k \in 0..7 : J[k] \in Seq(Bytes)
  BY JoinedBytes
<1>2. J[0] = << >>
  BY JoinedIs
<1>3. Start(o, 1) = 0
  BY <1>2 DEF Start
<1>4. ASSUME NEW i \in 1..8 PROVE Start(o, i) \in Nat /\ Start(o, i) <= Start(o, 8)
  <2>1. i - 1 \in 0..7
    OBVIOUS
  <2>2. J[i - 1] \in Seq(Bytes) /\ Len(J[i - 1]) <= Len(J[7])
    BY <1>1, <2>1, BeginsWith
  <2> HIDE DEF J
  <2> QED
    BY <2>2 DEF Start, J
<1>5. ASSUME NEW i \in 1..7
      PROVE  /\ Start(o, i + 1) = Start(o, i) + Len(Part(o, i))
             /\ \A j \in 1..Len(Part(o, i)) : Serialized(o)[Start(o, i) + j] = Part(o, i)[j]
  <2> DEFINE a == J[i - 1]
             b == Part(o, i)
  <2>1. i - 1 \in 0..7 /\ i \in 0..7 /\ (i + 1) - 1 = i
    OBVIOUS
  <2>2. J[i] = a \o b /\ a \in Seq(Bytes) /\ b \in Seq(Bytes)
    BY <1>1, <2>1, JoinedIs, PartIs
  <2>3. \A p \in 1..Len(J[i]) : Serialized(o)[p] = J[i][p]
    BY <2>1, BeginsWith
  <2>4. Start(o, i) = Len(a) /\ Start(o, i + 1) = Len(J[i])
    BY <2>1 DEF Start
  <2> HIDE DEF a, b, J
  <2>5. /\ Len(J[i]) = Len(a) + Len(b) /\ Len(a) \in Nat /\ Len(b) \in Nat
        /\ \A j \in 1..Len(b) : J[i][Len(a) + j] = b[j]
    BY <2>2
  <2>6. \A j \in 1..Len(b) : Len(a) + j \in 1..Len(J[i])
    BY <2>5
  <2> QED
    BY <2>3, <2>4, <2>5, <2>6 DEF b
<1>6. /\ Len(Serialized(o)) = Start(o, 8) + 6
      /\ \A j \in 1..6 : Serialized(o)[Start(o, 8) + j] = o.header[j]
  <2> DEFINE a == J[7]
             b == o.header
  <2>1. Serialized(o) = a \o b
    BY SerializedIs, FieldsAre
  <2>2. a \in Seq(Bytes) /\ b \in Seq(Bytes)
    BY <1>1, RecordAssumption
  <2>5. Len(b) = 6
    BY FieldsAre, RecordAssumption
  <2>3. Start(o, 8) = Len(a)
    BY DEF Start
  <2> HIDE DEF a, b
  <2> HIDE DEF J
  <2>4. Len(a \o b) = Len(a) + Len(b) /\ \A j \in 1..Len(b) : (a \o b)[Len(a) + j] = b[j]
    BY <2>2
  <2> QED
    BY <2>1, <2>3, <2>4, <2>5 DEF b
<1> QED
  BY <1>3, <1>4, <1>5, <1>6

-----------------------------------------------------------------------------
(* The bits the node tests, in the words of its serialization, are those   *)
(* that readBlockIndex tests.                                              *)
LEMMA PresentIsStored ==
  ASSUME NEW status \in Nat, NEW name
  PROVE  Present(status, name) <=> Stored(status, name)
<1>1. (status \div 8) % 4 # 0 <=> (status \div 8) % 2 = 1 \/ (status \div 16) % 2 = 1
  <2> DEFINE q == status \div 8
             r == status % 8
             p == status \div 16
             t == status % 16
  <2>1. q \in Nat /\ r \in 0..7 /\ status = (8 * q) + r
    OBVIOUS
  <2>2. p \in Nat /\ t \in 0..15 /\ status = (16 * p) + t
    OBVIOUS
  <2> HIDE DEF q, r, p, t
  <2>3. q = 2 * p \/ q = (2 * p) + 1
    BY <2>1, <2>2
  <2>4. q % 4 # 0 <=> q % 2 = 1 \/ p % 2 = 1
    BY <2>1, <2>2, <2>3
  <2> QED
    BY <2>4 DEF q, p
<1>2. "mFileIndex" # "mFileOffset" /\ "mFileIndex" # "mUndoOffset" /\ "mFileOffset" # "mUndoOffset"
  OBVIOUS
<1> QED
  BY <1>1, <1>2 DEF Present, Stored, HasBit, BLOCK_HAVE_DATA, BLOCK_HAVE_UNDO

(* Fields that are left out take no place.                                 *)
LEMMA LeftOut ==
  ASSUME NEW o \in Objects, NEW a \in 1..8, NEW b \in a..8,
         \A j \in a..(b - 1) : ~Held(o, j)
  PROVE  Start(o, b) = Start(o, a)
<1> DEFINE S == {m \in Nat : a + m <= b => Start(o, a + m) = Start(o, a)}
<1>1. 0 \in S
  OBVIOUS
<1>2. ASSUME NEW m \in Nat, m \in S PROVE m + 1 \in S
  <2>1. CASE a + (m + 1) <= b
    <3> DEFINE j == a + m
    <3>1. j \in 1..7 /\ j \in a..(b - 1) /\ j + 1 = a + (m + 1) /\ Start(o, j) = Start(o, a)
      BY <1>2, <2>1
    <3> HIDE DEF j
    <3>2. Part(o, j) = << >>
      BY <3>1 DEF Part
    <3>3. Start(o, j + 1) = Start(o, j) + Len(Part(o, j)) /\ Start(o, j) \in Nat
      BY <3>1, Layout
    <3>4. Start(o, j + 1) = Start(o, j)
      BY <3>2, <3>3
    <3> QED
      BY <3>1, <3>4
  <2> QED
    BY <2>1
<1> HIDE DEF S
<1>3. Nat \subseteq S
  BY <1>1, <1>2, SetInduction
<1>4. b - a \in S /\ a + (b - a) = b
  BY <1>3
<1> QED
  BY <1>4 DEF S

-----------------------------------------------------------------------------
(* What is read of a field that is in the record, and of the header.       *)
InField ==
    /\ stage = "reading"
    /\ header = << >>
    /\ Held(object, field)
    /\ \E j \in 0..(Len(Part(object, field)) - 1) :
          /\ scan = Start(object, field) + j
          /\ InInteger(object.fields[Fields[field]], j, value)

InHeader ==
    /\ Len(header) <= 6
    /\ scan = Start(object, 8) + Len(header)
    /\ \A p \in 1..Len(header) : header[p] = object.header[p]
    /\ stage = "read" => Len(header) = 6

(* The fields that readBlockIndex is past.                                 *)
FieldsRead ==
    \A i \in 1..7 : read[Fields[i]] = IF i < field /\ Held(object, i)
                                      THEN object.fields[Fields[i]] ELSE 0

RecordInv ==
    /\ object \in Objects
    /\ data = Serialized(object)
    /\ field \in 1..8
    /\ read \in [Names -> Values]
    /\ header \in Seq(Bytes)
    /\ stage \in {"reading", "read"}
    /\ FieldsRead
    /\ field < 8 => InField
    /\ field = 8 => InHeader

(* The status and what is before it are always there.                      *)
LEMMA FirstHeld ==
  ASSUME NEW o, NEW i \in 1..4
  PROVE  Held(o, i) /\ \A status : Present(status, Fields[i])
BY FieldsAre DEF Held, Stored, Present

(* A number of which nothing is read yet.                                  *)
LEMMA NothingOf ==
  ASSUME NEW n \in Nat
  PROVE  InInteger(n, 0, 0)
<1>1. ASSUME NEW k \in 0..Shorter(n) PROVE Len(Before[k]) # 0
  <2>1. k \in Nat
    BY ShorterSmall
  <2>2. Len(Before[k]) >= 1 /\ Before[k] \in Seq(High)
    BY <2>1, BeforeBytes
  <2> QED
    BY <2>2
<1> QED
  BY <1>1 DEF InInteger

(* Before the first byte, the first field is next and nothing of it is read.*)
LEMMA InitRecord == RecordInit => RecordInv
<1> SUFFICES ASSUME RecordInit PROVE RecordInv
  OBVIOUS
<1>1. /\ object \in Objects /\ data = Serialized(object) /\ scan = 0 /\ field = 1 /\ value = 0
      /\ read = [name \in Names |-> 0] /\ header = << >> /\ stage = "reading"
  BY DEF RecordInit
<1>2. read \in [Names -> Values]
  BY <1>1, RecordAssumption DEF Values
<1>3. FieldsRead
  BY <1>1, FieldNames DEF FieldsRead
<1>4. InField
  <2> DEFINE n == object.fields[Fields[1]]
  <2>1. Held(object, 1) /\ n \in Nat
    BY <1>1, FirstHeld, PartIs
  <2>2. Len(Varint(n)) >= 1 /\ Varint(n) \in Seq(Bytes)
    BY <2>1, VarintBytes
  <2>3. Part(object, 1) = Varint(n)
    BY <2>1 DEF Part
  <2>4. Start(object, 1) = 0
    BY <1>1, Layout
  <2>5. 0 \in 0..(Len(Part(object, 1)) - 1)
    BY <2>2, <2>3
  <2>6. InInteger(n, 0, 0)
    BY <2>1, NothingOf
  <2>7. scan = Start(object, 1) + 0
    BY <1>1, <2>4
  <2> HIDE DEF n
  <2>8. \E j \in 0..(Len(Part(object, 1)) - 1) :
           scan = Start(object, 1) + j /\ InInteger(n, j, value)
    BY <1>1, <2>5, <2>6, <2>7
  <2> QED
    BY <1>1, <2>1, <2>8 DEF InField, n
<1>5. header \in Seq(Bytes)
  BY <1>1
<1> QED
  BY <1>1, <1>2, <1>3, <1>4, <1>5 DEF RecordInv

(* The next byte of a field is that of the integer which was stored.       *)
LEMMA NextByte ==
  ASSUME RecordInv, field < Behind
  PROVE  LET n == object.fields[Fields[field]] IN
         \E j \in Nat :
            /\ n \in Values /\ Part(object, field) = Varint(n)
            /\ j + 1 <= Len(Varint(n))
            /\ scan = Start(object, field) + j
            /\ InInteger(n, j, value)
            /\ BytesAt(scan) = {Varint(n)[j + 1]}
            /\ Varint(n)[j + 1] \in Int
            /\ Varint(n)[j + 1] >= Half <=> j + 1 < Len(Varint(n))
<1> DEFINE n == object.fields[Fields[field]]
           v == Varint(n)
<1>1. object \in Objects /\ field \in 1..7 /\ InField /\ data = Serialized(object)
  BY FieldsAre DEF RecordInv
<1>2. n \in Values /\ n \in Nat
  BY <1>1, PartIs
<1>3. /\ v \in Seq(Bytes) /\ Len(v) >= 1
      /\ \A j \in 1..(Len(v) - 1) : v[j] >= Half
      /\ v[Len(v)] < Half
  BY <1>2, VarintBytes
<1>4. Part(object, field) = v
  BY <1>1 DEF Part, InField
<1>5. PICK j \in 0..(Len(v) - 1) : scan = Start(object, field) + j /\ InInteger(n, j, value)
  BY <1>1, <1>4 DEF InField
<1> HIDE DEF n, v
<1>6. j \in Nat /\ j + 1 \in 1..Len(v) /\ Half \in Nat
  BY <1>3, <1>5, RecordAssumption
<1>7. v[j + 1] \in Int /\ (v[j + 1] >= Half <=> j + 1 < Len(v))
  <2>1. v[j + 1] \in Bytes
    BY <1>3, <1>6
  <2>2. v[j + 1] \in Int
    BY <1>6, <2>1 DEF Bytes
  <2>3. CASE j + 1 < Len(v)
    <3>1. j + 1 \in 1..(Len(v) - 1)
      BY <1>3, <1>6, <2>3
    <3> QED
      BY <1>3, <2>2, <2>3, <3>1
  <2>4. CASE ~(j + 1 < Len(v))
    <3>1. j + 1 = Len(v)
      BY <1>3, <1>6, <2>4
    <3> QED
      BY <1>3, <1>6, <2>2, <3>1
  <2> QED
    BY <2>3, <2>4, <2>2
<1>8. BytesAt(scan) = {v[j + 1]}
  <2>1. /\ Start(object, field + 1) = Start(object, field) + Len(v)
        /\ Serialized(object)[Start(object, field) + (j + 1)] = v[j + 1]
    BY <1>1, <1>4, <1>6, Layout
  <2>2. /\ Start(object, field) \in Nat /\ Start(object, 8) \in Nat
        /\ Start(object, field + 1) <= Start(object, 8)
        /\ Len(Serialized(object)) = Start(object, 8) + 6
    <3>1. field + 1 \in 1..8 /\ field \in 1..8 /\ 8 \in 1..8
      BY <1>1
    <3> QED
      BY <1>1, <3>1, Layout
  <2>3. Len(v) \in Nat /\ j + 1 <= Len(v)
    BY <1>3, <1>6
  <2>4. scan = Start(object, field) + j /\ Len(data) = Start(object, 8) + 6
    BY <1>1, <1>5, <2>2
  <2>5. scan + 1 = Start(object, field) + (j + 1)
    BY <1>6, <2>2, <2>4
  <2>6. scan < Len(data)
    BY <1>6, <2>1, <2>2, <2>3, <2>4
  <2> QED
    BY <1>1, <2>1, <2>5, <2>6 DEF BytesAt
<1> QED
  BY <1>2, <1>4, <1>5, <1>6, <1>7, <1>8 DEF n, v

-----------------------------------------------------------------------------
(* The field that is decoded next is the next one which is in the record.  *)
LEMMA NextFieldIs ==
  ASSUME RecordInv, field < Behind
  PROVE  /\ NextField(field) \in (field + 1)..8
         /\ NextField(field) < 8 => Held(object, NextField(field))
         /\ \A j \in (field + 1)..(NextField(field) - 1) : ~Held(object, j)
<1> DEFINE P(j) == Present(read["mBlockStatus"], Fields[j])
           Good(k) == /\ k = 8 \/ P(k)
                      /\ \A j \in (field + 1)..(k - 1) : ~P(j)
<1>1. field \in 1..7 /\ Behind = 8 /\ object \in Objects
  BY FieldsAre DEF RecordInv
<1>2. NextField(field) = CHOOSE k \in (field + 1)..8 : Good(k)
  BY <1>1 DEF NextField
<1>3. \A j \in 1..4 : P(j) /\ Held(object, j)
  BY FirstHeld
<1>4. ASSUME field > 3, NEW j \in (field + 1)..7
      PROVE  P(j) <=> Held(object, j)
  <2> DEFINE status == object.fields["mBlockStatus"]
  <2>1. status \in Nat
    BY <1>1, PartIs, FieldsAre
  <2>2. read["mBlockStatus"] = status
    BY <1>3, <1>4, FieldsAre DEF RecordInv, FieldsRead
  <2> QED
    BY <2>1, <2>2, PresentIsStored DEF Held
<1>5. \E k \in (field + 1)..8 : Good(k)
  <2> HIDE DEF P
  <2>1. CASE field \in 1..3
    <3>1. Good(field + 1) /\ field + 1 \in (field + 1)..8
      BY <1>3, <2>1
    <3> QED
      BY <3>1
  <2>2. CASE field \in 4..7
    <3>1. CASE P(field + 1) \/ field + 1 = 8
      <4>1. Good(field + 1) /\ field + 1 \in (field + 1)..8
        BY <1>1, <3>1
      <4> QED
        BY <4>1
    <3>2. CASE ~P(field + 1) /\ (field + 2 = 8 \/ (field + 2 < 8 /\ P(field + 2)))
      <4>1. Good(field + 2) /\ field + 2 \in (field + 1)..8
        BY <1>1, <3>2
      <4> QED
        BY <4>1
    <3>3. CASE field + 2 < 8 /\ ~P(field + 1) /\ ~P(field + 2)
               /\ (field + 3 = 8 \/ P(field + 3))
      <4>1. Good(field + 3) /\ field + 3 \in (field + 1)..8
        BY <1>1, <3>3
      <4> QED
        BY <4>1
    <3>4. CASE field = 4 /\ ~P(5) /\ ~P(6) /\ ~P(7)
      <4>1. Good(8) /\ 8 \in (field + 1)..8
        BY <3>4
      <4> QED
        BY <4>1
    <3> QED
      BY <2>2, <3>1, <3>2, <3>3, <3>4
  <2> QED
    BY <1>1, <2>1, <2>2
<1> DEFINE next == NextField(field)
<1>6. next \in (field + 1)..8 /\ Good(next)
  BY <1>2, <1>5
<1> HIDE DEF next, P
<1>7. CASE field \in 1..3
  <2>1. next = field + 1
    <3>1. field + 1 \in 1..4 /\ P(field + 1)
      BY <1>3, <1>7
    <3>2. ~(field + 1 \in (field + 1)..(next - 1))
      BY <1>6, <3>1
    <3> QED
      BY <1>1, <1>6, <3>2
  <2>2. Held(object, next)
    BY <1>3, <1>7, <2>1
  <2> QED
    BY <1>1, <2>1, <2>2 DEF next
<1>8. CASE field \in 4..7
  <2>1. next < 8 => Held(object, next)
    <3> SUFFICES ASSUME next < 8 PROVE Held(object, next)
      OBVIOUS
    <3>1. next \in (field + 1)..7
      BY <1>1, <1>6
    <3>2. P(next) /\ field > 3
      BY <1>6, <1>8, <3>1
    <3> QED
      BY <1>4, <3>1, <3>2
  <2>2. \A j \in (field + 1)..(next - 1) : ~Held(object, j)
    <3> SUFFICES ASSUME NEW j \in (field + 1)..(next - 1) PROVE ~Held(object, j)
      OBVIOUS
    <3>1. j \in (field + 1)..7 /\ field > 3 /\ ~P(j)
      BY <1>1, <1>6, <1>8
    <3> QED
      BY <1>4, <3>1
  <2> QED
    BY <1>6, <2>1, <2>2 DEF next
<1> QED
  BY <1>1, <1>7, <1>8

-----------------------------------------------------------------------------
(* A byte with the high bit leaves readVarint128 in the field it is in.    *)
LEMMA ContinuedStep == RecordInv /\ ContinuedByte => RecordInv'
<1> SUFFICES ASSUME RecordInv, ContinuedByte PROVE RecordInv'
  OBVIOUS
<1> DEFINE n == object.fields[Fields[field]]
           v == Varint(n)
<1>1. field < Behind /\ UNCHANGED <<object, data, field, read, header, stage>> /\ scan' = scan + 1
  BY DEF ContinuedByte
<1>2. PICK j \in Nat :
        /\ n \in Values /\ Part(object, field) = v
        /\ j + 1 <= Len(v)
        /\ scan = Start(object, field) + j
        /\ InInteger(n, j, value)
        /\ BytesAt(scan) = {v[j + 1]}
        /\ v[j + 1] >= Half <=> j + 1 < Len(v)
  BY <1>1, NextByte
<1>3. v[j + 1] >= Half /\ value' = WithContinued(v[j + 1])
  BY <1>2 DEF ContinuedByte
<1>4. j + 1 < Len(v)
  BY <1>2, <1>3
<1>5. InInteger(n, j + 1, value')
  BY <1>2, <1>3, <1>4, ContinuedIs DEF WithContinued
<1>6. field \in 1..7 /\ InField /\ object \in Objects
  BY <1>1, FieldsAre DEF RecordInv
<1>7. InField'
  <2>1. Start(object, field) \in Nat
    <3>1. field \in 1..8
      BY <1>6
    <3> QED
      BY <1>6, <3>1, Layout
  <2>2. Len(v) \in Nat
    <3>1. n \in Nat
      BY <1>6, PartIs
    <3>2. v \in Seq(Bytes)
      BY <3>1, VarintBytes
    <3> QED
      BY <3>2
  <2> HIDE DEF n, v
  <2>3. j + 1 \in 0..(Len(v) - 1) /\ scan' = Start(object, field) + (j + 1)
    BY <1>1, <1>2, <1>4, <2>1, <2>2
  <2> QED
    BY <1>1, <1>2, <1>5, <1>6, <2>3 DEF InField, n
<1>8. FieldsRead'
  BY <1>1 DEF RecordInv, FieldsRead
<1> QED
  BY <1>1, <1>6, <1>7, <1>8 DEF RecordInv

(* The last byte of a field gives its value, and the next field in the     *)
(* record begins with the next byte.                                       *)
LEMMA LastStep == RecordInv /\ LastByte => RecordInv'
<1> SUFFICES ASSUME RecordInv, LastByte PROVE RecordInv'
  OBVIOUS
<1> DEFINE n == object.fields[Fields[field]]
           v == Varint(n)
           next == NextField(field)
<1>1. /\ field < Behind /\ UNCHANGED <<object, data, header, stage>> /\ scan' = scan + 1
      /\ value' = 0 /\ field' = next
  BY DEF LastByte
<1>2. field \in 1..7 /\ InField /\ object \in Objects /\ read \in [Names -> Values]
  BY <1>1, FieldsAre DEF RecordInv
<1>3. PICK j \in Nat :
        /\ n \in Values /\ Part(object, field) = v
        /\ j + 1 <= Len(v)
        /\ scan = Start(object, field) + j
        /\ InInteger(n, j, value)
        /\ BytesAt(scan) = {v[j + 1]}
        /\ v[j + 1] \in Int
        /\ v[j + 1] >= Half <=> j + 1 < Len(v)
  BY <1>1, NextByte
<1>4. /\ v[j + 1] < Half
      /\ read' = [read EXCEPT ![Fields[field]] = (value * Half + v[j + 1]) % WordSize]
  BY <1>3 DEF LastByte
<1>5. j + 1 = Len(v) /\ Len(v) \in Nat
  <2>1. n \in Nat
    BY <1>2, PartIs
  <2>2. Len(v) \in Nat
    <3>1. v \in Seq(Bytes)
      BY <2>1, VarintBytes
    <3> QED
      BY <3>1
  <2> HIDE DEF n, v
  <2> QED
    BY <1>3, <1>4, <2>2, RecordAssumption
<1>6. read' = [read EXCEPT ![Fields[field]] = n]
  <2>1. InInteger(n, Len(v) - 1, value)
    BY <1>3, <1>5
  <2>2. (value * Half + v[Len(v)]) % WordSize = n
    BY <1>3, <2>1, LastIs
  <2> QED
    BY <1>4, <1>5, <2>2
<1>7. /\ next \in (field + 1)..8
      /\ next < 8 => Held(object, next)
      /\ \A i \in (field + 1)..(next - 1) : ~Held(object, i)
  BY <1>1, NextFieldIs
<1>8. scan' = Start(object, next)
  <2>1. field + 1 \in 1..8 /\ next \in (field + 1)..8
    BY <1>2, <1>7
  <2>2. Start(object, next) = Start(object, field + 1)
    BY <1>2, <1>7, <2>1, LeftOut
  <2>3. Start(object, field + 1) = Start(object, field) + Len(v)
    <3>1. Start(object, field + 1) = Start(object, field) + Len(Part(object, field))
      BY <1>2, Layout, Zenon
    <3>2. Part(object, field) = v
      BY <1>3
    <3> HIDE DEF v
    <3> QED
      BY <3>1, <3>2
  <2>4. Start(object, field) \in Nat
    <3>1. field \in 1..8
      BY <1>2
    <3> QED
      BY <1>2, <3>1, Layout
  <2> HIDE DEF n, v, next
  <2> QED
    BY <1>1, <1>3, <1>5, <2>2, <2>3, <2>4
<1> HIDE DEF n, v, next
<1>9. FieldsRead'
  <2> SUFFICES ASSUME NEW i \in 1..7
               PROVE  read'[Fields[i]] = IF i < next /\ Held(object, i)
                                         THEN object.fields[Fields[i]] ELSE 0
    BY <1>1 DEF FieldsRead
  <2>1. Fields[i] \in Names /\ Fields[field] \in Names
    BY <1>2, FieldNames
  <2>2. read[Fields[i]] = IF i < field /\ Held(object, i)
                          THEN object.fields[Fields[i]] ELSE 0
    BY DEF RecordInv, FieldsRead
  <2>3. CASE i = field
    <3>1. read'[Fields[i]] = n /\ i < next /\ Held(object, i)
      BY <1>2, <1>6, <1>7, <2>1, <2>3 DEF InField
    <3> QED
      BY <2>3, <3>1 DEF n
  <2>4. CASE i # field
    <3>1. read'[Fields[i]] = read[Fields[i]]
      <4>1. Fields[i] # Fields[field]
        BY <1>2, <2>4, FieldNames
      <4> QED
        BY <1>2, <1>6, <2>1, <4>1
    <3>2. i < field /\ Held(object, i) <=> i < next /\ Held(object, i)
      BY <1>2, <1>7, <2>4
    <3> QED
      BY <2>2, <3>1, <3>2
  <2> QED
    BY <2>3, <2>4
<1>10. read' \in [Names -> Values]
  <2>1. Fields[field] \in Names
    BY <1>2, FieldNames
  <2> QED
    BY <1>2, <1>3, <1>6, <2>1
<1>11. ASSUME next < 8 PROVE InField'
  <2> DEFINE m == object.fields[Fields[next]]
  <2>1. next \in 1..7 /\ Held(object, next)
    BY <1>2, <1>7, <1>11
  <2>2. m \in Nat
    BY <1>2, <2>1, PartIs
  <2>3. Part(object, next) = Varint(m)
    BY <2>1 DEF Part
  <2>4. 0 \in 0..(Len(Part(object, next)) - 1) /\ Start(object, next) \in Nat
    <3>1. Varint(m) \in Seq(Bytes) /\ Len(Varint(m)) >= 1
      BY <2>2, VarintBytes
    <3>2. next \in 1..8
      BY <2>1
    <3> QED
      <4>1. Start(object, next) \in Nat
        BY <1>2, <3>2, Layout
      <4>2. 0 \in 0..(Len(Varint(m)) - 1)
        BY <3>1
      <4> QED
        BY <2>3, <4>1, <4>2
  <2>5. InInteger(m, 0, 0)
    BY <2>2, NothingOf
  <2> HIDE DEF m
  <2>6. \E i \in 0..(Len(Part(object, next)) - 1) :
           scan' = Start(object, next) + i /\ InInteger(m, i, value')
    BY <1>1, <1>8, <2>4, <2>5
  <2> QED
    BY <1>1, <1>2, <2>1, <2>6 DEF InField, m
<1>12. ASSUME next = 8 PROVE InHeader'
  <2>1. header' = << >> /\ stage' = "reading" /\ scan' = Start(object, 8)
    BY <1>1, <1>2, <1>8, <1>12 DEF InField
  <2>2. Start(object, 8) \in Nat
    BY <1>2, Layout
  <2> QED
    BY <1>1, <2>1, <2>2 DEF InHeader
<1>13. field' \in 1..8
  BY <1>1, <1>2, <1>7
<1> QED
  BY <1>1, <1>2, <1>9, <1>10, <1>11, <1>12, <1>13 DEF RecordInv

(* The cells of the header follow, and the record ends with them.          *)
LEMMA HeaderStep == RecordInv /\ (ReadCell \/ CheckSize) => RecordInv'
<1> SUFFICES ASSUME RecordInv, ReadCell \/ CheckSize PROVE RecordInv'
  OBVIOUS
<1>1. UNCHANGED <<object, data, field, read>> /\ field = 8
  BY FieldsAre DEF ReadCell, CheckSize
<1>2. /\ object \in Objects /\ InHeader /\ header \in Seq(Bytes) /\ Len(header) \in Nat
      /\ data = Serialized(object)
  BY <1>1 DEF RecordInv
<1>3. /\ Len(data) = Start(object, 8) + 6 /\ Start(object, 8) \in Nat
      /\ \A p \in 1..6 : data[Start(object, 8) + p] = object.header[p]
  <2>1. 8 \in 1..8
    OBVIOUS
  <2> QED
    BY <1>2, <2>1, Layout, Zenon
<1>4. FieldsRead'
  BY <1>1 DEF RecordInv, FieldsRead
<1>5. InHeader' /\ header' \in Seq(Bytes) /\ stage' \in {"reading", "read"}
  <2>1. CASE ReadCell
    <3>1. Len(header) < 6 /\ stage = "reading" /\ stage' = stage /\ scan' = scan + 1
      BY <2>1, FieldsAre DEF ReadCell
    <3>2. BytesAt(scan) = {object.header[Len(header) + 1]}
      <4> DEFINE first == Start(object, 8)
                 length == Len(header)
      <4>1. scan = first + length
        BY <1>2 DEF InHeader
      <4>2. first \in Nat /\ length \in Nat /\ length < 6 /\ Len(data) = first + 6
        BY <1>2, <1>3, <3>1
      <4>3. scan < Len(data) /\ scan + 1 = first + (length + 1)
        <5> HIDE DEF first, length
        <5> QED
          BY <4>1, <4>2
      <4>4. Len(header) + 1 \in 1..6
        BY <1>2, <3>1
      <4> QED
        BY <1>3, <4>3, <4>4 DEF BytesAt
    <3>3. header' = Append(header, object.header[Len(header) + 1])
      BY <2>1, <3>2 DEF ReadCell
    <3>4. object.header[Len(header) + 1] \in Bytes
      <4>1. object.header \in Seq(Bytes) /\ Len(object.header) = 6
        BY <1>2, FieldsAre, RecordAssumption
      <4> QED
        BY <1>2, <3>1, <4>1
    <3>5. /\ header' \in Seq(Bytes) /\ Len(header') = Len(header) + 1
          /\ \A p \in 1..Len(header) : header'[p] = header[p]
          /\ header'[Len(header) + 1] = object.header[Len(header) + 1]
      BY <1>2, <3>3, <3>4
    <3>6. \A p \in 1..Len(header') : header'[p] = object.header[p]
      BY <1>2, <3>5 DEF InHeader
    <3>7. scan' = Start(object, 8) + Len(header')
      BY <1>2, <1>3, <3>1, <3>5 DEF InHeader
    <3> QED
      BY <1>1, <1>2, <3>1, <3>5, <3>6, <3>7 DEF InHeader
  <2>2. CASE CheckSize
    <3>1. Len(header) = 6 /\ UNCHANGED <<scan, header>>
      BY <2>2, FieldsAre DEF CheckSize
    <3>2. scan = Len(data)
      BY <1>2, <1>3, <3>1 DEF InHeader
    <3>3. stage' = "read"
      BY <2>2, <3>2 DEF CheckSize
    <3> QED
      BY <1>1, <1>2, <3>1, <3>3 DEF InHeader
  <2> QED
    BY <2>1, <2>2
<1> QED
  BY <1>1, <1>2, <1>4, <1>5 DEF RecordInv

(* No step of readBlockIndex breaks what it relies on.                     *)
LEMMA StepRecord == RecordInv /\ [RecordNext]_recordVars => RecordInv'
<1>1. RecordInv /\ UNCHANGED recordVars => RecordInv'
  BY DEF recordVars, RecordInv, FieldsRead, InField, InHeader
<1> QED
  BY <1>1, ContinuedStep, LastStep, HeaderStep DEF RecordNext, Step, Done

(* What readBlockIndex relies on holds at each of its steps: it reads the  *)
(* field whose bytes come next, and has the value of its first bytes.      *)
THEOREM RecordInductive == RecordSpec => []RecordInv
BY InitRecord, StepRecord, PTL DEF RecordSpec

(* Whatever 64-bit values the node stored, of whatever fields: they are    *)
(* read back, none is mistaken for another, and no byte behind the record  *)
(* is looked at.                                                           *)
THEOREM RecordIsExact == RecordSpec => []RecordExact
<1>1. RecordInv => RecordExact
  <2> SUFFICES ASSUME RecordInv PROVE RecordExact
    OBVIOUS
  <2>1. object \in Objects /\ data = Serialized(object) /\ field \in 1..8
    BY DEF RecordInv
  <2>2. Len(data) = Start(object, 8) + 6 /\ Start(object, 8) \in Nat
    BY <2>1, Layout
  <2>3. stage # "aborted"
    BY DEF RecordInv
  <2>4. scan <= Len(data)
    <3>1. CASE field < 8
      <4>1. PICK j \in 0..(Len(Part(object, field)) - 1) : scan = Start(object, field) + j
        BY <3>1 DEF RecordInv, InField
      <4>2. /\ Start(object, field + 1) = Start(object, field) + Len(Part(object, field))
            /\ Part(object, field) \in Seq(Bytes)
        <5>1. field \in 1..7
          BY <2>1, <3>1
        <5> QED
          BY <2>1, <5>1, Layout, PartIs, Zenon
      <4>3. Start(object, field + 1) <= Start(object, 8) /\ Start(object, field) \in Nat
        <5>1. field + 1 \in 1..8
          BY <2>1, <3>1
        <5> QED
          BY <2>1, <5>1, Layout
      <4>4. Len(Part(object, field)) \in Nat
        BY <4>2
      <4> QED
        BY <2>2, <4>1, <4>2, <4>3, <4>4
    <3>2. CASE field = 8
      <4>1. InHeader /\ header \in Seq(Bytes)
        BY <3>2 DEF RecordInv
      <4>2. Len(header) \in Nat
        BY <4>1
      <4> QED
        BY <2>2, <4>1, <4>2 DEF InHeader
    <3> QED
      BY <2>1, <3>1, <3>2
  <2>5. ASSUME stage = "read"
        PROVE  /\ header = object.header
               /\ \A name \in Names :
                     read[name] = IF Stored(object.fields["mBlockStatus"], name)
                                  THEN object.fields[name] ELSE 0
    <3>1. field = 8
      BY <2>1, <2>5 DEF RecordInv, InField
    <3>2. Len(header) = 6 /\ \A p \in 1..6 : header[p] = object.header[p]
      BY <2>5, <3>1 DEF RecordInv, InHeader
    <3>3. header \in Seq(Bytes) /\ object.header \in Seq(Bytes) /\ Len(object.header) = 6
      BY <2>1, FieldsAre, RecordAssumption DEF RecordInv
    <3>4. header = object.header
      BY <3>2, <3>3
    <3>5. ASSUME NEW name \in Names
          PROVE  read[name] = IF Stored(object.fields["mBlockStatus"], name)
                              THEN object.fields[name] ELSE 0
      <4>1. PICK i \in 1..7 : name = Fields[i]
        BY FieldNames
      <4>2. read[Fields[i]] = IF i < field /\ Held(object, i)
                              THEN object.fields[Fields[i]] ELSE 0
        BY DEF RecordInv, FieldsRead
      <4> QED
        BY <3>1, <4>1, <4>2 DEF Held
    <3> QED
      BY <3>4, <3>5
  <2> QED
    BY <2>3, <2>4, <2>5 DEF RecordExact
<1> QED
  BY <1>1, RecordInductive, PTL
=============================================================================
