-------------------------- MODULE BlockScanProofs ---------------------------
(***************************************************************************)
(* Proofs about BlockScan, for any blocks, any contents of the files and   *)
(* any limits: the scan stores headers of blocks on disk, and of clean     *)
(* files those of all of them, and the two walks of buildBlockChain agree, *)
(* so that the array is filled exactly and holds a chain.                  *)
(***************************************************************************)
EXTENDS BlockScan, Recursion, FiniteSetTheorems, TLAPS

DiskOK == disk \in Seq(Seq(Cells))

(* What buildBlockChain may count on when the scan has counted a block.    *)
LastStored == /\ mScanCount > 0 => \E h \in mBlockHeaderSet : h.hash = mLastBlockHeader.hash
              /\ phase = "counting" => mScanCount > 0

Untouched == phase \in {"scanning", "scanned"} =>
                /\ walked = << >>
                /\ mBlockCount = 0
                /\ mBlockChainHeaders = << >>

(* The headers walked so far go from the last one scanned to parents.      *)
WalkLinked == /\ Len(walked) > 0 => walked[1] = Lookup(mLastBlockHeader.hash)
              /\ \A i \in 1..(Len(walked) - 1) : walked[i + 1] = Parent(walked[i])

Counting == phase = "counting" =>
                /\ blockCount = Len(walked)
                /\ blockCount < WordSize
                /\ found = IF blockCount = 0 THEN Lookup(mLastBlockHeader.hash)
                                             ELSE Parent(walked[blockCount])

WalkEnded == /\ Len(walked) > 0
             /\ Parent(walked[Len(walked)]) = NoHeader

(* The filling pass visits again what the counting pass visited, and the   *)
(* slots above index hold what it visited.                                 *)
Filling == phase = "filling" =>
    /\ blockCount = Len(walked)
    /\ blockCount < WordSize
    /\ WalkEnded
    /\ DOMAIN mBlockChainHeaders = 0..(blockCount - 1)
    /\ found # NoHeader =>
          /\ index \in 0..(blockCount - 1)
          /\ found = walked[blockCount - index]
          /\ \A j \in 0..index : mBlockChainHeaders[j] = NoHeader
          /\ \A j \in (index + 1)..(blockCount - 1) :
                mBlockChainHeaders[j] = walked[blockCount - j]
    /\ found = NoHeader =>
          \A j \in 0..(blockCount - 1) : mBlockChainHeaders[j] = walked[blockCount - j]

Built == phase = "built" =>
    \/ mBlockCount = 0 /\ mBlockChainHeaders = << >>
    \/ /\ mBlockCount = Len(walked)
       /\ WalkEnded
       /\ DOMAIN mBlockChainHeaders = 0..(mBlockCount - 1)
       /\ \A j \in 0..(mBlockCount - 1) : mBlockChainHeaders[j] = walked[mBlockCount - j]

IInv == /\ TypeOK
        /\ DiskOK
        /\ LastStored
        /\ Untouched
        /\ WalkLinked
        /\ Counting
        /\ Filling
        /\ Built

-----------------------------------------------------------------------------
(* The uint32_t index behaves as a number while it does not wrap.          *)
LEMMA WordArithmetic ==
  ASSUME NEW n \in Int
  PROVE  /\ n % WordSize \in 0..(WordSize - 1)
         /\ n \in 0..(WordSize - 1) => n % WordSize = n
BY ScanAssumption

(* No block is named NoBlock, so the end of a walk is no header.           *)
LEMMA NoHeaderIsNone == NoHeader \notin Headers
BY ScanAssumption DEF NoHeader, Headers

(* find returns a stored header with the hash it was given, or end().      *)
LEMMA LookupFinds ==
  ASSUME NEW hash, mBlockHeaderSet \subseteq Headers
  PROVE  /\ Lookup(hash) \in Headers \cup {NoHeader}
         /\ Lookup(hash) # NoHeader => Lookup(hash).hash = hash
         /\ (\E h \in mBlockHeaderSet : h.hash = hash) => Lookup(hash) # NoHeader
BY NoHeaderIsNone DEF Lookup

(* What defines where each record ends.                                    *)
IsEnds(f, records) ==
    f = [k \in 0..Len(records) |-> IF k = 0 THEN 0 ELSE f[k - 1] + records[k].cells]

(* Each record ends its own length behind the one before it.               *)
LEMMA EndsAdd ==
  ASSUME NEW records \in Seq(Records)
  PROVE  /\ Ends(records)[0] = 0
         /\ \A k \in 1..Len(records) :
               /\ Ends(records)[k] = Ends(records)[k - 1] + records[k].cells
               /\ records[k].cells \in Nat \ {0}
               /\ Ends(records)[k - 1] < Ends(records)[k]
         /\ \A k \in 0..Len(records) : Ends(records)[k] \in Nat
         /\ \A j, k \in 0..Len(records) : j <= k => Ends(records)[j] <= Ends(records)[k]
<1> DEFINE n == Len(records)
           size == [k \in 1..n |-> records[k].cells]
           End == Ends(records)
<1>1. n \in Nat /\ \A k \in 1..n : size[k] = records[k].cells /\ size[k] \in Nat \ {0}
  <2>1. \A k \in 1..n : records[k] \in Records
    OBVIOUS
  <2>2. \A k \in 1..n : records[k].cells \in Nat \ {0}
    BY <2>1 DEF Records
  <2> QED
    BY <2>2
<1>2. \E f : IsEnds(f, records)
  <2>1. PICK f : Adds(f, n, 0, size)
    BY <1>1, SumsExist
  <2> DEFINE g == [k \in 0..n |-> f[k]]
  <2>2. \A k \in 0..n : g[k] = IF k = 0 THEN 0 ELSE g[k - 1] + records[k].cells
    BY <1>1, <2>1 DEF Adds
  <2>3. g = [k \in 0..n |-> g[k]]
    OBVIOUS
  <2> HIDE DEF g
  <2>4. IsEnds(g, records)
    BY <2>2, <2>3 DEF IsEnds
  <2> QED
    BY <2>4
<1>3. IsEnds(End, records)
  <2>1. IsEnds(CHOOSE f : IsEnds(f, records), records)
    BY <1>2
  <2>2. End = CHOOSE f : IsEnds(f, records)
    BY DEF Ends, IsEnds
  <2> HIDE DEF End
  <2> QED
    BY <2>1, <2>2
<1> HIDE DEF End
<1>4. End[0] = 0 /\ \A k \in 1..n : End[k] = End[k - 1] + records[k].cells
  <2>1. \A k \in 0..n : End[k] = IF k = 0 THEN 0 ELSE End[k - 1] + records[k].cells
    BY <1>3 DEF IsEnds
  <2> QED
    BY <1>1, <2>1
<1>5. Adds(End, n, 0, size)
  BY <1>1, <1>4 DEF Adds
<1> HIDE DEF size
<1>6. /\ \A k \in 0..n : End[k] \in Nat
      /\ \A j, k \in 0..n : j <= k => End[j] <= End[k]
  <2>1. /\ \A k \in 0..n : End[k] \in Nat
        /\ \A k \in 0..n : \A j \in 0..k : End[j] <= End[k]
    BY <1>1, <1>5, SumsRise
  <2> QED
    BY <1>1, <2>1
<1>7. ASSUME NEW k \in 1..n PROVE End[k - 1] < End[k] /\ records[k].cells \in Nat \ {0}
  <2>1. k - 1 \in 0..n
    BY <1>1
  <2>2. records[k].cells \in Nat \ {0} /\ End[k - 1] \in Nat
    BY <1>1, <1>6, <2>1
  <2> QED
    BY <1>4, <2>2
<1> QED
  BY <1>4, <1>6, <1>7 DEF End

(* Every cell of a file belongs to a record.                               *)
LEMMA Owners ==
  ASSUME NEW records \in Seq(Records),
         NEW p \in 1..Ends(records)[Len(records)]
  PROVE  \E k \in 1..Len(records) : Ends(records)[k - 1] < p /\ p <= Ends(records)[k]
<1> DEFINE n == Len(records)
           End == Ends(records)
           S == {m \in Nat : m <= n /\ p <= End[m] =>
                                \E k \in 1..n : End[k - 1] < p /\ p <= End[k]}
<1>1. n \in Nat /\ End[0] = 0 /\ \A k \in 0..n : End[k] \in Nat
  BY EndsAdd
<1>2. p \in Nat /\ p >= 1 /\ p <= End[n]
  BY <1>1
<1> HIDE DEF End
<1>3. 0 \in S
  BY <1>1, <1>2
<1>4. ASSUME NEW m \in Nat, m \in S PROVE m + 1 \in S
  <2> SUFFICES ASSUME m + 1 <= n, p <= End[m + 1]
               PROVE  \E k \in 1..n : End[k - 1] < p /\ p <= End[k]
    OBVIOUS
  <2>1. CASE p <= End[m]
    BY <1>1, <1>4, <2>1
  <2>2. CASE ~(p <= End[m])
    <3>1. End[m] < p /\ m + 1 \in 1..n /\ (m + 1) - 1 = m
      BY <1>1, <1>2, <2>2, SMTT(30)
    <3> QED
      BY <3>1
  <2> QED
    BY <2>1, <2>2
<1> HIDE DEF S
<1>5. n \in S
  <2>1. Nat \subseteq S
    BY <1>3, <1>4, SetInduction
  <2> QED
    BY <1>1, <2>1
<1> QED
  BY <1>1, <1>2, <1>5 DEF S, End

(* Every cell of a record is one that can be in a file.                    *)
LEMMA CellTyped ==
  ASSUME NEW r \in Records, NEW i \in Nat, i >= 1
  PROVE  CellOf(r, i) \in Cells
<1>1. r.block \in Blocks \cup {NoBlock} /\ r.word \in Nat
  BY DEF Records
<1>2. CASE r.block = NoBlock \/ i > 3
  BY <1>1, <1>2 DEF CellOf, Cells, Word
<1>3. CASE ~(r.block = NoBlock \/ i > 3)
  <2>1. r.block \in Blocks /\ (i = 1 \/ i = 2 \/ i = 3)
    BY <1>1, <1>3
  <2>2. CellOf(r, i) = <<Magic, LengthCell(r.block), PrefixCell(r.block)>>[i]
    BY <1>3 DEF CellOf
  <2>3. Magic \in Cells /\ LengthCell(r.block) \in Cells /\ PrefixCell(r.block) \in Cells
    BY <2>1, ScanAssumption DEF Magic, LengthCell, Word, Cells
  <2> QED
    BY <2>1, <2>2, <2>3
<1> QED
  BY <1>2, <1>3

(* A file is a sequence of cells.                                          *)
LEMMA FileTyped ==
  ASSUME NEW records \in Seq(Records)
  PROVE  FileOf(records) \in Seq(Cells)
<1> DEFINE n == Len(records)
           End == Ends(records)
           Owner(p) == CHOOSE k \in 1..n : End[k - 1] < p /\ p <= End[k]
<1>1. n \in Nat /\ \A k \in 0..n : End[k] \in Nat
  BY EndsAdd
<1>2. FileOf(records) = [p \in 1..End[n] |-> CellOf(records[Owner(p)], p - End[Owner(p) - 1])]
  BY DEF FileOf
<1>3. \A p \in 1..End[n] :
         /\ Owner(p) \in 1..n /\ End[Owner(p) - 1] < p /\ p <= End[Owner(p)]
  BY Owners
<1>4. \A k \in 1..n : records[k] \in Records
  OBVIOUS
<1> HIDE DEF End, Owner, n
<1>5. ASSUME NEW p \in 1..End[n]
      PROVE  CellOf(records[Owner(p)], p - End[Owner(p) - 1]) \in Cells
  <2> DEFINE i == p - End[Owner(p) - 1]
  <2>1. Owner(p) \in 1..n /\ End[Owner(p) - 1] < p
    BY <1>3
  <2>2. End[Owner(p) - 1] \in Nat
    <3>1. Owner(p) - 1 \in 0..n
      BY <1>1, <2>1, SMTT(30)
    <3> QED
      BY <1>1, <3>1
  <2>3. End[n] \in Nat
    BY <1>1
  <2>4. i \in Nat /\ i >= 1
    BY <2>1, <2>2, <2>3, SMTT(30)
  <2> HIDE DEF i
  <2>5. CellOf(records[Owner(p)], i) \in Cells
    BY <1>4, <2>1, <2>4, CellTyped
  <2> QED
    BY <2>5 DEF i
<1>6. End[n] \in Nat
  BY <1>1
<1> DEFINE g(p) == CellOf(records[Owner(p)], p - End[Owner(p) - 1])
<1>7. FileOf(records) = [p \in 1..End[n] |-> g(p)]
  BY <1>2
<1>8. \A p \in 1..End[n] : g(p) \in Cells
  BY <1>5
<1> HIDE DEF g
<1>9. FileOf(records) \in [1..End[n] -> Cells]
  BY <1>7, <1>8
<1> QED
  BY <1>6, <1>9

(* What the files hold when they are opened.                               *)
LEMMA DiskTyped ==
  ASSUME layout \in Layouts, disk = [f \in DOMAIN layout |-> FileOf(layout[f])]
  PROVE  DiskOK
<1>1. layout \in Seq(Seq(Records))
  BY LayoutAssumption
<1>2. Len(layout) \in Nat /\ DOMAIN layout = 1..Len(layout)
  BY <1>1
<1>3. \A f \in 1..Len(layout) : FileOf(layout[f]) \in Seq(Cells)
  <2>1. \A f \in 1..Len(layout) : layout[f] \in Seq(Records)
    BY <1>1
  <2> QED
    BY <2>1, FileTyped
<1>4. disk \in [1..Len(layout) -> Seq(Cells)]
  BY <1>2, <1>3
<1> QED
  BY <1>2, <1>4 DEF DiskOK

(* This header was read behind the magic id in this cell of this file.     *)
ReadAt(header, f, p) ==
    /\ f \in 1..Len(disk) /\ p \in 1..Len(disk[f]) /\ p + 2 <= Len(disk[f])
    /\ disk[f][p] = Magic
    /\ \/ header.hash \in Blocks /\ disk[f][p + 2] = PrefixCell(header.hash)
       \/ header.hash \in Junk /\ \A b \in Blocks : disk[f][p + 2] # PrefixCell(b)
    /\ header = [hash |-> header.hash, prev |-> Prev[header.hash], file |-> f - 1,
                 offset |-> p + 1, length |-> disk[f][p + 1].value]

(* readBlockHeader reads what stands behind a magic id.                    *)
LEMMA HeadersRead ==
  ASSUME DiskOK, mBlockIndex \in Nat, position \in Nat, NEW header \in NextHeaders
  PROVE  /\ header \in Headers
         /\ \E f, p : ReadAt(header, f, p)
<1> DEFINE at == NextCell
<1>1. /\ at.file \in Nat
      /\ at.start \in Nat
      /\ at.search \in Nat
  BY DEF NextCell
<1>2. PICK start \in Candidates(at) :
        /\ IsMagic(start[1], start[2])
        /\ HasHeader(start[1], start[2])
        /\ \E hash \in HashesAt(start[1], start[2] + 2) :
              header = HeaderBehind(start[1], start[2], hash)
  BY DEF NextHeaders, BlockStarts
<1>3. start[1] \in Nat /\ start[2] \in Nat
  <2>1. Hits(at) \subseteq Nat
    BY <1>1, ScanAssumption DEF Hits
  <2> HIDE DEF at
  <2> QED
    BY <1>1, <2>1 DEF Candidates
<1> DEFINE f == start[1] + 1
           p == start[2] + 1
<1> HIDE DEF at
<1>4. /\ f \in 1..Len(disk)
      /\ disk[f] \in Seq(Cells)
  <2>1. start[1] < Len(disk)
    BY <1>2 DEF IsMagic, Readable
  <2>2. Len(disk) \in Nat /\ \A g \in 1..Len(disk) : disk[g] \in Seq(Cells)
    BY DEF DiskOK
  <2> QED
    BY <1>3, <2>1, <2>2, SMTT(30)
<1>5. p \in 1..Len(disk[f]) /\ p + 2 <= Len(disk[f]) /\ disk[f][p] = Magic
  <2>1. start[2] + 2 < Len(disk[f]) /\ disk[f][p] = Magic
    BY <1>2 DEF IsMagic, HasHeader, Readable, Cell
  <2>2. Len(disk[f]) \in Nat
    BY <1>4
  <2>3. p \in Nat /\ p >= 1 /\ p + 1 = start[2] + 2
    BY <1>3
  <2> DEFINE n == Len(disk[f])
  <2>4. n \in Nat /\ p + 1 < n
    BY <2>1, <2>2, <2>3
  <2> HIDE DEF f, p, n
  <2>5. p \in 1..n /\ p + 2 <= n
    BY <2>3, <2>4
  <2> QED
    BY <2>1, <2>5 DEF n
<1>6. /\ Cell(start[1], start[2] + 1) = disk[f][p + 1]
      /\ Cell(start[1], start[2] + 2) = disk[f][p + 2]
      /\ start[1] = f - 1 /\ start[2] + 2 = p + 1
  <2>1. start[2] + 1 + 1 = p + 1 /\ start[2] + 2 + 1 = p + 2
    BY <1>3
  <2> QED
    BY <1>3, <2>1 DEF Cell
<1>7. PICK hash \in HashesAt(start[1], start[2] + 2) :
        header = HeaderBehind(start[1], start[2], hash)
  BY <1>2
<1>8. header = [hash |-> hash, prev |-> Prev[hash], file |-> f - 1, offset |-> p + 1,
                length |-> disk[f][p + 1].value]
  BY <1>6, <1>7 DEF HeaderBehind
<1>9. \/ hash \in Blocks /\ disk[f][p + 2] = PrefixCell(hash)
      \/ hash \in Junk /\ \A b \in Blocks : disk[f][p + 2] # PrefixCell(b)
  <2> DEFINE cell == disk[f][p + 2]
  <2>1. Cell(start[1], start[2] + 2) = cell
    BY <1>6
  <2> HIDE DEF f, p, cell
  <2>2. CASE \E b \in Blocks : cell = PrefixCell(b)
    <3>1. PICK b \in Blocks : cell = PrefixCell(b)
      BY <2>2
    <3>2. cell.block = b
      BY <3>1 DEF PrefixCell
    <3>3. hash = cell.block
      BY <1>7, <2>1, <2>2 DEF HashesAt, IsPrefix
    <3> QED
      BY <3>1, <3>2, <3>3 DEF cell
  <2>3. CASE \A b \in Blocks : cell # PrefixCell(b)
    <3>1. hash \in Junk
      BY <1>7, <2>1, <2>3 DEF HashesAt, IsPrefix
    <3> QED
      BY <2>3, <3>1 DEF cell
  <2> QED
    BY <2>2, <2>3
<1>10. disk[f][p + 1].value \in Nat
  <2>1. disk[f][p + 1] \in Cells
    <3>1. p + 1 \in 1..Len(disk[f])
      <4>1. Len(disk[f]) \in Nat
        BY <1>4
      <4>2. p \in 1..Len(disk[f]) /\ p + 2 <= Len(disk[f])
        BY <1>5
      <4> DEFINE n == Len(disk[f])
      <4> HIDE DEF f, p, n
      <4>3. n \in Nat /\ p \in 1..n /\ p + 2 <= n
        BY <4>1, <4>2 DEF n
      <4>4. p + 1 \in 1..n
        BY <4>3
      <4> QED
        BY <4>4 DEF n
    <3> HIDE DEF f, p
    <3> QED
      BY <1>4, <3>1
  <2>2. \A c \in Cells : c.value \in Nat
    BY DEF Cells, PrefixCell
  <2> QED
    BY <2>1, <2>2
<1>11. header \in Headers
  <2>1. hash \in Hashes /\ Prev[hash] \in Hashes \cup {NoBlock}
    BY <1>9, ScanAssumption DEF Hashes
  <2>2. f - 1 \in Nat /\ p + 1 \in Nat
    BY <1>3
  <2> HIDE DEF f, p
  <2> QED
    BY <1>8, <1>10, <2>1, <2>2 DEF Headers
<1>12. ReadAt(header, f, p)
  <2>1. header.hash = hash
    BY <1>8
  <2> HIDE DEF f, p
  <2> QED
    BY <1>4, <1>5, <1>8, <1>9, <2>1 DEF ReadAt
<1> QED
  BY <1>11, <1>12

-----------------------------------------------------------------------------
(* Nothing has been scanned when the constructor returns.                  *)
LEMMA InitIInv == Init => IInv
<1> SUFFICES ASSUME Init PROVE IInv
  OBVIOUS
<1>1. DiskOK
  BY DiskTyped DEF Init
<1>2. TypeOK
  BY ScanAssumption DEF Init, TypeOK
<1>3. LastStored /\ Untouched /\ WalkLinked /\ Counting /\ Filling /\ Built
  BY DEF Init, LastStored, Untouched, WalkLinked, Counting, Filling, Built
<1> QED
  BY <1>1, <1>2, <1>3 DEF IInv

(* A header that is read joins the set with a hash that is new to it, and  *)
(* becomes the last header.                                                *)
LEMMA ScanStep ==
  ASSUME IInv, Scan
  PROVE  IInv'
<1> USE DEF fixed, walkVars, resultVars, scanVars
<1>1. CASE ScanEnd \/ ScanAsserts
  BY <1>1, SMTT(30) DEF ScanEnd, ScanAsserts, IInv, TypeOK, DiskOK, LastStored, Untouched, WalkLinked,
              Counting, Filling, Built, Parent, Lookup
<1>2. CASE ScanBlock \/ ScanLimit
  <2>1. PICK header \in NextHeaders : ReadHeader(header)
    BY <1>2 DEF ScanBlock, ScanLimit
  <2>2. header \in Headers
    BY <2>1, HeadersRead DEF IInv, TypeOK
  <2>3. /\ phase = "scanning"
        /\ phase' \in {"scanning", "scanned"}
        /\ mScanCount' \in Nat
        /\ UNCHANGED <<fixed, walkVars, resultVars>>
    BY <1>2, SMTT(30) DEF ScanBlock, ScanLimit, IInv, TypeOK
  <2>4. /\ mBlockHeaderSet' \subseteq Headers
        /\ \E h \in mBlockHeaderSet' : h.hash = mLastBlockHeader'.hash
    BY <2>1, <2>2 DEF ReadHeader, Insert, IInv, TypeOK
  <2>5. TypeOK'
    BY <2>1, <2>2, <2>3, <2>4 DEF IInv, TypeOK, ReadHeader, PositionAfter, Headers
  <2>6. (DiskOK /\ LastStored /\ Untouched)'
    BY <2>3, <2>4 DEF IInv, DiskOK, LastStored, Untouched
  <2>7. (WalkLinked /\ Counting /\ Filling /\ Built)'
    BY <2>3 DEF IInv, Untouched, WalkLinked, Counting, Filling, Built
  <2> QED
    BY <2>5, <2>6, <2>7 DEF IInv
<1> QED
  BY <1>1, <1>2 DEF Scan

-----------------------------------------------------------------------------
(* No step of buildBlockChain touches the headers that were stored, so a   *)
(* hash is looked up with the same result throughout.                      *)
LEMMA LookupStable ==
  ASSUME UNCHANGED scanVars
  PROVE  /\ \A hash : Lookup(hash)' = Lookup(hash)
         /\ \A h : Parent(h)' = Parent(h)
BY DEF scanVars, Lookup, Parent

(* Without a scanned block buildBlockChain returns at once.                *)
LEMMA BuildNothingStep ==
  ASSUME IInv, BuildNothing
  PROVE  IInv'
BY LookupStable DEF BuildNothing, IInv, TypeOK, DiskOK, LastStored, Untouched, WalkLinked,
   Counting, Filling, Built, fixed, scanVars, walkVars, resultVars

(* The counting walk starts at the stored header of the last block.        *)
LEMMA BuildStartStep ==
  ASSUME IInv, BuildStart
  PROVE  IInv'
<1> USE DEF BuildStart, fixed, scanVars, resultVars
<1>1. TypeOK'
  BY LookupFinds DEF IInv, TypeOK
<1>2. (DiskOK /\ LastStored /\ Untouched)'
  BY DEF IInv, DiskOK, LastStored, Untouched
<1>3. WalkLinked' /\ Filling' /\ Built'
  BY LookupStable DEF IInv, WalkLinked, Filling, Built
<1>4. Counting'
  BY LookupStable, ScanAssumption DEF IInv, Untouched, Counting
<1> QED
  BY <1>1, <1>2, <1>3, <1>4 DEF IInv

(* The counting walk appends one header, the parent of the one before it.  *)
LEMMA CountStep ==
  ASSUME IInv, Count
  PROVE  IInv'
<1> USE DEF Count, fixed, scanVars, resultVars
<1>1. /\ found \in Headers
      /\ Parent(found) \in Headers \cup {NoHeader}
  BY LookupFinds DEF IInv, TypeOK, Parent
<1>2. TypeOK'
  BY <1>1 DEF IInv, TypeOK
<1>3. (DiskOK /\ LastStored /\ Untouched /\ Filling /\ Built)'
  BY DEF IInv, DiskOK, LastStored, Untouched, Filling, Built
<1>4. /\ walked \in Seq(Headers)
      /\ Len(walked') = Len(walked) + 1
      /\ walked'[Len(walked) + 1] = found
      /\ \A i \in 1..Len(walked) : walked'[i] = walked[i]
  BY <1>1 DEF IInv, TypeOK
<1>5. Counting'
  BY <1>4, LookupStable, ScanAssumption DEF IInv, TypeOK, Counting
<1>6. WalkLinked'
  <2>1. Len(walked) = 0 => found = Lookup(mLastBlockHeader.hash)
    BY DEF IInv, Counting
  <2>2. Len(walked) > 0 => found = Parent(walked[Len(walked)])
    BY <1>4 DEF IInv, Counting
  <2> QED
    BY <1>4, <2>1, <2>2, LookupStable DEF IInv, WalkLinked
<1> QED
  BY <1>2, <1>3, <1>5, <1>6 DEF IInv

(* When the count is done the walk has ended at a header without parent,   *)
(* and the second walk starts where the first one did.                     *)
LEMMA CountDoneStep ==
  ASSUME IInv, CountDone
  PROVE  IInv'
<1> USE DEF CountDone, fixed, scanVars
<1>1. /\ blockCount = Len(walked)
      /\ blockCount \in Nat \ {0}
      /\ blockCount < WordSize
      /\ WalkEnded
  <2>1. Lookup(mLastBlockHeader.hash) # NoHeader
    BY LookupFinds DEF IInv, TypeOK, LastStored
  <2>2. /\ blockCount = Len(walked)
        /\ blockCount # 0
        /\ blockCount < WordSize
        /\ Parent(walked[blockCount]) = NoHeader
    BY <2>1 DEF IInv, Counting
  <2> QED
    BY <2>2 DEF IInv, TypeOK, WalkEnded
<1>2. index' = blockCount - 1
  <2>1. blockCount - 1 \in 0..(WordSize - 1)
    BY <1>1, ScanAssumption
  <2>2. (blockCount - 1) % WordSize = blockCount - 1
    BY <2>1, WordArithmetic
  <2> QED
    BY <2>2 DEF LastIndex
<1>3. found' = walked[1] /\ found' \in Headers /\ found' # NoHeader
  BY <1>1, NoHeaderIsNone DEF IInv, TypeOK, WalkLinked
<1>4. TypeOK'
  BY <1>1, <1>2, <1>3, ScanAssumption DEF IInv, TypeOK
<1>5. (DiskOK /\ LastStored /\ Untouched /\ Counting /\ Built)'
  BY DEF IInv, DiskOK, LastStored, Untouched, Counting, Built
<1>6. WalkLinked' /\ WalkEnded'
  BY <1>1, LookupStable DEF IInv, WalkLinked, WalkEnded
<1>7. Filling'
  BY <1>1, <1>2, <1>3, <1>6 DEF Filling
<1> QED
  BY <1>4, <1>5, <1>6, <1>7 DEF IInv

(* The filling walk visits the headers of the counting walk in the same    *)
(* order, so the slot it stores next is the one the count assigns to it.   *)
LEMMA FillStep ==
  ASSUME IInv, Fill
  PROVE  IInv'
<1> USE DEF Fill, fixed, scanVars
<1>1. /\ blockCount = Len(walked)
      /\ blockCount \in Nat \ {0}
      /\ blockCount < WordSize
      /\ WalkEnded
      /\ index \in 0..(blockCount - 1)
      /\ found = walked[blockCount - index]
      /\ DOMAIN mBlockChainHeaders = 0..(blockCount - 1)
  BY DEF IInv, TypeOK, Filling, WalkEnded
<1>2. DOMAIN mBlockChainHeaders' = 0..(blockCount - 1)
  BY <1>1
<1>3. /\ mBlockChainHeaders'[index] = found
      /\ \A j \in 0..(blockCount - 1) :
            j # index => mBlockChainHeaders'[j] = mBlockChainHeaders[j]
  BY <1>1
<1>4. TypeOK'
  <2>1. index' \in 0..(WordSize - 1)
    BY <1>1, WordArithmetic DEF Decrement
  <2>2. found' \in Headers \cup {NoHeader}
    BY LookupFinds DEF IInv, TypeOK, Parent
  <2>3. \A i \in DOMAIN mBlockChainHeaders' : mBlockChainHeaders'[i] \in Headers \cup {NoHeader}
    BY <1>1, <1>2, <1>3 DEF IInv, TypeOK
  <2> QED
    BY <2>1, <2>2, <2>3 DEF IInv, TypeOK
<1>5. (DiskOK /\ LastStored /\ Untouched /\ Counting /\ Built)'
  BY DEF IInv, DiskOK, LastStored, Untouched, Counting, Built
<1>6. WalkLinked' /\ WalkEnded'
  BY <1>1, LookupStable DEF IInv, WalkLinked, WalkEnded
<1>7. CASE index = 0
  <2>1. found' = NoHeader
    BY <1>1, <1>7 DEF WalkEnded
  <2>2. \A j \in 0..(blockCount - 1) : mBlockChainHeaders'[j] = walked[blockCount - j]
    BY <1>1, <1>3, <1>7 DEF IInv, Filling
  <2>3. blockCount' = Len(walked') /\ blockCount' < WordSize
    BY <1>1
  <2>4. \A j \in 0..(blockCount' - 1) : mBlockChainHeaders'[j] = walked'[blockCount' - j]
    BY <2>2
  <2>5. Filling'
    BY <1>2, <1>6, <2>1, <2>3, <2>4 DEF Filling
  <2> QED
    BY <1>4, <1>5, <1>6, <2>5 DEF IInv
<1>8. CASE index > 0
  <2>1. index' = index - 1
    <3>1. index - 1 \in 0..(WordSize - 1)
      BY <1>1, <1>8, ScanAssumption
    <3>2. (index - 1) % WordSize = index - 1
      BY <3>1, WordArithmetic
    <3> QED
      BY <3>2 DEF Decrement
  <2>2. found' = walked[blockCount - index'] /\ found' # NoHeader
    BY <1>1, <1>8, <2>1, NoHeaderIsNone DEF IInv, TypeOK, WalkLinked
  <2>3. \A j \in 0..index' : mBlockChainHeaders'[j] = NoHeader
    BY <1>1, <1>3, <1>8, <2>1 DEF IInv, Filling
  <2>4. \A j \in (index' + 1)..(blockCount - 1) :
            mBlockChainHeaders'[j] = walked[blockCount - j]
    BY <1>1, <1>3, <1>8, <2>1 DEF IInv, Filling
  <2>5. Filling'
    BY <1>1, <1>2, <1>6, <1>8, <2>1, <2>2, <2>3, <2>4 DEF Filling
  <2> QED
    BY <1>4, <1>5, <1>6, <2>5 DEF IInv
<1> QED
  BY <1>1, <1>7, <1>8

(* When the filling walk ends, every slot has been stored.                 *)
LEMMA FillDoneStep ==
  ASSUME IInv, FillDone
  PROVE  IInv'
<1> USE DEF FillDone, fixed, scanVars, walkVars
<1>1. TypeOK'
  BY DEF IInv, TypeOK
<1>2. (DiskOK /\ LastStored /\ Untouched /\ Counting /\ Filling)'
  BY DEF IInv, DiskOK, LastStored, Untouched, Counting, Filling
<1>3. WalkLinked'
  BY LookupStable DEF IInv, WalkLinked
<1>4. Built'
  BY LookupStable DEF IInv, Filling, Built, WalkEnded
<1> QED
  BY <1>1, <1>2, <1>3, <1>4 DEF IInv

(* A stuttering step changes nothing the invariant speaks of.              *)
LEMMA StutterStep ==
  ASSUME IInv, UNCHANGED vars
  PROVE  IInv'
<1> USE DEF vars, fixed, scanVars, walkVars, resultVars
<1>1. (TypeOK /\ DiskOK /\ LastStored /\ Untouched)'
  BY DEF IInv, TypeOK, DiskOK, LastStored, Untouched
<1>2. (WalkLinked /\ Counting /\ Filling /\ Built)'
  BY LookupStable DEF IInv, WalkLinked, Counting, Filling, Built, WalkEnded
<1> QED
  BY <1>1, <1>2 DEF IInv

-----------------------------------------------------------------------------
(* The two walks of buildBlockChain keep in step in every reachable state, *)
(* for any files, any limits and any word size.                            *)
THEOREM Inductive == Spec => []IInv
<1>1. IInv /\ [Next]_vars => IInv'
  BY ScanStep, BuildNothingStep, BuildStartStep, CountStep, CountDoneStep, FillStep,
     FillDoneStep, StutterStep DEF Next, Build, Done
<1> QED
  BY InitIInv, <1>1, PTL DEF Spec

(* Headers read by readBlockHeader are those of blocks, and the counters   *)
(* and array slots of buildBlockChain keep to their types.                 *)
THEOREM ScanTypes == Spec => []TypeOK
BY Inductive, PTL DEF IInv

(* For every content of the files, buildBlockChain stores inside the array *)
(* it allocated, stores every slot once, and leaves none empty.            *)
THEOREM FillsExactly == Spec => []FillInRange
<1>1. IInv => FillInRange
  <2> SUFFICES ASSUME IInv PROVE FillInRange
    OBVIOUS
  <2>1. phase = "filling" /\ found # NoHeader =>
           index \in DOMAIN mBlockChainHeaders /\ mBlockChainHeaders[index] = NoHeader
    BY DEF IInv, TypeOK, Filling
  <2>2. phase = "built" =>
           \A i \in DOMAIN mBlockChainHeaders : mBlockChainHeaders[i] # NoHeader
    BY NoHeaderIsNone DEF IInv, TypeOK, Built, WalkEnded
  <2> QED
    BY <2>1, <2>2 DEF FillInRange
<1> QED
  BY <1>1, Inductive, PTL

(* For every content of the files, what readBlock indexes is a chain: it   *)
(* ends with the last header scanned, each block follows its parent, and   *)
(* it starts where no parent is on disk.                                   *)
THEOREM BuildsChain == Spec => []ChainLinked
<1>1. IInv => ChainLinked
  <2> SUFFICES ASSUME IInv, phase = "built", mBlockCount > 0 PROVE ChainLinked
    BY DEF ChainLinked
  <2>1. /\ mBlockCount = Len(walked)
        /\ WalkEnded
        /\ DOMAIN mBlockChainHeaders = 0..(mBlockCount - 1)
        /\ \A j \in 0..(mBlockCount - 1) : mBlockChainHeaders[j] = walked[mBlockCount - j]
        /\ walked \in Seq(Headers)
        /\ mBlockHeaderSet \subseteq Headers
    BY DEF IInv, TypeOK, Built
  <2>2. mBlockChainHeaders[mBlockCount - 1].hash = mLastBlockHeader.hash
    <3>1. mBlockChainHeaders[mBlockCount - 1] = Lookup(mLastBlockHeader.hash)
      BY <2>1 DEF IInv, WalkLinked
    <3>2. Lookup(mLastBlockHeader.hash) # NoHeader
      BY <2>1, <3>1, NoHeaderIsNone
    <3> QED
      BY <2>1, <3>1, <3>2, LookupFinds
  <2>3. ASSUME NEW i \in 1..(mBlockCount - 1)
        PROVE  mBlockChainHeaders[i].prev = mBlockChainHeaders[i - 1].hash
    <3>1. mBlockChainHeaders[i - 1] = Parent(mBlockChainHeaders[i])
      BY <2>1, <2>3 DEF IInv, WalkLinked
    <3>2. mBlockChainHeaders[i - 1] # NoHeader
      BY <2>1, <2>3, NoHeaderIsNone
    <3> QED
      BY <2>1, <3>1, <3>2, LookupFinds DEF Parent
  <2>4. \A h \in mBlockHeaderSet : h.hash # mBlockChainHeaders[0].prev
    <3>1. Parent(mBlockChainHeaders[0]) = NoHeader
      BY <2>1 DEF WalkEnded
    <3> QED
      BY <2>1, <3>1, LookupFinds DEF Parent
  <2> QED
    BY <2>1, <2>2, <2>3, <2>4 DEF ChainLinked
<1> QED
  BY <1>1, Inductive, PTL

-----------------------------------------------------------------------------
(* A file consists of the cells of its records, one record after the       *)
(* other.                                                                  *)
LEMMA FileCells ==
  ASSUME NEW records \in Seq(Records)
  PROVE  /\ Len(FileOf(records)) = Ends(records)[Len(records)]
         /\ \A k \in 1..Len(records), i \in Nat :
               i >= 1 /\ i <= records[k].cells =>
                  /\ Ends(records)[k - 1] + i \in 1..Len(FileOf(records))
                  /\ FileOf(records)[Ends(records)[k - 1] + i] = CellOf(records[k], i)
         /\ \A p \in 1..Len(FileOf(records)) :
               \E k \in 1..Len(records) :
                  /\ p - Ends(records)[k - 1] \in 1..records[k].cells
                  /\ FileOf(records)[p] = CellOf(records[k], p - Ends(records)[k - 1])
<1> DEFINE n == Len(records)
           End == Ends(records)
           cells == FileOf(records)
           Owner(p) == CHOOSE k \in 1..n : End[k - 1] < p /\ p <= End[k]
<1>1. /\ n \in Nat /\ End[0] = 0 /\ \A k \in 0..n : End[k] \in Nat
      /\ \A j, k \in 0..n : j <= k => End[j] <= End[k]
      /\ \A k \in 1..n : /\ End[k] = End[k - 1] + records[k].cells
                          /\ records[k].cells \in Nat \ {0}
  <2>1. n \in Nat
    OBVIOUS
  <2> HIDE DEF n
  <2> QED
    BY <2>1, EndsAdd DEF n
<1>2. cells = [p \in 1..End[n] |-> CellOf(records[Owner(p)], p - End[Owner(p) - 1])]
  BY DEF FileOf
<1>3. \A p \in 1..End[n] :
         /\ Owner(p) \in 1..n /\ End[Owner(p) - 1] < p /\ p <= End[Owner(p)]
  BY Owners
<1> HIDE DEF End, Owner, cells
<1>4. Len(cells) = End[n]
  <2>1. DOMAIN cells = 1..End[n]
    BY <1>2
  <2>3. DOMAIN cells = 1..Len(cells) /\ Len(cells) \in Nat
    <3>1. cells \in Seq(Cells)
      BY FileTyped DEF cells
    <3> QED
      BY <3>1
  <2>2. Len(cells) \in Nat /\ End[n] \in Nat
    BY <1>1, <2>3
  <2> HIDE DEF n
  <2> QED
    BY <2>1, <2>2, <2>3
<1>5. ASSUME NEW k \in 1..n, NEW i \in Nat, i >= 1, i <= records[k].cells
      PROVE  End[k - 1] + i \in 1..End[n] /\ cells[End[k - 1] + i] = CellOf(records[k], i)
  <2> DEFINE p == End[k - 1] + i
  <2>1. End[k] \in Nat /\ End[k - 1] \in Nat /\ End[k] <= End[n] /\ End[k - 1] < p /\ p <= End[k]
    <3>1. k - 1 \in 0..n /\ k \in 0..n /\ n \in 0..n /\ k <= n
      BY <1>1
    <3>2. End[k] \in Nat /\ End[k - 1] \in Nat /\ End[k] <= End[n]
      BY <1>1, <3>1
    <3>3. End[k] = End[k - 1] + records[k].cells /\ records[k].cells \in Nat
      BY <1>1
    <3> QED
      BY <1>5, <3>2, <3>3, SMTT(30)
  <2>2. p \in 1..End[n]
    BY <1>1, <2>1, SMTT(30)
  <2>3. Owner(p) = k
    <3>1. Owner(p) \in 1..n /\ End[Owner(p) - 1] < p /\ p <= End[Owner(p)]
      BY <1>3, <2>2
    <3>2. ASSUME NEW o \in 1..n, End[o - 1] < p, p <= End[o] PROVE o = k
      <4>1. o - 1 \in 0..n /\ k - 1 \in 0..n /\ o \in 0..n /\ k \in 0..n
        BY <1>1
      <4>2. ASSUME o < k PROVE End[o] <= End[k - 1]
        BY <1>1, <4>1, <4>2
      <4>3. ASSUME k < o PROVE End[k] <= End[o - 1]
        BY <1>1, <4>1, <4>3
      <4>4. End[o] \in Nat /\ End[o - 1] \in Nat
        BY <1>1, <4>1
      <4> QED
        BY <1>1, <2>1, <2>2, <3>2, <4>2, <4>3, <4>4, SMTT(30)
    <3> QED
      BY <3>1, <3>2
  <2>4. p - End[k - 1] = i
    BY <2>1
  <2> HIDE DEF p
  <2>5. cells[p] = CellOf(records[k], i)
    BY <1>2, <2>2, <2>3, <2>4
  <2> QED
    BY <2>2, <2>5 DEF p
<1>6. ASSUME NEW p \in 1..End[n]
      PROVE  \E k \in 1..n : /\ p - End[k - 1] \in 1..records[k].cells
                             /\ cells[p] = CellOf(records[k], p - End[k - 1])
  <2>1. Owner(p) \in 1..n /\ End[Owner(p) - 1] < p /\ p <= End[Owner(p)]
    BY <1>3
  <2>2. ASSUME NEW o \in 1..n, End[o - 1] < p, p <= End[o]
        PROVE  p - End[o - 1] \in 1..records[o].cells
    <3>1. /\ o - 1 \in 0..n
          /\ End[o] = End[o - 1] + records[o].cells /\ records[o].cells \in Nat
      BY <1>1
    <3>2. End[o - 1] \in Nat /\ p \in Nat
      BY <1>1, <3>1
    <3> DEFINE e == End[o - 1]
               c == records[o].cells
    <3>3. e \in Nat /\ c \in Nat /\ e < p /\ p <= e + c
      BY <2>2, <3>1, <3>2
    <3> HIDE DEF e, c
    <3>4. p - e \in 1..c
      BY <3>2, <3>3, SMTT(30)
    <3> QED
      BY <3>4 DEF e, c
  <2>3. cells[p] = CellOf(records[Owner(p)], p - End[Owner(p) - 1])
    BY <1>2
  <2> QED
    BY <2>1, <2>2, <2>3
<1> QED
  BY <1>4, <1>5, <1>6 DEF End, cells

(* What the cell with a number in a record tells of the record.            *)
LEMMA CellKinds ==
  ASSUME NEW r \in Records, NEW i \in Nat, i >= 1
  PROVE  /\ r.block = NoBlock /\ r.word # MagicId => CellOf(r, i) # Magic
         /\ \A b \in Blocks : CellOf(r, i) = PrefixCell(b) => i = 3 /\ r.block = b
         /\ r.block # NoBlock =>
               /\ i = 1 => CellOf(r, i) = Magic
               /\ i = 2 => CellOf(r, i) = LengthCell(r.block)
               /\ i = 3 => CellOf(r, i) = PrefixCell(r.block)
<1>1. /\ \A n : Word(n).kind = "word" /\ Word(n).value = n
      /\ \A b : PrefixCell(b).kind = "prefix" /\ PrefixCell(b).block = b
      /\ Magic = Word(MagicId) /\ \A b : LengthCell(b) = Word(Size[b])
  BY DEF Word, PrefixCell, Magic, LengthCell
<1>2. CASE r.block = NoBlock \/ i > 3
  <2>1. CellOf(r, i) = Word(r.word)
    BY <1>2 DEF CellOf
  <2> QED
    BY <1>1, <1>2, <2>1
<1>3. CASE ~(r.block = NoBlock \/ i > 3)
  <2>1. /\ i = 1 => CellOf(r, i) = Magic
        /\ i = 2 => CellOf(r, i) = LengthCell(r.block)
        /\ i = 3 => CellOf(r, i) = PrefixCell(r.block)
    BY <1>3 DEF CellOf
  <2>2. i = 1 \/ i = 2 \/ i = 3
    BY <1>3
  <2> QED
    BY <1>1, <1>3, <2>1, <2>2
<1> QED
  BY <1>2, <1>3

-----------------------------------------------------------------------------
(* The files hold what was written, also while they are read.              *)
OnDisk == /\ layout \in Layouts
          /\ disk = [f \in DOMAIN layout |-> FileOf(layout[f])]

(* A header with the hash of a block is that of a record of the block, and *)
(* one with another hash comes from a file with a header that is broken.   *)
LEMMA HeaderSound ==
  ASSUME OnDisk, NEW header, NEW f, NEW p, ReadAt(header, f, p)
  PROVE  \/ header \in {HeaderOf(place) : place \in BlockPlaces}
         \/ header.hash \in Junk /\ ~HeadersWhole(disk[header.file + 1])
<1> DEFINE records == layout[f]
           End == Ends(records)
           cells == FileOf(records)
           b == header.hash
<1>1. layout \in Seq(Seq(Records)) /\ disk \in Seq(Seq(Cells))
  BY LayoutAssumption, DiskTyped DEF OnDisk, DiskOK
<1>2. /\ f \in DOMAIN layout /\ records \in Seq(Records) /\ cells \in Seq(Cells)
      /\ disk[f] = cells
  <2>1. DOMAIN disk = DOMAIN layout
    BY DEF OnDisk
  <2>2. DOMAIN layout = 1..Len(layout) /\ f \in DOMAIN layout
    BY <1>1, <2>1 DEF ReadAt
  <2>3. records \in Seq(Records)
    BY <1>1, <2>2
  <2> QED
    BY <2>2, <2>3, FileTyped DEF OnDisk
<1> HIDE DEF records, cells
<1>3. /\ f \in Nat /\ p \in Nat /\ p \in 1..(Len(cells) - 2) /\ cells[p] = Magic
      /\ p + 2 \in 1..Len(cells)
      /\ header = [hash |-> b, prev |-> Prev[b], file |-> f - 1, offset |-> p + 1,
                   length |-> cells[p + 1].value]
  <2>1. Len(disk) \in Nat /\ Len(cells) \in Nat
    BY <1>1, <1>2, SMTT(30)
  <2>2. /\ f \in 1..Len(disk) /\ p \in 1..Len(cells) /\ p + 2 <= Len(cells)
        /\ cells[p] = Magic
    BY <1>2 DEF ReadAt
  <2>3. header = [hash |-> b, prev |-> Prev[b], file |-> f - 1, offset |-> p + 1,
                  length |-> cells[p + 1].value]
    BY <1>2 DEF ReadAt
  <2> DEFINE n == Len(cells)
  <2> HIDE DEF n, b
  <2>4. f \in Nat /\ p \in Nat /\ p \in 1..(n - 2) /\ p + 2 \in 1..n
    BY <2>1, <2>2 DEF n
  <2> QED
    BY <2>2, <2>3, <2>4 DEF n, b
<1>4. CASE b \in Junk /\ \A c \in Blocks : cells[p + 2] # PrefixCell(c)
  <2>1. ~HeadersWhole(cells)
    BY <1>3, <1>4 DEF HeadersWhole
  <2>2. header.file + 1 = f
    BY <1>3
  <2> QED
    BY <1>2, <1>4, <2>1, <2>2
<1>5. CASE b \in Blocks /\ cells[p + 2] = PrefixCell(b)
  <2>1. PICK k \in 1..Len(records) :
           /\ (p + 2) - End[k - 1] \in 1..records[k].cells
           /\ cells[p + 2] = CellOf(records[k], (p + 2) - End[k - 1])
    BY <1>2, <1>3, FileCells DEF cells
  <2>2. records[k] \in Records /\ records[k].cells \in Nat /\ End[k - 1] \in Nat
        /\ k \in DOMAIN records
    <3>1. k - 1 \in 0..Len(records)
      BY <1>2
    <3> QED
      BY <1>2, <3>1, EndsAdd, SMTT(30)
  <2>3. (p + 2) - End[k - 1] = 3 /\ records[k].block = b
    <3> DEFINE i == (p + 2) - End[k - 1]
    <3>1. i \in Nat /\ i >= 1
      BY <1>3, <2>1, <2>2, SMTT(30)
    <3>2. CellOf(records[k], i) = PrefixCell(b)
      BY <1>5, <2>1
    <3> HIDE DEF i, b
    <3>3. i = 3 /\ records[k].block = b
      BY <1>5, <2>2, <3>1, <3>2, CellKinds
    <3> QED
      BY <3>3 DEF i
  <2>4. p = End[k - 1] + 1 /\ p + 1 = End[k - 1] + 2 /\ 2 <= records[k].cells
    <3> DEFINE e == End[k - 1]
    <3>1. p \in Nat /\ e \in Nat /\ (p + 2) - e = 3
      BY <1>3, <2>2, <2>3
    <3>2. records[k].cells \in Nat /\ 3 \in 1..records[k].cells
      BY <2>1, <2>2, <2>3
    <3> HIDE DEF e
    <3>3. p = e + 1 /\ p + 1 = e + 2
      BY <3>1
    <3> QED
      BY <3>2, <3>3 DEF e
  <2>5. <<f, k>> \in BlockPlaces
    BY <1>2, <1>5, <2>2, <2>3, ScanAssumption DEF BlockPlaces, Places, RecordAt, records, Hashes
  <2>6. cells[p + 1].value = Size[b]
    <3>1. cells[End[k - 1] + 2] = CellOf(records[k], 2)
      BY <1>2, <2>4, FileCells DEF cells
    <3>2. records[k].block # NoBlock
      BY <1>5, <2>3, ScanAssumption DEF Hashes
    <3>3. CellOf(records[k], 2) = LengthCell(records[k].block)
      BY <2>2, <3>2, CellKinds
    <3>4. LengthCell(b).value = Size[b]
      BY DEF LengthCell, Word
    <3> QED
      BY <2>3, <2>4, <3>1, <3>3, <3>4
  <2>7. header = HeaderOf(<<f, k>>)
    BY <1>3, <2>3, <2>4, <2>6 DEF HeaderOf, RecordAt, records
  <2> QED
    BY <2>5, <2>7
<1> QED
  BY <1>2, <1>4, <1>5 DEF ReadAt

SoundInv == IInv /\ OnDisk /\ ScanSound

(* What is stored keeps to what was written.                               *)
LEMMA SoundStep == SoundInv /\ [Next]_vars => ScanSound' /\ OnDisk'
<1> SUFFICES ASSUME SoundInv, [Next]_vars PROVE ScanSound' /\ OnDisk'
  OBVIOUS
<1> USE DEF fixed, scanVars, SoundInv
<1>1. UNCHANGED fixed
  BY DEF Next, Scan, Build, Done, vars, ScanBlock, ScanLimit, ScanEnd, ScanAsserts, BuildNothing,
         BuildStart, Count, CountDone, Fill, FillDone
<1>2. OnDisk'
  BY <1>1 DEF OnDisk
<1>3. /\ {HeaderOf(place) : place \in BlockPlaces}' = {HeaderOf(place) : place \in BlockPlaces}
      /\ disk' = disk
  BY <1>1 DEF HeaderOf, BlockPlaces, Places, RecordAt
<1>4. CASE ScanBlock \/ ScanLimit
  <2>1. PICK header \in NextHeaders : ReadHeader(header)
    BY <1>4 DEF ScanBlock, ScanLimit
  <2>2. PICK f, p : ReadAt(header, f, p)
    BY <2>1, HeadersRead DEF IInv, TypeOK
  <2>3. \/ header \in {HeaderOf(place) : place \in BlockPlaces}
        \/ header.hash \in Junk /\ ~HeadersWhole(disk[header.file + 1])
    BY <2>2, HeaderSound
  <2>4. mBlockHeaderSet' \subseteq mBlockHeaderSet \cup {header}
    BY <2>1 DEF ReadHeader, Insert
  <2> QED
    BY <1>2, <1>3, <2>3, <2>4 DEF ScanSound
<1>5. CASE ~(ScanBlock \/ ScanLimit)
  <2>1. mBlockHeaderSet' = mBlockHeaderSet
    BY <1>5 DEF Next, Scan, Build, Done, vars, ScanEnd, ScanAsserts, BuildNothing, BuildStart,
                Count, CountDone, Fill, FillDone
  <2> QED
    BY <1>2, <1>3, <2>1 DEF ScanSound
<1> QED
  BY <1>4, <1>5

(* For every content of the files, headers that are cut off and magic ids  *)
(* in payloads included, a header that is stored with the hash of a block  *)
(* is that of a record of it, with the place and the length that readBlock *)
(* will seek and read; any other header that is stored has the hash of no  *)
(* block and comes from a file with a broken header.                       *)
THEOREM HeadersAreSound == Spec => []ScanSound
<1>1. Init => OnDisk /\ ScanSound
  BY DEF Init, OnDisk, ScanSound
<1>2. Spec => []SoundInv
  BY <1>1, SoundStep, Inductive, PTL DEF Spec, SoundInv
<1> QED
  BY <1>2, PTL DEF SoundInv

-----------------------------------------------------------------------------
(* The blocks among the first so many records of a file, and in the files  *)
(* before it.                                                              *)
Passed(file, j) ==
    {place \in BlockPlaces : place[1] < file \/ (place[1] = file /\ place[2] <= j)}

(* The scan stands behind that many records of this file, and has stored   *)
(* the first copy of each block that it has passed.                        *)
Scanned(file, j) ==
    /\ mBlockIndex = file - 1
    /\ position = Ends(layout[file])[j]
    /\ mScanCount = Cardinality(Passed(file, j))
    /\ \A place \in Passed(file, j) : \E h \in mBlockHeaderSet : h.hash = RecordAt(place).block
    /\ mBlockHeaderSet = {HeaderOf(place) : place \in FirstCopies \cap Passed(file, j)}

CleanScan ==
    phase = "scanning" /\ Clean =>
        \/ layout = << >> /\ mBlockHeaderSet = {}
        \/ \E file \in DOMAIN layout : \E j \in 0..Len(layout[file]) : Scanned(file, j)

CompleteInv == SoundInv /\ CleanScan /\ ScanComplete

(* The blocks on disk, as pairs of a file and a record.                    *)
LEMMA BlockPairs ==
  ASSUME OnDisk
  PROVE  /\ layout \in Seq(Seq(Records)) /\ DOMAIN layout = 1..Len(layout)
         /\ Len(layout) \in Nat
         /\ \A f \in DOMAIN layout :
               /\ layout[f] \in Seq(Records) /\ DOMAIN layout[f] = 1..Len(layout[f])
               /\ Len(layout[f]) \in Nat
         /\ \A place \in BlockPlaces :
               \E f \in DOMAIN layout : \E k \in 1..Len(layout[f]) :
                  place = <<f, k>> /\ layout[f][k].block # NoBlock
         /\ \A f \in DOMAIN layout : \A k \in 1..Len(layout[f]) :
               <<f, k>> \in BlockPlaces <=> layout[f][k].block # NoBlock
<1>1. layout \in Seq(Seq(Records)) /\ DOMAIN layout = 1..Len(layout) /\ Len(layout) \in Nat
  BY LayoutAssumption DEF OnDisk
<1>2. ASSUME NEW f \in DOMAIN layout
      PROVE  /\ layout[f] \in Seq(Records) /\ DOMAIN layout[f] = 1..Len(layout[f])
             /\ Len(layout[f]) \in Nat
  <2>1. layout[f] \in Seq(Records)
    BY <1>1
  <2> QED
    BY <2>1
<1>3. ASSUME NEW place \in BlockPlaces
      PROVE  \E f \in DOMAIN layout : \E k \in 1..Len(layout[f]) :
                place = <<f, k>> /\ layout[f][k].block # NoBlock
  <2>1. PICK f \in DOMAIN layout : place \in {f} \X DOMAIN layout[f]
    BY DEF BlockPlaces, Places
  <2>2. PICK k \in DOMAIN layout[f] : place = <<f, k>>
    BY <2>1
  <2>3. layout[f][k].block # NoBlock
    BY <2>2 DEF BlockPlaces, RecordAt
  <2> QED
    BY <1>2, <2>2, <2>3
<1>4. ASSUME NEW f \in DOMAIN layout, NEW k \in 1..Len(layout[f])
      PROVE  <<f, k>> \in BlockPlaces <=> layout[f][k].block # NoBlock
  <2>1. <<f, k>> \in Places
    BY <1>2 DEF Places
  <2> QED
    BY <2>1 DEF BlockPlaces, RecordAt
<1> QED
  BY <1>1, <1>2, <1>3, <1>4

(* There are finitely many blocks on disk.                                 *)
LEMMA BlocksFinite ==
  ASSUME OnDisk
  PROVE  IsFiniteSet(BlockPlaces)
<1> DEFINE In(m) == {place \in BlockPlaces : place[1] <= m}
           S == {m \in Nat : m <= Len(layout) => IsFiniteSet(In(m))}
<1>1. 0 \in S
  <2>1. In(0) = {}
    BY BlockPairs
  <2> QED
    BY <2>1, FS_EmptySet
<1>2. ASSUME NEW m \in Nat, m \in S PROVE m + 1 \in S
  <2> HIDE DEF In
  <2> SUFFICES ASSUME m + 1 <= Len(layout) PROVE IsFiniteSet(In(m + 1))
    OBVIOUS
  <2> USE DEF In
  <2>1. /\ m + 1 \in DOMAIN layout /\ Len(layout[m + 1]) \in Nat
        /\ DOMAIN layout = 1..Len(layout)
    BY BlockPairs
  <2>2. IsFiniteSet(In(m))
    BY <1>2, <2>1, BlockPairs
  <2>3. IsFiniteSet({m + 1} \X (1..Len(layout[m + 1])))
    <3>1. IsFiniteSet(1..Len(layout[m + 1]))
      BY <2>1, FS_Interval
    <3> QED
      BY <3>1, FS_Product, FS_Singleton
  <2>4. In(m + 1) \subseteq In(m) \cup {m + 1} \X (1..Len(layout[m + 1]))
    <3> SUFFICES ASSUME NEW place \in In(m + 1), place \notin In(m)
                 PROVE  place \in {m + 1} \X (1..Len(layout[m + 1]))
      OBVIOUS
    <3>1. PICK f \in DOMAIN layout : \E k \in 1..Len(layout[f]) : place = <<f, k>>
      BY BlockPairs
    <3>2. f = m + 1
      BY <2>1, <3>1, SMTT(30)
    <3> QED
      BY <3>1, <3>2
  <2> HIDE DEF In
  <2> QED
    BY <2>2, <2>3, <2>4, FS_Union, FS_Subset
<1>3. Len(layout) \in S
  <2> HIDE DEF S
  <2>1. Nat \subseteq S
    BY <1>1, <1>2, SetInduction
  <2> QED
    BY <2>1, BlockPairs
<1>4. In(Len(layout)) = BlockPlaces
  BY BlockPairs
<1>5. Len(layout) <= Len(layout)
  BY BlockPairs
<1> HIDE DEF In
<1> QED
  BY <1>3, <1>4, <1>5

(* Where the scan finds cells, magic ids and headers.                      *)
LEMMA DiskCells ==
  ASSUME OnDisk, NEW f \in DOMAIN layout
  PROVE  /\ \A p \in Nat : Readable(f - 1, p) <=> p < Ends(layout[f])[Len(layout[f])]
         /\ \A k \in 1..Len(layout[f]) :
               /\ layout[f][k].block # NoBlock => IsMagic(f - 1, Ends(layout[f])[k - 1])
               /\ layout[f][k].block = NoBlock /\ layout[f][k].word # MagicId =>
                     \A p \in Nat : Ends(layout[f])[k - 1] <= p /\ p < Ends(layout[f])[k] =>
                        ~IsMagic(f - 1, p)
               /\ \A i \in Nat : i >= 1 /\ i <= layout[f][k].cells =>
                     /\ Cell(f - 1, Ends(layout[f])[k - 1] + (i - 1)) = CellOf(layout[f][k], i)
                     /\ Readable(f - 1, Ends(layout[f])[k - 1] + (i - 1))
<1> DEFINE records == layout[f]
           End == Ends(records)
           n == Len(records)
<1>1. /\ DOMAIN layout = 1..Len(layout) /\ Len(layout) \in Nat
      /\ records \in Seq(Records) /\ n \in Nat
  BY BlockPairs
<1>2. FileOf(records) \in Seq(Cells) /\ disk[f] = FileOf(records)
  BY <1>1, FileTyped DEF OnDisk
<1>3. Len(disk) = Len(layout)
  <2>1. disk = [g \in 1..Len(layout) |-> FileOf(layout[g])]
    BY <1>1 DEF OnDisk
  <2> QED
    BY <1>1, <2>1
<1>4. f \in Nat /\ f - 1 < Len(disk) /\ f - 1 + 1 = f
  BY <1>1, <1>3
<1> HIDE DEF records, n
<1>5. Len(disk[f]) = End[n]
  BY <1>1, <1>2, FileCells DEF n
<1>6. ASSUME NEW p \in Nat PROVE Readable(f - 1, p) <=> p < End[n]
  BY <1>4, <1>5 DEF Readable
<1>7. ASSUME NEW k \in 1..n, NEW i \in Nat, i >= 1, i <= records[k].cells
      PROVE  /\ Cell(f - 1, End[k - 1] + (i - 1)) = CellOf(records[k], i)
             /\ Readable(f - 1, End[k - 1] + (i - 1)) /\ End[k - 1] \in Nat
  <2>1. End[k - 1] \in Nat
    <3>1. k - 1 \in 0..n
      BY <1>1
    <3> QED
      BY <1>1, <3>1, EndsAdd DEF n
  <2>2. /\ End[k - 1] + i \in 1..Len(FileOf(records))
        /\ FileOf(records)[End[k - 1] + i] = CellOf(records[k], i)
    BY <1>1, <1>2, <1>7, FileCells DEF n
  <2>3. /\ (End[k - 1] + (i - 1)) + 1 = End[k - 1] + i /\ End[k - 1] + (i - 1) \in Nat
        /\ End[k - 1] + (i - 1) < Len(FileOf(records))
    BY <2>1, <2>2, SMTT(30)
  <2> QED
    BY <1>2, <1>4, <2>1, <2>2, <2>3 DEF Cell, Readable
<1>8. ASSUME NEW k \in 1..n, records[k].block # NoBlock PROVE IsMagic(f - 1, End[k - 1])
  <2>1. records[k] \in Records /\ records[k].cells \in Nat \ {0}
    BY <1>1, EndsAdd DEF n
  <2>2. /\ Cell(f - 1, End[k - 1] + (1 - 1)) = CellOf(records[k], 1)
        /\ Readable(f - 1, End[k - 1] + (1 - 1)) /\ End[k - 1] \in Nat
    BY <1>7, <2>1
  <2>3. End[k - 1] + (1 - 1) = End[k - 1]
    BY <2>2
  <2> QED
    BY <1>8, <2>1, <2>2, <2>3, CellKinds DEF IsMagic
<1>9. ASSUME NEW k \in 1..n, records[k].block = NoBlock, records[k].word # MagicId,
             NEW p \in Nat, End[k - 1] <= p, p < End[k]
      PROVE  ~IsMagic(f - 1, p)
  <2> DEFINE i == p - End[k - 1] + 1
  <2>1. /\ records[k] \in Records /\ records[k].cells \in Nat \ {0}
        /\ End[k] = End[k - 1] + records[k].cells
    BY <1>1, EndsAdd DEF n
  <2>2. End[k - 1] \in Nat
    <3>1. k - 1 \in 0..n
      BY <1>1
    <3> QED
      BY <1>1, <3>1, EndsAdd DEF n
  <2>3. i \in Nat /\ i >= 1 /\ i <= records[k].cells /\ End[k - 1] + (i - 1) = p
    BY <1>9, <2>1, <2>2
  <2> HIDE DEF i
  <2>4. Cell(f - 1, p) = CellOf(records[k], i)
    <3>1. Cell(f - 1, End[k - 1] + (i - 1)) = CellOf(records[k], i)
      BY <1>7, <2>3
    <3> QED
      BY <2>3, <3>1
  <2> QED
    BY <1>9, <2>1, <2>3, <2>4, CellKinds DEF IsMagic
<1> QED
  BY <1>6, <1>7, <1>8, <1>9 DEF records, n

(* Behind the magic id of a whole block stands its header, and its length  *)
(* leads to the record behind it.                                          *)
LEMMA CleanBlock ==
  ASSUME OnDisk, Clean, NEW f \in DOMAIN layout, NEW k \in 1..Len(layout[f]),
         layout[f][k].block # NoBlock
  PROVE  /\ HasHeader(f - 1, Ends(layout[f])[k - 1])
         /\ IsPrefix(f - 1, Ends(layout[f])[k - 1] + 2)
         /\ {HeaderBehind(f - 1, Ends(layout[f])[k - 1], hash) :
                hash \in HashesAt(f - 1, Ends(layout[f])[k - 1] + 2)} = {HeaderOf(<<f, k>>)}
         /\ HeaderOf(<<f, k>>).file = f - 1
         /\ PositionAfter(HeaderOf(<<f, k>>)) = Ends(layout[f])[k]
<1> DEFINE r == layout[f][k]
           start == Ends(layout[f])[k - 1]
<1>1. /\ layout[f] \in Seq(Records) /\ DOMAIN layout[f] = 1..Len(layout[f])
      /\ Len(layout[f]) \in Nat
  BY BlockPairs
<1>2. r \in Records /\ r.block \in Blocks
  <2>1. r \in Records
    BY <1>1
  <2>2. r.block \in Blocks \cup {NoBlock}
    BY <2>1 DEF Records
  <2> QED
    BY <2>1, <2>2
<1>3. /\ r.cells = Size[r.block] + 2 /\ Size[r.block] < MaxBlockSize
      /\ Size[r.block] \in Nat \ {0}
  BY <1>1, <1>2, ScanAssumption DEF Clean, FullSize
<1>4. start \in Nat /\ Ends(layout[f])[k] = start + r.cells
  <2>1. k - 1 \in 0..Len(layout[f])
    BY <1>1
  <2> QED
    BY <1>1, <2>1, EndsAdd
<1>5. /\ Cell(f - 1, start + (2 - 1)) = CellOf(r, 2)
      /\ Cell(f - 1, start + (3 - 1)) = CellOf(r, 3)
      /\ Readable(f - 1, start + (3 - 1))
  <2>1. 2 <= r.cells /\ 3 <= r.cells
    BY <1>3, SMTT(30)
  <2> QED
    BY <2>1, DiskCells
<1>6. CellOf(r, 2) = LengthCell(r.block) /\ CellOf(r, 3) = PrefixCell(r.block)
  BY <1>2, CellKinds
<1>7. /\ Cell(f - 1, start + 1) = LengthCell(r.block)
      /\ Cell(f - 1, start + 2) = PrefixCell(r.block)
      /\ Readable(f - 1, start + 2)
  <2>1. start + (2 - 1) = start + 1 /\ start + (3 - 1) = start + 2
    BY <1>4
  <2> QED
    BY <1>5, <1>6, <2>1
<1>8. LengthCell(r.block).value = Size[r.block] /\ PrefixCell(r.block).block = r.block
  BY DEF LengthCell, PrefixCell, Word
<1>9. HasHeader(f - 1, start)
  BY <1>3, <1>7, <1>8 DEF HasHeader
<1>10. /\ IsPrefix(f - 1, start + 2)
       /\ HashesAt(f - 1, start + 2) = {r.block}
       /\ HeaderBehind(f - 1, start, r.block) = HeaderOf(<<f, k>>)
  BY <1>2, <1>7, <1>8 DEF IsPrefix, HashesAt, HeaderBehind, HeaderOf, RecordAt
<1>11. HeaderOf(<<f, k>>).file = f - 1 /\ PositionAfter(HeaderOf(<<f, k>>)) = start + 2 + Size[r.block]
  BY DEF HeaderOf, RecordAt, PositionAfter
<1>12. PositionAfter(HeaderOf(<<f, k>>)) = Ends(layout[f])[k]
  BY <1>3, <1>4, <1>11, SMTT(30)
<1> HIDE DEF start, r
<1>13. {HeaderBehind(f - 1, start, hash) : hash \in HashesAt(f - 1, start + 2)}
          = {HeaderOf(<<f, k>>)}
  BY <1>10
<1> QED
  BY <1>9, <1>10, <1>11, <1>12, <1>13 DEF start

(* The header of this record is the next that is read.                     *)
NextIs(f, k) ==
    /\ NextHeaders = {HeaderOf(<<f, k>>)} /\ ~NoHeaderRead
    /\ HeaderOf(<<f, k>>).file = f - 1
    /\ PositionAfter(HeaderOf(<<f, k>>)) = Ends(layout[f])[k]

(* It is, when the scan finds the magic id of that record.                 *)
LEMMA NextStarts ==
  ASSUME OnDisk, Clean, NEW f \in DOMAIN layout, NEW k \in 1..Len(layout[f]),
         layout[f][k].block # NoBlock,
         BlockStarts = {<<f - 1, Ends(layout[f])[k - 1]>>}
  PROVE  NextIs(f, k)
<1> DEFINE g == f - 1
           p == Ends(layout[f])[k - 1]
<1>1. /\ HasHeader(g, p) /\ IsPrefix(g, p + 2)
      /\ {HeaderBehind(g, p, hash) : hash \in HashesAt(g, p + 2)} = {HeaderOf(<<f, k>>)}
      /\ HeaderOf(<<f, k>>).file = f - 1
      /\ PositionAfter(HeaderOf(<<f, k>>)) = Ends(layout[f])[k]
  BY CleanBlock, Zenon
<1>2. BlockStarts = {<<g, p>>}
  OBVIOUS
<1> HIDE DEF g, p
<1>3. /\ {start \in BlockStarts : HasHeader(start[1], start[2])} = {<<g, p>>}
      /\ ~NoHeaderRead
  <2>1. <<g, p>>[1] = g /\ <<g, p>>[2] = p
    OBVIOUS
  <2> QED
    BY <1>1, <1>2, <2>1 DEF NoHeaderRead
<1> DEFINE Read(start) == {HeaderBehind(start[1], start[2], hash) :
                             hash \in HashesAt(start[1], start[2] + 2)}
<1>4. NextHeaders = {HeaderBehind(g, p, hash) : hash \in HashesAt(g, p + 2)}
  <2>1. NextHeaders = UNION {Read(start) : start \in {<<g, p>>}}
    BY <1>3, Zenon DEF NextHeaders
  <2>2. Read(<<g, p>>) = {HeaderBehind(g, p, hash) : hash \in HashesAt(g, p + 2)}
    OBVIOUS
  <2> HIDE DEF Read
  <2> QED
    BY <2>1, <2>2
<1> QED
  BY <1>1, <1>3, <1>4 DEF NextIs

(* Between two blocks of a clean file lies at most one padding, shorter    *)
(* than the search window.                                                 *)
LEMMA CleanFile ==
  ASSUME OnDisk, Clean, NEW f \in DOMAIN layout
  PROVE  /\ Len(layout[f]) >= 1 /\ layout[f][1].block # NoBlock
         /\ \A k \in 1..Len(layout[f]) :
               layout[f][k].block = NoBlock =>
                  /\ layout[f][k].word # MagicId
                  /\ k < Len(layout[f]) => /\ layout[f][k].cells < MaxBlockSize
                                           /\ layout[f][k + 1].block # NoBlock
<1>1. /\ layout[f] \in Seq(Records) /\ DOMAIN layout[f] = 1..Len(layout[f])
      /\ Len(layout[f]) \in Nat
  BY BlockPairs
<1>2. layout[f] # << >> /\ layout[f][1].block # NoBlock
  BY DEF Clean
<1>3. \A k \in 1..Len(layout[f]) :
         layout[f][k].block = NoBlock =>
            /\ layout[f][k].word # MagicId
            /\ k < Len(layout[f]) => /\ layout[f][k].cells < MaxBlockSize
                                     /\ layout[f][k + 1].block # NoBlock
  BY <1>1 DEF Clean
<1> QED
  BY <1>1, <1>2, <1>3

(* From behind a record the scan starts at the block that follows, behind  *)
(* a padding or not, or else at the next file, or nowhere.                 *)
LEMMA StartsFound ==
  ASSUME OnDisk, Clean, NEW file \in DOMAIN layout, NEW j \in 0..Len(layout[file]),
         mBlockIndex = file - 1, position = Ends(layout[file])[j]
  PROVE  LET n == Len(layout[file])
         IN  \/ /\ j < n /\ layout[file][j + 1].block # NoBlock
                /\ BlockStarts = {<<file - 1, Ends(layout[file])[j]>>}
             \/ /\ j + 1 < n /\ layout[file][j + 1].block = NoBlock
                /\ layout[file][j + 2].block # NoBlock
                /\ BlockStarts = {<<file - 1, Ends(layout[file])[j + 1]>>}
             \/ /\ j = n \/ (j + 1 = n /\ layout[file][j + 1].block = NoBlock)
                /\ IF file + 1 \in DOMAIN layout THEN BlockStarts = {<<file, 0>>}
                                                 ELSE BlockStarts = {}
<1> DEFINE n == Len(layout[file])
           End == Ends(layout[file])
<1>1. /\ DOMAIN layout = 1..Len(layout) /\ Len(layout) \in Nat /\ n \in Nat
      /\ layout[file] \in Seq(Records) /\ file \in Nat
  BY BlockPairs
<1>2. /\ \A k \in 0..n : End[k] \in Nat
      /\ \A k \in 1..n : /\ End[k] = End[k - 1] + layout[file][k].cells
                         /\ layout[file][k].cells \in Nat \ {0}
                         /\ End[k - 1] < End[k]
      /\ \A i, k \in 0..n : i <= k => End[i] <= End[k]
  BY <1>1, EndsAdd
<1>3. \A p \in Nat : Readable(file - 1, p) <=> p < End[n]
  BY DiskCells
<1>4. IF file + 1 \in DOMAIN layout THEN IsMagic(file, 0) ELSE \A p : ~Readable(file, p)
  <2>1. CASE file + 1 \in DOMAIN layout
    <3>1. /\ layout[file + 1][1].block # NoBlock
          /\ 1 \in 1..Len(layout[file + 1]) /\ layout[file + 1] \in Seq(Records)
      BY <2>1, CleanFile, BlockPairs
    <3>2. IsMagic((file + 1) - 1, Ends(layout[file + 1])[1 - 1])
      BY <2>1, <3>1, DiskCells
    <3>3. (file + 1) - 1 = file /\ 1 - 1 = 0 /\ Ends(layout[file + 1])[0] = 0
      BY <1>1, <3>1, EndsAdd
    <3> QED
      BY <2>1, <3>2, <3>3
  <2>2. CASE file + 1 \notin DOMAIN layout
    <3>1. Len(disk) = Len(layout)
      <4>1. disk = [g \in 1..Len(layout) |-> FileOf(layout[g])]
        BY <1>1 DEF OnDisk
      <4> QED
        BY <1>1, <4>1
    <3>2. ~(file < Len(disk))
      BY <1>1, <2>2, <3>1, SMTT(30)
    <3> QED
      BY <2>2, <3>2 DEF Readable
  <2> QED
    BY <2>1, <2>2
<1>5. IsMagic(file, 0) => Readable(file, 0)
  BY DEF IsMagic
<1> DEFINE at == NextCell
<1>6. CASE j = n
  <2>1. ~Readable(mBlockIndex, position)
    BY <1>1, <1>2, <1>3, <1>6
  <2>2. at = [file |-> file, start |-> 0, search |-> 1]
    BY <1>1, <2>1 DEF NextCell
  <2>3. at.file = file /\ at.start = 0
    BY <2>2
  <2> HIDE DEF at
  <2>4. CASE file + 1 \in DOMAIN layout
    <3>1. IsMagic(at.file, at.start) /\ Readable(at.file, at.start)
      BY <1>4, <1>5, <2>3, <2>4
    <3>2. Candidates(at) = {<<file, 0>>}
      BY <2>3, <3>1 DEF Candidates
    <3>3. BlockStarts = {<<file, 0>>}
      BY <2>3, <3>1, <3>2 DEF BlockStarts, at
    <3> QED
      BY <1>6, <2>4, <3>3
  <2>5. CASE file + 1 \notin DOMAIN layout
    <3>1. BlockStarts = {}
      BY <1>4, <2>3, <2>5 DEF BlockStarts, at
    <3> QED
      BY <1>6, <2>5, <3>1
  <2> QED
    BY <2>4, <2>5
<1>7. CASE j < n
  <2> DEFINE r == layout[file][j + 1]
  <2>1. /\ j \in Nat /\ j + 1 \in 1..n /\ (j + 1) - 1 = j /\ j \in 0..n /\ j + 1 \in 0..n
        /\ n \in 0..n
    BY <1>1, <1>7
  <2>2. /\ End[j] \in Nat /\ End[j + 1] \in Nat /\ End[n] \in Nat
        /\ End[j + 1] = End[j] + r.cells /\ r.cells \in Nat \ {0}
        /\ End[j] < End[j + 1] /\ End[j + 1] <= End[n]
    BY <1>1, <1>2, <2>1, SMTT(30)
  <2>3. Readable(mBlockIndex, position) /\ at = [file |-> file - 1, start |-> End[j],
                                                 search |-> End[j]]
    BY <1>3, <2>2, SMTT(30) DEF NextCell
  <2>4. at.file = file - 1 /\ at.start = End[j] /\ at.search = End[j]
        /\ Readable(at.file, at.start)
    BY <2>3
  <2> HIDE DEF at
  <2>5. CASE r.block # NoBlock
    <3>1. IsMagic(file - 1, End[j])
      BY <2>1, <2>5, DiskCells
    <3>2. Candidates(at) = {<<file - 1, End[j]>>}
      BY <2>4, <3>1 DEF Candidates
    <3>3. BlockStarts = {<<file - 1, End[j]>>}
      BY <2>4, <3>1, <3>2 DEF BlockStarts, at
    <3> QED
      BY <1>7, <2>5, <3>3
  <2>6. CASE r.block = NoBlock
    <3>1. \A p \in Nat : End[j] <= p /\ p < End[j + 1] => ~IsMagic(file - 1, p)
      <4>1. r.word # MagicId
        BY <2>1, <2>6, CleanFile
      <4> QED
        BY <2>1, <2>6, <4>1, DiskCells
    <3>2. ~IsMagic(at.file, at.start)
      BY <2>2, <2>4, <3>1
    <3>3. \A q \in Hits(at) : q \in Nat /\ q >= End[j + 1] /\ IsMagic(file - 1, q)
      BY <2>2, <2>4, <3>1, ScanAssumption DEF Hits
    <3>4. CASE j + 1 < n
      <4>1. r.cells < MaxBlockSize /\ layout[file][j + 2].block # NoBlock
        <5>1. (j + 1) + 1 = j + 2
          BY <2>1
        <5> QED
          BY <2>1, <2>6, <3>4, <5>1, CleanFile
      <4>2. IsMagic(file - 1, End[j + 1])
        <5>1. j + 2 \in 1..n /\ (j + 2) - 1 = j + 1
          BY <2>1, <3>4
        <5> QED
          BY <4>1, <5>1, DiskCells
      <4>3. End[j + 1] \in Hits(at)
        BY <2>2, <2>4, <4>1, <4>2, ScanAssumption DEF Hits
      <4>4. {p \in Hits(at) : \A q \in Hits(at) : p <= q} = {End[j + 1]}
        <5>1. ASSUME NEW p \in Hits(at), \A q \in Hits(at) : p <= q PROVE p = End[j + 1]
          BY <2>2, <3>3, <4>3, <5>1
        <5> QED
          BY <3>3, <4>3, <5>1
      <4>5. Candidates(at) = {<<file - 1, End[j + 1]>>}
        BY <2>4, <3>2, <4>3, <4>4 DEF Candidates
      <4>6. BlockStarts = {<<file - 1, End[j + 1]>>}
        BY <2>4, <4>2, <4>5 DEF BlockStarts, at
      <4> QED
        BY <2>6, <3>4, <4>1, <4>6
    <3>5. CASE ~(j + 1 < n)
      <4>1. j + 1 = n
        BY <1>1, <1>7, <2>1, <3>5
      <4>2. Hits(at) = {}
        <5> SUFFICES ASSUME NEW q \in Hits(at) PROVE FALSE
          OBVIOUS
        <5>1. q \in Nat /\ q >= End[n] /\ Readable(file - 1, q)
          BY <3>3, <4>1 DEF IsMagic
        <5> QED
          BY <1>3, <2>2, <5>1
      <4>3. Candidates(at) = {<<file, 0>>}
        <5>1. at.file + 1 = file
          BY <1>1, <2>4
        <5> QED
          BY <3>2, <4>2, <5>1 DEF Candidates
      <4>4. CASE file + 1 \in DOMAIN layout
        <5>1. BlockStarts = {<<file, 0>>}
          BY <1>4, <2>4, <4>3, <4>4 DEF BlockStarts, at
        <5> QED
          BY <2>6, <4>1, <4>4, <5>1
      <4>5. CASE file + 1 \notin DOMAIN layout
        <5>1. BlockStarts = {}
          BY <1>4, <4>3, <4>5 DEF BlockStarts, at, IsMagic
        <5> QED
          BY <2>6, <4>1, <4>5, <5>1
      <4> QED
        BY <4>4, <4>5
    <3> QED
      BY <3>4, <3>5
  <2> QED
    BY <2>5, <2>6
<1> QED
  <2>1. j = n \/ j < n
    BY <1>1, SMTT(30)
  <2> QED
    BY <1>6, <1>7, <2>1, Zenon

(* The header that is read next is that of the first block not yet passed, *)
(* and there is none only when all have been passed.                       *)
LEMMA NextBlock ==
  ASSUME OnDisk, Clean, NEW file \in DOMAIN layout, NEW j \in 0..Len(layout[file]),
         mBlockIndex = file - 1, position = Ends(layout[file])[j]
  PROVE  \/ NoHeaderRead /\ NextHeaders = {} /\ Passed(file, j) = BlockPlaces
         \/ \E f \in DOMAIN layout : \E k \in 1..Len(layout[f]) :
               /\ NextIs(f, k) /\ layout[f][k].block # NoBlock
               /\ <<f, k>> \notin Passed(file, j)
               /\ Passed(f, k) = Passed(file, j) \cup {<<f, k>>}
<1> DEFINE n == Len(layout[file])
<1>1. DOMAIN layout = 1..Len(layout) /\ Len(layout) \in Nat /\ n \in Nat /\ file \in Nat
  BY BlockPairs
<1>2. \A place \in BlockPlaces :
         /\ place[1] \in DOMAIN layout /\ place[2] \in 1..Len(layout[place[1]])
         /\ place = <<place[1], place[2]>>
         /\ layout[place[1]][place[2]].block # NoBlock
         /\ place[1] \in Nat /\ place[2] \in Nat
  BY BlockPairs
<1>3. \A f \in DOMAIN layout : \A k \in 1..Len(layout[f]) :
         layout[f][k].block # NoBlock => <<f, k>> \in BlockPlaces
  BY BlockPairs
<1>4. ASSUME NEW k \in 1..n, j < k, layout[file][k].block # NoBlock,
             \A i \in 1..n : j < i /\ i < k => layout[file][i].block = NoBlock
      PROVE  <<file, k>> \notin Passed(file, j)
             /\ Passed(file, k) = Passed(file, j) \cup {<<file, k>>}
  <2>1. <<file, k>> \in BlockPlaces
    BY <1>3, <1>4
  <2>2. ASSUME NEW place \in BlockPlaces
        PROVE  (place[1] = file /\ place[2] <= k) <=>
                  (place[1] = file /\ place[2] <= j) \/ place = <<file, k>>
    BY <1>1, <1>2, <1>4
  <2>3. <<file, k>> \notin Passed(file, j)
    BY <1>1, <1>4 DEF Passed
  <2>4. ~(file < file)
    BY <1>1
  <2> QED
    BY <2>1, <2>2, <2>3, <2>4 DEF Passed
<1>5. CASE j < n /\ layout[file][j + 1].block # NoBlock
           /\ BlockStarts = {<<file - 1, Ends(layout[file])[j]>>}
  <2>1. j + 1 \in 1..n /\ (j + 1) - 1 = j /\ j < j + 1
    BY <1>1, <1>5
  <2>2. NextIs(file, j + 1)
    BY <1>5, <2>1, NextStarts
  <2>3. \A i \in 1..n : j < i /\ i < j + 1 => layout[file][i].block = NoBlock
    BY <1>1
  <2>4. /\ <<file, j + 1>> \notin Passed(file, j)
        /\ Passed(file, j + 1) = Passed(file, j) \cup {<<file, j + 1>>}
    BY <1>4, <1>5, <2>1, <2>3
  <2> QED
    BY <1>5, <2>1, <2>2, <2>4
<1>6. CASE j + 1 < n /\ layout[file][j + 1].block = NoBlock
           /\ layout[file][j + 2].block # NoBlock
           /\ BlockStarts = {<<file - 1, Ends(layout[file])[j + 1]>>}
  <2>1. j + 2 \in 1..n /\ (j + 2) - 1 = j + 1 /\ j < j + 2
    BY <1>1, <1>6
  <2>2. NextIs(file, j + 2)
    BY <1>6, <2>1, NextStarts
  <2>3. \A i \in 1..n : j < i /\ i < j + 2 => layout[file][i].block = NoBlock
    <3>1. \A i \in 1..n : j < i /\ i < j + 2 => i = j + 1
      BY <1>1
    <3> QED
      BY <1>6, <3>1
  <2>4. /\ <<file, j + 2>> \notin Passed(file, j)
        /\ Passed(file, j + 2) = Passed(file, j) \cup {<<file, j + 2>>}
    BY <1>4, <1>6, <2>1, <2>3
  <2> QED
    BY <1>6, <2>1, <2>2, <2>4
<1>7. CASE /\ j = n \/ (j + 1 = n /\ layout[file][j + 1].block = NoBlock)
           /\ IF file + 1 \in DOMAIN layout THEN BlockStarts = {<<file, 0>>}
                                            ELSE BlockStarts = {}
  <2>1. \A place \in BlockPlaces : place[1] = file => place[2] <= j
    <3> SUFFICES ASSUME NEW place \in BlockPlaces, place[1] = file, ~(place[2] <= j)
                 PROVE  FALSE
      OBVIOUS
    <3>1. /\ place[2] \in 1..n /\ place[2] \in Nat
          /\ layout[file][place[2]].block # NoBlock
      BY <1>2
    <3>2. place[2] = j + 1
      BY <1>1, <1>7, <3>1, SMTT(30)
    <3> QED
      BY <1>1, <1>7, <3>1, <3>2, SMTT(30)
  <2>2. CASE file + 1 \in DOMAIN layout
    <3>1. /\ 1 \in 1..Len(layout[file + 1]) /\ layout[file + 1][1].block # NoBlock
          /\ layout[file + 1] \in Seq(Records)
      BY <2>2, CleanFile, BlockPairs
    <3>2. BlockStarts = {<<(file + 1) - 1, Ends(layout[file + 1])[1 - 1]>>}
      <4>1. (file + 1) - 1 = file /\ 1 - 1 = 0 /\ Ends(layout[file + 1])[0] = 0
        BY <1>1, <3>1, EndsAdd
      <4> QED
        BY <1>7, <2>2, <4>1
    <3>3. NextIs(file + 1, 1)
      BY <2>2, <3>1, <3>2, NextStarts
    <3>4. <<file + 1, 1>> \in BlockPlaces /\ <<file + 1, 1>> \notin Passed(file, j)
      <4>1. <<file + 1, 1>> \in BlockPlaces
        BY <1>3, <2>2, <3>1
      <4>2. ~(file + 1 < file) /\ file + 1 # file
        BY <1>1
      <4> QED
        BY <4>1, <4>2 DEF Passed
    <3>5. ASSUME NEW place \in BlockPlaces
          PROVE  place[1] < file + 1 \/ (place[1] = file + 1 /\ place[2] <= 1) <=>
                    \/ place[1] < file \/ (place[1] = file /\ place[2] <= j)
                    \/ place = <<file + 1, 1>>
      <4>1. /\ place[1] \in Nat /\ place[2] \in Nat /\ place[2] >= 1
            /\ place = <<place[1], place[2]>>
        BY <1>2
      <4>2. place[1] = file => place[2] <= j
        BY <2>1
      <4>3. place = <<file + 1, 1>> <=> place[1] = file + 1 /\ place[2] = 1
        BY <4>1
      <4> QED
        BY <1>1, <4>1, <4>2, <4>3, SMTT(30)
    <3>6. Passed(file + 1, 1) = Passed(file, j) \cup {<<file + 1, 1>>}
      BY <3>4, <3>5 DEF Passed
    <3> QED
      BY <2>2, <3>1, <3>3, <3>4, <3>6
  <2>3. CASE file + 1 \notin DOMAIN layout
    <3>1. NextHeaders = {} /\ NoHeaderRead
      BY <1>7, <2>3 DEF NextHeaders, NoHeaderRead
    <3>2. \A place \in BlockPlaces : place[1] < file \/ place[1] = file
      <4> DEFINE m == Len(layout)
      <4>1. m \in Nat /\ file \in 1..m /\ file + 1 \notin 1..m
        BY <1>1, <2>3
      <4>2. \A place \in BlockPlaces : place[1] \in 1..m
        BY <1>1, <1>2
      <4> HIDE DEF m
      <4> QED
        BY <4>1, <4>2, SMTT(30)
    <3> QED
      BY <2>1, <3>1, <3>2 DEF Passed
  <2> QED
    BY <2>2, <2>3
<1>8. \/ /\ j < n /\ layout[file][j + 1].block # NoBlock
         /\ BlockStarts = {<<file - 1, Ends(layout[file])[j]>>}
      \/ /\ j + 1 < n /\ layout[file][j + 1].block = NoBlock
         /\ layout[file][j + 2].block # NoBlock
         /\ BlockStarts = {<<file - 1, Ends(layout[file])[j + 1]>>}
      \/ /\ j = n \/ (j + 1 = n /\ layout[file][j + 1].block = NoBlock)
         /\ IF file + 1 \in DOMAIN layout THEN BlockStarts = {<<file, 0>>}
                                          ELSE BlockStarts = {}
  BY StartsFound
<1> QED
  BY <1>5, <1>6, <1>7, <1>8

(* The files are not written, so what is on disk stays.                    *)
LEMMA DiskStays ==
  ASSUME UNCHANGED fixed
  PROVE  /\ BlockPlaces' = BlockPlaces /\ FirstCopies' = FirstCopies /\ Clean' = Clean
         /\ \A place : HeaderOf(place)' = HeaderOf(place)
         /\ \A place : RecordAt(place)' = RecordAt(place)
         /\ \A f, k : Passed(f, k)' = Passed(f, k)
<1> USE DEF fixed
<1>1. layout' = layout
  OBVIOUS
<1>2. \A place : RecordAt(place)' = RecordAt(place)
  BY <1>1 DEF RecordAt
<1>3. BlockPlaces' = BlockPlaces
  BY <1>1 DEF BlockPlaces, Places, RecordAt
<1>4. FirstCopies' = FirstCopies
  BY <1>2, <1>3 DEF FirstCopies
<1>5. Clean' = Clean
  BY <1>1 DEF Clean
<1>6. \A place : HeaderOf(place)' = HeaderOf(place)
  BY <1>1 DEF HeaderOf, RecordAt
<1>7. \A f, k : Passed(f, k)' = Passed(f, k)
  BY <1>3 DEF Passed
<1> QED
  BY <1>2, <1>3, <1>4, <1>5, <1>6, <1>7

(* A header is stored for the first copy of a block and no other.          *)
LEMMA FirstStored ==
  ASSUME OnDisk, NEW f, NEW k, <<f, k>> \in BlockPlaces,
         NEW seen, <<f, k>> \notin seen, Passed(f, k) = seen \cup {<<f, k>>},
         \A place \in seen : \E h \in mBlockHeaderSet : h.hash = RecordAt(place).block,
         mBlockHeaderSet = {HeaderOf(place) : place \in FirstCopies \cap seen},
         ReadHeader(HeaderOf(<<f, k>>))
  PROVE  /\ \A place \in Passed(f, k) :
               \E h \in mBlockHeaderSet' : h.hash = RecordAt(place).block
         /\ mBlockHeaderSet' = {HeaderOf(place) : place \in FirstCopies \cap Passed(f, k)}
<1> DEFINE new == <<f, k>>
           header == HeaderOf(new)
<1>1. \A place : HeaderOf(place).hash = RecordAt(place).block
  BY DEF HeaderOf
<1>2. \A place \in BlockPlaces : /\ place[1] \in Nat /\ place[2] \in Nat
                                 /\ place = <<place[1], place[2]>>
  BY BlockPairs
<1>3. \A place \in BlockPlaces : Before(place, new) <=> place \in seen
  <2> SUFFICES ASSUME NEW place \in BlockPlaces
               PROVE  Before(place, new) <=> place \in Passed(f, k) /\ place # new
    OBVIOUS
  <2>1. new[1] = f /\ new[2] = k /\ f \in Nat /\ k \in Nat
    BY <1>2
  <2>2. place = new <=> place[1] = f /\ place[2] = k
    BY <1>2
  <2> QED
    BY <1>2, <2>1, <2>2 DEF Before, Passed
<1>4. mBlockHeaderSet' = IF \E h \in mBlockHeaderSet : h.hash = header.hash
                         THEN mBlockHeaderSet ELSE mBlockHeaderSet \cup {header}
  BY DEF ReadHeader, Insert
<1> HIDE DEF new, header
<1>5. CASE \E h \in mBlockHeaderSet : h.hash = header.hash
  <2>1. mBlockHeaderSet' = mBlockHeaderSet
    BY <1>4, <1>5
  <2>2. PICK place \in FirstCopies \cap seen : HeaderOf(place).hash = header.hash
    BY <1>5
  <2>3. RecordAt(place).block = RecordAt(new).block /\ place \in BlockPlaces
    BY <1>1, <2>2 DEF FirstCopies, header
  <2>4. new \notin FirstCopies
    BY <1>3, <2>2, <2>3 DEF FirstCopies
  <2>5. FirstCopies \cap Passed(f, k) = FirstCopies \cap seen
    BY <2>4 DEF new
  <2>6. \E h \in mBlockHeaderSet' : h.hash = RecordAt(new).block
    BY <1>1, <1>5, <2>1 DEF header
  <2> QED
    BY <2>1, <2>5, <2>6 DEF new
<1>6. CASE ~\E h \in mBlockHeaderSet : h.hash = header.hash
  <2>1. mBlockHeaderSet' = mBlockHeaderSet \cup {header}
    BY <1>4, <1>6
  <2>2. header.hash = RecordAt(new).block
    BY <1>1 DEF header
  <2>3. \A other \in BlockPlaces : Before(other, new) => RecordAt(other).block # RecordAt(new).block
    BY <1>3, <1>6, <2>2
  <2>4. new \in FirstCopies
    BY <2>3 DEF FirstCopies, new
  <2>5. FirstCopies \cap Passed(f, k) = (FirstCopies \cap seen) \cup {new}
    BY <2>4 DEF new
  <2>6. {HeaderOf(place) : place \in FirstCopies \cap Passed(f, k)}
           = {HeaderOf(place) : place \in FirstCopies \cap seen} \cup {header}
    BY <2>5 DEF header
  <2>7. \A place \in Passed(f, k) : \E h \in mBlockHeaderSet' : h.hash = RecordAt(place).block
    BY <2>1, <2>2 DEF new
  <2> QED
    BY <2>1, <2>6, <2>7
<1> QED
  BY <1>5, <1>6

(* Without files there is nothing to read.                                 *)
LEMMA NoFiles ==
  ASSUME OnDisk, layout = << >>, mBlockIndex \in Nat
  PROVE  NextHeaders = {} /\ BlockPlaces = {}
<1>1. Len(disk) = 0
  <2>1. disk = [f \in 1..0 |-> FileOf(layout[f])]
    BY DEF OnDisk
  <2> QED
    BY <2>1
<1>2. \A f \in Nat : \A p : ~Readable(f, p)
  BY <1>1 DEF Readable
<1>3. NextCell.file \in Nat
  BY DEF NextCell
<1>4. BlockStarts = {}
  BY <1>2, <1>3 DEF BlockStarts
<1>5. NextHeaders = {}
  BY <1>4 DEF NextHeaders
<1>6. BlockPlaces = {}
  BY BlockPairs
<1> QED
  BY <1>5, <1>6

(* At the start no block has been passed.                                  *)
LEMMA InitClean == Init => CleanScan /\ ScanComplete
<1> SUFFICES ASSUME Init PROVE CleanScan /\ ScanComplete
  OBVIOUS
<1>1. OnDisk /\ phase = "scanning" /\ mBlockHeaderSet = {} /\ mBlockIndex = 0 /\ position = 0
      /\ mScanCount = 0
  BY DEF Init, OnDisk
<1>2. CASE layout = << >>
  BY <1>1, <1>2 DEF CleanScan, ScanComplete
<1>3. CASE layout # << >>
  <2>1. /\ 1 \in DOMAIN layout /\ 0 \in 0..Len(layout[1]) /\ layout[1] \in Seq(Records)
    BY <1>1, <1>3, BlockPairs
  <2>2. Passed(1, 0) = {}
    <3>1. \A place \in BlockPlaces : place[1] \in Nat \ {0} /\ place[2] \in Nat \ {0}
      BY <1>1, BlockPairs
    <3> QED
      BY <3>1 DEF Passed
  <2>3. Ends(layout[1])[0] = 0
    BY <2>1, EndsAdd
  <2>4. Cardinality(Passed(1, 0)) = 0
    BY <2>2, FS_EmptySet
  <2>5. Scanned(1, 0)
    BY <1>1, <2>2, <2>3, <2>4 DEF Scanned
  <2> QED
    BY <1>1, <2>1, <2>5 DEF CleanScan, ScanComplete
<1> QED
  BY <1>2, <1>3

(* When a header is read, one more block has been passed.                  *)
LEMMA ReadOne ==
  ASSUME OnDisk, UNCHANGED fixed, Clean,
         NEW file \in DOMAIN layout, NEW j \in 0..Len(layout[file]), Scanned(file, j),
         NEW header \in NextHeaders, ReadHeader(header)
  PROVE  /\ mScanCount < Cardinality(BlockPlaces)
         /\ mScanCount' = mScanCount + 1 =>
               \E f \in DOMAIN layout : \E k \in 0..Len(layout[f]) : Scanned(f, k)'
<1>1. PICK f \in DOMAIN layout : \E k \in 1..Len(layout[f]) :
        /\ NextIs(f, k) /\ layout[f][k].block # NoBlock
        /\ <<f, k>> \notin Passed(file, j)
        /\ Passed(f, k) = Passed(file, j) \cup {<<f, k>>}
  BY NextBlock DEF Scanned
<1>1a. PICK k \in 1..Len(layout[f]) :
        /\ NextIs(f, k) /\ layout[f][k].block # NoBlock
        /\ <<f, k>> \notin Passed(file, j)
        /\ Passed(f, k) = Passed(file, j) \cup {<<f, k>>}
  BY <1>1
<1>2. <<f, k>> \in BlockPlaces /\ k \in 0..Len(layout[f])
  BY <1>1a, BlockPairs, SMTT(30)
<1>3. header = HeaderOf(<<f, k>>)
  BY <1>1a DEF NextIs
<1>4. Passed(file, j) \subseteq BlockPlaces
  BY DEF Passed
<1>5. IsFiniteSet(BlockPlaces) /\ IsFiniteSet(Passed(file, j))
  BY <1>4, BlocksFinite, FS_Subset
<1>6. Cardinality(Passed(f, k)) = Cardinality(Passed(file, j)) + 1
  BY <1>1a, <1>5, FS_AddElement
<1>7. mScanCount = Cardinality(Passed(file, j))
  BY DEF Scanned
<1>8. mScanCount < Cardinality(BlockPlaces)
  BY <1>1a, <1>2, <1>4, <1>5, <1>7, FS_Subset, FS_CardinalityType
<1>9. /\ \A place \in Passed(f, k) :
            \E h \in mBlockHeaderSet' : h.hash = RecordAt(place).block
      /\ mBlockHeaderSet' = {HeaderOf(place) : place \in FirstCopies \cap Passed(f, k)}
  <2>1. /\ \A place \in Passed(file, j) :
              \E h \in mBlockHeaderSet : h.hash = RecordAt(place).block
        /\ mBlockHeaderSet = {HeaderOf(place) : place \in FirstCopies \cap Passed(file, j)}
    BY DEF Scanned
  <2>2. ReadHeader(HeaderOf(<<f, k>>))
    BY <1>3
  <2> QED
    BY <1>1a, <1>2, <2>1, <2>2, FirstStored
<1>10. mBlockIndex' = f - 1 /\ position' = Ends(layout[f])[k]
  BY <1>1a, <1>3 DEF ReadHeader, NextIs
<1>11. ASSUME mScanCount' = mScanCount + 1 PROVE Scanned(f, k)'
  <2>1. layout' = layout
    BY DEF fixed
  <2>2. /\ Passed(f, k)' = Passed(f, k) /\ FirstCopies' = FirstCopies
        /\ \A place : HeaderOf(place)' = HeaderOf(place)
        /\ \A place : RecordAt(place)' = RecordAt(place)
    BY DiskStays
  <2>3. {HeaderOf(place) : place \in FirstCopies \cap Passed(f, k)}'
           = {HeaderOf(place) : place \in FirstCopies \cap Passed(f, k)}
    BY <2>2
  <2>4. \A place \in Passed(f, k)' : \E h \in mBlockHeaderSet' : h.hash = (RecordAt(place).block)'
    BY <1>9, <2>2
  <2>5. mScanCount' = Cardinality(Passed(f, k)')
    BY <1>6, <1>7, <1>11, <2>2
  <2> QED
    BY <1>9, <1>10, <2>1, <2>3, <2>4, <2>5 DEF Scanned
<1> QED
  BY <1>2, <1>8, <1>11

(* The scan of clean files passes one block after the other and ends when  *)
(* it has passed all.                                                      *)
LEMMA CompleteStep == CompleteInv /\ [Next]_vars => CleanScan' /\ ScanComplete'
<1> SUFFICES ASSUME CompleteInv, [Next]_vars PROVE CleanScan' /\ ScanComplete'
  OBVIOUS
<1> USE DEF scanVars, CompleteInv, SoundInv
<1>1. UNCHANGED fixed
  BY DEF Next, Scan, Build, Done, vars, ScanBlock, ScanLimit, ScanEnd, ScanAsserts, BuildNothing,
         BuildStart, Count, CountDone, Fill, FillDone
<1>2. /\ mMaxBlocks' = mMaxBlocks /\ BlockPlaces' = BlockPlaces /\ FirstCopies' = FirstCopies
      /\ Clean' = Clean /\ layout' = layout
      /\ {HeaderOf(place) : place \in FirstCopies}' = {HeaderOf(place) : place \in FirstCopies}
  BY <1>1, DiskStays DEF fixed
<1>3. IsFiniteSet(BlockPlaces) /\ Cardinality(BlockPlaces) \in Nat
  BY BlocksFinite, FS_CardinalityType
<1>4. mScanCount \in Nat /\ mMaxBlocks \in Nat /\ mBlockIndex \in Nat
  BY DEF IInv, TypeOK
<1>5. CASE ScanBlock \/ ScanLimit
  <2>1. PICK header \in NextHeaders : ReadHeader(header)
    BY <1>5 DEF ScanBlock, ScanLimit
  <2>2. phase = "scanning"
    BY <1>5 DEF ScanBlock, ScanLimit
  <2>3. SUFFICES ASSUME Clean PROVE CleanScan' /\ ScanComplete'
    BY <1>2 DEF CleanScan, ScanComplete
  <2>4. PICK file \in DOMAIN layout : \E j \in 0..Len(layout[file]) : Scanned(file, j)
    BY <2>1, <2>2, <2>3, <1>4, NoFiles DEF CleanScan
  <2>5. PICK j \in 0..Len(layout[file]) : Scanned(file, j)
    BY <2>4
  <2>6. /\ mScanCount < Cardinality(BlockPlaces)
        /\ mScanCount' = mScanCount + 1 =>
              \E f \in DOMAIN layout : \E k \in 0..Len(layout[f]) : Scanned(f, k)'
    BY <1>1, <2>1, <2>3, <2>5, ReadOne
  <2>7. CASE ScanBlock
    <3>1. phase' = "scanning" /\ mScanCount' = mScanCount + 1
      BY <2>7 DEF ScanBlock
    <3>2. \E f \in DOMAIN layout' : \E k \in 0..Len(layout'[f]) : Scanned(f, k)'
      BY <1>2, <2>6, <3>1
    <3> QED
      BY <3>1, <3>2 DEF CleanScan, ScanComplete
  <2>8. CASE ScanLimit
    <3>1. phase' = "scanned" /\ mScanCount >= mMaxBlocks
      BY <2>8 DEF ScanLimit
    <3>2. ~(Cardinality(BlockPlaces) <= mMaxBlocks)
      BY <1>3, <1>4, <2>6, <3>1
    <3> QED
      BY <1>2, <3>1, <3>2 DEF CleanScan, ScanComplete
  <2> QED
    BY <1>5, <2>7, <2>8
<1>6. CASE ScanEnd
  <2>1. /\ phase = "scanning" /\ phase' = "scanned" /\ NoHeaderRead
        /\ mBlockHeaderSet' = mBlockHeaderSet
    BY <1>6 DEF ScanEnd
  <2>2. ASSUME Clean PROVE mBlockHeaderSet = {HeaderOf(place) : place \in FirstCopies}
    <3>1. CASE layout = << >> /\ mBlockHeaderSet = {}
      <4>1. FirstCopies = {}
        BY <1>4, <3>1, NoFiles DEF FirstCopies
      <4> QED
        BY <3>1, <4>1
    <3>2. CASE \E file \in DOMAIN layout : \E j \in 0..Len(layout[file]) : Scanned(file, j)
      <4>1. PICK file \in DOMAIN layout : \E j \in 0..Len(layout[file]) : Scanned(file, j)
        BY <3>2
      <4>2. PICK j \in 0..Len(layout[file]) : Scanned(file, j)
        BY <4>1
      <4>3. Passed(file, j) = BlockPlaces
        <5>1. \A f, k : ~NextIs(f, k)
          BY <2>1 DEF NextIs
        <5> QED
          BY <2>2, <4>2, <5>1, NextBlock DEF Scanned
      <4>4. FirstCopies \cap BlockPlaces = FirstCopies
        BY DEF FirstCopies
      <4> QED
        BY <4>2, <4>3, <4>4 DEF Scanned
    <3> QED
      BY <2>1, <2>2, <3>1, <3>2 DEF CleanScan
  <2> QED
    BY <1>2, <2>1, <2>2 DEF CleanScan, ScanComplete
<1>7. CASE ScanAsserts
  BY <1>7 DEF ScanAsserts, CleanScan, ScanComplete
<1>8. CASE Build
  <2>1. /\ phase \in {"scanned", "counting", "filling"}
        /\ phase' \in {"counting", "filling", "built"}
        /\ mBlockHeaderSet' = mBlockHeaderSet
    BY <1>8 DEF Build, BuildNothing, BuildStart, Count, CountDone, Fill, FillDone
  <2> QED
    BY <1>2, <2>1 DEF CleanScan, ScanComplete
<1>9. CASE UNCHANGED vars
  <2>1. UNCHANGED <<phase, mBlockHeaderSet, mBlockIndex, position, mScanCount>>
    BY <1>9 DEF vars
  <2>2. ASSUME NEW file, NEW j, Scanned(file, j) PROVE Scanned(file, j)'
    <3>1. /\ Passed(file, j)' = Passed(file, j)
          /\ \A place : HeaderOf(place)' = HeaderOf(place)
          /\ \A place : RecordAt(place)' = RecordAt(place)
      BY <1>1, DiskStays
    <3>2. Ends(layout[file])' = Ends(layout[file])
      BY <1>2
    <3> QED
      BY <1>2, <2>1, <2>2, <3>1, <3>2 DEF Scanned
  <2> QED
    BY <1>2, <2>1, <2>2 DEF CleanScan, ScanComplete
<1> QED
  BY <1>5, <1>6, <1>7, <1>8, <1>9 DEF Next, Scan, Done

(* For every content of clean files: a scan that maxBlocks does not stop   *)
(* finds every block, across padding and from file to file, and keeps the  *)
(* place of the first copy of each.                                        *)
THEOREM ScanIsComplete == Spec => []ScanComplete
<1>1. Init => OnDisk /\ ScanSound
  BY DEF Init, OnDisk, ScanSound
<1>2. Spec => []CompleteInv
  BY <1>1, InitClean, SoundStep, CompleteStep, Inductive, PTL DEF Spec, SoundInv, CompleteInv
<1> QED
  BY <1>2, PTL DEF CompleteInv
=============================================================================
