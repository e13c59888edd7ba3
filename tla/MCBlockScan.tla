---------------------------- MODULE MCBlockScan -----------------------------
(***************************************************************************)
(* Block files for TLC: a chain g, a, b, a block x that forks off after g, *)
(* and a block over the size limit.  Bytes that are no prefix name no      *)
(* parent, or b.  Up to MaxRecords records in one file, or one less in up  *)
(* to MaxFiles files.                                                      *)
(***************************************************************************)
EXTENDS BlockScan

CONSTANTS g, a, b, x, big, zeros, bytes,
          MaxFiles, MaxRecords   \* bounds: how much is on disk

MCBlocks == {g, a, b, x, big}

MCJunk == {zeros, bytes}

MCPrev == [hash \in MCBlocks \cup MCJunk |-> CASE hash \in {g, zeros} -> NoBlock
                                               [] hash \in {a, x} -> g
                                               [] hash = b -> a
                                               [] hash \in {big, bytes} -> b]

MCSize == [block \in MCBlocks |-> CASE block = g -> 1
                                    [] block = a -> 2
                                    [] block = b -> 2
                                    [] block = x -> 1
                                    [] block = big -> 3]

(* The payload of a is data like any, that of b is the magic id.           *)
Part(block, cells) ==
    [block |-> block, cells |-> cells, word |-> IF block = b THEN MagicId ELSE 1]

NotBlock(cells, word) == [block |-> NoBlock, cells |-> cells, word |-> word]

(* Padding shorter and longer than the search window, a block that lost    *)
(* the end of its payload, and blocks that lost part of their header.      *)
MCRecords == {Part(block, MCSize[block] + 2) : block \in MCBlocks}
             \cup {NotBlock(1, 0), NotBlock(4, 0), Part(a, 3), Part(b, 2), Part(b, 1)}

RECURSIVE FilesWith(_, _)
FilesWith(files, records) ==
    IF files = 0 THEN {<< >>}
    ELSE UNION {{<<file>> \o rest : file \in [1..n -> MCRecords],
                                    rest \in FilesWith(files - 1, records - n)} :
                  n \in 0..records}

MCLayouts == FilesWith(1, MaxRecords) \cup UNION {FilesWith(n, MaxRecords - 1) : n \in 0..MaxFiles}
=============================================================================
