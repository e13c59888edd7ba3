CONSTANTS
    g = g
    a = a
    b = b
    x = x
    big = big
    zeros = zeros
    bytes = bytes
    NoBlock = NoBlock
    Blocks <- MCBlocks
    Junk <- MCJunk
    Prev <- MCPrev
    Size <- MCSize
    Layouts <- MCLayouts
    MagicId = 9
    MaxBlockSize = 3
    MaxBlocks = {2, 9}
    WordSize = 16
    MaxFiles = 3
    MaxRecords = 4
SPECIFICATION Spec
INVARIANTS TypeOK ScanSound ScanComplete FillInRange ChainLinked
PROPERTY Terminates
