CONSTANTS
    NoHash = NoHash
    Garbage = Garbage
    Hashes <- MCHashes
    Chains <- MCChains
    PrefixLength = 1
    MAX_BLOCK_TRANSACTION = 4
    WordSize = 8
    MaxBlocks = 3
    MaxCalls = 5
SPECIFICATION Spec
INVARIANTS TypeOK LocationsExact RecordedExactly NeverExits NumberedInOrder OddIsWarned
PROPERTIES ImplementsArchive
