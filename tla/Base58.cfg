CONSTANTS
    AddressLength = 3
    Numbers <- MCNumbers
    MaxStrLens = {2, 3, 4, 5, 6, 7}
SPECIFICATION Base58Spec
INVARIANTS EncodeExact DecodeExact
