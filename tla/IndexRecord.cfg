CONSTANTS
    Half = 4
    WordSize = 256
    Objects <- MCObjects
SPECIFICATION RecordSpec
INVARIANT RecordExact
