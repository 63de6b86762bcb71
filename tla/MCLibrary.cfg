SPECIFICATION LibrarySpec
CONSTANTS
    Word = 4096
    ByteSpan = 3
    Size = 5
    Lines <- MCLines
CHECK_DEADLOCK FALSE
INVARIANTS
    NumbersAreRight
    BytesAreRight
