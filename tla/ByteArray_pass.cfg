SPECIFICATION Spec
CONSTANTS
    BaseSize = 2
    Radix = 8
    Word = 32
    MaxChunks = 3
    FixedBytes = 2
    Buffers <- MCBuffers
    Items <- MCItems
    MaxNodes = 3
    MaxWrites = 2
    EmptyReads = FALSE
    UnalignedFiles = FALSE
    Throw = Throw
    None = None
INVARIANTS
    ArrayInv
PROPERTIES
    ReadsBack
    ImplementsFile
