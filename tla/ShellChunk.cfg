SPECIFICATION Spec
CONSTANTS
    BufSize = 5
    MaxChunk = 3
INVARIANT TakesBack
