SPECIFICATION Spec
CONSTANTS
    BufSize = 5
    MaxChunk = 3
INVARIANTS InBuffer RunsWhatWasTyped RoomToRead
