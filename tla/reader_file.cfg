\* One VerifyAll call beside the logger over the file store, with a
\* failure and a restart: a lone Tail call sees the tail whenever one is stored.
CONSTANTS
    Backend = "file"
    NoTail = NoTail
    NoMsg = NoMsg
    A0 = A0
    B0 = B0
    ZeroSeed = ZeroSeed
    Payloads <- MCPayloads
    Times <- MCTimes
    AnchorEvery = 2
    MaxIndex = 3
    MaxKeyGen = 5
    MaxFailures = 1
    MaxRestarts = 1
    Readers = {r1}
SPECIFICATION ReaderSpec
\* The logger and the readers may stop calling in any state.
CHECK_DEADLOCK FALSE
INVARIANTS
    ReaderTypeOK
    VerifyAllSound
PROPERTIES
    TailNotLost
