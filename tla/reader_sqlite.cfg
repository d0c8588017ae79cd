\* One VerifyAll call beside the logger over SQLite, no store failures, one
\* restart: every iterator delivers the snapshot taken when Iter was called,
\* and the stored log always verifies from A_0 and B_0.
CONSTANTS
    Backend = "sqlite"
    NoTail = NoTail
    NoMsg = NoMsg
    A0 = A0
    B0 = B0
    ZeroSeed = ZeroSeed
    Payloads <- MCPayloads
    Times <- MCTimes
    AnchorEvery = 2
    MaxIndex = 4
    MaxKeyGen = 5
    MaxFailures = 0
    MaxRestarts = 1
    Readers = {r1}
SPECIFICATION ReaderSpec
\* The logger and the readers may stop calling in any state.
CHECK_DEADLOCK FALSE
INVARIANTS
    VerifyAllSound
    HonestLogVerifies
