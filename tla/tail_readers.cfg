\* Two VerifyAll calls over the file store read the tail through the one
\* shared handle: one of them is told there is no tail.
CONSTANTS
    Backend = "file"
    NoTail = NoTail
    NoMsg = NoMsg
    A0 = A0
    B0 = B0
    ZeroSeed = ZeroSeed
    Payloads <- MCPayloads
    Times <- MCTimes
    AnchorEvery = 2
    MaxIndex = 2
    MaxKeyGen = 5
    MaxFailures = 0
    MaxRestarts = 0
    Readers = {r1, r2}
SPECIFICATION ReaderSpec
\* The logger and the readers may stop calling in any state.
CHECK_DEADLOCK FALSE
PROPERTIES
    TailNotLost
