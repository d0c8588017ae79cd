\* File store with one injected I/O failure: a failed append is visible.
CONSTANTS
    Backend = "file"
    NoTail = NoTail
    NoMsg = NoMsg
    A0 = A0
    B0 = B0
    ZeroSeed = ZeroSeed
    Payloads <- MCPayloads
    Times <- MCTimes
    AnchorEvery = 2
    MaxIndex = 3
    MaxKeyGen = 4
    MaxFailures = 1
    MaxRestarts = 0
SPECIFICATION Spec
\* The logger is passive: its caller may stop calling in any state.
CHECK_DEADLOCK FALSE
PROPERTIES
    StoreAtomic
