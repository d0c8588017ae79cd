\* One failed SQLite append, then a retry: the honest log stops verifying.
CONSTANTS
    Backend = "sqlite"
    NoTail = NoTail
    NoMsg = NoMsg
    A0 = A0
    B0 = B0
    ZeroSeed = ZeroSeed
    Payloads <- MCPayloads
    Times <- MCTimes
    AnchorEvery = 0
    MaxIndex = 3
    MaxKeyGen = 4
    MaxFailures = 1
    MaxRestarts = 0
SPECIFICATION Spec
\* The logger is passive: its caller may stop calling in any state.
CHECK_DEADLOCK FALSE
INVARIANTS
    HonestLogVerifies
