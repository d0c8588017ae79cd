\* No failures, anchors every 2 records: resume from each anchor.
CONSTANTS
    Backend = "sqlite"
    NoTail = NoTail
    NoMsg = NoMsg
    A0 = A0
    B0 = B0
    ZeroSeed = ZeroSeed
    Payloads <- MCPayloads
    Times <- MCTimes
    AnchorEvery = 2
    MaxIndex = 3
    MaxKeyGen = 4
    MaxFailures = 0
    MaxRestarts = 0
SPECIFICATION Spec
\* The logger is passive: its caller may stop calling in any state.
CHECK_DEADLOCK FALSE
INVARIANTS
    AnchorsResume
