\* File-backed store with up to two injected I/O failures.
CONSTANTS
    Backend = "file"
    NoTail = NoTail
    NoMsg = NoMsg
    A0 = A0
    B0 = B0
    ZeroSeed = ZeroSeed
    Payloads <- MCPayloads
    Times <- MCTimes
    AnchorEvery = 2
    MaxIndex = 4
    MaxKeyGen = 5
    MaxFailures = 2
    MaxRestarts = 1
SPECIFICATION Spec
\* The logger is passive: its caller may stop calling in any state.
CHECK_DEADLOCK FALSE
INVARIANTS
    TypeOK
    RecordsContiguous
    TailDescribesStoredRecord
    AnchorsMatchRecords
    LoggerBehindStore
