\* SQLite-backed store with up to two injected transaction failures; the
\* logger over it implements the abstract append-only log.
CONSTANTS
    Backend = "sqlite"
    NoTail = NoTail
    NoMsg = NoMsg
    A0 = A0
    B0 = B0
    ZeroSeed = ZeroSeed
    Payloads <- MCPayloads
    Times <- MCTimes
    AnchorEvery = 2
    MaxIndex = 4
    MaxKeyGen = 5
    MaxFailures = 2
    MaxRestarts = 0
SPECIFICATION Spec
\* The logger is passive: its caller may stop calling in any state.
CHECK_DEADLOCK FALSE
INVARIANTS
    StoreAgreesWithLogger
PROPERTIES
    StoreAtomic
    ImplementsAppendOnlyLog
