\* One closer over ProtoHTTPTransport, one failed exchange: a Close call
\* retried after its response was lost leaves a log T does not accept.
CONSTANTS
    Backend = "sqlite"
    NoTail = NoTail
    NoMsg = NoMsg
    A0 = A0
    B0 = B0
    ZeroSeed = ZeroSeed
    Payloads <- MCPayloads
    Times <- MCTimes
    AnchorEvery = 2
    MaxIndex = 6
    MaxKeyGen = 6
    MaxFailures = 0
    MaxRestarts = 0
    Closers = {c1}
    Transports = {"proto"}
    MaxNetFailures = 1
    AppBudget = 3
SPECIFICATION RemoteSpec
\* The caller may stop calling in any state.
CHECK_DEADLOCK FALSE
INVARIANTS
    ClosedLogVerifies
