\* NewRemoteLogger, appends, Close and audits over LocalTransport or
\* ProtoHTTPTransport with one closer, one store failure and one failed HTTP
\* exchange, under the fairness of the steps inside a Close call and of the
\* server: every Close call returns, and a log reported closed is registered
\* on T with one of its own closures.
CONSTANTS
    Backend = "sqlite"
    NoTail = NoTail
    NoMsg = NoMsg
    A0 = A0
    B0 = B0
    ZeroSeed = ZeroSeed
    Payloads <- MCPayloads
    Times <- MCTimes
    AnchorEvery = 2
    MaxIndex = 6
    MaxKeyGen = 6
    MaxFailures = 1
    MaxRestarts = 0
    Closers = {c1}
    Transports = {"local", "proto"}
    MaxNetFailures = 1
    AppBudget = 3
SPECIFICATION RemoteFairSpec
\* The caller may stop calling in any state.
CHECK_DEADLOCK FALSE
INVARIANTS
    RemoteTypeOK
    ClosedAccepted
PROPERTIES
    CloseReturns
