------------------------------- MODULE Remote -------------------------------
(***************************************************************************)
(* The logger U talking to the trusted server T (src/unnamed/part_003):    *)
(* NewRemoteLogger, RemoteLogger.Close/closeOnce, the transports and the   *)
(* TrustedServer with its HTTP handlers (src/unnamed/part_000).  One log   *)
(* ID: T's three maps hold one entry each, or NoMsg.                       *)
(*                                                                         *)
(* Close is called by the goroutines in Closers.  closeOnce reads `closed` *)
(* under rl.mu, releases it, runs CloseProtocol and SendClosure, and only  *)
(* then sets `closed`: each of those is a step of its own.  Two closers    *)
(* running CloseProtocol at once race on the Logger's fields; the model    *)
(* takes the serialized outcomes only.                                     *)
(*                                                                         *)
(* Over HTTP a close request travels in `inflight` until HandleClose runs; *)
(* the client's connection may fail before or after the server handled it *)
(* (ConnDrop), at most MaxNetFailures times.  Register and open requests   *)
(* and SendLogFile are answered in one step, with the same failures.       *)
(***************************************************************************)
EXTENDS Logger

CONSTANTS
    Closers,         \* goroutines calling rl.Close()
    Transports,      \* transports the RemoteLogger may be given: "local"
                     \* (LocalTransport), "http" (HTTPTransport), "proto"
                     \* (ProtoHTTPTransport)
    MaxNetFailures,  \* bound on failed HTTP exchanges
    AppBudget        \* the application appends while i < AppBudget

ASSUME RemoteAssumption ==
    /\ Transports \subseteq {"local", "http", "proto"}
    /\ MaxNetFailures \in Nat
    /\ AppBudget \in Nat

VARIABLES
    commitments,   \* TrustedServer.commitments[logID], or NoMsg
    opens,         \* TrustedServer.opens[logID], or NoMsg
    closures,      \* TrustedServer.closures[logID], or NoMsg
    creator,       \* where NewRemoteLogger is: "init", "commit", "open", "ready", "failed"
    closed,        \* rl.closed
    pc,            \* pc[c]: where closer c is in closeOnce
    held,          \* held[c]: the CloseMessage closer c got from CloseProtocol
    inflight,      \* close requests posted and not yet handled by HandleClose
    replies,       \* replies[c]: the HTTP response waiting for closer c
    netFailures,   \* failed HTTP exchanges so far
    verdict,       \* the last SendLogFile result and FinalVerify's own, or NoMsg
    transport      \* rl.Transport

serverVars == <<commitments, opens, closures>>
remoteVars == <<serverVars, creator, closed, pc, held, inflight, replies, netFailures, verdict, transport>>
allVars == <<vars, remoteVars>>

RemoteInit ==
    /\ Init
    /\ commitments = NoMsg /\ opens = NoMsg /\ closures = NoMsg
    /\ creator = "init"
    /\ closed = FALSE
    /\ pc = [c \in Closers |-> "idle"]
    /\ held = [c \in Closers |-> NoMsg]
    /\ inflight = {}
    /\ replies = [c \in Closers |-> "none"]
    /\ netFailures = 0
    /\ verdict = NoMsg
    /\ transport \in Transports

-----------------------------------------------------------------------------
(* The trusted server T.                                                   *)

\* VerifyCloseMessage (part_003:115-131).
VerifyCloseMessage(records, cm) ==
    IF records = << >> THEN "noRecords"
    ELSE IF records[Len(records)].Index # cm.FinalIndex THEN "finalIndex"
    ELSE IF records[Len(records)].Msg # "CLOSE" THEN "noClose"
    ELSE "ok"

\* TrustedServer.FinalVerify (part_003:172-227): the checks in the code's
\* order, the first failing one giving the error.
FinalVerify(records) ==
    LET firstV == VerifyFrom(<<records[1]>>, 0, commitments.KeyA0, ZeroTag)
        firstT == VerifyFromTrusted(<<records[1]>>, 0, commitments.KeyB0, ZeroTag)
        full   == VerifyFromTrusted(records, 0, commitments.KeyB0, ZeroTag)
    IN  IF commitments = NoMsg THEN "notRegistered"
        ELSE IF opens = NoMsg THEN "notOpened"
        ELSE IF records = << >> THEN "noRecords"
        ELSE IF records[1].Index # opens.FirstIndex THEN "openingIndex"
        ELSE IF records[1].Msg # "START" THEN "noStart"
        ELSE IF firstV.err # "none" THEN firstV.err
        ELSE IF firstT.err # "none" THEN firstT.err
        ELSE IF firstV.lastTag # opens.FirstTagV \/ firstT.lastTag # opens.FirstTagT
             THEN "openingTag"
        ELSE IF closures = NoMsg THEN "notClosed"
        ELSE IF VerifyCloseMessage(records, closures) # "ok"
             THEN VerifyCloseMessage(records, closures)
        ELSE IF full.err # "none" THEN full.err
        ELSE IF full.lastTag # closures.FinalTagT THEN "finalTag"
        ELSE "ok"

\* RegisterLog and RegisterOpen (part_003:152-159): overwrite.
RegisterLog(m) == commitments' = m
RegisterOpen(m) == opens' = m

\* AcceptClosure (part_003:162-168): unknown log -> error, else overwrite.
AcceptClosure(m) ==
    closures' = IF commitments # NoMsg THEN m ELSE closures

-----------------------------------------------------------------------------
(* Transports.                                                             *)

\* How one request/response exchange ends: "ok"; "lost", the request never
\* reached the handler; "noReply", the handler ran and the response was
\* lost.  LocalTransport calls the server directly and cannot fail.
NetOutcomes ==
    IF transport = "local" \/ netFailures = MaxNetFailures THEN {"ok"}
    ELSE {"ok", "lost", "noReply"}

NetCount(o) == netFailures' = IF o = "ok" THEN netFailures ELSE netFailures + 1

\* HTTPTransport.SendLogFile (part_003:394-413): any 200 is success, and
\* HandleVerify (part_000:256-281) answers 200 whatever FinalVerify says.
HTTPSendLogFile(o, actual) == o = "ok"

\* ProtoHTTPTransport.SendLogFile (proto_transport.go:98-131): decodes the
\* VerifyResponse and returns its Verified field.
ProtoSendLogFile(o, actual) == o = "ok" /\ actual = "ok"

\* LocalTransport.SendLogFile (part_003:448-451): err == nil.
LocalSendLogFile(o, actual) == actual = "ok"

\* Transport.SendLogFile on rl.Transport.
SendLogFile(o, actual) ==
    CASE transport = "local" -> LocalSendLogFile(o, actual)
      [] transport = "http"  -> HTTPSendLogFile(o, actual)
      [] transport = "proto" -> ProtoSendLogFile(o, actual)

-----------------------------------------------------------------------------
(* NewRemoteLogger (part_003:706-730), one step per call it makes.         *)

\* logger.InitProtocol(logID) on the fresh logger.
NewInit(ts) ==
    /\ creator = "init"
    /\ \E ok \in BOOLEAN :
        /\ InitProtocolStep(ts, ok)
        /\ creator' = IF ok THEN "commit" ELSE "failed"
    /\ UNCHANGED <<serverVars, closed, pc, held, inflight, replies, netFailures, verdict, transport>>

\* transport.SendCommitment(commit): RegisterLog through HandleRegister.
NewCommit ==
    /\ creator = "commit"
    /\ \E o \in NetOutcomes :
        /\ IF o = "lost" THEN UNCHANGED commitments ELSE RegisterLog(commit)
        /\ creator' = IF o = "ok" THEN "open" ELSE "failed"
        /\ NetCount(o)
    /\ UNCHANGED <<vars, opens, closures, closed, pc, held, inflight, replies, verdict, transport>>

\* transport.SendOpen(openMsg): RegisterOpen through HandleOpen.
NewOpen ==
    /\ creator = "open"
    /\ \E o \in NetOutcomes :
        /\ IF o = "lost" THEN UNCHANGED opens ELSE RegisterOpen(open)
        /\ creator' = IF o = "ok" THEN "ready" ELSE "failed"
        /\ NetCount(o)
    /\ UNCHANGED <<vars, commitments, closures, closed, pc, held, inflight, replies, verdict, transport>>

-----------------------------------------------------------------------------
(* RemoteLogger.Close -> closeOnce (part_003:732-758), per closer.         *)

\* rl.mu.Lock(); if rl.closed { return nil }; rl.mu.Unlock().
CheckClosed(c) ==
    /\ creator = "ready"
    /\ pc[c] = "idle"
    /\ pc' = [pc EXCEPT ![c] = IF closed THEN "done" ELSE "protocol"]
    /\ UNCHANGED <<vars, serverVars, creator, closed, held, inflight, replies, netFailures, verdict, transport>>

\* rl.Logger.CloseProtocol(rl.LogID); an error is returned to the caller,
\* who may call Close again.
Protocol(c, ts) ==
    /\ pc[c] = "protocol"
    /\ \E ok \in BOOLEAN :
        /\ CloseProtocolStep(ts, ok)
        /\ pc' = [pc EXCEPT ![c] = IF ok THEN "send" ELSE "idle"]
        /\ held' = [held EXCEPT ![c] = IF ok THEN closeMsgs'[Len(closeMsgs')] ELSE NoMsg]
    /\ UNCHANGED <<serverVars, creator, closed, inflight, replies, netFailures, verdict, transport>>

\* Mutant of SendClosure: an HTTP transport marks the log closed as soon as
\* the request is posted, without waiting for T's answer.
SendClosureOptimistic(c) ==
    /\ pc[c] = "send"
    /\ \/ /\ transport = "local"
          /\ AcceptClosure(held[c])
          /\ closed' = (closed \/ commitments # NoMsg)
          /\ pc' = [pc EXCEPT ![c] = IF commitments # NoMsg THEN "done" ELSE "idle"]
          /\ UNCHANGED <<inflight, replies>>
       \/ /\ transport # "local"
          /\ inflight' = inflight \cup {[from |-> c, msg |-> held[c]]}
          /\ replies' = [replies EXCEPT ![c] = "none"]
          /\ pc' = [pc EXCEPT ![c] = "wait"]
          /\ closed' = TRUE
          /\ UNCHANGED closures
    /\ UNCHANGED <<vars, commitments, opens, creator, held, netFailures, verdict, transport>>

\* rl.Transport.SendClosure(closeMsg).  LocalTransport calls AcceptClosure
\* and returns its error, and on nil closeOnce sets rl.closed; an HTTP
\* transport posts the request and waits for the response.
SendClosure(c) ==
    /\ pc[c] = "send"
    /\ \/ /\ transport = "local"
          /\ AcceptClosure(held[c])
          /\ closed' = (closed \/ commitments # NoMsg)
          /\ pc' = [pc EXCEPT ![c] = IF commitments # NoMsg THEN "done" ELSE "idle"]
          /\ UNCHANGED <<inflight, replies>>
       \/ /\ transport # "local"
          /\ inflight' = inflight \cup {[from |-> c, msg |-> held[c]]}
          /\ replies' = [replies EXCEPT ![c] = "none"]
          /\ pc' = [pc EXCEPT ![c] = "wait"]
          /\ UNCHANGED <<closures, closed>>
    /\ UNCHANGED <<vars, commitments, opens, creator, held, netFailures, verdict, transport>>

\* Server.HandleClose (part_000:230-254) serving a posted request: 200 when
\* AcceptClosure succeeds, 400 otherwise.  The response reaches the closer
\* only if it is still waiting for that request.
HandleClose(req) ==
    /\ req \in inflight
    /\ inflight' = inflight \ {req}
    /\ AcceptClosure(req.msg)
    /\ replies' = IF pc[req.from] = "wait" /\ held[req.from] = req.msg
                  THEN [replies EXCEPT ![req.from] = IF commitments # NoMsg THEN "ok" ELSE "err"]
                  ELSE replies
    /\ UNCHANGED <<vars, commitments, opens, creator, closed, pc, held, netFailures, verdict, transport>>

\* Mutant of ConnDrop: the Post error is swallowed and the request lost,
\* and the call keeps waiting for a response that never comes.
ConnDropSwallowed(c) ==
    /\ pc[c] = "wait"
    /\ netFailures < MaxNetFailures
    /\ netFailures' = netFailures + 1
    /\ inflight' = inflight \ {[from |-> c, msg |-> held[c]]}
    /\ UNCHANGED <<vars, serverVars, creator, closed, pc, held, replies, verdict, transport>>

\* The closer's connection fails before the response is read: Post returns
\* an error.  The request may already be lost, or still reach the handler.
ConnDrop(c) ==
    /\ pc[c] = "wait"
    /\ netFailures < MaxNetFailures
    /\ netFailures' = netFailures + 1
    /\ \E lost \in BOOLEAN :
          inflight' = IF lost THEN inflight \ {[from |-> c, msg |-> held[c]]} ELSE inflight
    /\ pc' = [pc EXCEPT ![c] = "idle"]
    /\ held' = [held EXCEPT ![c] = NoMsg]
    /\ replies' = [replies EXCEPT ![c] = "none"]
    /\ UNCHANGED <<vars, serverVars, creator, closed, verdict, transport>>

\* SendClosure reads the response: 200 -> nil, and closeOnce sets
\* rl.closed; otherwise the error is returned.
Receive(c) ==
    /\ pc[c] = "wait"
    /\ replies[c] # "none"
    /\ closed' = (closed \/ replies[c] = "ok")
    /\ pc' = [pc EXCEPT ![c] = IF replies[c] = "ok" THEN "done" ELSE "idle"]
    /\ held' = [held EXCEPT ![c] = IF replies[c] = "ok" THEN held[c] ELSE NoMsg]
    /\ replies' = [replies EXCEPT ![c] = "none"]
    /\ UNCHANGED <<vars, serverVars, creator, inflight, netFailures, verdict, transport>>

-----------------------------------------------------------------------------
(* The application and an auditor.                                         *)

\* The application logs through the embedded Logger while no Close call is
\* under way and the log is not closed.
AppAppend(msg, ts) ==
    /\ creator = "ready"
    /\ ~closed /\ \A c \in Closers : pc[c] = "idle"
    /\ i < AppBudget
    /\ LoggerAppend(msg, ts)
    /\ UNCHANGED remoteVars

\* An auditor reads the store (Iter(1)) and calls Transport.SendLogFile,
\* which runs FinalVerify on T.
Audit ==
    /\ creator = "ready"
    /\ \E o \in NetOutcomes :
        /\ verdict' = [reported |-> SendLogFile(o, FinalVerify(IterFrom(recs, 1))),
                       actual |-> FinalVerify(IterFrom(recs, 1))]
        /\ NetCount(o)
    /\ UNCHANGED <<vars, serverVars, creator, closed, pc, held, inflight, replies, transport>>

RemoteNext ==
    \/ \E ts \in Times : NewInit(ts)
    \/ NewCommit \/ NewOpen
    \/ \E c \in Closers :
          \/ CheckClosed(c) \/ SendClosure(c) \/ ConnDrop(c) \/ Receive(c)
          \/ \E ts \in Times : Protocol(c, ts)
    \/ \E req \in inflight : HandleClose(req)
    \/ \E ts \in Times, msg \in Payloads : AppAppend(msg, ts)
    \/ Audit

RemoteSpec == RemoteInit /\ [][RemoteNext]_allVars

\* Fairness of the steps the code takes without its caller: inside a Close
\* call the goroutine keeps running, and the server keeps serving.  Calling
\* Close (CheckClosed), appending, auditing and network failures are not
\* fair.
RemoteFairness ==
    /\ \A c \in Closers :
          /\ WF_allVars(\E ts \in Times : Protocol(c, ts))
          /\ WF_allVars(SendClosure(c))
          /\ WF_allVars(Receive(c))
    /\ WF_allVars(\E req \in inflight : HandleClose(req))

RemoteFairSpec == RemoteSpec /\ RemoteFairness

-----------------------------------------------------------------------------
(* Properties.                                                             *)

\* Every variable of the composition has its type.
RemoteTypeOK ==
    /\ TypeOK
    /\ commitments \in CommitSet \cup {NoMsg}
    /\ opens \in OpenSet \cup {NoMsg}
    /\ closures \in CloseSet \cup {NoMsg}
    /\ creator \in {"init", "commit", "open", "ready", "failed"}
    /\ closed \in BOOLEAN
    /\ pc \in [Closers -> {"idle", "protocol", "send", "wait", "done"}]
    /\ held \in [Closers -> CloseSet \cup {NoMsg}]
    /\ inflight \subseteq [from : Closers, msg : CloseSet]
    /\ replies \in [Closers -> {"none", "ok", "err"}]
    /\ netFailures \in 0 .. MaxNetFailures
    /\ transport \in Transports

\* Spec 5 (protocol driver): Close is idempotent and MUST NOT produce a
\* second CloseMessage; closeOnce's flag is meant to ensure it.
CloseIdempotent == Len(closeMsgs) <= 1

\* Once rl.Close() has returned nil, T accepts the stored log: FinalVerify
\* over Iter(1) succeeds.  It ties what NewRemoteLogger sent (commitment,
\* open), what the last closure T accepted says and what the store holds.
ClosedLogVerifies == closed => FinalVerify(IterFrom(recs, 1)) = "ok"

\* Once rl.Close() has returned nil, T holds this logger's commitment and
\* opening and a CloseMessage this logger's CloseProtocol produced:
\* closeOnce sets rl.closed only after SendClosure reported that
\* AcceptClosure succeeded (part_003:748-756), whatever closers race, and
\* whatever requests are lost, answered late or retried.
ClosedAccepted ==
    closed => /\ commitments = commit /\ opens = open
              /\ \E k \in 1 .. Len(closeMsgs) : closures = closeMsgs[k]

\* Transport.SendLogFile "Returns true if verification passed"
\* (part_003:309): it never reports success for a log FinalVerify rejects.
VerdictSound == verdict # NoMsg /\ verdict.reported => verdict.actual = "ok"

\* Every Close call that got past the closed check returns, with nil or an
\* error: no closer waits forever on CloseProtocol or on the server.
CloseReturns ==
    \A c \in Closers : pc[c] \in {"protocol", "send", "wait"} ~> pc[c] \in {"idle", "done"}
=============================================================================
