---------------------------- MODULE RemoteProofs ----------------------------
(***************************************************************************)
(* Theorems about the RemoteLogger and the trusted server: the composition *)
(* stays typed, drives its Logger only through the Logger's operations,    *)
(* and a log Close reports closed is registered on T with its closure.     *)
(***************************************************************************)
EXTENDS Remote, LoggerStoreProofs

\* A closer that got its CloseMessage from CloseProtocol holds it until it
\* has posted it and read the response.
HeldTyped == \A c \in Closers : pc[c] \in {"send", "wait"} => held[c] \in CloseSet

\* The inductive strengthening of RemoteTypeOK.
RemoteInv == RemoteTypeOK /\ HeldTyped
\* A step that leaves the logger and its store alone keeps them typed.
LEMMA LoggerUnchangedType ==
    ASSUME TypeOK, UNCHANGED vars
    PROVE  TypeOK'
BY DEF vars, loggerVars, msgVars, storeVars, TypeOK

\* An HTTP exchange counts its failure within MaxNetFailures: once the
\* bound is reached every exchange succeeds.
LEMMA NetCountBound ==
    ASSUME netFailures \in 0 .. MaxNetFailures, NEW o \in NetOutcomes, NetCount(o)
    PROVE  netFailures' \in 0 .. MaxNetFailures
BY RemoteAssumption DEF NetOutcomes, NetCount

\* The initial state of the composition satisfies the strengthening.
LEMMA RemoteInitInv ==
    ASSUME RemoteInit
    PROVE  RemoteInv
<1>1. TypeOK
  BY InitType DEF RemoteInit
<1>2. netFailures \in 0 .. MaxNetFailures
  BY RemoteAssumption DEF RemoteInit
<1>3. /\ pc \in [Closers -> {"idle", "protocol", "send", "wait", "done"}]
      /\ held \in [Closers -> CloseSet \cup {NoMsg}]
      /\ replies \in [Closers -> {"none", "ok", "err"}]
      /\ HeldTyped
  BY DEF RemoteInit, HeldTyped
<1>4. QED
  BY <1>1, <1>2, <1>3 DEF RemoteInit, RemoteInv, RemoteTypeOK

\* The steps of NewRemoteLogger keep the strengthening.
LEMMA CreatorStepsInv ==
    ASSUME RemoteInv, \/ \E ts \in Times : NewInit(ts)
                      \/ NewCommit \/ NewOpen
    PROVE  RemoteInv'
<1> USE DEF RemoteInv, RemoteTypeOK, HeldTyped
<1>1. CASE \E ts \in Times : NewInit(ts)
  <2>1. PICK ts \in Times, ok \in BOOLEAN :
            /\ InitProtocolStep(ts, ok)
            /\ creator' = IF ok THEN "commit" ELSE "failed"
            /\ UNCHANGED <<serverVars, closed, pc, held, inflight, replies,
                           netFailures, verdict, transport>>
    BY <1>1 DEF NewInit
  <2>2. TypeOK'
    BY <2>1, InitProtocolStepType
  <2>3. QED
    BY <2>1, <2>2 DEF serverVars
<1>2. CASE NewCommit
  <2>1. PICK o \in NetOutcomes :
            /\ IF o = "lost" THEN UNCHANGED commitments ELSE RegisterLog(commit)
            /\ creator' = IF o = "ok" THEN "open" ELSE "failed"
            /\ NetCount(o)
    BY <1>2 DEF NewCommit
  <2>2. netFailures' \in 0 .. MaxNetFailures
    BY <2>1, NetCountBound
  <2>3. commitments' \in CommitSet \cup {NoMsg}
    BY <2>1 DEF RegisterLog, TypeOK
  <2>4. TypeOK'
    BY <1>2, LoggerUnchangedType DEF NewCommit
  <2>5. QED
    BY <1>2, <2>1, <2>2, <2>3, <2>4 DEF NewCommit
<1>3. CASE NewOpen
  <2>1. PICK o \in NetOutcomes :
            /\ IF o = "lost" THEN UNCHANGED opens ELSE RegisterOpen(open)
            /\ creator' = IF o = "ok" THEN "ready" ELSE "failed"
            /\ NetCount(o)
    BY <1>3 DEF NewOpen
  <2>2. netFailures' \in 0 .. MaxNetFailures
    BY <2>1, NetCountBound
  <2>3. opens' \in OpenSet \cup {NoMsg}
    BY <2>1 DEF RegisterOpen, TypeOK
  <2>4. TypeOK'
    BY <1>3, LoggerUnchangedType DEF NewOpen
  <2>5. QED
    BY <1>3, <2>1, <2>2, <2>3, <2>4 DEF NewOpen
<1>4. QED
  BY <1>1, <1>2, <1>3
\* A closer's steps keep the strengthening.
LEMMA CloserStepsInv ==
    ASSUME RemoteInv, NEW c \in Closers,
           \/ CheckClosed(c) \/ SendClosure(c) \/ ConnDrop(c) \/ Receive(c)
           \/ \E ts \in Times : Protocol(c, ts)
    PROVE  RemoteInv'
<1> USE DEF RemoteInv, RemoteTypeOK, HeldTyped
<1>1. CASE CheckClosed(c)
  <2>1. TypeOK'
    BY <1>1, LoggerUnchangedType DEF CheckClosed
  <2>2. pc' = [pc EXCEPT ![c] = IF closed THEN "done" ELSE "protocol"]
        /\ pc'[c] \notin {"send", "wait"}
    BY <1>1 DEF CheckClosed
  <2>3. pc' \in [Closers -> {"idle", "protocol", "send", "wait", "done"}]
    BY <2>2
  <2>4. HeldTyped'
    BY <1>1, <2>2 DEF CheckClosed
  <2>5. QED
    BY <1>1, <2>1, <2>3, <2>4 DEF CheckClosed, serverVars
<1>2. CASE \E ts \in Times : Protocol(c, ts)
  <2>1. PICK ts \in Times, ok \in BOOLEAN :
            /\ CloseProtocolStep(ts, ok)
            /\ pc' = [pc EXCEPT ![c] = IF ok THEN "send" ELSE "idle"]
            /\ held' = [held EXCEPT ![c] = IF ok THEN closeMsgs'[Len(closeMsgs')] ELSE NoMsg]
            /\ UNCHANGED <<serverVars, creator, closed, inflight, replies,
                           netFailures, verdict, transport>>
    BY <1>2 DEF Protocol
  <2>2. TypeOK'
    BY <2>1, CloseProtocolStepType
  <2>3. ok => closeMsgs'[Len(closeMsgs')] \in CloseSet
    <3>1. ok => Len(closeMsgs') >= 1
      BY <2>1 DEF CloseProtocolStep, TypeOK
    <3>2. QED
      BY <2>2, <3>1 DEF TypeOK
  <2>4. held' \in [Closers -> CloseSet \cup {NoMsg}]
    BY <2>1, <2>3
  <2>5. HeldTyped'
    BY <2>1, <2>3
  <2>6. QED
    BY <2>1, <2>2, <2>4, <2>5 DEF serverVars
<1>3. CASE SendClosure(c)
  <2>1. held[c] \in CloseSet
    BY <1>3 DEF SendClosure
  <2>2. TypeOK'
    BY <1>3, LoggerUnchangedType DEF SendClosure
  <2>3. CASE transport = "local"
    BY <1>3, <2>1, <2>2, <2>3 DEF SendClosure, AcceptClosure
  <2>4. CASE transport # "local"
    BY <1>3, <2>1, <2>2, <2>4 DEF SendClosure
  <2>5. QED
    BY <2>3, <2>4
<1>4. CASE ConnDrop(c)
  <2>1. TypeOK'
    BY <1>4, LoggerUnchangedType DEF ConnDrop
  <2>2. netFailures' \in 0 .. MaxNetFailures
    BY <1>4, RemoteAssumption DEF ConnDrop
  <2>3. inflight' \subseteq inflight
    BY <1>4 DEF ConnDrop
  <2>4. QED
    BY <1>4, <2>1, <2>2, <2>3 DEF ConnDrop, serverVars
<1>5. CASE Receive(c)
  BY <1>5, LoggerUnchangedType DEF Receive, serverVars
<1>6. QED
  BY <1>1, <1>2, <1>3, <1>4, <1>5

\* The server's HandleClose, the application's appends and an audit keep
\* the strengthening.
LEMMA OtherStepsInv ==
    ASSUME RemoteInv,
           \/ \E req \in inflight : HandleClose(req)
           \/ \E ts \in Times, msg \in Payloads : AppAppend(msg, ts)
           \/ Audit
    PROVE  RemoteInv'
<1> USE DEF RemoteInv, RemoteTypeOK, HeldTyped
<1>1. CASE \E req \in inflight : HandleClose(req)
  <2>1. PICK req \in inflight : HandleClose(req)
    BY <1>1
  <2>2. req.msg \in CloseSet
    OBVIOUS
  <2>3. TypeOK'
    BY <2>1, LoggerUnchangedType DEF HandleClose
  <2>4. closures' \in CloseSet \cup {NoMsg}
    BY <2>1, <2>2 DEF HandleClose, AcceptClosure
  <2>5. replies' \in [Closers -> {"none", "ok", "err"}]
    BY <2>1 DEF HandleClose
  <2>6. QED
    BY <2>1, <2>3, <2>4, <2>5 DEF HandleClose
<1>2. CASE \E ts \in Times, msg \in Payloads : AppAppend(msg, ts)
  <2>1. PICK ts \in Times, msg \in Payloads : AppAppend(msg, ts)
    BY <1>2
  <2>2. msg \in Msgs
    BY DEF Msgs
  <2>3. TypeOK'
    BY <2>1, <2>2, LoggerAppendType DEF AppAppend
  <2>4. QED
    BY <2>1, <2>3 DEF AppAppend, remoteVars, serverVars
<1>3. CASE Audit
  <2>1. PICK o \in NetOutcomes : NetCount(o)
    BY <1>3 DEF Audit
  <2>2. netFailures' \in 0 .. MaxNetFailures
    BY <2>1, NetCountBound
  <2>3. TypeOK'
    BY <1>3, LoggerUnchangedType DEF Audit
  <2>4. QED
    BY <1>3, <2>2, <2>3 DEF Audit, serverVars
<1>4. QED
  BY <1>1, <1>2, <1>3

\* Every step of the composition keeps the strengthening.
LEMMA RemoteNextInv ==
    ASSUME RemoteInv, [RemoteNext]_allVars
    PROVE  RemoteInv'
<1>1. CASE \/ \E ts \in Times : NewInit(ts)
           \/ NewCommit \/ NewOpen
  BY <1>1, CreatorStepsInv
<1>2. CASE \E c \in Closers :
             \/ CheckClosed(c) \/ SendClosure(c) \/ ConnDrop(c) \/ Receive(c)
             \/ \E ts \in Times : Protocol(c, ts)
  BY <1>2, CloserStepsInv
<1>3. CASE \/ \E req \in inflight : HandleClose(req)
           \/ \E ts \in Times, msg \in Payloads : AppAppend(msg, ts)
           \/ Audit
  BY <1>3, OtherStepsInv
<1>4. CASE UNCHANGED allVars
  BY <1>4, LoggerUnchangedType
     DEF allVars, remoteVars, serverVars, RemoteInv, RemoteTypeOK, HeldTyped
<1>5. QED
  BY <1>1, <1>2, <1>3, <1>4 DEF RemoteNext

\* Whatever the closers, the server, the network and the application
\* interleave, every variable of the composition keeps its type: T's maps
\* hold messages the logger produced, every posted close request carries
\* a CloseMessage, and failed exchanges stay within MaxNetFailures.
THEOREM RemoteTypeCorrect == RemoteSpec => []RemoteTypeOK
<1>1. RemoteInit => RemoteInv
  BY RemoteInitInv
<1>2. RemoteInv /\ [RemoteNext]_allVars => RemoteInv'
  BY RemoteNextInv
<1>3. QED
  BY <1>1, <1>2, PTL DEF RemoteSpec, RemoteInv

-----------------------------------------------------------------------------
(* One closer over a reliable network closes once.                         *)

\* NewRemoteLogger holds a commitment once InitProtocol succeeded.
CommitKnown == creator \in {"commit", "open", "ready"} => commit \in CommitSet

\* Once SendCommitment returned nil, T holds that commitment.
CommitRegistered == creator \in {"open", "ready"} => commitments = commit

\* Close is only called on a RemoteLogger NewRemoteLogger returned.
ClosersAfterReady == \A c \in Closers : pc[c] # "idle" => creator = "ready"

\* T never answers a close request with an error.
RepliesOk == \A c \in Closers : replies[c] \in {"none", "ok"}

\* No CloseMessage exists before a closer's CloseProtocol succeeded.
NoCloseBeforeProtocol ==
    \A c \in Closers : pc[c] \in {"idle", "protocol"} => closeMsgs = << >>

\* The inductive strengthening of CloseIdempotent for one closer and no
\* network failure.
CloseInv ==
    /\ RemoteInv /\ CommitKnown /\ CommitRegistered /\ ClosersAfterReady
    /\ RepliesOk /\ NoCloseBeforeProtocol /\ CloseIdempotent

\* A ready RemoteLogger's log is registered on T.
LEMMA ReadyRegistered ==
    ASSUME CommitKnown, CommitRegistered, creator = "ready"
    PROVE  commitments # NoMsg
BY NoMsgAssumption DEF CommitKnown, CommitRegistered

\* The steps of NewRemoteLogger keep CloseInv when no exchange fails.
LEMMA CreatorStepsClose ==
    ASSUME MaxNetFailures = 0, CloseInv, RemoteInv',
           \/ \E ts \in Times : NewInit(ts)
           \/ NewCommit \/ NewOpen
    PROVE  CloseInv'
<1> USE DEF CloseInv, RemoteInv
<1>1. \A c \in Closers : pc[c] = "idle"
  BY DEF NewInit, NewCommit, NewOpen, ClosersAfterReady
<1>2. CASE \E ts \in Times : NewInit(ts)
  <2>1. PICK ts \in Times, ok \in BOOLEAN :
            /\ InitProtocolStep(ts, ok)
            /\ creator' = IF ok THEN "commit" ELSE "failed"
            /\ UNCHANGED <<serverVars, closed, pc, held, inflight, replies,
                           netFailures, verdict, transport>>
    BY <1>2 DEF NewInit
  <2>2. ok => commit' \in CommitSet
    BY <2>1 DEF InitProtocolStep, CommitSet, RemoteTypeOK, TypeOK
  <2>3. closeMsgs' = closeMsgs
    BY <2>1 DEF InitProtocolStep
  <2>4. QED
    BY <1>1, <2>1, <2>2, <2>3
       DEF CommitKnown, CommitRegistered, ClosersAfterReady, RepliesOk,
           NoCloseBeforeProtocol, CloseIdempotent
<1>3. CASE NewCommit
  <2>1. NetOutcomes = {"ok"}
    BY DEF NetOutcomes, RemoteTypeOK
  <2>2. commitments' = commit /\ creator' = "open" /\ creator = "commit"
    BY <1>3, <2>1 DEF NewCommit, RegisterLog
  <2>3. QED
    BY <1>1, <1>3, <2>2
       DEF NewCommit, vars, msgVars, CommitKnown, CommitRegistered, ClosersAfterReady,
           RepliesOk, NoCloseBeforeProtocol, CloseIdempotent
<1>4. CASE NewOpen
  <2>1. NetOutcomes = {"ok"}
    BY DEF NetOutcomes, RemoteTypeOK
  <2>2. creator' = "ready" /\ creator = "open"
    BY <1>4, <2>1 DEF NewOpen
  <2>3. QED
    BY <1>1, <1>4, <2>2
       DEF NewOpen, vars, msgVars, CommitKnown, CommitRegistered, ClosersAfterReady,
           RepliesOk, NoCloseBeforeProtocol, CloseIdempotent
<1>5. QED
  BY <1>2, <1>3, <1>4


\* A closer's steps keep CloseInv when it is the only closer and no
\* exchange fails.
LEMMA CloserStepsClose ==
    ASSUME \A a, b \in Closers : a = b, MaxNetFailures = 0,
           CloseInv, RemoteInv', NEW c \in Closers,
           \/ CheckClosed(c) \/ SendClosure(c) \/ ConnDrop(c) \/ Receive(c)
           \/ \E ts \in Times : Protocol(c, ts)
    PROVE  CloseInv'
<1> USE DEF CloseInv, RemoteInv
<1>1. \A c2 \in Closers : c2 = c
  OBVIOUS
<1>2. CASE CheckClosed(c)
  <2>1. /\ creator = "ready" /\ pc[c] = "idle" /\ closeMsgs = << >>
        /\ pc'[c] \in {"done", "protocol"}
    BY <1>2 DEF CheckClosed, NoCloseBeforeProtocol, RemoteTypeOK
  <2>2. /\ UNCHANGED <<commit, open, closeMsgs, commitments, creator, replies>>
        /\ pc' = [pc EXCEPT ![c] = IF closed THEN "done" ELSE "protocol"]
    BY <1>2 DEF CheckClosed, vars, msgVars, serverVars
  <2>3. CommitKnown' /\ CommitRegistered' /\ RepliesOk' /\ CloseIdempotent'
    BY <2>2 DEF CommitKnown, CommitRegistered, RepliesOk, CloseIdempotent
  <2>4. ClosersAfterReady' /\ NoCloseBeforeProtocol'
    BY <2>1, <2>2 DEF ClosersAfterReady, NoCloseBeforeProtocol, RemoteTypeOK
  <2>5. QED
    BY <2>3, <2>4
<1>3. CASE \E ts \in Times : Protocol(c, ts)
  <2>1. PICK ts \in Times, ok \in BOOLEAN :
            /\ CloseProtocolStep(ts, ok)
            /\ pc' = [pc EXCEPT ![c] = IF ok THEN "send" ELSE "idle"]
            /\ UNCHANGED <<serverVars, creator, closed, inflight, replies,
                           netFailures, verdict, transport>>
    BY <1>3 DEF Protocol
  <2>2. pc[c] = "protocol" /\ closeMsgs = << >> /\ creator = "ready"
    BY <1>3 DEF Protocol, NoCloseBeforeProtocol, ClosersAfterReady, RemoteTypeOK
  <2>3. /\ ok => Len(closeMsgs') = 1
        /\ ~ok => closeMsgs' = << >>
        /\ UNCHANGED <<commit, open>>
    BY <2>1, <2>2 DEF CloseProtocolStep
  <2>4. CommitKnown' /\ CommitRegistered' /\ RepliesOk'
    BY <2>1, <2>3 DEF serverVars, CommitKnown, CommitRegistered, RepliesOk
  <2>5. ClosersAfterReady'
    BY <2>1, <2>2 DEF ClosersAfterReady, RemoteTypeOK
  <2>6. CASE ok
    <3>1. pc'[c] = "send" /\ Len(closeMsgs') = 1
      BY <2>1, <2>3, <2>6 DEF RemoteTypeOK
    <3>2. QED
      BY <1>1, <3>1, <2>4, <2>5 DEF NoCloseBeforeProtocol, CloseIdempotent
  <2>7. CASE ~ok
    <3>1. closeMsgs' = << >>
      BY <2>3, <2>7
    <3>2. QED
      BY <3>1, <2>4, <2>5 DEF NoCloseBeforeProtocol, CloseIdempotent
  <2>8. QED
    BY <2>6, <2>7
<1>4. CASE SendClosure(c)
  <2>1. pc[c] = "send" /\ creator = "ready"
    BY <1>4 DEF SendClosure, ClosersAfterReady, RemoteTypeOK
  <2>2. commitments # NoMsg
    BY <2>1, ReadyRegistered
  <2>3. pc'[c] \in {"done", "wait"} /\ replies' \in [Closers -> {"none", "ok"}]
    BY <1>4, <2>2 DEF SendClosure, RepliesOk, RemoteTypeOK
  <2>4. /\ CommitKnown' /\ CommitRegistered' /\ ClosersAfterReady'
        /\ RepliesOk' /\ NoCloseBeforeProtocol' /\ CloseIdempotent'
    BY <1>1, <1>4, <2>1, <2>3
       DEF SendClosure, AcceptClosure, vars, msgVars, CommitKnown, CommitRegistered,
           ClosersAfterReady, RepliesOk, NoCloseBeforeProtocol, CloseIdempotent
  <2>5. QED
    BY <2>4
<1>5. CASE ConnDrop(c)
  BY <1>5 DEF ConnDrop, RemoteTypeOK
<1>6. CASE Receive(c)
  <2>1. replies[c] = "ok"
    BY <1>6 DEF Receive, RepliesOk
  <2>2. pc'[c] = "done" /\ replies'[c] = "none"
    BY <1>6, <2>1 DEF Receive, RemoteTypeOK
  <2>3. /\ CommitKnown' /\ CommitRegistered' /\ ClosersAfterReady'
        /\ RepliesOk' /\ NoCloseBeforeProtocol' /\ CloseIdempotent'
    BY <1>1, <1>6, <2>2
       DEF Receive, vars, msgVars, serverVars, CommitKnown, CommitRegistered,
           ClosersAfterReady, RepliesOk, NoCloseBeforeProtocol, CloseIdempotent,
           RemoteTypeOK
  <2>4. QED
    BY <2>3
<1>7. QED
  BY <1>2, <1>3, <1>4, <1>5, <1>6

\* The server's HandleClose, the application's appends and an audit keep
\* CloseInv.
LEMMA OtherStepsClose ==
    ASSUME CloseInv, RemoteInv',
           \/ \E req \in inflight : HandleClose(req)
           \/ \E ts \in Times, msg \in Payloads : AppAppend(msg, ts)
           \/ Audit
    PROVE  CloseInv'
<1> USE DEF CloseInv, RemoteInv
<1>1. CASE \E req \in inflight : HandleClose(req)
  <2>1. PICK req \in inflight : HandleClose(req)
    BY <1>1
  <2>2. req.from \in Closers
    BY DEF RemoteTypeOK
  <2>3. pc[req.from] = "wait" => commitments # NoMsg
    BY <2>2, ReadyRegistered DEF ClosersAfterReady
  <2>4. replies' \in [Closers -> {"none", "ok"}]
    BY <2>1, <2>2, <2>3 DEF HandleClose, RepliesOk, RemoteTypeOK
  <2>5. QED
    BY <2>1, <2>4
       DEF HandleClose, vars, msgVars, CommitKnown, CommitRegistered, ClosersAfterReady,
           RepliesOk, NoCloseBeforeProtocol, CloseIdempotent
<1>2. CASE \E ts \in Times, msg \in Payloads : AppAppend(msg, ts)
  BY <1>2
     DEF AppAppend, LoggerAppend, msgVars, remoteVars, serverVars, CommitKnown,
         CommitRegistered, ClosersAfterReady, RepliesOk, NoCloseBeforeProtocol,
         CloseIdempotent
<1>3. CASE Audit
  BY <1>3
     DEF Audit, vars, msgVars, serverVars, CommitKnown, CommitRegistered,
         ClosersAfterReady, RepliesOk, NoCloseBeforeProtocol, CloseIdempotent
<1>4. QED
  BY <1>1, <1>2, <1>3

\* Spec 5 (protocol driver): with one goroutine calling Close and no HTTP
\* exchange failing, Close produces at most one CloseMessage, on any
\* transport and whatever Store.Append failures the logger meets: a
\* CloseProtocol that fails produces none, and after one that succeeds
\* closeOnce reaches rl.closed = true, since T registered the log before
\* NewRemoteLogger returned and so accepts the closure
\* (part_003:732-758).  Without either hypothesis the statement is false:
\* see the close_race (two closers) and close_retry (a lost response)
\* runs.
THEOREM SingleCloserIdempotent ==
    ASSUME \A a, b \in Closers : a = b, MaxNetFailures = 0
    PROVE  RemoteSpec => []CloseIdempotent
<1>1. RemoteInit => CloseInv
  <2> SUFFICES ASSUME RemoteInit PROVE CloseInv
    OBVIOUS
  <2>1. RemoteInv
    BY RemoteInitInv
  <2>2. QED
    BY <2>1
       DEF RemoteInit, Init, CloseInv, CommitKnown, CommitRegistered, ClosersAfterReady,
           RepliesOk, NoCloseBeforeProtocol, CloseIdempotent
<1>2. CloseInv /\ [RemoteNext]_allVars => CloseInv'
  <2> SUFFICES ASSUME CloseInv, [RemoteNext]_allVars PROVE CloseInv'
    OBVIOUS
  <2>1. RemoteInv'
    BY RemoteNextInv DEF CloseInv
  <2>2. CASE \/ \E ts \in Times : NewInit(ts)
             \/ NewCommit \/ NewOpen
    BY <2>1, <2>2, CreatorStepsClose
  <2>3. CASE \E c \in Closers :
               \/ CheckClosed(c) \/ SendClosure(c) \/ ConnDrop(c) \/ Receive(c)
               \/ \E ts \in Times : Protocol(c, ts)
    BY <2>1, <2>3, CloserStepsClose
  <2>4. CASE \/ \E req \in inflight : HandleClose(req)
             \/ \E ts \in Times, msg \in Payloads : AppAppend(msg, ts)
             \/ Audit
    BY <2>1, <2>4, OtherStepsClose
  <2>5. CASE UNCHANGED allVars
    BY <2>1, <2>5
       DEF allVars, remoteVars, serverVars, vars, msgVars, CloseInv, CommitKnown,
           CommitRegistered, ClosersAfterReady, RepliesOk, NoCloseBeforeProtocol,
           CloseIdempotent
  <2>6. QED
    BY <2>2, <2>3, <2>4, <2>5 DEF RemoteNext
<1>3. QED
  BY <1>1, <1>2, PTL DEF RemoteSpec, CloseInv


-----------------------------------------------------------------------------
(* The RemoteLogger drives its Logger only through the Logger's own        *)
(* operations: every step of the composition is a Logger step or leaves   *)
(* the logger and its store alone.                                         *)

\* NewRemoteLogger calls InitProtocol on the Logger New returned: until it
\* has, nothing has been appended and no Close call has got past the
\* closed check, which waits for NewRemoteLogger to have returned.
FreshLogger == creator = "init" => i = 0 /\ \A c \in Closers : pc[c] = "idle"

\* Each step of the composition is a step of the Logger's Next or a
\* stutter of its variables: InitProtocol on a fresh logger (NewInit),
\* CloseProtocol (Protocol), Append of an application message (AppAppend).
LEMMA RemoteStepIsLoggerStep ==
    ASSUME FreshLogger, [RemoteNext]_allVars
    PROVE  [Next]_vars /\ FreshLogger' /\ restarts' = restarts
<1>1. CASE \E ts \in Times : NewInit(ts)
  <2>1. PICK ts \in Times : NewInit(ts)
    BY <1>1
  <2>2. i = 0
    BY <2>1 DEF NewInit, FreshLogger
  <2>3. InitProtocol(ts) /\ restarts' = restarts
    BY <2>1, <2>2 DEF NewInit, InitProtocol, InitProtocolStep
  <2>4. creator' # "init"
    BY <2>1 DEF NewInit
  <2>5. QED
    BY <2>3, <2>4 DEF Next, FreshLogger
<1>2. CASE NewCommit \/ NewOpen
  <2>1. UNCHANGED vars /\ creator' # "init"
    BY <1>2 DEF NewCommit, NewOpen
  <2>2. QED
    BY <2>1 DEF FreshLogger, vars
<1>3. ASSUME NEW c \in Closers,
             \/ CheckClosed(c) \/ SendClosure(c) \/ ConnDrop(c) \/ Receive(c)
             \/ \E ts \in Times : Protocol(c, ts)
      PROVE  [Next]_vars /\ FreshLogger' /\ restarts' = restarts
  <2>1. creator # "init" /\ creator' = creator
    BY <1>3 DEF CheckClosed, SendClosure, ConnDrop, Receive, Protocol, FreshLogger
  <2>2. CASE \E ts \in Times : Protocol(c, ts)
    <3>1. PICK ts \in Times : Protocol(c, ts)
      BY <2>2
    <3>2. CloseProtocol(ts) /\ restarts' = restarts
      BY <3>1 DEF Protocol, CloseProtocol, CloseProtocolStep
    <3>3. QED
      BY <2>1, <3>2 DEF Next, FreshLogger
  <2>3. CASE CheckClosed(c) \/ SendClosure(c) \/ ConnDrop(c) \/ Receive(c)
    <3>1. UNCHANGED vars
      BY <2>3 DEF CheckClosed, SendClosure, ConnDrop, Receive
    <3>2. QED
      BY <2>1, <3>1 DEF FreshLogger, vars
  <2>4. QED
    BY <1>3, <2>2, <2>3
<1>4. CASE \E req \in inflight : HandleClose(req)
  <2>1. UNCHANGED <<vars, creator, pc>>
    BY <1>4 DEF HandleClose
  <2>2. QED
    BY <2>1 DEF FreshLogger, vars, loggerVars
<1>5. CASE \E ts \in Times, msg \in Payloads : AppAppend(msg, ts)
  <2>1. PICK ts \in Times, msg \in Payloads : AppAppend(msg, ts)
    BY <1>5
  <2>2. LoggerAppend(msg, ts) /\ restarts' = restarts /\ creator = "ready"
        /\ creator' = creator
    BY <2>1 DEF AppAppend, LoggerAppend, remoteVars
  <2>3. QED
    BY <2>2 DEF Next, FreshLogger
<1>6. CASE Audit
  <2>1. UNCHANGED vars /\ creator = "ready" /\ creator' = creator
    BY <1>6 DEF Audit
  <2>2. QED
    BY <2>1 DEF FreshLogger, vars
<1>7. CASE UNCHANGED allVars
  BY <1>7 DEF allVars, remoteVars, FreshLogger, vars, loggerVars
<1>8. QED
  BY <1>1, <1>2, <1>3, <1>4, <1>5, <1>6, <1>7 DEF RemoteNext

\* RemoteLogger over either store and any transport uses its Logger as the
\* Logger specification allows: the behaviour of the logger, its messages
\* and its store under RemoteSpec is a behaviour of Spec, so every theorem
\* about Spec holds of the composition.  NewRemoteLogger's InitProtocol runs
\* on a fresh logger (part_003:706-730), closeOnce only calls CloseProtocol
\* (part_003:732-758), and the application only calls Append.
THEOREM RemoteImplementsLogger == RemoteSpec => Spec
<1>1. RemoteInit => Init /\ FreshLogger
  BY DEF RemoteInit, Init, FreshLogger
<1>2. FreshLogger /\ [RemoteNext]_allVars => [Next]_vars /\ FreshLogger'
  BY RemoteStepIsLoggerStep
<1>3. QED
  BY <1>1, <1>2, PTL DEF RemoteSpec, Spec

\* No RemoteLogger step restarts the logger process: New runs once, inside
\* NewRemoteLogger.
LEMMA RemoteNoRestart == RemoteSpec => [](restarts = 0)
<1>1. RemoteInit => restarts = 0 /\ FreshLogger
  BY DEF RemoteInit, Init, FreshLogger
<1>2. restarts = 0 /\ FreshLogger /\ [RemoteNext]_allVars
        => (restarts = 0 /\ FreshLogger)'
  BY RemoteStepIsLoggerStep
<1>3. QED
  BY <1>1, <1>2, PTL DEF RemoteSpec

\* Spec 8.1 for the RemoteLogger over SQLite: the logs table always holds
\* exactly l.i records and the tail row is the logger's LastState, through
\* failed Store.Append transactions inside InitProtocol, Append and
\* CloseProtocol alike.
THEOREM RemoteSqliteAgrees ==
    ASSUME Backend = "sqlite"
    PROVE  RemoteSpec => []StoreAgreesWithLogger
BY RemoteImplementsLogger, RemoteNoRestart, SqliteAgreesWithLogger, PTL

\* Over SQLite the log the RemoteLogger leaves in the store is an
\* append-only log of the messages whose Append returned nil.
THEOREM RemoteLogRefinement ==
    ASSUME Backend = "sqlite"
    PROVE  RemoteSpec => ImplementsAppendOnlyLog
BY RemoteImplementsLogger, LogRefinement


-----------------------------------------------------------------------------
(* A log closed by Close is registered on T with one of its closures, for  *)
(* any number of closers and any network failures.                         *)

\* m is one of the CloseMessages this logger's CloseProtocol returned.
FromLogger(m) == \E k \in 1 .. Len(closeMsgs) : m = closeMsgs[k]

\* Once SendOpen returned nil, T holds that opening.
OpenRegistered == creator = "ready" => opens = open

\* Every CloseMessage a closer holds or has posted, and the one T keeps,
\* came from this logger's CloseProtocol.
ClosuresFromLogger ==
    /\ \A c \in Closers : pc[c] \in {"send", "wait"} => FromLogger(held[c])
    /\ \A req \in inflight : FromLogger(req.msg)
    /\ closures # NoMsg => FromLogger(closures)

\* T answers "ok" only once AcceptClosure stored a closure, and rl.closed
\* is only set on a RemoteLogger NewRemoteLogger returned.
OkAfterAccept ==
    /\ \A c \in Closers : replies[c] = "ok" => closures # NoMsg
    /\ closed => creator = "ready"

\* The inductive strengthening of ClosedAccepted.
AcceptInv ==
    /\ RemoteInv /\ CommitKnown /\ CommitRegistered /\ OpenRegistered
    /\ ClosersAfterReady /\ ClosuresFromLogger /\ OkAfterAccept /\ ClosedAccepted

\* CloseProtocol only appends to the CloseMessages it returned, so a message
\* it returned stays one.
LEMMA FromLoggerKept ==
    ASSUME closeMsgs \in Seq(CloseSet), NEW m, FromLogger(m),
           \/ closeMsgs' = closeMsgs
           \/ \E x : closeMsgs' = Append(closeMsgs, x)
    PROVE  FromLogger(m)'
BY DEF FromLogger

\* A message CloseProtocol returned is a CloseMessage, not nil.
LEMMA FromLoggerIsClose ==
    ASSUME closeMsgs \in Seq(CloseSet), NEW m, FromLogger(m)
    PROVE  m \in CloseSet /\ m # NoMsg
BY NoMsgAssumption DEF FromLogger

\* The steps of NewRemoteLogger keep AcceptInv: they run before any Close
\* call and change no CloseMessage.
LEMMA CreatorStepsAccept ==
    ASSUME AcceptInv, RemoteInv',
           \/ \E ts \in Times : NewInit(ts)
           \/ NewCommit \/ NewOpen
    PROVE  AcceptInv'
<1> USE DEF AcceptInv
<1>1. /\ \A c \in Closers : pc[c] = "idle"
      /\ ~closed
  BY DEF NewInit, NewCommit, NewOpen, ClosersAfterReady, OkAfterAccept
<1>2. UNCHANGED <<closeMsgs, closures, closed, pc, held, inflight, replies>>
  BY DEF NewInit, InitProtocolStep, NewCommit, NewOpen, vars, msgVars, serverVars
<1>3. ClosuresFromLogger' /\ OkAfterAccept' /\ ClosedAccepted'
  <2>1. \A m : FromLogger(m) => FromLogger(m)'
    BY <1>2 DEF FromLogger
  <2>2. \A c \in Closers : pc'[c] \notin {"send", "wait"}
    BY <1>1, <1>2
  <2>3. QED
    BY <1>1, <1>2, <2>1, <2>2 DEF ClosuresFromLogger, OkAfterAccept, ClosedAccepted
<1>4. ClosersAfterReady'
  BY <1>1, <1>2 DEF ClosersAfterReady
<1>5. CASE \E ts \in Times : NewInit(ts)
  <2>1. PICK ts \in Times, ok \in BOOLEAN :
            /\ InitProtocolStep(ts, ok)
            /\ creator' = IF ok THEN "commit" ELSE "failed"
    BY <1>5 DEF NewInit
  <2>2. ok => commit' \in CommitSet
    BY <2>1 DEF InitProtocolStep, CommitSet, RemoteInv, RemoteTypeOK, TypeOK
  <2>3. QED
    BY <1>3, <1>4, <2>1, <2>2 DEF CommitKnown, CommitRegistered, OpenRegistered
<1>6. CASE NewCommit
  <2>1. PICK o \in NetOutcomes :
            /\ IF o = "lost" THEN UNCHANGED commitments ELSE RegisterLog(commit)
            /\ creator' = IF o = "ok" THEN "open" ELSE "failed"
    BY <1>6 DEF NewCommit
  <2>2. creator = "commit" /\ UNCHANGED <<commit, open>>
    BY <1>6 DEF NewCommit, vars, msgVars
  <2>3. creator' = "open" => commitments' = commit'
    BY <2>1, <2>2 DEF RegisterLog
  <2>4. QED
    BY <1>3, <1>4, <2>1, <2>2, <2>3 DEF CommitKnown, CommitRegistered, OpenRegistered
<1>7. CASE NewOpen
  <2>1. PICK o \in NetOutcomes :
            /\ IF o = "lost" THEN UNCHANGED opens ELSE RegisterOpen(open)
            /\ creator' = IF o = "ok" THEN "ready" ELSE "failed"
    BY <1>7 DEF NewOpen
  <2>2. creator = "open" /\ UNCHANGED <<commit, open, commitments>>
    BY <1>7 DEF NewOpen, vars, msgVars
  <2>3. creator' = "ready" => opens' = open'
    BY <2>1, <2>2 DEF RegisterOpen
  <2>4. QED
    BY <1>3, <1>4, <2>1, <2>2, <2>3 DEF CommitKnown, CommitRegistered, OpenRegistered
<1>8. QED
  BY <1>5, <1>6, <1>7


\* A closer's steps keep AcceptInv, however many closers run and whatever
\* exchanges fail: rl.closed is set only after T's AcceptClosure stored a
\* closure, locally or as reported by an "ok" response.
LEMMA CloserStepsAccept ==
    ASSUME AcceptInv, RemoteInv', NEW c \in Closers,
           \/ CheckClosed(c) \/ SendClosure(c) \/ ConnDrop(c) \/ Receive(c)
           \/ \E ts \in Times : Protocol(c, ts)
    PROVE  AcceptInv'
<1> USE DEF AcceptInv
<1>1. creator = "ready" /\ creator' = creator
  BY DEF CheckClosed, SendClosure, ConnDrop, Receive, Protocol, ClosersAfterReady
<1>2. /\ commitments = commit /\ opens = open /\ commit \in CommitSet
      /\ commitments # NoMsg
  BY <1>1, ReadyRegistered DEF CommitKnown, CommitRegistered, OpenRegistered
<1>3. closeMsgs \in Seq(CloseSet) /\ pc \in [Closers -> {"idle", "protocol", "send", "wait", "done"}]
  BY DEF RemoteInv, RemoteTypeOK, TypeOK
<1>4. CommitKnown' /\ CommitRegistered' /\ OpenRegistered' /\ ClosersAfterReady'
  <2>1. UNCHANGED <<commit, open, commitments, opens>>
    BY DEF CheckClosed, SendClosure, ConnDrop, Receive, Protocol, CloseProtocolStep,
           vars, msgVars, serverVars
  <2>2. QED
    BY <1>1, <2>1 DEF CommitKnown, CommitRegistered, OpenRegistered, ClosersAfterReady
<1>5. CASE CheckClosed(c)
  <2>1. UNCHANGED <<closeMsgs, closures, closed, held, inflight, replies, commitments, opens,
                    commit, open>>
        /\ pc' = [pc EXCEPT ![c] = IF closed THEN "done" ELSE "protocol"]
    BY <1>5 DEF CheckClosed, vars, msgVars, serverVars
  <2>2. \A m : FromLogger(m) => FromLogger(m)'
    BY <2>1 DEF FromLogger
  <2>3. ClosuresFromLogger'
    BY <1>3, <2>1, <2>2 DEF ClosuresFromLogger
  <2>4. QED
    BY <1>1, <1>4, <2>1, <2>3 DEF OkAfterAccept, ClosedAccepted
<1>6. CASE \E ts \in Times : Protocol(c, ts)
  <2>1. PICK ts \in Times, ok \in BOOLEAN :
            /\ CloseProtocolStep(ts, ok)
            /\ pc' = [pc EXCEPT ![c] = IF ok THEN "send" ELSE "idle"]
            /\ held' = [held EXCEPT ![c] = IF ok THEN closeMsgs'[Len(closeMsgs')] ELSE NoMsg]
            /\ UNCHANGED <<serverVars, creator, closed, inflight, replies,
                           netFailures, verdict, transport>>
    BY <1>6 DEF Protocol
  <2>2. \/ closeMsgs' = closeMsgs
        \/ \E x : closeMsgs' = Append(closeMsgs, x)
    BY <2>1 DEF CloseProtocolStep
  <2>3. \A m : FromLogger(m) => FromLogger(m)'
    BY <1>3, <2>2, FromLoggerKept
  <2>4. ok => FromLogger(held[c])'
    <3>1. ok => Len(closeMsgs') = Len(closeMsgs) + 1
      BY <2>1, <1>3 DEF CloseProtocolStep
    <3>2. ok => held'[c] = closeMsgs'[Len(closeMsgs')]
      BY <2>1, <1>3 DEF RemoteInv, RemoteTypeOK
    <3>3. QED
      BY <3>1, <3>2, <1>3 DEF FromLogger
  <2>5. ASSUME NEW c2 \in Closers, pc'[c2] \in {"send", "wait"}
        PROVE  FromLogger(held[c2])'
    <3>1. CASE c2 = c
      <4>1. ok
        BY <1>3, <2>1, <2>5, <3>1
      <4>2. QED
        BY <2>4, <3>1, <4>1
    <3>2. CASE c2 # c
      <4>1. pc'[c2] = pc[c2] /\ held'[c2] = held[c2]
        BY <1>3, <2>1, <3>2
      <4>2. FromLogger(held[c2])
        BY <2>5, <4>1 DEF ClosuresFromLogger
      <4>3. QED
        BY <2>3, <4>1, <4>2
    <3>3. QED
      BY <3>1, <3>2
  <2>6. ClosuresFromLogger'
    BY <2>1, <2>3, <2>5 DEF ClosuresFromLogger, serverVars
  <2>7. ClosedAccepted'
    <3>1. closed => FromLogger(closures)
      BY DEF ClosedAccepted, FromLogger
    <3>2. UNCHANGED <<commit, open, closures, commitments, opens, closed>>
      BY <2>1 DEF CloseProtocolStep, serverVars
    <3>3. FromLogger(closures) => FromLogger(closures)'
      BY <2>3, <3>2
    <3>4. QED
      BY <3>1, <3>2, <3>3 DEF ClosedAccepted, FromLogger
  <2>8. QED
    BY <1>1, <1>4, <2>1, <2>6, <2>7 DEF OkAfterAccept, serverVars
<1>7. CASE SendClosure(c)
  <2>1. pc[c] = "send" /\ FromLogger(held[c])
    BY <1>7 DEF SendClosure, ClosuresFromLogger
  <2>2. held[c] # NoMsg
    BY <1>3, <2>1, FromLoggerIsClose
  <2>3. UNCHANGED <<closeMsgs, held, commitments, opens, commit, open>>
    BY <1>7 DEF SendClosure, vars, msgVars
  <2>4. \A m : FromLogger(m) => FromLogger(m)'
    BY <2>3 DEF FromLogger
  <2>5. CASE transport = "local"
    <3>1. /\ closures' = held[c] /\ closed' = TRUE
          /\ pc' = [pc EXCEPT ![c] = "done"]
          /\ UNCHANGED <<inflight, replies>>
      BY <1>2, <1>7, <2>5 DEF SendClosure, AcceptClosure
    <3>2. ClosuresFromLogger'
      BY <1>3, <2>1, <2>3, <2>4, <3>1 DEF ClosuresFromLogger
    <3>3. OkAfterAccept' /\ ClosedAccepted'
      BY <1>1, <1>2, <2>1, <2>2, <2>3, <3>1 DEF OkAfterAccept, ClosedAccepted, FromLogger
    <3>4. QED
      BY <1>4, <3>2, <3>3
  <2>6. CASE transport # "local"
    <3>1. /\ inflight' = inflight \cup {[from |-> c, msg |-> held[c]]}
          /\ replies' = [replies EXCEPT ![c] = "none"]
          /\ pc' = [pc EXCEPT ![c] = "wait"]
          /\ UNCHANGED <<closures, closed>>
      BY <1>7, <2>6 DEF SendClosure
    <3>2. ClosuresFromLogger'
      BY <1>3, <2>1, <2>3, <2>4, <3>1 DEF ClosuresFromLogger
    <3>3. OkAfterAccept' /\ ClosedAccepted'
      BY <1>1, <2>3, <3>1 DEF OkAfterAccept, ClosedAccepted, RemoteInv, RemoteTypeOK
    <3>4. QED
      BY <1>4, <3>2, <3>3
  <2>7. QED
    BY <2>5, <2>6
<1>8. CASE ConnDrop(c)
  <2>1. /\ inflight' \subseteq inflight
        /\ pc' = [pc EXCEPT ![c] = "idle"]
        /\ replies' = [replies EXCEPT ![c] = "none"]
        /\ UNCHANGED <<closeMsgs, closures, closed, commitments, opens, commit, open>>
        /\ \A c2 \in Closers \ {c} : held'[c2] = held[c2]
    BY <1>8 DEF ConnDrop, vars, msgVars, serverVars, RemoteInv, RemoteTypeOK
  <2>2. \A m : FromLogger(m) => FromLogger(m)'
    BY <2>1 DEF FromLogger
  <2>3. ClosuresFromLogger'
    BY <1>3, <2>1, <2>2 DEF ClosuresFromLogger
  <2>4. OkAfterAccept' /\ ClosedAccepted'
    BY <1>1, <2>1 DEF OkAfterAccept, ClosedAccepted, RemoteInv, RemoteTypeOK
  <2>5. QED
    BY <1>4, <2>3, <2>4
<1>9. CASE Receive(c)
  <2>1. /\ pc[c] = "wait"
        /\ closed' = (closed \/ replies[c] = "ok")
        /\ pc' = [pc EXCEPT ![c] = IF replies[c] = "ok" THEN "done" ELSE "idle"]
        /\ held' = [held EXCEPT ![c] = IF replies[c] = "ok" THEN held[c] ELSE NoMsg]
        /\ replies' = [replies EXCEPT ![c] = "none"]
        /\ UNCHANGED <<closeMsgs, closures, inflight, commitments, opens, commit, open>>
    BY <1>9 DEF Receive, vars, msgVars, serverVars
  <2>2. \A m : FromLogger(m) => FromLogger(m)'
    BY <2>1 DEF FromLogger
  <2>3. ClosuresFromLogger'
    BY <1>3, <2>1, <2>2 DEF ClosuresFromLogger
  <2>4. replies[c] = "ok" => FromLogger(closures)
    BY DEF OkAfterAccept, ClosuresFromLogger
  <2>5. OkAfterAccept'
    BY <1>1, <2>1 DEF OkAfterAccept, RemoteInv, RemoteTypeOK
  <2>6. ClosedAccepted'
    BY <1>2, <2>1, <2>4 DEF ClosedAccepted, FromLogger
  <2>7. QED
    BY <1>4, <2>3, <2>5, <2>6
<1>10. QED
  BY <1>5, <1>6, <1>7, <1>8, <1>9


\* HandleClose, the application's appends and an audit keep AcceptInv: T
\* answers "ok" exactly when AcceptClosure stored the posted closure.
LEMMA OtherStepsAccept ==
    ASSUME AcceptInv, RemoteInv',
           \/ \E req \in inflight : HandleClose(req)
           \/ \E ts \in Times, msg \in Payloads : AppAppend(msg, ts)
           \/ Audit
    PROVE  AcceptInv'
<1> USE DEF AcceptInv
<1>1. CASE \E req \in inflight : HandleClose(req)
  <2>1. PICK req \in inflight : HandleClose(req)
    BY <1>1
  <2>2. /\ inflight' = inflight \ {req}
        /\ closures' = IF commitments # NoMsg THEN req.msg ELSE closures
        /\ replies' = IF pc[req.from] = "wait" /\ held[req.from] = req.msg
                      THEN [replies EXCEPT ![req.from] =
                                IF commitments # NoMsg THEN "ok" ELSE "err"]
                      ELSE replies
        /\ UNCHANGED <<closeMsgs, commit, open, commitments, opens, creator, closed,
                       pc, held>>
    BY <2>1 DEF HandleClose, AcceptClosure, vars, msgVars
  <2>3. FromLogger(req.msg) /\ req.msg # NoMsg
    BY FromLoggerIsClose DEF ClosuresFromLogger, RemoteInv, RemoteTypeOK, TypeOK
  <2>4. FromLogger(closures')
        \/ (commitments = NoMsg /\ closures' = closures)
    BY <2>2, <2>3
  <2>5. CommitKnown' /\ CommitRegistered' /\ OpenRegistered' /\ ClosersAfterReady'
    BY <2>2 DEF CommitKnown, CommitRegistered, OpenRegistered, ClosersAfterReady
  <2>6. ClosuresFromLogger'
    BY <2>2, <2>4 DEF ClosuresFromLogger, FromLogger
  <2>7. CASE commitments # NoMsg
    <3>1. closures' = req.msg
      BY <2>2, <2>7
    <3>2. QED
      BY <2>2, <2>3, <2>5, <2>6, <3>1 DEF OkAfterAccept, ClosedAccepted, FromLogger
  <2>8. CASE commitments = NoMsg
    <3>1. closures' = closures
      BY <2>2, <2>8
    <3>2. \A c \in Closers : replies'[c] = "ok" => replies[c] = "ok"
      BY <2>2, <2>8 DEF RemoteInv, RemoteTypeOK
    <3>3. QED
      BY <2>2, <2>5, <2>6, <3>1, <3>2 DEF OkAfterAccept, ClosedAccepted
  <2>9. QED
    BY <2>7, <2>8
<1>2. CASE \/ \E ts \in Times, msg \in Payloads : AppAppend(msg, ts)
           \/ Audit
  <2>1. UNCHANGED <<closeMsgs, commit, open, commitments, opens, closures, creator,
                    closed, pc, held, inflight, replies>>
    BY <1>2 DEF AppAppend, LoggerAppend, Audit, vars, msgVars, remoteVars, serverVars
  <2>2. \A m : FromLogger(m) => FromLogger(m)'
    BY <2>1 DEF FromLogger
  <2>3. QED
    BY <2>1, <2>2
       DEF CommitKnown, CommitRegistered, OpenRegistered, ClosersAfterReady,
           ClosuresFromLogger, OkAfterAccept, ClosedAccepted
<1>3. QED
  BY <1>1, <1>2

\* Spec 5 (protocol driver) and part_003:732-758: once rl.Close() has
\* returned nil, T holds this logger's commitment and opening and a
\* CloseMessage this logger produced, for every number of concurrent
\* Close calls, on every transport and whatever HTTP exchanges fail.
\* Which of the logger's CloseMessages T holds is not determined: a stale
\* request can overwrite a newer one, as the close_retry run shows.
THEOREM ClosedLogAccepted == RemoteSpec => []ClosedAccepted
<1>1. RemoteInit => AcceptInv
  <2> SUFFICES ASSUME RemoteInit PROVE AcceptInv
    OBVIOUS
  <2>1. RemoteInv
    BY RemoteInitInv
  <2>2. QED
    BY <2>1
       DEF RemoteInit, Init, AcceptInv, CommitKnown, CommitRegistered, OpenRegistered,
           ClosersAfterReady, ClosuresFromLogger, OkAfterAccept, ClosedAccepted
<1>2. AcceptInv /\ [RemoteNext]_allVars => AcceptInv'
  <2> SUFFICES ASSUME AcceptInv, [RemoteNext]_allVars PROVE AcceptInv'
    OBVIOUS
  <2>1. RemoteInv'
    BY RemoteNextInv DEF AcceptInv
  <2>2. CASE \/ \E ts \in Times : NewInit(ts)
             \/ NewCommit \/ NewOpen
    BY <2>1, <2>2, CreatorStepsAccept
  <2>3. CASE \E c \in Closers :
               \/ CheckClosed(c) \/ SendClosure(c) \/ ConnDrop(c) \/ Receive(c)
               \/ \E ts \in Times : Protocol(c, ts)
    BY <2>1, <2>3, CloserStepsAccept
  <2>4. CASE \/ \E req \in inflight : HandleClose(req)
             \/ \E ts \in Times, msg \in Payloads : AppAppend(msg, ts)
             \/ Audit
    BY <2>1, <2>4, OtherStepsAccept
  <2>5. CASE UNCHANGED allVars
    <3>1. \A m : FromLogger(m) => FromLogger(m)'
      BY <2>5 DEF FromLogger, allVars, vars, msgVars
    <3>2. QED
      BY <2>1, <2>5, <3>1
         DEF allVars, remoteVars, serverVars, vars, msgVars, AcceptInv, CommitKnown,
             CommitRegistered, OpenRegistered, ClosersAfterReady, ClosuresFromLogger,
             OkAfterAccept, ClosedAccepted
  <2>6. QED
    BY <2>2, <2>3, <2>4, <2>5 DEF RemoteNext
<1>3. QED
  BY <1>1, <1>2, PTL DEF RemoteSpec, AcceptInv

=============================================================================
