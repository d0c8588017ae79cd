---------------------------- MODULE LoggerProofs ----------------------------
(***************************************************************************)
(* Theorems about the Logger specification, for every value of the         *)
(* constants.                                                              *)
(***************************************************************************)
EXTENDS Logger, TLAPS

\* htag and fold build aggregate tags out of tags and MACs.
LEMMA TagConstructors ==
    ASSUME NEW p \in TagSet, NEW m \in MacSet
    PROVE  /\ htag(m) \in TagSet
           /\ fold(p, m) \in TagSet
BY DEF TagSet, TagOf, htag, fold

\* fwdKey keeps a key's seed and moves it one generation on.
LEMMA FwdKeyType ==
    ASSUME NEW k \in KeySet
    PROVE  fwdKey(k) \in KeySet /\ fwdKey(k).gen = k.gen + 1
BY DEF KeySet, KeyOf, fwdKey

\* The values Append computes before calling the store are well typed.
LEMMA AppendValues ==
    ASSUME TypeOK, NEW ts \in Times, NEW msg \in Msgs
    PROVE  /\ NextKeyV \in KeySet /\ NextKeyT \in KeySet
           /\ NewTagV(ts, msg) \in TagSet /\ NewTagT(ts, msg) \in TagSet
           /\ NewRecord(ts, msg) \in RecordSet
           /\ NewTail(ts, msg) \in TailSet
           /\ NewAnchor(ts, msg) \in AnchorSet \cup {NoAnchor}
<1>1. NextKeyV \in KeySet /\ NextKeyT \in KeySet
  BY FwdKeyType DEF TypeOK, NextKeyV, NextKeyT
<1>2. NextIndex \in Nat
  BY DEF TypeOK, NextIndex
<1>3. mac(NextKeyV, NextIndex, ts, msg) \in MacSet
      /\ mac(NextKeyT, NextIndex, ts, msg) \in MacSet
  BY <1>1, <1>2 DEF mac, MacSet, MacOf, KeySet
<1>4. NewTagV(ts, msg) \in TagSet /\ NewTagT(ts, msg) \in TagSet
  BY <1>3, TagConstructors DEF TypeOK, NewTagV, NewTagT
<1>5. QED
  BY <1>1, <1>2, <1>4 DEF NewRecord, RecordSet, NewTail, TailSet, NewAnchor, AnchorSet

\* The part of TypeOK about the store.
StoreTypeOK ==
    /\ recs \in Seq(RecordSet)
    /\ anchors \subseteq AnchorSet
    /\ tail \in TailSet \cup {NoTail}
    /\ torn \in BOOLEAN
    /\ failures \in 0 .. MaxFailures

\* Whatever path Store.Append takes, on either backing, each store variable
\* keeps its value or takes the one value that path writes.
LEMMA StoreAppendShape ==
    ASSUME NEW r, NEW tl, NEW a, NEW ok, StoreAppend(r, tl, a, ok)
    PROVE  /\ recs' \in {recs, Append(recs, r)}
           /\ anchors' \subseteq anchors \cup {a}
           /\ tail' \in {tail, tl, NoTail}
           /\ torn' \in {torn, TRUE}
           /\ \/ failures' = failures
              \/ failures < MaxFailures /\ failures' = failures + 1
<1>1. CASE Backend = "file"
  BY <1>1 DEF StoreAppend, FileAppend, Fail, WriteRecord, WriteAnchor, WriteTail, storeVars
<1>2. CASE Backend # "file"
  BY <1>2 DEF StoreAppend, SqliteAppend, Fail, WriteRecord, UpsertAnchor, WriteTail, storeVars
<1>3. QED
  BY <1>1, <1>2

\* Store.Append with well-typed arguments keeps the store typed.
LEMMA StoreAppendType ==
    ASSUME TypeOK, NEW r \in RecordSet, NEW tl \in TailSet,
           NEW a \in AnchorSet \cup {NoAnchor}, NEW ok, StoreAppend(r, tl, a, ok)
    PROVE  StoreTypeOK'
<1>1. /\ recs' \in {recs, Append(recs, r)}
      /\ anchors' \subseteq anchors \cup {a}
      /\ tail' \in {tail, tl, NoTail}
      /\ torn' \in {torn, TRUE}
      /\ \/ failures' = failures
         \/ failures < MaxFailures /\ failures' = failures + 1
  BY StoreAppendShape
<1>2. anchors' \subseteq AnchorSet
  <2>1. CASE a = NoAnchor
    <3>1. anchors' = anchors
      BY <2>1 DEF StoreAppend, FileAppend, SqliteAppend, WriteAnchor, UpsertAnchor, storeVars
    <3>2. QED
      BY <3>1 DEF TypeOK
  <2>2. CASE a # NoAnchor
    BY <1>1, <2>2 DEF TypeOK
  <2>3. QED
    BY <2>1, <2>2
<1>3. recs' \in Seq(RecordSet)
  BY <1>1 DEF TypeOK
<1>4. tail' \in TailSet \cup {NoTail} /\ torn' \in BOOLEAN
  BY <1>1 DEF TypeOK
<1>5. failures' \in 0 .. MaxFailures
  BY <1>1, StoreAssumption DEF TypeOK
<1>6. QED
  BY <1>2, <1>3, <1>4, <1>5 DEF StoreTypeOK

\* One Append body, ok being Store.Append's result, keeps the store, l.i
\* and the tags typed.
LEMMA AppendBodyType ==
    ASSUME TypeOK, NEW ts \in Times, NEW msg \in Msgs, NEW ok \in BOOLEAN,
           AppendBody(msg, ts, ok)
    PROVE  /\ StoreTypeOK'
           /\ i' \in 0 .. MaxIndex
           /\ tagV' \in TagSet /\ tagT' \in TagSet
<1>1. StoreAppend(NewRecord(ts, msg), NewTail(ts, msg), NewAnchor(ts, msg), ok)
  BY DEF AppendBody
<1>2. StoreTypeOK'
  BY <1>1, AppendValues, StoreAppendType
<1>3. NewTagV(ts, msg) \in TagSet /\ NewTagT(ts, msg) \in TagSet
  BY AppendValues
<1>4. i < MaxIndex
  BY DEF AppendBody
<1>5. i' \in 0 .. MaxIndex /\ tagV' \in TagSet /\ tagT' \in TagSet
  <2>1. CASE ok
    <3>1. i' = i + 1 /\ tagV' = NewTagV(ts, msg) /\ tagT' = NewTagT(ts, msg)
      BY <2>1 DEF AppendBody, NextIndex
    <3>2. QED
      BY <3>1, <1>3, <1>4, LoggerAssumption DEF TypeOK
  <2>2. CASE ~ok
    BY <2>2 DEF AppendBody, TypeOK
  <2>3. QED
    BY <2>1, <2>2
<1>6. QED
  BY <1>2, <1>5

\* Logger.Append of any message (Close is Append("CLOSE")) keeps every
\* variable typed.
LEMMA LoggerAppendType ==
    ASSUME TypeOK, NEW ts \in Times, NEW msg \in Msgs, LoggerAppend(msg, ts)
    PROVE  TypeOK'
BY AppendBodyType, AppendValues DEF LoggerAppend, TypeOK, StoreTypeOK, msgVars

\* InitProtocol's body, with either outcome, keeps every variable typed.
LEMMA InitProtocolStepType ==
    ASSUME TypeOK, NEW ts \in Times, NEW ok \in BOOLEAN, InitProtocolStep(ts, ok)
    PROVE  TypeOK'
<1>1. "START" \in Msgs
  BY DEF Msgs
<1>2. /\ StoreTypeOK' /\ i' \in 0 .. MaxIndex /\ tagV' \in TagSet /\ tagT' \in TagSet
  BY <1>1, AppendBodyType DEF InitProtocolStep
<1>3. QED
  BY <1>1, <1>2, AppendValues
     DEF InitProtocolStep, TypeOK, StoreTypeOK, CommitSet, OpenSet, NextIndex

\* CloseProtocol's body, with either outcome, keeps every variable typed.
LEMMA CloseProtocolStepType ==
    ASSUME TypeOK, NEW ts \in Times, NEW ok \in BOOLEAN, CloseProtocolStep(ts, ok)
    PROVE  TypeOK'
<1>1. "CLOSE" \in Msgs /\ ZeroKey \in KeySet
  BY DEF Msgs, ZeroKey, SeedKey, KeySet, KeyOf
<1>2. /\ StoreTypeOK' /\ i' \in 0 .. MaxIndex /\ tagV' \in TagSet /\ tagT' \in TagSet
  BY <1>1, AppendBodyType DEF CloseProtocolStep
<1>3. keyV' \in KeySet /\ keyT' \in KeySet
  BY <1>1, AppendValues DEF CloseProtocolStep
<1>4. closeMsgs' \in Seq(CloseSet)
  <2>1. NextIndex \in Nat
    BY DEF TypeOK, NextIndex
  <2>2. NewTagV(ts, "CLOSE") \in TagSet /\ NewTagT(ts, "CLOSE") \in TagSet
    BY <1>1, AppendValues
  <2>3. [CloseTime |-> ts, FinalIndex |-> NextIndex,
         FinalTagV |-> NewTagV(ts, "CLOSE"),
         FinalTagT |-> NewTagT(ts, "CLOSE")] \in CloseSet
    BY <2>1, <2>2 DEF CloseSet
  <2>4. QED
    BY <2>3 DEF CloseProtocolStep, TypeOK
<1>5. QED
  BY <1>2, <1>3, <1>4 DEF CloseProtocolStep, TypeOK, StoreTypeOK

\* Every step of the logger keeps every variable typed.
LEMMA NextPreservesType ==
    ASSUME TypeOK, [Next]_vars
    PROVE  TypeOK'
<1>1. "START" \in Msgs /\ "CLOSE" \in Msgs /\ Payloads \subseteq Msgs
  BY DEF Msgs
<1>2. CASE \E ts \in Times : \E msg \in Payloads : LoggerAppend(msg, ts)
  BY <1>1, <1>2, LoggerAppendType
<1>3. CASE \E ts \in Times : Close(ts)
  BY <1>1, <1>3, LoggerAppendType DEF Close
<1>4. CASE \E ts \in Times : InitProtocol(ts)
  BY <1>4, InitProtocolStepType DEF InitProtocol
<1>5. CASE \E ts \in Times : CloseProtocol(ts)
  BY <1>5, CloseProtocolStepType DEF CloseProtocol
<1>6. CASE Restart
  BY <1>6, LoggerAssumption
     DEF Restart, TypeOK, SeedKey, KeySet, KeyOf, ZeroTag, TagSet, TagOf, msgVars, storeVars
<1>7. CASE UNCHANGED vars
  BY <1>7 DEF vars, loggerVars, msgVars, storeVars, TypeOK
<1>8. QED
  BY <1>2, <1>3, <1>4, <1>5, <1>6, <1>7 DEF Next

\* The initial state of New over an empty store is typed.
LEMMA InitType ==
    ASSUME Init
    PROVE  TypeOK
<1>1. SeedKey(A0) \in KeySet /\ SeedKey(B0) \in KeySet
  BY DEF SeedKey, KeySet, KeyOf
<1>2. ZeroTag \in TagSet
  BY DEF ZeroTag, TagSet, TagOf
<1>3. StoreTypeOK
  <2>1. recs \in Seq(RecordSet) /\ anchors \subseteq AnchorSet
    BY DEF Init, StoreInit
  <2>2. tail \in TailSet \cup {NoTail} /\ torn \in BOOLEAN
    BY DEF Init, StoreInit
  <2>3. failures \in 0 .. MaxFailures
    BY StoreAssumption DEF Init, StoreInit
  <2>4. QED
    BY <2>1, <2>2, <2>3 DEF StoreTypeOK
<1>4. QED
  BY <1>1, <1>2, <1>3, LoggerAssumption DEF Init, TypeOK, StoreTypeOK

\* Every behaviour of the specification keeps every variable typed.
THEOREM TypeCorrect == Spec => []TypeOK
<1>1. Init => TypeOK
  BY InitType
<1>2. TypeOK /\ [Next]_vars => TypeOK'
  BY NextPreservesType
<1>3. QED
  BY <1>1, <1>2, PTL DEF Spec

-----------------------------------------------------------------------------
(* The stored records are contiguous.                                      *)

\* The index the store compares a new record's index with: the last record's
\* index for the file store (getLastIndexLocked), MAX(idx) for SQLite.
StoreLastIndex == IF Backend = "file" THEN FileLastIndex ELSE SqlMaxIndex

\* Store.Append adds a record only on a path that passed the contiguity
\* check (file_store.go:104, sqlite_store.go:80), and then adds exactly the
\* record it was given.
LEMMA StoreAppendGuard ==
    ASSUME NEW r, NEW tl, NEW a, NEW ok, StoreAppend(r, tl, a, ok), recs' # recs
    PROVE  /\ recs' = Append(recs, r)
           /\ StoreLastIndex = r.Index - 1
<1>1. CASE Backend = "file"
  BY <1>1 DEF StoreAppend, FileAppend, Fail, WriteRecord, WriteAnchor, WriteTail,
              storeVars, StoreLastIndex
<1>2. CASE Backend # "file"
  BY <1>2 DEF StoreAppend, SqliteAppend, Fail, WriteRecord, UpsertAnchor, WriteTail,
              storeVars, StoreLastIndex
<1>3. QED
  BY <1>1, <1>2

\* On contiguous records both stores report the number of records as the
\* last index.
LEMMA LastIndexContiguous ==
    ASSUME recs \in Seq(RecordSet), RecordsContiguous
    PROVE  StoreLastIndex = Len(recs)
<1>1. FileLastIndex = Len(recs)
  BY DEF FileLastIndex, RecordsContiguous
<1>2. SqlMaxIndex = Len(recs)
  <2>1. CASE recs = << >>
    BY <2>1 DEF SqlMaxIndex
  <2>2. CASE recs # << >>
    <3> DEFINE S == {recs[k].Index : k \in 1 .. Len(recs)}
                IsMax(m) == \A k \in 1 .. Len(recs) : recs[k].Index <= m
    <3>1. Len(recs) \in S /\ IsMax(Len(recs))
      BY <2>2 DEF RecordsContiguous
    <3>2. \A m \in S : IsMax(m) => m = Len(recs)
      BY <2>2 DEF RecordsContiguous
    <3>3. (CHOOSE m \in S : IsMax(m)) = Len(recs)
      BY <3>1, <3>2
    <3>4. QED
      BY <2>2, <3>3 DEF SqlMaxIndex
  <2>3. QED
    BY <2>1, <2>2
<1>3. QED
  BY <1>1, <1>2 DEF StoreLastIndex

\* One Logger.Append keeps the stored records contiguous.
LEMMA AppendBodyContiguous ==
    ASSUME TypeOK, RecordsContiguous, NEW ts \in Times, NEW msg \in Msgs,
           NEW ok, AppendBody(msg, ts, ok)
    PROVE  RecordsContiguous'
<1>1. StoreAppend(NewRecord(ts, msg), NewTail(ts, msg), NewAnchor(ts, msg), ok)
  BY DEF AppendBody
<1>2. CASE recs' = recs
  BY <1>2 DEF RecordsContiguous
<1>3. CASE recs' # recs
  <2>1. /\ recs' = Append(recs, NewRecord(ts, msg))
        /\ StoreLastIndex = NewRecord(ts, msg).Index - 1
    BY <1>1, <1>3, StoreAppendGuard
  <2>2. StoreLastIndex = Len(recs)
    BY LastIndexContiguous DEF TypeOK
  <2>3. NewRecord(ts, msg).Index = Len(recs) + 1
    BY <2>1, <2>2 DEF NewRecord, NextIndex, TypeOK
  <2>4. QED
    BY <2>1, <2>3 DEF RecordsContiguous, TypeOK
<1>4. QED
  BY <1>2, <1>3

\* The record stream read back by Iter always holds indices 1, 2, ..., n:
\* whatever failed, torn or restarted, every Store.Append that stored a
\* record had passed the contiguity check against the records before it.
THEOREM ContiguousRecords == Spec => []RecordsContiguous
<1>1. Init => RecordsContiguous
  BY DEF Init, StoreInit, RecordsContiguous
<1>2. TypeOK /\ RecordsContiguous /\ [Next]_vars => RecordsContiguous'
  <2> SUFFICES ASSUME TypeOK, RecordsContiguous, [Next]_vars
               PROVE  RecordsContiguous'
    OBVIOUS
  <2>1. "START" \in Msgs /\ "CLOSE" \in Msgs /\ Payloads \subseteq Msgs
    BY DEF Msgs
  <2>2. ASSUME NEW ts \in Times, NEW msg \in Msgs, NEW ok,
               AppendBody(msg, ts, ok)
        PROVE  RecordsContiguous'
    BY <2>2, AppendBodyContiguous
  <2>3. CASE \E ts \in Times : \E msg \in Payloads : LoggerAppend(msg, ts)
    BY <2>1, <2>2, <2>3 DEF LoggerAppend
  <2>4. CASE \E ts \in Times : Close(ts)
    BY <2>1, <2>2, <2>4 DEF Close, LoggerAppend
  <2>5. CASE \E ts \in Times : InitProtocol(ts)
    BY <2>1, <2>2, <2>5 DEF InitProtocol, InitProtocolStep
  <2>6. CASE \E ts \in Times : CloseProtocol(ts)
    BY <2>1, <2>2, <2>6 DEF CloseProtocol, CloseProtocolStep
  <2>7. CASE Restart \/ UNCHANGED vars
    BY <2>7 DEF Restart, vars, storeVars, RecordsContiguous
  <2>8. QED
    BY <2>3, <2>4, <2>5, <2>6, <2>7 DEF Next
<1>3. QED
  BY <1>1, <1>2, TypeCorrect, PTL DEF Spec

-----------------------------------------------------------------------------
(* The logger never runs ahead of the store.                               *)

\* One Logger.Append keeps i within the stored records and the tags at i
\* equal to the record's.
LEMMA AppendBodyBehind ==
    ASSUME TypeOK, RecordsContiguous, LoggerBehindStore,
           NEW ts \in Times, NEW msg \in Msgs, NEW ok, AppendBody(msg, ts, ok)
    PROVE  LoggerBehindStore'
<1>1. StoreAppend(NewRecord(ts, msg), NewTail(ts, msg), NewAnchor(ts, msg), ok)
  BY DEF AppendBody
<1>2. recs' \in {recs, Append(recs, NewRecord(ts, msg))}
  BY <1>1, StoreAppendShape
<1>3. CASE ok
  \* Only the success path of either store is taken with ok.
  <2>1. recs' = Append(recs, NewRecord(ts, msg))
        /\ StoreLastIndex = NewRecord(ts, msg).Index - 1
    <3>1. recs' # recs
      BY <1>1, <1>3 DEF StoreAppend, FileAppend, SqliteAppend, WriteRecord
    <3>2. QED
      BY <1>1, <3>1, StoreAppendGuard
  <2>2. StoreLastIndex = Len(recs)
    BY LastIndexContiguous DEF TypeOK
  <2>3. Len(recs) = i
    BY <2>1, <2>2 DEF NewRecord, NextIndex, TypeOK
  <2>4. i' = i + 1 /\ tagV' = NewTagV(ts, msg) /\ tagT' = NewTagT(ts, msg)
    BY <1>3 DEF AppendBody, NextIndex
  <2>5. QED
    BY <2>1, <2>3, <2>4 DEF LoggerBehindStore, NewRecord, TypeOK
<1>4. CASE ~ok
  <2>1. UNCHANGED <<i, tagV, tagT>>
    BY <1>4 DEF AppendBody
  <2>2. QED
    BY <1>2, <2>1 DEF LoggerBehindStore, TypeOK
<1>5. QED
  BY <1>3, <1>4

\* Whatever Store.Append step failed, l.i and l.tagV/l.tagT never describe
\* a record the store does not hold: Append commits them only after
\* Store.Append returned nil (example_protobuf.go:420-426), and a Logger
\* created over a non-empty store starts at 0.
THEOREM LoggerNeverAhead == Spec => []LoggerBehindStore
<1>1. Init => LoggerBehindStore
  BY DEF Init, StoreInit, LoggerBehindStore
<1>2. TypeOK /\ RecordsContiguous /\ LoggerBehindStore /\ [Next]_vars
        => LoggerBehindStore'
  <2> SUFFICES ASSUME TypeOK, RecordsContiguous, LoggerBehindStore, [Next]_vars
               PROVE  LoggerBehindStore'
    OBVIOUS
  <2>1. "START" \in Msgs /\ "CLOSE" \in Msgs /\ Payloads \subseteq Msgs
    BY DEF Msgs
  <2>2. ASSUME NEW ts \in Times, NEW msg \in Msgs, NEW ok,
               AppendBody(msg, ts, ok)
        PROVE  LoggerBehindStore'
    BY <2>2, AppendBodyBehind
  <2>3. CASE \E ts \in Times : \E msg \in Payloads : LoggerAppend(msg, ts)
    BY <2>1, <2>2, <2>3 DEF LoggerAppend
  <2>4. CASE \E ts \in Times : Close(ts)
    BY <2>1, <2>2, <2>4 DEF Close, LoggerAppend
  <2>5. CASE \E ts \in Times : InitProtocol(ts)
    BY <2>1, <2>2, <2>5 DEF InitProtocol, InitProtocolStep
  <2>6. CASE \E ts \in Times : CloseProtocol(ts)
    BY <2>1, <2>2, <2>6 DEF CloseProtocol, CloseProtocolStep
  <2>7. CASE Restart
    BY <2>7 DEF Restart, storeVars, LoggerBehindStore
  <2>8. CASE UNCHANGED vars
    BY <2>8 DEF vars, loggerVars, storeVars, LoggerBehindStore
  <2>9. QED
    BY <2>3, <2>4, <2>5, <2>6, <2>7, <2>8 DEF Next
<1>3. QED
  BY <1>1, <1>2, TypeCorrect, ContiguousRecords, PTL DEF Spec
-----------------------------------------------------------------------------
(* The Logger over the SQLite store implements AppendOnlyLog.              *)

\* Appending one record to the store appends its message to StoredMsgs.
LEMMA StoredMsgsAppend ==
    ASSUME recs \in Seq(RecordSet), NEW r \in RecordSet, recs' = Append(recs, r)
    PROVE  StoredMsgs' = Append(StoredMsgs, r.Msg)
BY DEF StoredMsgs

\* A SQLite Store.Append that returned an error left the records alone.
LEMMA SqliteFailureKeepsRecords ==
    ASSUME Backend = "sqlite", NEW r, NEW tl, NEW a, StoreAppend(r, tl, a, FALSE)
    PROVE  recs' = recs
BY DEF StoreAppend, SqliteAppend, Fail, storeVars

\* One Logger.Append over SQLite is an AOLWrite of its message when it
\* returns nil, and leaves the abstract log and position alone otherwise.
LEMMA AppendBodyRefines ==
    ASSUME Backend = "sqlite", TypeOK, RecordsContiguous,
           NEW ts \in Times, NEW msg \in Msgs, NEW ok \in BOOLEAN, AppendBody(msg, ts, ok)
    PROVE  \/ AOL!AOLWrite(msg)
           \/ StoredMsgs' = StoredMsgs /\ i' = i
<1>1. StoreAppend(NewRecord(ts, msg), NewTail(ts, msg), NewAnchor(ts, msg), ok)
  BY DEF AppendBody
<1>2. CASE ok
  <2>1. recs' # recs
    BY <1>1, <1>2 DEF StoreAppend, FileAppend, SqliteAppend, WriteRecord
  <2>2. recs' = Append(recs, NewRecord(ts, msg))
        /\ StoreLastIndex = NewRecord(ts, msg).Index - 1
    BY <1>1, <2>1, StoreAppendGuard
  <2>3. StoreLastIndex = Len(recs)
    BY LastIndexContiguous DEF TypeOK
  <2>4. i = Len(recs)
    BY <2>2, <2>3 DEF NewRecord, NextIndex, TypeOK
  <2>5. StoredMsgs' = Append(StoredMsgs, msg)
    <3>1. NewRecord(ts, msg) \in RecordSet /\ NewRecord(ts, msg).Msg = msg
      BY AppendValues DEF NewRecord
    <3>2. QED
      BY <2>2, <3>1, StoredMsgsAppend DEF TypeOK
  <2>6. Len(StoredMsgs) = Len(recs)
    BY DEF StoredMsgs, TypeOK
  <2>7. i' = i + 1
    BY <1>2 DEF AppendBody, NextIndex
  <2>8. QED
    BY <2>4, <2>5, <2>6, <2>7 DEF AOL!AOLWrite
<1>3. CASE ~ok
  <2>1. recs' = recs
    BY <1>1, <1>3, SqliteFailureKeepsRecords
  <2>2. i' = i
    BY <1>3 DEF AppendBody
  <2>3. QED
    BY <2>1, <2>2 DEF StoredMsgs
<1>4. QED
  BY <1>2, <1>3

\* Over the SQLite store every behaviour of the Logger is one of
\* AppendOnlyLog: Logger.Append commits l.i++ exactly when the transaction
\* that inserted its record at the end of the logs table committed
\* (example_protobuf.go:420-426, sqlite_store.go:68-106), and a Logger from
\* New over a non-empty store is a fresh writer at position 0.
THEOREM LogRefinement ==
    ASSUME Backend = "sqlite"
    PROVE  Spec => ImplementsAppendOnlyLog
<1>1. Init => AOL!AOLInit
  BY DEF Init, StoreInit, AOL!AOLInit, StoredMsgs
<1>2. TypeOK /\ RecordsContiguous /\ [Next]_vars => [AOL!AOLNext]_AOL!aolVars
  <2> SUFFICES ASSUME TypeOK, RecordsContiguous, [Next]_vars
               PROVE  [AOL!AOLNext]_AOL!aolVars
    OBVIOUS
  <2>1. "START" \in Msgs /\ "CLOSE" \in Msgs /\ Payloads \subseteq Msgs
    BY DEF Msgs
  <2>2. ASSUME NEW ts \in Times, NEW msg \in Msgs, NEW ok \in BOOLEAN,
               AppendBody(msg, ts, ok)
        PROVE  [AOL!AOLNext]_AOL!aolVars
    <3>1. \/ AOL!AOLWrite(msg)
          \/ StoredMsgs' = StoredMsgs /\ i' = i
      BY <2>2, AppendBodyRefines
    <3>2. QED
      BY <3>1 DEF AOL!AOLNext, AOL!aolVars
  <2>3. CASE \E ts \in Times : \E msg \in Payloads : LoggerAppend(msg, ts)
    BY <2>1, <2>2, <2>3 DEF LoggerAppend
  <2>4. CASE \E ts \in Times : Close(ts)
    BY <2>1, <2>2, <2>4 DEF Close, LoggerAppend
  <2>5. CASE \E ts \in Times : InitProtocol(ts)
    BY <2>1, <2>2, <2>5 DEF InitProtocol, InitProtocolStep
  <2>6. CASE \E ts \in Times : CloseProtocol(ts)
    BY <2>1, <2>2, <2>6 DEF CloseProtocol, CloseProtocolStep
  <2>7. CASE Restart
    BY <2>7 DEF Restart, storeVars, AOL!AOLNext, AOL!AOLReset, StoredMsgs
  <2>8. CASE UNCHANGED vars
    BY <2>8 DEF vars, loggerVars, storeVars, AOL!aolVars, StoredMsgs
  <2>9. QED
    BY <2>3, <2>4, <2>5, <2>6, <2>7, <2>8 DEF Next
<1>3. QED
  BY <1>1, <1>2, TypeCorrect, ContiguousRecords, PTL
     DEF Spec, ImplementsAppendOnlyLog, AOL!AOLSpec
=============================================================================
