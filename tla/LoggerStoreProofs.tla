-------------------------- MODULE LoggerStoreProofs --------------------------
(***************************************************************************)
(* Theorems about what the store holds beside the records: the tail slot,  *)
(* the anchors, and, on SQLite, the agreement of the store with the        *)
(* logger and the atomicity of Store.Append.  They rest on the typing and  *)
(* the contiguity proved in LoggerProofs.                                  *)
(***************************************************************************)
EXTENDS LoggerProofs

\* Every step of the logger is one Logger.Append body (from Append, Close,
\* InitProtocol or CloseProtocol) that keeps the restart count, a Restart,
\* or a stutter.
LEMMA NextIsAppendOrRestart ==
    ASSUME [Next]_vars
    PROVE  \/ \E ts \in Times, msg \in Msgs, ok \in BOOLEAN :
                 AppendBody(msg, ts, ok) /\ restarts' = restarts
           \/ Restart
           \/ UNCHANGED vars
<1>1. "START" \in Msgs /\ "CLOSE" \in Msgs /\ Payloads \subseteq Msgs
  BY DEF Msgs
<1>2. CASE \E ts \in Times : \E msg \in Payloads : LoggerAppend(msg, ts)
  BY <1>1, <1>2 DEF LoggerAppend
<1>3. CASE \E ts \in Times : Close(ts)
  BY <1>1, <1>3 DEF Close, LoggerAppend
<1>4. CASE \E ts \in Times : InitProtocol(ts)
  BY <1>1, <1>4 DEF InitProtocol, InitProtocolStep
<1>5. CASE \E ts \in Times : CloseProtocol(ts)
  BY <1>1, <1>5 DEF CloseProtocol, CloseProtocolStep
<1>6. QED
  BY <1>2, <1>3, <1>4, <1>5 DEF Next

\* Store.Append rewrites the tail slot only together with the record it
\* describes, on a path that passed the contiguity check; otherwise it
\* leaves the slot alone or truncates it (file_store.go:113-127, 433-451,
\* sqlite_store.go:68-106).
LEMMA StoreAppendTail ==
    ASSUME NEW r, NEW tl, NEW a, NEW ok, StoreAppend(r, tl, a, ok)
    PROVE  \/ tail' = tail
           \/ tail' = NoTail
           \/ /\ tail' = tl
              /\ recs' = Append(recs, r)
              /\ StoreLastIndex = r.Index - 1
<1>1. CASE Backend = "file"
  BY <1>1 DEF StoreAppend, FileAppend, Fail, WriteRecord, WriteAnchor, WriteTail,
              storeVars, StoreLastIndex
<1>2. CASE Backend # "file"
  BY <1>2 DEF StoreAppend, SqliteAppend, Fail, WriteRecord, UpsertAnchor, WriteTail,
              storeVars, StoreLastIndex
<1>3. QED
  BY <1>1, <1>2

\* Store.Append adds an anchor only together with its record, on a path
\* that passed the contiguity check; the SQLite upsert may replace an
\* anchor of the same index, which only removes one.
LEMMA StoreAppendAnchor ==
    ASSUME NEW r, NEW tl, NEW a, NEW ok, StoreAppend(r, tl, a, ok)
    PROVE  \/ anchors' \subseteq anchors
           \/ /\ a # NoAnchor
              /\ anchors' \subseteq anchors \cup {a}
              /\ recs' = Append(recs, r)
              /\ StoreLastIndex = r.Index - 1
<1>1. CASE Backend = "file"
  BY <1>1 DEF StoreAppend, FileAppend, Fail, WriteRecord, WriteAnchor, WriteTail,
              storeVars, StoreLastIndex
<1>2. CASE Backend # "file"
  BY <1>2 DEF StoreAppend, SqliteAppend, Fail, WriteRecord, UpsertAnchor, WriteTail,
              storeVars, StoreLastIndex
<1>3. QED
  BY <1>1, <1>2

\* The last MAC of the V-tag Append computes is made with the key it
\* evolved to, whether it starts the chain (htag) or extends it (fold).
LEMMA NewTagVLastKey ==
    ASSUME TypeOK, NEW ts \in Times, NEW msg \in Msgs
    PROVE  NewTagV(ts, msg).macs[Len(NewTagV(ts, msg).macs)].key = NextKeyV
<1> DEFINE m == mac(NextKeyV, NextIndex, ts, msg)
<1>1. CASE FirstEntry
  BY <1>1 DEF NewTagV, htag, mac
<1>2. CASE ~FirstEntry
  <2>1. tagV.macs \in Seq(MacSet)
    BY DEF TypeOK, TagSet, TagOf
  <2>2. NewTagV(ts, msg).macs = Append(tagV.macs, m)
    BY <1>2 DEF NewTagV, fold
  <2>3. QED
    BY <2>1, <2>2 DEF mac
<1>3. QED
  BY <1>1, <1>2

\* On contiguous records the index Append gives a record the store accepts
\* is the one after the last stored record.
LEMMA AcceptedIndex ==
    ASSUME TypeOK, RecordsContiguous, NEW ts \in Times, NEW msg \in Msgs,
           StoreLastIndex = NewRecord(ts, msg).Index - 1
    PROVE  NextIndex = Len(recs) + 1
<1>1. StoreLastIndex = Len(recs)
  BY LastIndexContiguous DEF TypeOK
<1>2. QED
  BY <1>1 DEF NewRecord, NextIndex, TypeOK

-----------------------------------------------------------------------------
(* The tail slot describes a stored record.                                *)

\* One Logger.Append keeps the tail slot naming a stored record with its
\* tags.
LEMMA AppendBodyTail ==
    ASSUME TypeOK, RecordsContiguous, TailDescribesStoredRecord,
           NEW ts \in Times, NEW msg \in Msgs, NEW ok, AppendBody(msg, ts, ok)
    PROVE  TailDescribesStoredRecord'
<1> DEFINE r == NewRecord(ts, msg)
           tl == NewTail(ts, msg)
<1>1. StoreAppend(r, tl, NewAnchor(ts, msg), ok)
  BY DEF AppendBody
<1>2. recs' \in {recs, Append(recs, r)} /\ r \in RecordSet /\ recs \in Seq(RecordSet)
  BY <1>1, StoreAppendShape, AppendValues DEF TypeOK
<1>3. CASE tail' = tail
  BY <1>2, <1>3 DEF TailDescribesStoredRecord
<1>4. CASE tail' = NoTail
  BY <1>4 DEF TailDescribesStoredRecord
<1>5. CASE /\ tail' = tl
           /\ recs' = Append(recs, r)
           /\ StoreLastIndex = r.Index - 1
  <2>1. NextIndex = Len(recs) + 1
    BY <1>5, AcceptedIndex
  <2>2. tl.Index = Len(recs) + 1 /\ tl.TagV = r.TagV /\ tl.TagT = r.TagT
    BY <2>1 DEF NewTail, NewRecord
  <2>3. recs'[Len(recs) + 1] = r /\ Len(recs') = Len(recs) + 1
    BY <1>2, <1>5
  <2>4. QED
    BY <1>5, <2>2, <2>3 DEF TailDescribesStoredRecord, TypeOK
<1>6. QED
  BY <1>1, <1>3, <1>4, <1>5, StoreAppendTail

\* Whatever write of fileStore.Append fails, and on SQLite whatever
\* statement fails, the tail slot never names a record that is not stored
\* and, when present, carries that record's two tags: writeTailLocked runs
\* only after the record was written and fsynced (file_store.go:113-127).
THEOREM TailNamesStoredRecord == Spec => []TailDescribesStoredRecord
<1>1. Init => TailDescribesStoredRecord
  BY DEF Init, StoreInit, TailDescribesStoredRecord
<1>2. TypeOK /\ RecordsContiguous /\ TailDescribesStoredRecord /\ [Next]_vars
        => TailDescribesStoredRecord'
  <2> SUFFICES ASSUME TypeOK, RecordsContiguous, TailDescribesStoredRecord, [Next]_vars
               PROVE  TailDescribesStoredRecord'
    OBVIOUS
  <2>1. CASE \E ts \in Times, msg \in Msgs, ok \in BOOLEAN :
                 AppendBody(msg, ts, ok) /\ restarts' = restarts
    BY <2>1, AppendBodyTail
  <2>2. CASE Restart \/ UNCHANGED vars
    BY <2>2 DEF Restart, vars, storeVars, TailDescribesStoredRecord
  <2>3. QED
    BY <2>1, <2>2, NextIsAppendOrRestart
<1>3. QED
  BY <1>1, <1>2, TypeCorrect, ContiguousRecords, PTL DEF Spec

-----------------------------------------------------------------------------
(* Every anchor matches its record.                                        *)

\* The anchor Append computes at a checkpoint carries the new record's
\* index and tags, and the key that MACed it on the V-chain.
LEMMA NewAnchorFields ==
    ASSUME TypeOK, NEW ts \in Times, NEW msg \in Msgs, NewAnchor(ts, msg) # NoAnchor
    PROVE  /\ NewAnchor(ts, msg).Index = NextIndex
           /\ NewAnchor(ts, msg).TagV = NewRecord(ts, msg).TagV
           /\ NewAnchor(ts, msg).TagT = NewRecord(ts, msg).TagT
           /\ NewAnchor(ts, msg).Key
                = NewAnchor(ts, msg).TagV.macs[Len(NewAnchor(ts, msg).TagV.macs)].key
<1>1. NewAnchor(ts, msg) = [Index |-> NextIndex, Key |-> NextKeyV,
                            TagV |-> NewTagV(ts, msg), TagT |-> NewTagT(ts, msg)]
  BY DEF NewAnchor
<1>2. QED
  BY <1>1, NewTagVLastKey DEF NewRecord

\* One Logger.Append keeps every anchor matching a stored record.
LEMMA AppendBodyAnchors ==
    ASSUME TypeOK, RecordsContiguous, AnchorsMatchRecords,
           NEW ts \in Times, NEW msg \in Msgs, NEW ok, AppendBody(msg, ts, ok)
    PROVE  AnchorsMatchRecords'
<1> DEFINE r == NewRecord(ts, msg)
           an == NewAnchor(ts, msg)
\* An anchor that was there before still matches: records are only appended.
<1> DEFINE OldOK == \A x \in anchors :
                      /\ x.Index \in 1 .. Len(recs')
                      /\ recs'[x.Index].TagV = x.TagV
                      /\ recs'[x.Index].TagT = x.TagT
                      /\ x.Key = x.TagV.macs[Len(x.TagV.macs)].key
<1>1. StoreAppend(r, NewTail(ts, msg), an, ok)
  BY DEF AppendBody
<1>2. recs' \in {recs, Append(recs, r)} /\ r \in RecordSet /\ recs \in Seq(RecordSet)
  BY <1>1, StoreAppendShape, AppendValues DEF TypeOK
<1>3. OldOK
  BY <1>2 DEF AnchorsMatchRecords
<1>4. CASE anchors' \subseteq anchors
  BY <1>3, <1>4 DEF AnchorsMatchRecords
<1>5. CASE /\ an # NoAnchor
           /\ anchors' \subseteq anchors \cup {an}
           /\ recs' = Append(recs, r)
           /\ StoreLastIndex = r.Index - 1
  <2>1. NextIndex = Len(recs) + 1
    BY <1>5, AcceptedIndex
  <2>2. /\ an.Index = Len(recs) + 1
        /\ an.TagV = r.TagV /\ an.TagT = r.TagT
        /\ an.Key = an.TagV.macs[Len(an.TagV.macs)].key
    BY <1>5, <2>1, NewAnchorFields
  <2>3. recs'[Len(recs) + 1] = r /\ Len(recs') = Len(recs) + 1
    BY <1>2, <1>5
  <2>4. QED
    BY <1>3, <1>5, <2>2, <2>3 DEF AnchorsMatchRecords, TypeOK
<1>6. QED
  BY <1>1, <1>4, <1>5, StoreAppendAnchor

\* Every stored anchor names a stored record, carries its two tags, and
\* holds the key A_i that MACed that record, so an auditor can resume the
\* V-chain from it: writeAnchorLocked runs after the record was written
\* and fsynced, with the key fwdKey just produced (example_protobuf.go:
\* 407-416, file_store.go:113-127), and SQLite writes both in one
\* transaction.
THEOREM AnchorsSound == Spec => []AnchorsMatchRecords
<1>1. Init => AnchorsMatchRecords
  BY DEF Init, StoreInit, AnchorsMatchRecords
<1>2. TypeOK /\ RecordsContiguous /\ AnchorsMatchRecords /\ [Next]_vars
        => AnchorsMatchRecords'
  <2> SUFFICES ASSUME TypeOK, RecordsContiguous, AnchorsMatchRecords, [Next]_vars
               PROVE  AnchorsMatchRecords'
    OBVIOUS
  <2>1. CASE \E ts \in Times, msg \in Msgs, ok \in BOOLEAN :
                 AppendBody(msg, ts, ok) /\ restarts' = restarts
    BY <2>1, AppendBodyAnchors
  <2>2. CASE Restart \/ UNCHANGED vars
    BY <2>2 DEF Restart, vars, storeVars, AnchorsMatchRecords
  <2>3. QED
    BY <2>1, <2>2, NextIsAppendOrRestart
<1>3. QED
  BY <1>1, <1>2, TypeCorrect, ContiguousRecords, PTL DEF Spec


-----------------------------------------------------------------------------
(* On SQLite, Store.Append is atomic and the store agrees with the logger. *)

\* A SQLite Store.Append that returned an error changed nothing stored.
LEMMA SqliteFailureKeepsStore ==
    ASSUME Backend = "sqlite", NEW r, NEW tl, NEW a, StoreAppend(r, tl, a, FALSE)
    PROVE  UNCHANGED <<recs, anchors, tail, torn>>
BY DEF StoreAppend, SqliteAppend, Fail, storeVars

\* A SQLite Store.Append that returned nil stored the record and the tail.
LEMMA SqliteSuccessWrites ==
    ASSUME Backend = "sqlite", NEW r, NEW tl, NEW a, StoreAppend(r, tl, a, TRUE)
    PROVE  recs' = Append(recs, r) /\ tail' = tl
BY DEF StoreAppend, SqliteAppend, Fail, storeVars, WriteRecord, WriteTail

\* On the SQLite store every Logger call whose Store.Append returned an
\* error leaves the logs, anchors and tail tables as they were: the
\* deferred tx.Rollback undoes every statement of the transaction
\* (sqlite_store.go:68-106).  A step that keeps l.i is such a call, a
\* Restart of a logger at i = 0, or a stutter.
THEOREM SqliteAtomic ==
    ASSUME Backend = "sqlite"
    PROVE  Spec => StoreAtomic
<1>1. TypeOK /\ [Next]_vars => [i' = i => UNCHANGED <<recs, anchors, tail, torn>>]_vars
  <2> SUFFICES ASSUME TypeOK, [Next]_vars, i' = i
               PROVE  UNCHANGED <<recs, anchors, tail, torn>>
    OBVIOUS
  <2>1. ASSUME NEW ts \in Times, NEW msg \in Msgs, NEW ok \in BOOLEAN,
               AppendBody(msg, ts, ok)
        PROVE  UNCHANGED <<recs, anchors, tail, torn>>
    <3>1. StoreAppend(NewRecord(ts, msg), NewTail(ts, msg), NewAnchor(ts, msg), ok)
      BY <2>1 DEF AppendBody
    <3>2. ~ok
      BY <2>1 DEF AppendBody, NextIndex, TypeOK
    <3>3. QED
      BY <3>1, <3>2, SqliteFailureKeepsStore
  <2>2. CASE Restart \/ UNCHANGED vars
    BY <2>2 DEF Restart, vars, storeVars
  <2>3. QED
    BY <2>1, <2>2, NextIsAppendOrRestart
<1>2. QED
  BY <1>1, TypeCorrect, PTL DEF Spec, StoreAtomic

\* Until the logger is restarted, the SQLite store holds exactly l.i
\* records and its tail row is the logger's LastState.
AgreeBeforeRestart == restarts = 0 => StoreAgreesWithLogger

\* One Logger.Append over SQLite keeps the store in agreement with l.i and
\* the tags.
LEMMA AppendBodyAgrees ==
    ASSUME Backend = "sqlite", TypeOK, RecordsContiguous, StoreAgreesWithLogger,
           NEW ts \in Times, NEW msg \in Msgs, NEW ok \in BOOLEAN, AppendBody(msg, ts, ok)
    PROVE  StoreAgreesWithLogger'
<1>1. StoreAppend(NewRecord(ts, msg), NewTail(ts, msg), NewAnchor(ts, msg), ok)
  BY DEF AppendBody
<1>2. CASE ok
  <2>1. recs' = Append(recs, NewRecord(ts, msg)) /\ tail' = NewTail(ts, msg)
    BY <1>1, <1>2, SqliteSuccessWrites
  <2>2. i' = i + 1 /\ tagV' = NewTagV(ts, msg) /\ tagT' = NewTagT(ts, msg)
    BY <1>2 DEF AppendBody, NextIndex
  <2>3. Len(recs') = i + 1
    BY <2>1 DEF StoreAgreesWithLogger, TypeOK
  <2>4. tail' = [Index |-> i', TagV |-> tagV', TagT |-> tagT']
    BY <2>1, <2>2 DEF NewTail, NextIndex
  <2>5. QED
    BY <2>2, <2>3, <2>4 DEF StoreAgreesWithLogger, TypeOK
<1>3. CASE ~ok
  <2>1. UNCHANGED <<recs, anchors, tail, torn>>
    BY <1>1, <1>3, SqliteFailureKeepsStore
  <2>2. UNCHANGED <<i, tagV, tagT>>
    BY <1>3 DEF AppendBody
  <2>3. QED
    BY <2>1, <2>2 DEF StoreAgreesWithLogger
<1>4. QED
  BY <1>2, <1>3

\* Spec 8.1 on SQLite: until the process restarts, the logs table holds
\* exactly l.i records and the tail row equals the logger's LastState,
\* across any number of failed transactions, because Logger.Append moves
\* l.i and the tags exactly when the transaction committed
\* (example_protobuf.go:420-426).  After a restart the new Logger starts
\* at i = 0 over the old records, and the agreement is lost by design.
THEOREM SqliteAgreesWithLogger ==
    ASSUME Backend = "sqlite"
    PROVE  Spec => [](restarts = 0 => StoreAgreesWithLogger)
<1>1. Init => AgreeBeforeRestart
  BY DEF Init, StoreInit, AgreeBeforeRestart, StoreAgreesWithLogger
<1>2. TypeOK /\ RecordsContiguous /\ AgreeBeforeRestart /\ [Next]_vars
        => AgreeBeforeRestart'
  <2> SUFFICES ASSUME TypeOK, RecordsContiguous, AgreeBeforeRestart, [Next]_vars
               PROVE  AgreeBeforeRestart'
    OBVIOUS
  <2>1. ASSUME NEW ts \in Times, NEW msg \in Msgs, NEW ok \in BOOLEAN,
               AppendBody(msg, ts, ok), restarts' = restarts
        PROVE  AgreeBeforeRestart'
    <3>1. CASE restarts = 0
      BY <2>1, <3>1, AppendBodyAgrees DEF AgreeBeforeRestart
    <3>2. CASE restarts # 0
      BY <2>1, <3>2 DEF AgreeBeforeRestart
    <3>3. QED
      BY <3>1, <3>2
  <2>2. CASE Restart
    BY <2>2 DEF Restart, AgreeBeforeRestart, TypeOK
  <2>3. CASE UNCHANGED vars
    BY <2>3 DEF vars, loggerVars, storeVars, AgreeBeforeRestart, StoreAgreesWithLogger
  <2>4. QED
    BY <2>1, <2>2, <2>3, NextIsAppendOrRestart
<1>3. QED
  BY <1>1, <1>2, TypeCorrect, ContiguousRecords, PTL DEF Spec, AgreeBeforeRestart

=============================================================================
