------------------------------- MODULE Logger -------------------------------
(***************************************************************************)
(* The logger U (src/example_protobuf.go:335-447) bound to a Store, with   *)
(* the two protocol methods it offers (InitProtocol and CloseProtocol,     *)
(* src/unnamed/part_003:58-111).  One logger writes one log; its methods   *)
(* are called by one goroutine at a time (section 5 of the spec), so each  *)
(* call is one atomic step that includes the Store.Append it makes.        *)
(***************************************************************************)
EXTENDS Store, Verifier

CONSTANTS
    A0, B0,       \* the initial keys given to New (cfg or crypto/rand)
    ZeroSeed,     \* the all-zero 32-byte key
    Payloads,     \* application messages other than START and CLOSE
    Times,        \* timestamps (UnixNano) callers pass
    AnchorEvery,  \* Config.AnchorEvery
    MaxIndex,     \* bound on the logger's index i
    MaxKeyGen,    \* bound on key evolutions (failed calls evolve keys too)
    MaxRestarts,  \* bound on logger crashes and restarts
    NoMsg         \* a protocol message not produced (yet)

ASSUME LoggerAssumption ==
    /\ AnchorEvery \in Nat
    /\ MaxIndex \in Nat
    /\ MaxKeyGen \in Nat
    /\ MaxRestarts \in Nat
    /\ Times \subseteq Nat
    /\ "START" \notin Payloads /\ "CLOSE" \notin Payloads

VARIABLES
    i, keyV, keyT, tagV, tagT,   \* the Logger struct
    commit, open,                \* what InitProtocol returned
    closeMsgs,                   \* the CloseMessages CloseProtocol returned
    restarts                     \* logger restarts so far

loggerVars == <<i, keyV, keyT, tagV, tagT>>
msgVars == <<commit, open, closeMsgs>>
vars == <<loggerVars, msgVars, storeVars, restarts>>

Msgs == Payloads \cup {"START", "CLOSE"}
ZeroKey == SeedKey(ZeroSeed)

\* New (example_protobuf.go:348-368): i = 0, zero tags, keys A0 and B0.
Init ==
    /\ StoreInit
    /\ i = 0
    /\ keyV = SeedKey(A0)
    /\ keyT = SeedKey(B0)
    /\ tagV = ZeroTag
    /\ tagT = ZeroTag
    /\ commit = NoMsg /\ open = NoMsg /\ closeMsgs = << >>
    /\ restarts = 0

-----------------------------------------------------------------------------
(* Logger.Append (example_protobuf.go:374-429).  The values it computes    *)
(* into locals before calling Store.Append.                                *)

NextIndex == i + 1
NextKeyV == fwdKey(keyV)
NextKeyT == fwdKey(keyT)
\* Mutant of FirstEntry: the first record is folded onto the zero tag.
FirstEntryNever == FALSE
FirstEntry == NextIndex = 1 /\ isZero32(tagV) /\ isZero32(tagT)
NewTagV(ts, msg) ==
    LET m == mac(NextKeyV, NextIndex, ts, msg)
    IN  IF FirstEntry THEN htag(m) ELSE fold(tagV, m)
NewTagT(ts, msg) ==
    LET m == mac(NextKeyT, NextIndex, ts, msg)
    IN  IF FirstEntry THEN htag(m) ELSE fold(tagT, m)
NewRecord(ts, msg) ==
    [Index |-> NextIndex, TS |-> ts, Msg |-> msg,
     TagV |-> NewTagV(ts, msg), TagT |-> NewTagT(ts, msg)]
\* Mutant of NewAnchor: the checkpoint key is copied before fwdKey.
NewAnchorStaleKey(ts, msg) ==
    IF AnchorEvery # 0 /\ NextIndex % AnchorEvery = 0
    THEN [Index |-> NextIndex, Key |-> keyV,
          TagV |-> NewTagV(ts, msg), TagT |-> NewTagT(ts, msg)]
    ELSE NoAnchor
NewAnchor(ts, msg) ==
    IF AnchorEvery # 0 /\ NextIndex % AnchorEvery = 0
    THEN [Index |-> NextIndex, Key |-> NextKeyV,
          TagV |-> NewTagV(ts, msg), TagT |-> NewTagT(ts, msg)]
    ELSE NoAnchor
NewTail(ts, msg) ==
    [Index |-> NextIndex, TagV |-> NewTagV(ts, msg), TagT |-> NewTagT(ts, msg)]

\* Mutant of AppendBody: the error from Store.Append is ignored.
AppendBodyNoRollback(msg, ts, ok) ==
    /\ i < MaxIndex
    /\ keyV.gen < MaxKeyGen /\ keyT.gen < MaxKeyGen
    /\ StoreAppend(NewRecord(ts, msg), NewTail(ts, msg), NewAnchor(ts, msg), ok)
    /\ i' = NextIndex
    /\ tagV' = NewTagV(ts, msg)
    /\ tagT' = NewTagT(ts, msg)

\* Mutant of AppendBody: l.i-- without the l.i++ having happened.
AppendBodyDoubleDecrement(msg, ts, ok) ==
    /\ i < MaxIndex
    /\ keyV.gen < MaxKeyGen /\ keyT.gen < MaxKeyGen
    /\ StoreAppend(NewRecord(ts, msg), NewTail(ts, msg), NewAnchor(ts, msg), ok)
    /\ IF ok THEN /\ i' = NextIndex
                  /\ tagV' = NewTagV(ts, msg)
                  /\ tagT' = NewTagT(ts, msg)
             ELSE /\ i' = i - 1
                  /\ UNCHANGED <<tagV, tagT>>

\* The body of Append up to its return, ok being Store.Append's result.  The
\* keys are evolved in place (fwdKey(&l.keyV)) before the store is called,
\* and an error only undoes l.i++: the caller sets keyV', keyT'.
AppendBody(msg, ts, ok) ==
    /\ i < MaxIndex
    /\ keyV.gen < MaxKeyGen /\ keyT.gen < MaxKeyGen
    /\ StoreAppend(NewRecord(ts, msg), NewTail(ts, msg), NewAnchor(ts, msg), ok)
    /\ IF ok THEN /\ i' = NextIndex
                  /\ tagV' = NewTagV(ts, msg)
                  /\ tagT' = NewTagT(ts, msg)
             ELSE UNCHANGED <<i, tagV, tagT>>

\* Logger.Append(msg, ts) (named LoggerAppend: Append is the sequence operator) for an application message.
LoggerAppend(msg, ts) ==
    \E ok \in BOOLEAN :
        /\ AppendBody(msg, ts, ok)
        /\ keyV' = NextKeyV /\ keyT' = NextKeyT
        /\ UNCHANGED <<msgVars, restarts>>

\* Logger.Close (example_protobuf.go:432-434): Append("CLOSE", ts).
Close(ts) == LoggerAppend("CLOSE", ts)

\* InitProtocol (part_003:58-83) returning nil error (ok) or an error: the
\* commitment captures the current keys, then START is appended; on error
\* both results are discarded.
InitProtocolStep(ts, ok) ==
    /\ AppendBody("START", ts, ok)
    /\ keyV' = NextKeyV /\ keyT' = NextKeyT
    /\ commit' = IF ok THEN [StartTime |-> ts, KeyA0 |-> keyV, KeyB0 |-> keyT]
                       ELSE commit
    /\ open' = IF ok THEN [OpenTime |-> ts, FirstIndex |-> NextIndex,
                           FirstTagV |-> NewTagV(ts, "START"),
                           FirstTagT |-> NewTagT(ts, "START")]
                     ELSE open
    /\ UNCHANGED <<closeMsgs, restarts>>

\* InitProtocol, called as its callers (NewRemoteLogger) call it: on a
\* fresh logger, i = 0.
InitProtocol(ts) ==
    /\ i = 0
    /\ \E ok \in BOOLEAN : InitProtocolStep(ts, ok)

\* CloseProtocol (part_003:92-111) returning nil error (ok) or an error:
\* Append("CLOSE"); on success read LastState, zero both keys and return
\* the CloseMessage.  Nothing stops a second call, nor an Append after it.
CloseProtocolStep(ts, ok) ==
    /\ AppendBody("CLOSE", ts, ok)
    /\ keyV' = IF ok THEN ZeroKey ELSE NextKeyV
    /\ keyT' = IF ok THEN ZeroKey ELSE NextKeyT
    /\ closeMsgs' = IF ok THEN Append(closeMsgs,
                                [CloseTime |-> ts, FinalIndex |-> NextIndex,
                                 FinalTagV |-> NewTagV(ts, "CLOSE"),
                                 FinalTagT |-> NewTagT(ts, "CLOSE")])
                          ELSE closeMsgs
    /\ UNCHANGED <<commit, open, restarts>>

\* CloseProtocol with either outcome.
CloseProtocol(ts) == \E ok \in BOOLEAN : CloseProtocolStep(ts, ok)

\* The logger process crashes and a new Logger is created by New with the
\* same Config (fixed InitialKeyV/InitialKeyT, the test/HSM path) over the
\* same store.  The in-memory state is lost; the store keeps everything
\* written, a torn trailing record included, and the messages already
\* returned stay with whoever received them.
Restart ==
    /\ restarts < MaxRestarts
    /\ restarts' = restarts + 1
    /\ i' = 0
    /\ keyV' = SeedKey(A0) /\ keyT' = SeedKey(B0)
    /\ tagV' = ZeroTag /\ tagT' = ZeroTag
    /\ UNCHANGED <<msgVars, storeVars>>

Next ==
    \E ts \in Times :
        \/ \E msg \in Payloads : LoggerAppend(msg, ts)
        \/ Close(ts)
        \/ InitProtocol(ts)
        \/ CloseProtocol(ts)
    \/ Restart

Spec == Init /\ [][Next]_vars

-----------------------------------------------------------------------------
(* Properties.                                                             *)

KeySet == KeyOf({A0, B0, ZeroSeed})
MacSet == MacOf({A0, B0, ZeroSeed}, Nat, Times, Msgs)
TagSet == TagOf(MacSet)
RecordSet == [Index : Nat, TS : Times, Msg : Msgs, TagV : TagSet, TagT : TagSet]
TailSet == [Index : Nat, TagV : TagSet, TagT : TagSet]
AnchorSet == [Index : Nat, Key : KeySet, TagV : TagSet, TagT : TagSet]
CommitSet == [StartTime : Times, KeyA0 : KeySet, KeyB0 : KeySet]
OpenSet == [OpenTime : Times, FirstIndex : Nat, FirstTagV : TagSet, FirstTagT : TagSet]
CloseSet == [CloseTime : Times, FinalIndex : Nat, FinalTagV : TagSet, FinalTagT : TagSet]

\* NoMsg stands for a message not produced (nil): it is none of the
\* messages the logger produces.
ASSUME NoMsgAssumption == NoMsg \notin CommitSet \cup OpenSet \cup CloseSet

\* Every variable holds a value of its type.
TypeOK ==
    /\ i \in 0 .. MaxIndex
    /\ keyV \in KeySet /\ keyT \in KeySet
    /\ tagV \in TagSet /\ tagT \in TagSet
    /\ recs \in Seq(RecordSet)
    /\ anchors \subseteq AnchorSet
    /\ tail \in TailSet \cup {NoTail}
    /\ torn \in BOOLEAN
    /\ failures \in 0 .. MaxFailures
    /\ restarts \in 0 .. MaxRestarts
    /\ commit \in CommitSet \cup {NoMsg}
    /\ open \in OpenSet \cup {NoMsg}
    /\ closeMsgs \in Seq(CloseSet)

\* The record stream holds indices 1, 2, ..., n with no gap or repetition,
\* even after a failed append left a record behind and the logger, which
\* undid l.i++, tried the same index again (file_store.go:104, the
\* contiguity check, and example_protobuf.go:421).
RecordsContiguous ==
    \A k \in 1 .. Len(recs) : recs[k].Index = k

\* The tail slot never names a record that is not stored, and when present
\* carries that record's two tags: the record is written and fsynced before
\* the tail is rewritten (file_store.go:113-127), whatever step fails.
TailDescribesStoredRecord ==
    tail # NoTail =>
        /\ tail.Index \in 1 .. Len(recs)
        /\ recs[tail.Index].TagV = tail.TagV
        /\ recs[tail.Index].TagT = tail.TagT

\* Every anchor names a stored record, carries its tags, and its key is the
\* key A_i that MACed that record on the V-chain, so an auditor can resume
\* from it (example_protobuf.go:407-416).
AnchorsMatchRecords ==
    \A a \in anchors :
        /\ a.Index \in 1 .. Len(recs)
        /\ recs[a.Index].TagV = a.TagV
        /\ recs[a.Index].TagT = a.TagT
        /\ a.Key = a.TagV.macs[Len(a.TagV.macs)].key

\* The logger's in-memory position never runs ahead of the store, and the
\* record at that position carries the logger's aggregate tags: a failed
\* Store.Append, wherever it stopped, leaves i and the tags at the last
\* record the logger knows committed (example_protobuf.go:420-426).
LoggerBehindStore ==
    /\ i <= Len(recs)
    /\ i > 0 => recs[i].TagV = tagV /\ recs[i].TagT = tagT

\* Spec 8.1: the tail always equals the logger's LastState and the store
\* holds exactly i records, across failed appends.
StoreAgreesWithLogger ==
    /\ Len(recs) = i
    /\ i = 0 => tail = NoTail
    /\ i > 0 => tail = [Index |-> i, TagV |-> tagV, TagT |-> tagT]

\* Spec 4.2: a Store.Append that returns an error has no visible effect.
\* Every logger call appends, so a step that leaves i unchanged is one whose
\* Store.Append returned an error.
StoreAtomic ==
    [][i' = i => UNCHANGED <<recs, anchors, tail, torn>>]_vars

\* The anchor for verifying from the origin with A_0 and a zero tag.
OriginAnchor == [Index |-> 0, Key |-> SeedKey(A0), TagV |-> ZeroTag, TagT |-> ZeroTag]

\* A log the logger has not written past its first CloseMessage.
Legitimate == closeMsgs = << >> \/ Len(recs) = closeMsgs[1].FinalIndex

\* Spec 8.2: the stored log verifies on both chains from A_0 and B_0 and
\* the replays end on the stored tail (VerifyFromAnchor from the origin
\* and TrustedVerifier.VerifyAll, verifier.go:19-87).
HonestLogVerifies ==
    (recs # << >> /\ Legitimate) =>
        /\ VerifyFromAnchorV(recs, tail, NoTail, OriginAnchor) = "ok"
        /\ VerifyAllT(recs, tail, NoTail, SeedKey(B0)) = "ok"

\* Spec 8.3: an auditor can resume the V-chain from every stored anchor.
AnchorsResume ==
    Legitimate => \A a \in anchors : VerifyFromAnchorV(recs, tail, NoTail, a) = "ok"


-----------------------------------------------------------------------------
(* Refinement of AppendOnlyLog.                                            *)

\* The refinement mapping: the abstract log is the messages of the stored
\* records, in stored order; the writer's position is l.i.
StoredMsgs == [k \in 1 .. Len(recs) |-> recs[k].Msg]
AOL == INSTANCE AppendOnlyLog WITH Entries <- Msgs, log <- StoredMsgs, pos <- i

\* Every behaviour of Logger over its store is one of AppendOnlyLog: each
\* Logger.Append that returns nil adds its message at the end of the
\* stored log, one that returns an error leaves the log as it was, and a
\* Logger from New over a non-empty store appends nothing
\* (example_protobuf.go:374-429, sqlite_store.go:68-106).
ImplementsAppendOnlyLog == AOL!AOLSpec
=============================================================================
