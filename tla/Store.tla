------------------------------- MODULE Store --------------------------------
(***************************************************************************)
(* The Store interface (src/example_protobuf.go:327-333) and its two       *)
(* backings: the POSIX file store (src/file_store.go) and the SQLite store *)
(* (src/sqlite_store.go).  The logger is the only writer, so Append is not *)
(* an action of its own: StoreAppend(r, tl, a, ok) is the relation between *)
(* the store before and after one call, ok being whether it returned nil.  *)
(* The logger's Append action conjoins it.                                 *)
(*                                                                         *)
(* I/O failures (stat, flock, write, fsync, truncate, a transaction error  *)
(* or its 5 s timeout) are injected nondeterministically, at most          *)
(* MaxFailures of them in a behaviour.                                     *)
(***************************************************************************)
EXTENDS Naturals, Sequences

CONSTANTS
    Backend,      \* "file" or "sqlite"
    NoTail,       \* the absent tail slot (Tail() returning ok = false)
    MaxFailures   \* bound on injected I/O failures

ASSUME StoreAssumption ==
    /\ Backend \in {"file", "sqlite"}
    /\ MaxFailures \in Nat

VARIABLES
    recs,      \* the record stream / logs table, in stored order
    anchors,   \* the anchor file / table, as a set of Anchor records
    tail,      \* the tail slot, or NoTail when absent or unreadable
    torn,      \* logs.dat ends in a partially written record
    failures   \* injected failures so far

storeVars == <<recs, anchors, tail, torn, failures>>

StoreInit ==
    /\ recs = << >>
    /\ anchors = {}
    /\ tail = NoTail
    /\ torn = FALSE
    /\ failures = 0

\* An anchor argument that is nil.
NoAnchor == [Index |-> 0]

\* One more injected failure.
Fail == /\ failures < MaxFailures
        /\ failures' = failures + 1

-----------------------------------------------------------------------------
(* File store.                                                             *)

\* getLastIndexLocked (file_store.go:203-249): the index of the last record
\* read from logs.dat, 0 when it is empty.  A trailing partial record makes
\* the scan fail, so the store can report no last index (error).
FileLastIndex == IF recs = << >> THEN 0 ELSE recs[Len(recs)].Index

\* The effects of writeRecordLocked, writeAnchorLocked and writeTailLocked.
WriteRecord(r)  == recs' = Append(recs, r)
WriteAnchor(a)  == anchors' = IF a = NoAnchor THEN anchors ELSE anchors \cup {a}
WriteTail(tl)   == tail' = tl

\* Mutant of FileAppend: the contiguity check of file_store.go:104 is dropped.
FileAppendUnchecked(r, tl, a, ok) ==
    \/ /\ torn /\ ~ok
       /\ UNCHANGED storeVars
    \/ /\ ~torn
       /\ \/ /\ ok
             /\ WriteRecord(r) /\ WriteAnchor(a) /\ WriteTail(tl)
             /\ UNCHANGED <<torn, failures>>
          \/ /\ ~ok /\ Fail
             /\ WriteRecord(r)
             /\ UNCHANGED <<anchors, tail, torn>>

\* Mutant of FileAppend: the tail is rewritten before the record is written,
\* so a failure of the record write leaves the new tail behind.
FileAppendTailFirst(r, tl, a, ok) ==
    \/ /\ torn /\ ~ok
       /\ UNCHANGED storeVars
    \/ /\ ~torn /\ ~ok
       /\ FileLastIndex # r.Index - 1
       /\ UNCHANGED storeVars
    \/ /\ ~torn
       /\ FileLastIndex = r.Index - 1
       /\ \/ /\ ok
             /\ WriteRecord(r) /\ WriteAnchor(a) /\ WriteTail(tl)
             /\ UNCHANGED <<torn, failures>>
          \/ /\ ~ok /\ Fail
             /\ WriteTail(tl)
             /\ UNCHANGED <<recs, anchors, torn>>

\* fileStore.Append (file_store.go:95-128) with the helpers it calls
\* (131-164, 167-200, 433-451).  Each failing disjunct stops the sequence
\* record -> fsync -> anchor -> tail at one of the code's error returns and
\* keeps what was written before it.
FileAppend(r, tl, a, ok) ==
    \/ \* getLastIndexLocked fails on the torn trailing record
       /\ torn /\ ~ok
       /\ UNCHANGED storeVars
    \/ \* non-contiguous append
       /\ ~torn /\ ~ok
       /\ FileLastIndex # r.Index - 1
       /\ UNCHANGED storeVars
    \/ /\ ~torn
       /\ FileLastIndex = r.Index - 1
       /\ \/ /\ ok                       \* every write and fsync succeeded
             /\ WriteRecord(r) /\ WriteAnchor(a) /\ WriteTail(tl)
             /\ UNCHANGED <<torn, failures>>
          \/ /\ ~ok /\ Fail              \* stat / flock fails, or nothing written
             /\ UNCHANGED <<recs, anchors, tail, torn>>
          \/ /\ ~ok /\ Fail              \* short write of the record
             /\ torn' = TRUE
             /\ UNCHANGED <<recs, anchors, tail>>
          \/ /\ ~ok /\ Fail              \* log fsync or anchor write fails
             /\ WriteRecord(r)
             /\ UNCHANGED <<anchors, tail, torn>>
          \/ /\ ~ok /\ Fail              \* tail Truncate fails
             /\ WriteRecord(r) /\ WriteAnchor(a)
             /\ UNCHANGED <<tail, torn>>
          \/ /\ ~ok /\ Fail              \* tail truncated, then seek/write fails
             /\ WriteRecord(r) /\ WriteAnchor(a) /\ tail' = NoTail
             /\ UNCHANGED torn
          \/ /\ ~ok /\ Fail              \* tail written, its fsync fails
             /\ WriteRecord(r) /\ WriteAnchor(a) /\ WriteTail(tl)
             /\ UNCHANGED torn

-----------------------------------------------------------------------------
(* SQLite store.                                                           *)

\* SELECT COALESCE(MAX(idx),0) FROM logs (sqlite_store.go:77).
SqlMaxIndex ==
    IF recs = << >> THEN 0
    ELSE CHOOSE m \in {recs[k].Index : k \in 1 .. Len(recs)} :
             \A k \in 1 .. Len(recs) : recs[k].Index <= m

\* INSERT ... ON CONFLICT(idx) DO UPDATE on the anchors table.
UpsertAnchor(a) ==
    anchors' = IF a = NoAnchor THEN anchors
               ELSE {x \in anchors : x.Index # a.Index} \cup {a}

\* Mutant of SqliteAppend: the record insert escapes the transaction and
\* survives a later failure.
SqliteAppendLeaky(r, tl, a, ok) ==
    \/ /\ ~ok /\ Fail
       /\ SqlMaxIndex = r.Index - 1
       /\ WriteRecord(r)
       /\ UNCHANGED <<anchors, tail, torn>>
    \/ /\ ~ok
       /\ SqlMaxIndex # r.Index - 1
       /\ UNCHANGED storeVars
    \/ /\ ok
       /\ SqlMaxIndex = r.Index - 1
       /\ WriteRecord(r) /\ UpsertAnchor(a) /\ WriteTail(tl)
       /\ UNCHANGED <<torn, failures>>

\* Mutant of SqliteAppend: the tail upsert is committed even when the
\* transaction then fails.
SqliteAppendTailLeak(r, tl, a, ok) ==
    \/ /\ ~ok /\ Fail
       /\ WriteTail(tl)
       /\ UNCHANGED <<recs, anchors, torn>>
    \/ /\ ~ok
       /\ SqlMaxIndex # r.Index - 1
       /\ UNCHANGED storeVars
    \/ /\ ok
       /\ SqlMaxIndex = r.Index - 1
       /\ WriteRecord(r) /\ UpsertAnchor(a) /\ WriteTail(tl)
       /\ UNCHANGED <<torn, failures>>

\* sqliteStore.Append (sqlite_store.go:68-106): one serializable
\* transaction, rolled back by the deferred Rollback on every error path.
SqliteAppend(r, tl, a, ok) ==
    \/ \* BeginTx, a statement, Commit or the 5 s deadline fails
       /\ ~ok /\ Fail
       /\ UNCHANGED <<recs, anchors, tail, torn>>
    \/ \* non-contiguous append
       /\ ~ok
       /\ SqlMaxIndex # r.Index - 1
       /\ UNCHANGED storeVars
    \/ /\ ok
       /\ SqlMaxIndex = r.Index - 1
       /\ WriteRecord(r) /\ UpsertAnchor(a) /\ WriteTail(tl)
       /\ UNCHANGED <<torn, failures>>

\* Store.Append on the configured backing.
StoreAppend(r, tl, a, ok) ==
    IF Backend = "file" THEN FileAppend(r, tl, a, ok) ELSE SqliteAppend(r, tl, a, ok)
=============================================================================
