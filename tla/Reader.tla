------------------------------- MODULE Reader -------------------------------
(***************************************************************************)
(* Readers of the store running beside the logger: each reader is a        *)
(* TrustedVerifier.VerifyAll (verifier.go:60-87), which drains Iter(1)     *)
(* record by record, then calls Tail and compares tags.                    *)
(*                                                                         *)
(* fileStore.Iter starts a goroutine that reads logs.dat through its own   *)
(* file handle after Iter has released s.mu, so it reads the file as it is *)
(* when it gets there.  sqliteStore.Iter reads a cursor of a WAL read      *)
(* transaction, a snapshot taken when the query starts.  fileStore.Tail    *)
(* takes s.mu.RLock, then Seek(0) and ReadFull on the one shared tail      *)
(* handle: two readers hold the read lock together, and the writer, which  *)
(* takes the write lock, is excluded between a Seek and its ReadFull.      *)
(***************************************************************************)
EXTENDS Logger

CONSTANT Readers   \* concurrent VerifyAll calls

VARIABLES
    rpc,       \* rpc[r]: where reader r is
    snap,      \* snap[r]: the records stored when r called Iter
    seen,      \* seen[r]: the records r's iterator delivered so far
    got,       \* got[r]: what r's Tail call returned (NoTail: ok = false)
    result,    \* result[r]: VerifyAll's outcome, "none" before it returns
    tailOff    \* the offset of fileStore.tailFile, shared by all readers

readerVars == <<rpc, snap, seen, got, result, tailOff>>
allVars == <<vars, readerVars>>

\* tailEntrySize (file_store.go): the length of tail.dat.
TailEntrySize == 72

ReaderInit ==
    /\ Init
    /\ rpc = [r \in Readers |-> "idle"]
    /\ snap = [r \in Readers |-> << >>]
    /\ seen = [r \in Readers |-> << >>]
    /\ got = [r \in Readers |-> NoTail]
    /\ result = [r \in Readers |-> "none"]
    /\ tailOff = 0

\* The logger's steps.  fileStore.Append takes s.mu.Lock, so it waits while
\* a reader holds the read lock inside Tail; writeTailLocked leaves the
\* offset at the end, and every reader seeks before reading.
Writer ==
    /\ Next
    /\ Backend = "file" => \A r \in Readers : rpc[r] # "read"
    /\ UNCHANGED <<rpc, snap, seen, got, result>>
    /\ tailOff' = IF tail' # tail THEN TailEntrySize ELSE tailOff

\* t.store.Iter(1).
IterBegin(r) ==
    /\ rpc[r] = "idle"
    /\ rpc' = [rpc EXCEPT ![r] = "iter"]
    /\ snap' = [snap EXCEPT ![r] = recs]
    /\ UNCHANGED <<vars, seen, got, result, tailOff>>

\* The records r's iterator reads from: the live file for the file store,
\* the query's snapshot for SQLite (file_store.go:264-333,
\* sqlite_store.go:109-136).
IterSource(r) == IF Backend = "file" THEN recs ELSE snap[r]

\* for r := range ch: the next record reaches the verifier.
IterNext(r) ==
    /\ rpc[r] = "iter"
    /\ Len(seen[r]) < Len(IterSource(r))
    /\ seen' = [seen EXCEPT ![r] = Append(@, IterSource(r)[Len(@) + 1])]
    /\ UNCHANGED <<vars, rpc, snap, got, result, tailOff>>

\* The iterator hits EOF (a trailing partial record ends it too) or the
\* cursor's last row: the channel is closed.
IterEnd(r) ==
    /\ rpc[r] = "iter"
    /\ Len(seen[r]) = Len(IterSource(r))
    /\ rpc' = [rpc EXCEPT ![r] = "tail"]
    /\ UNCHANGED <<vars, snap, seen, got, result, tailOff>>

\* Mutant of VerifyAllOutcome: the replay's last tag is not compared with
\* the tail's.
VerifyAllOutcomeUnchecked(r, tl) ==
    LET res == VerifyFromTrusted(seen[r], 0, SeedKey(B0), ZeroTag)
    IN  IF res.err # "none" THEN res.err ELSE IF tl = NoTail THEN "noTail" ELSE "ok"

\* VerifyAll's verdict once Tail returned tl.
VerifyAllOutcome(r, tl) ==
    Outcome(VerifyFromTrusted(seen[r], 0, SeedKey(B0), ZeroTag), tl, NoTail, FALSE)

\* Mutant of FileTailSeek: readTailLocked reads without seeking first.
FileTailSeekMissing(r) ==
    /\ Backend = "file"
    /\ rpc[r] = "tail"
    /\ rpc' = [rpc EXCEPT ![r] = "read"]
    /\ UNCHANGED <<vars, snap, seen, got, result, tailOff>>

\* fileStore.Tail: s.mu.RLock(), then readTailLocked's Seek(0, SeekStart).
FileTailSeek(r) ==
    /\ Backend = "file"
    /\ rpc[r] = "tail"
    /\ tailOff' = 0
    /\ rpc' = [rpc EXCEPT ![r] = "read"]
    /\ UNCHANGED <<vars, snap, seen, got, result>>

\* readTailLocked's ReadFull from the shared offset: 72 bytes, or EOF
\* (io.EOF/ErrUnexpectedEOF -> ok = false); then s.mu.RUnlock().
FileTailRead(r) ==
    /\ rpc[r] = "read"
    /\ LET tl == IF tailOff = 0 /\ tail # NoTail THEN tail ELSE NoTail
       IN  /\ got' = [got EXCEPT ![r] = tl]
           /\ result' = [result EXCEPT ![r] = VerifyAllOutcome(r, tl)]
           /\ tailOff' = IF tl # NoTail THEN TailEntrySize ELSE tailOff
    /\ rpc' = [rpc EXCEPT ![r] = "done"]
    /\ UNCHANGED <<vars, snap, seen>>

\* sqliteStore.Tail: one SELECT of the tail row (sqlite_store.go:189-205).
SqliteTail(r) ==
    /\ Backend = "sqlite"
    /\ rpc[r] = "tail"
    /\ got' = [got EXCEPT ![r] = tail]
    /\ result' = [result EXCEPT ![r] = VerifyAllOutcome(r, tail)]
    /\ rpc' = [rpc EXCEPT ![r] = "done"]
    /\ UNCHANGED <<vars, snap, seen, tailOff>>

ReaderNext ==
    \/ Writer
    \/ \E r \in Readers :
          \/ IterBegin(r) \/ IterNext(r) \/ IterEnd(r)
          \/ FileTailSeek(r) \/ FileTailRead(r) \/ SqliteTail(r)

ReaderSpec == ReaderInit /\ [][ReaderNext]_allVars

-----------------------------------------------------------------------------
(* Properties.                                                             *)

\* Every variable of the composition has its type.
ReaderTypeOK ==
    /\ TypeOK
    /\ rpc \in [Readers -> {"idle", "iter", "tail", "read", "done"}]
    /\ snap \in [Readers -> Seq(RecordSet)]
    /\ seen \in [Readers -> Seq(RecordSet)]
    /\ got \in [Readers -> TailSet \cup {NoTail}]
    /\ tailOff \in {0, TailEntrySize}

\* VerifyAll's "ok" is sound although Iter and Tail are two calls with the
\* writer free to run between them (verifier.go:64-85): a VerifyAll that
\* returned ok read a tail naming the last record its iterator delivered,
\* and those records are still the head of the store.  An append between
\* the iterator's end and Tail must turn into a mismatch, never an ok for a
\* tail the replay did not reach.
VerifyAllSound ==
    \A r \in Readers :
        result[r] = "ok" =>
            /\ got[r] # NoTail
            /\ got[r].Index = Len(seen[r])
            /\ seen[r] = SubSeq(recs, 1, Len(seen[r]))

\* Spec 4.2: Tail returns present? = false only when there is no tail: a
\* Tail call never reports the tail absent while the store holds one.
TailNotLost ==
    [][\A r \in Readers :
          rpc[r] \in {"tail", "read"} /\ rpc'[r] = "done" /\ got'[r] = NoTail
              => tail = NoTail]_allVars
=============================================================================
