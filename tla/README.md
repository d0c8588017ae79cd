# Formal model of securelog

TLA+ models of the forward-secure dual-MAC logger in this repository.
It covers these parts:
- the `Logger` (U in the paper);
- its two `Store` backends;
- the verifiers that replay the V-chain and the T-chain, including while
  the logger appends;
- the trusted server T;
- the `RemoteLogger` over the local, HTTP and protobuf transports.

The modules are model-checked with TLC. TLAPS proves these facts for every
value of the constants:
- the logger, the readers and the remote system are type-correct;
- the stored records are contiguous;
- the logger never runs ahead of the store;
- the store's tail and anchors always name stored records and carry their tags;
- over SQLite:
  - a failed append has no effect;
  - the store agrees with the logger until a restart;
  - the logger implements an abstract append-only log;
- with one reader, `Tail` never loses the tail;
- with one closer and no network failures, `Close` produces at most one
  CloseMessage;
- for any closers and network failures, a log whose `Close` returned nil is
  registered on T with one of its own closures;
- the remote logger and the readers use the logger only as the Logger
  specification allows, so the logger theorems hold of both compositions.

## The system

| Part | Source | Role |
|---|---|---|
| Primitives | `src/unnamed/part_003` 246-282 | `fwdKey` (K_i = H(K_{i-1})), `mac`, `htag`, `fold`, `isZero32` |
| Logger | `src/example_protobuf.go` 335-447 | holds `i`, keys A_i/B_i and tags mu_V,i/mu_T,i; `Append` computes both MACs, then calls `Store.Append` |
| Protocol (logger side) | `src/unnamed/part_003` 56-131 | `InitProtocol` appends START and returns the commitment (A0, B0) and the open message; `CloseProtocol` appends CLOSE, zeroes the keys and returns the close message |
| File store | `src/file_store.go` | `logs.dat`, `anchors.dat`, `tail.dat`; `Append` checks contiguity, then writes record, fsync, anchor, tail |
| SQLite store | `src/sqlite_store.go` | the same `Append` in one serializable transaction with a 5 s deadline |
| Verifiers | `src/unnamed/part_006`, `src/verifier.go` | `VerifyChain` replays a chain; `SemiTrustedVerifier` uses A_i, `TrustedVerifier` uses B0 |
| Trusted server | `src/unnamed/part_003` 135-244 | stores commitment, open and close per log; `FinalVerify` replays the T-chain |
| Transports, RemoteLogger | `src/unnamed/part_003` 282-758, `src/proto_transport.go` | HTTP/gob, protobuf, in-process and folder transports; `RemoteLogger` runs the protocol over one |
| HTTP server | `src/unnamed/part_000` | `/api/v1/logs/...` handlers in front of a `TrustedServer` |
| Protobuf conversion | `src/unnamed/part_005` | field-by-field `To/FromProto*` |

How the parts interact: the logger writes through a `Store`, and the verifiers
read the same store (`Iter`, then `Tail`). The protocol messages go from the
logger to the trusted server through a transport. The server's `FinalVerify`
replays the records it is sent against the commitment.

## Modules

- `Primitives` models the crypto as a free term algebra, so equality of two
  terms is equality of their inputs.
  - A key is `[seed, gen]`, and `fwdKey` increments `gen`.
  - A MAC is the record of its key, index, time and message.
  - A tag is its start marker (`"zero"` or `"h"`) with the sequence of MACs
    folded into it.
  - Collision resistance is thereby assumed.
- `Verifier` models `VerifyChain` as a recursive function over the records. It
  fails fast with `"gap"` or `"mismatch"` in the code's order and returns
  `lastTag` exactly as the code does. `VerifyFromAnchorV` and `VerifyAllT`
  model `SemiTrustedVerifier.VerifyFromAnchor` and `TrustedVerifier.VerifyAll`:
  they filter by index (as `Iter` does), replay, then compare with the tail.
- `Store` holds the store variables (`recs`, `anchors`, `tail`, `torn`,
  `failures`). `StoreAppend(r, tl, a, ok)` relates the store before and after
  one `Append` call that returned nil (`ok`) or an error.
  - `FileAppend` has one disjunct per error return of `fileStore.Append` and
    its helpers. Each keeps what was already written: nothing, a torn record,
    the record, record+anchor, or a truncated tail.
  - `SqliteAppend` either commits everything or changes nothing.
  - Failures are bounded by `MaxFailures`.
- `Logger` EXTENDS `Store` and `Verifier`. Its variables are the fields of
  `Logger` plus the protocol messages returned so far (`commit`, `open` and
  `closeMsgs`, in the order they were returned). Its actions are:
  - `LoggerAppend`: `Append`, with the store call and the rollback inside it;
  - `Close`;
  - `InitProtocol`;
  - `CloseProtocol`;
  - `Restart`: `New` over the same store, bounded by `MaxRestarts`.

  Key generations are capped by `MaxKeyGen`, indices by `MaxIndex`.
- `AppendOnlyLog` is the abstract specification of what Logger and Store
  promise together. Its state is `log` (the stored messages) and `pos` (the
  writer's position). `AOLWrite` appends at the end, and only when
  `pos = Len(log)`. `AOLReset` is a fresh writer at position 0. `Logger`
  instantiates it as `AOL` with `log <- StoredMsgs` (the stored records'
  messages) and `pos <- i`. `ImplementsAppendOnlyLog` is `AOL!AOLSpec`.
- `Remote` EXTENDS `Logger` with T and the `RemoteLogger`, for one log ID.
  - `commitments`, `opens` and `closures` are T's three maps.
    `RegisterLog`, `RegisterOpen` and `AcceptClosure` overwrite them.
    `FinalVerify` makes the code's checks in the code's order.
  - `NewInit`, `NewCommit` and `NewOpen` are the three calls of
    `NewRemoteLogger`.
  - Each goroutine in `Closers` runs `closeOnce` as four steps, tracked in
    `pc[c]`:
    - `CheckClosed`: under `rl.mu`;
    - `Protocol`: `CloseProtocol`;
    - `SendClosure`;
    - `Receive`: sets `closed`.
  - Over HTTP, a close request waits in `inflight` until the server's
    `HandleClose` serves it.
  - `ConnDrop` is a connection error: the client gets an error, and the
    request may still be served. The same failures ("lost" before the
    handler, "noReply" after it) hit the register and open calls and
    `SendLogFile`. At most `MaxNetFailures` of them happen.
  - `Audit` is `Transport.SendLogFile`. It records what the transport
    reported and what `FinalVerify` said.
  - `AppAppend` is the application logging through the embedded Logger.
    `AppBudget` keeps room for the close records.
- `Reader` EXTENDS `Logger` with concurrent `TrustedVerifier.VerifyAll`
  calls, one per member of `Readers`. Each runs these steps:
  - `IterBegin`;
  - one `IterNext` per record;
  - `IterEnd`;
  - `Tail`, which is `FileTailSeek` then `FileTailRead` on the file store,
    or `SqliteTail`.

  `fileStore.Iter` reads the live file. The SQLite cursor reads the
  snapshot taken when the query started. `tailOff` is the offset of the
  one `tailFile` handle that all callers share. The writer waits while a
  reader holds the read lock inside `Tail`.
- `MC_Logger`, `MC_Remote` and `MC_Reader` give the payloads and times small
  finite values.
- The TLAPS proofs are in four modules:
  - `LoggerProofs`: type correctness, contiguity, the logger-behind-store
    invariant and the refinement;
  - `LoggerStoreProofs`: the store's tail, its anchors, and the SQLite
    facts;
  - `ReaderProofs`: the proofs about `Reader`;
  - `RemoteProofs`: the proofs about `Remote`, including that it implements
    `Spec` and that a closed log is accepted.

## Runs

The runs use A0, B0 and the zero seed as model values, one payload and one or
two times. `CHECK_DEADLOCK FALSE`: the logger is a passive library and stops
when its caller stops.

`MC_Logger` runs, up to 4 records and anchors every 2:

| Run | Checks | Result |
|---|---|---|
| `store_file` | `TypeOK`, `RecordsContiguous`, `TailDescribesStoredRecord`, `AnchorsMatchRecords`, `LoggerBehindStore` with file store, 2 failures, 1 restart | pass |
| `store_sqlite` | `StoreAgreesWithLogger`, `[]StoreAtomic`, `ImplementsAppendOnlyLog` with SQLite, 2 failures | pass |
| `key_rollback` | `HonestLogVerifies` with 1 SQLite failure | violation |
| `file_nonatomic` | `[]StoreAtomic` with the file store | violation |
| `anchor_at_tail` | `AnchorsResume` | violation |

`MC_Remote` runs use SQLite, two times, up to 6 records and no store failures
unless stated:

| Run | Checks | Result |
|---|---|---|
| `remote` | `RemoteTypeOK`, `ClosedAccepted`, `CloseReturns` over the local and the protobuf transports, 1 closer, 1 store failure, 1 network failure, fair spec | pass |
| `close_race` | `CloseIdempotent`, 2 closers | violation |
| `close_retry` | `ClosedLogVerifies`, 1 closer, 1 network failure | violation |
| `http_verdict` | `VerdictSound` over `HTTPTransport` | violation |

`MC_Reader` runs use one time:

| Run | Checks | Result |
|---|---|---|
| `reader_sqlite` | `VerifyAllSound`, `HonestLogVerifies` with 1 reader, no failures, 1 restart, up to 4 records | pass |
| `reader_file` | `ReaderTypeOK`, `VerifyAllSound`, `[]TailNotLost` with 1 reader, 1 failure, 1 restart, up to 3 records | pass |
| `tail_readers` | `[]TailNotLost` with 2 readers on the file store | violation |

`ClosedAccepted` says that once `rl.closed` is set, T holds this logger's
commitment, its opening and one of the CloseMessages its `CloseProtocol`
returned. A mutant that sets `closed` as soon as the HTTP request is
posted, without waiting for T's answer, breaks it.

`VerifyAllSound` is about `VerifyAll` reading the store in two calls,
`Iter(1)` and then `Tail`, with the writer free to append in between. It says
that an "ok" verdict always covers a tail naming the last record the
iterator delivered, and that those records are still the head of the store.
It holds on both stores: over SQLite the iterator reads a snapshot, over the
file store it reads the live file, and in both cases an append that falls
between the iterator's end and `Tail` turns into a tag mismatch. A mutant
that drops the tag comparison breaks it in both runs.

`reader_sqlite` also checks, with a reader beside the writer and a restart,
that every store the logger can reach with no failures verifies
(`HonestLogVerifies`).

`StoreAgreesWithLogger` and `VerdictSound` are not checked by `remote`. Over
SQLite the remote logger's store steps are `Spec` steps without restarts
(`RemoteImplementsLogger`, `RemoteNoRestart`), so `store_sqlite` already
covers the first. On the local and protobuf transports `VerdictSound` holds
by the transport's own definition, and `http_verdict` is the run that
matters.

The bounds (up to 6 records, anchors every 2, up to 2 failures) are enough for
the interesting cases:
- a failure before, between and after anchor writes;
- an anchor at the tail and one in the middle;
- a restart over an empty and a non-empty store;
- a second close;
- a Close retried after one lost response;
- two closers;
- an append between a reader's Iter and its Tail;
- two readers between Seek and ReadFull.

The counterexamples of all the violations are at most 10 steps deep.

### Fairness

`RemoteFairSpec` assumes weak fairness of these steps:
- each closer's `Protocol`, `SendClosure` and `Receive`. Once a goroutine is
  inside `Close`, it keeps running.
- `HandleClose`. The server keeps serving.

It assumes no fairness for `CheckClosed`, appends, audits or network
failures, because those are the caller's or the network's choice.
`ConnDrop` stands for the client noticing a dead connection. It needs no
fairness, because the only waits are on a request that is in flight (which
the server serves) or on a reply that has arrived. `http.Client{}` sets no
timeout, so this relies on the connection error eventually surfacing
(TCP keep-alive).

### Findings

Each of these is the counterexample of a violation run:

1. **Keys are not rolled back** (`example_protobuf.go:377-378, 421`). When
   `Store.Append` fails, only `i` is rolled back. The next append uses A_{i+1},
   and the honest log no longer verifies from A0/B0 (`key_rollback`).
2. **The file store is not atomic** (`file_store.go:113-127, 155-161`). The
   counterexample is one step: `writeRecordLocked`'s `Write` fails or is
   short, `Append` returns an error, and `logs.dat` keeps the partial
   record (`torn` is set while `recs` is unchanged). From then on every
   append fails in `getLastIndexLocked`, which cannot read the last record.
   A failure of the anchor or tail write after the record's fsync likewise
   leaves the record stored under an error (`file_nonatomic`).
3. **An anchor at the tail does not verify** (`part_006:62`). `VerifyChain`
   returns the zero `lastTag` when there are no records, not `tStart`
   (`anchor_at_tail`).
4. **Close is not idempotent under concurrency** (`part_003:743`).
   `closeOnce` unlocks after reading `closed` and sets it only after
   `SendClosure`. Two concurrent `Close` calls therefore both append CLOSE
   and send two CloseMessages. Spec §5 says Close MUST NOT send a second one
   (`close_race`).
5. **A retried Close breaks the log** (`part_003:745`). Suppose the closure
   request reached T but the client saw an error. Then `closed` stays
   false, and the retry runs `CloseProtocol` again. That appends a second
   CLOSE, MACed under keys derived from the zeroed keys. Whichever
   CloseMessage T keeps, `FinalVerify` then rejects a log whose `Close`
   returned nil (`close_retry`).
6. **`HTTPTransport.SendLogFile` ignores the verdict** (`part_003:407`). It
   returns true on any 200, but `HandleVerify` answers 200 with
   `verified=false` when `FinalVerify` fails. The interface says it
   "Returns true if verification passed" (`http_verdict`).
7. **Concurrent `Tail` calls on the file store** (`file_store.go:416`).
   `Seek` and `ReadFull` on the shared handle run under a read lock that
   readers hold together. One caller can read at the other's offset and be
   told that there is no tail (`tail_readers`).

The same modules exhibit three more divergences, which are listed as hazards
in `PROJECT.json` and not kept as runs of their own:

- **Appends continue after close** (`part_003:90-111`). Nothing enforces the
  comment "After closing, no more entries can be appended": `Logger` allows
  `LoggerAppend` and a second `CloseProtocol` after `CloseProtocol`.
- **The file iterator is not a snapshot** (`file_store.go:264`). With
  `Backend = "file"`, `IterSource` is the live `recs`: the goroutine reads
  `logs.dat` after the lock is released and delivers records appended
  after `Iter` was called. Spec §5 promises snapshot-at-start.
  `VerifyAllSound` shows that `VerifyAll`'s verdict stays sound anyway.
- **Verifying while appending raises a false alarm** (`verifier.go:76`). In
  `MC_Reader` over SQLite with no failures, a `Writer` step between `IterEnd`
  and `SqliteTail` makes `VerifyAllOutcome` report a tag mismatch for an
  honest log. The spec permits reading concurrently with appends.

## Proofs

`LoggerProofs.TypeCorrect` proves `Spec => []TypeOK` for every value of the
constants. It assumes only the constants' types: `StoreAssumption` and
`LoggerAssumption`. The proof has these parts:

- `TagConstructors`: `htag` and `fold` stay in `TagSet`.
- `AppendValues`: the values `Append` computes are well typed.
- `StoreAppendShape`: every path of `StoreAppend` leaves each store variable
  unchanged or gives it the one value that path writes.
- `StoreAppendType`: that shape keeps the store typed.
- `LoggerAppendType`, `InitProtocolStepType` and `CloseProtocolStepType`
  handle one action each. `NextPreservesType` combines them, and
  `TypeCorrect` follows from it and `InitType`. `TypeOK` is inductive as it
  stands.

`ContiguousRecords` proves `Spec => []RecordsContiguous` with `TypeOK` as the
strengthening:
- `StoreAppendGuard`: a path that adds a record passed the contiguity check
  `StoreLastIndex = r.Index - 1`.
- `LastIndexContiguous`: on contiguous records, `getLastIndexLocked` and SQL
  `MAX(idx)` both equal `Len(recs)`.
- So the appended record's index is `Len(recs) + 1`, after a failure, a torn
  write or a restart alike.

`LoggerNeverAhead` proves `Spec => []LoggerBehindStore`. `LoggerBehindStore`
alone is not inductive: it needs contiguity. A successful append stores
index `i + 1`, and the check only lets that happen when `Len(recs) = i`.
That is why the logger's new `i` and tags land exactly on the new last record.

`LogRefinement` proves `Spec => ImplementsAppendOnlyLog` under the
assumption `Backend = "sqlite"`. Its strengthening is `TypeOK /\
RecordsContiguous`, both already proved. The proof has these parts:
- `StoredMsgsAppend`: appending a record appends its message to
  `StoredMsgs`.
- `SqliteFailureKeepsRecords`: a failed SQLite `Append` changes no record.
- `AppendBodyRefines`: a successful append passed `MAX(idx) = i`. By
  `LastIndexContiguous`, that gives `i = Len(recs)`, which is the guard of
  `AOLWrite`. A failed append is a stutter.
- `Restart` is `AOLReset`.

On the file store the refinement does not hold. A failed `Append` can keep
its record while `i` stays put, as finding 2 shows.

All of these proofs rest on the constants' type assumptions
(`StoreAssumption`, `LoggerAssumption` and `RemoteAssumption`). They also rest on `NoMsgAssumption`: `NoMsg`, the nil
message, is none of the messages the logger produces.

### The store (`LoggerStoreProofs`)

- `TailNamesStoredRecord` proves `Spec => []TailDescribesStoredRecord` for
  either store: a present tail names a stored record and carries its tags.
  - It holds through failures, torn writes and restarts.
  - It does not say the tail names the last record. On the file store a
    failure after the record's fsync (`file_store.go:113-127`) leaves the
    tail naming the record before it.
  - The strengthening is `TypeOK /\ RecordsContiguous`.
  - `StoreAppendTail` shows that a `Store.Append` leaves the tail alone,
    clears it, or writes the tail it was given.
  - `AppendBodyTail` shows that the given tail is written only together
    with its record, and that by `AcceptedIndex` that record lands at
    index `Len(recs) + 1`.
- `AnchorsSound` proves `Spec => []AnchorsMatchRecords`.
  - The argument follows the same lines.
  - `NewTagVLastKey` shows that the key in a new anchor is the key that
    made the last MAC of the record's V-tag.
- `SqliteAtomic` proves `Spec => StoreAtomic`, an action property, under
  `Backend = "sqlite"`.
  - `SqliteFailureKeepsStore` shows that a rolled-back transaction changes
    nothing.
  - Every step either appends, which keeps `i` only when the append failed,
    or restarts.
  - On the file store the property is false: see the `file_nonatomic` run.
- `SqliteAgreesWithLogger` proves
  `Spec => [](restarts = 0 => StoreAgreesWithLogger)` over SQLite.
  - The hypothesis `restarts = 0` is needed.
  - `Restart` sets `i` to 0 over a store that keeps its records, so
    `Len(recs) = i` fails after a restart. TLC finds that counterexample
    with `MaxRestarts = 1`.
  - The `store_sqlite` run uses `MaxRestarts = 0`, so the theorem covers
    what that run checks.
  - `AgreeBeforeRestart` is inductive once `TypeOK` and `RecordsContiguous`
    are added.

### Readers (`ReaderProofs`)

- `ReaderTypeCorrect` proves `ReaderSpec => []ReaderTypeOK`.
- `SingleReaderTailNotLost` proves `ReaderSpec => TailNotLost`, an action
  property, when `Readers` has one element.
  - The invariant `SeekInv` says a reader between `FileTailSeek` and
    `FileTailRead` finds the shared offset at 0 on the file store.
  - With two readers the other reader's read moves the shared offset, and
    `SeekInv` fails. The `tail_readers` run shows the resulting lost tail.

### Remote logger (`RemoteProofs`)

- `RemoteTypeCorrect` proves `RemoteSpec => []RemoteTypeOK`.
  - The type alone is not inductive.
  - `HeldTyped` says a closer in `send` or `wait` holds a CloseMessage,
    because `SendClosure` sends what it holds.
  - `RemoteInv` is the conjunction of the two. `RemoteInitInv` and
    `RemoteNextInv` prove it initial and inductive, one lemma per group of
    actions.
- `SingleCloserIdempotent` proves `RemoteSpec => []CloseIdempotent`. Its
  hypotheses are that `Closers` has one element and `MaxNetFailures = 0`.
  - The strengthening `CloseInv` adds these facts to `RemoteInv`:
    - the creator's commitment is registered at T before any closer runs
      (`CommitKnown`, `CommitRegistered`, `ClosersAfterReady`, and
      `ReadyRegistered`, which uses `NoMsgAssumption`);
    - T therefore always replies "ok" (`RepliesOk`);
    - no CloseMessage exists while the closer is idle or running
      `CloseProtocol` (`NoCloseBeforeProtocol`).
  - So the one successful `CloseProtocol` is followed by `closed = TRUE`,
    and `CheckClosed` stops any second one.
  - Each hypothesis is needed:
    - `close_race` shows that two closers both pass the closed check;
    - `close_retry` shows that a lost reply makes the closer retry.

### Compositions (`RemoteProofs`, `ReaderProofs`)

- `RemoteImplementsLogger` proves `RemoteSpec => Spec`. The mapping is the
  identity on the logger's, the messages' and the store's variables.
  - `RemoteStepIsLoggerStep` maps each step of the composition:
    - `NewInit` is `InitProtocol`;
    - `Protocol` is `CloseProtocol`;
    - `AppAppend` is `Append`;
    - every other step is a stutter of the logger.
  - `InitProtocol` requires `i = 0`. The invariant `FreshLogger` supplies
    it: while NewRemoteLogger has not called `InitProtocol`, nothing has
    been appended, and no closer has left `idle`.
- `RemoteSqliteAgrees` proves `RemoteSpec => []StoreAgreesWithLogger` over
  SQLite.
  - It combines `RemoteImplementsLogger`, `SqliteAgreesWithLogger` and
    `RemoteNoRestart`, which says no step of the composition restarts the
    logger.
  - The `store_sqlite` run checks the invariant on the logger alone.
- `RemoteLogRefinement` proves `RemoteSpec => ImplementsAppendOnlyLog` over
  SQLite, by `RemoteImplementsLogger` and `LogRefinement`.
- `ReaderImplementsLogger` proves `ReaderSpec => Spec`. `Writer` is a
  `Next` step, and every reader step leaves the logger and the store alone.

### A closed log is accepted (`RemoteProofs`)

`ClosedLogAccepted` proves `RemoteSpec => []ClosedAccepted` with no
hypothesis: any number of closers, every transport, any network failures.
`ClosedAccepted` alone is not inductive. The strengthening `AcceptInv` adds
these facts to `RemoteInv`:
- `CommitKnown`, `CommitRegistered` and `OpenRegistered`: once
  NewRemoteLogger returned, T holds exactly this logger's commitment and
  opening. Nothing overwrites them later.
- `ClosersAfterReady`: closers only run on a ready logger.
- `ClosuresFromLogger`: three kinds of CloseMessage all came from this
  logger's `CloseProtocol` (`FromLogger`):
  - every one a closer holds in `send` or `wait`;
  - every one posted and still in flight;
  - the one T keeps.
  `FromLoggerKept` shows these facts survive `CloseProtocol`, which only
  appends.
- `OkAfterAccept`:
  - T's "ok" reply is only given once `AcceptClosure` stored a closure;
  - `rl.closed` is only set on a ready logger.

Each step is handled by one of `CreatorStepsAccept`, `CloserStepsAccept` or
`OtherStepsAccept`. The theorem does not say which of the logger's
CloseMessages T keeps. A stale request can overwrite a newer one, and that
is why `ClosedLogVerifies` fails in `close_retry`.

### What stays with TLC

These are not proved:
- Liveness: `CloseReturns` needs fairness and `ENABLED`, which are out of
  the provers' reach.
- `HonestLogVerifies` is checked by `reader_sqlite`, which has no store
  failures. `key_rollback` shows it false after a failed append. A proof
  of even the failure-free case needs to know what the recursive-function
  replay `VerifyChain` returns on every stored chain. That is an induction
  over the data, which the installed provers cannot carry out, because the
  library's induction theorems take an operator parameter.
- `AnchorsResume` and `ClosedLogVerifies` are also about what the replay
  computes. Both are false: see the `anchor_at_tail` and `close_retry`
  runs.
- `VerifyAllSound` depends on what the replay computes (the last tag's
  length is the number of records replayed), so it is also TLC's.
- `StoreAtomic` on the file store, and `TailNotLost` with several readers:
  these are false, and the findings record them.

## Not modelled

These parts are not modelled:
- `FolderTransport`, which uses a directory as T.
- `DetectDelayedAttack` and `ReleaseA1`, which change no state.
- A second `NewRemoteLogger` for the same log ID. It would overwrite T's
  commitment.
- Concurrent HTTP handlers on T's unsynchronized maps. The handlers are
  atomic steps here. In Go, concurrent writes to those maps are a data race
  that aborts the process.
- Readers other than `VerifyAll`. `VerifyFromAnchor` has the same
  Iter-then-Tail shape. `AnchorAt` and `ListAnchors` only read.
- The SQLite driver's exact point of snapshot. The model takes the snapshot
  at `Iter`.

These are left out, because they are I/O or encoding with no control of
interest:
- the wire encodings (JSON, gob, protobuf);
- the on-disk byte layout;
- TLS;
- the example programs.
