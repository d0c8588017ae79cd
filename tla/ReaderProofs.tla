---------------------------- MODULE ReaderProofs ----------------------------
(***************************************************************************)
(* Theorems about VerifyAll calls running beside the logger: the           *)
(* composition stays typed, a lone Tail call never loses the tail, and     *)
(* the composition implements the logger's specification.                  *)
(***************************************************************************)
EXTENDS Reader, LoggerProofs

-----------------------------------------------------------------------------
(* The composition is typed.                                               *)

\* The readers' initial state, and the logger's, are typed.
LEMMA ReaderInitType ==
    ASSUME ReaderInit
    PROVE  ReaderTypeOK
BY InitType DEF ReaderInit, ReaderTypeOK

\* Every step of a reader or the writer keeps the composition typed.
LEMMA ReaderNextType ==
    ASSUME ReaderTypeOK, [ReaderNext]_allVars
    PROVE  ReaderTypeOK'
<1> USE DEF ReaderTypeOK
<1>1. CASE Writer
  <2>1. TypeOK'
    BY <1>1, NextPreservesType DEF Writer
  <2>2. QED
    BY <1>1, <2>1 DEF Writer
<1>2. ASSUME NEW r \in Readers, IterBegin(r)
      PROVE  ReaderTypeOK'
  BY <1>2 DEF IterBegin, TypeOK, vars, loggerVars, msgVars, storeVars
<1>3. ASSUME NEW r \in Readers, IterNext(r)
      PROVE  ReaderTypeOK'
  <2>1. IterSource(r) \in Seq(RecordSet)
    BY DEF IterSource, TypeOK
  <2>2. IterSource(r)[Len(seen[r]) + 1] \in RecordSet
    BY <1>3, <2>1 DEF IterNext
  <2>3. seen' \in [Readers -> Seq(RecordSet)]
    BY <1>3, <2>2 DEF IterNext
  <2>4. QED
    BY <1>3, <2>3 DEF IterNext, TypeOK, vars, loggerVars, msgVars, storeVars
<1>4. ASSUME NEW r \in Readers, IterEnd(r)
      PROVE  ReaderTypeOK'
  BY <1>4 DEF IterEnd, TypeOK, vars, loggerVars, msgVars, storeVars
<1>5. ASSUME NEW r \in Readers, FileTailSeek(r)
      PROVE  ReaderTypeOK'
  BY <1>5 DEF FileTailSeek, TypeOK, vars, loggerVars, msgVars, storeVars
<1>6. ASSUME NEW r \in Readers, FileTailRead(r)
      PROVE  ReaderTypeOK'
  BY <1>6 DEF FileTailRead, TypeOK, vars, loggerVars, msgVars, storeVars
<1>7. ASSUME NEW r \in Readers, SqliteTail(r)
      PROVE  ReaderTypeOK'
  BY <1>7 DEF SqliteTail, TypeOK, vars, loggerVars, msgVars, storeVars
<1>8. CASE UNCHANGED allVars
  BY <1>8 DEF allVars, readerVars, TypeOK, vars, loggerVars, msgVars, storeVars
<1>9. QED
  BY <1>1, <1>2, <1>3, <1>4, <1>5, <1>6, <1>7, <1>8 DEF ReaderNext

\* Whatever the readers and the logger interleave, every variable of the
\* composition keeps its type; in particular the shared tail offset is 0
\* or tailEntrySize, and a Tail call returns the stored tail or none.
THEOREM ReaderTypeCorrect == ReaderSpec => []ReaderTypeOK
<1>1. ReaderInit => ReaderTypeOK
  BY ReaderInitType
<1>2. ReaderTypeOK /\ [ReaderNext]_allVars => ReaderTypeOK'
  BY ReaderNextType
<1>3. QED
  BY <1>1, <1>2, PTL DEF ReaderSpec


-----------------------------------------------------------------------------
(* One reader never loses the tail.                                        *)

\* A reader between Seek and ReadFull finds the shared offset at 0: it
\* seeked, and the writer is excluded by the read lock.  Only the file
\* store has that step.
SeekInv == \A r \in Readers : rpc[r] = "read" => tailOff = 0 /\ Backend = "file"

\* The steps of the readers and the writer keep SeekInv when there is one
\* reader.
LEMMA SeekInvStep ==
    ASSUME \A a, b \in Readers : a = b,
           ReaderTypeOK, SeekInv, [ReaderNext]_allVars
    PROVE  SeekInv'
<1> SUFFICES ASSUME NEW r2 \in Readers, rpc'[r2] = "read"
             PROVE  tailOff' = 0 /\ Backend = "file"
  BY DEF SeekInv
<1>1. CASE Writer
  BY <1>1 DEF Writer, SeekInv
<1>2. ASSUME NEW r \in Readers,
             IterBegin(r) \/ IterNext(r) \/ IterEnd(r) \/ FileTailRead(r) \/ SqliteTail(r)
      PROVE  tailOff' = 0 /\ Backend = "file"
  <2>1. r2 = r
    OBVIOUS
  <2>2. QED
    BY <1>2, <2>1 DEF IterBegin, IterNext, IterEnd, FileTailRead, SqliteTail, ReaderTypeOK
<1>3. ASSUME NEW r \in Readers, FileTailSeek(r)
      PROVE  tailOff' = 0 /\ Backend = "file"
  BY <1>3 DEF FileTailSeek
<1>4. CASE UNCHANGED allVars
  BY <1>4 DEF allVars, readerVars, SeekInv
<1>5. QED
  BY <1>1, <1>2, <1>3, <1>4 DEF ReaderNext

\* With one reader, every step satisfies TailNotLost's condition.
LEMMA TailNotLostStep ==
    ASSUME ReaderTypeOK, SeekInv, [ReaderNext]_allVars
    PROVE  \A r \in Readers :
               rpc[r] \in {"tail", "read"} /\ rpc'[r] = "done" /\ got'[r] = NoTail
                   => tail = NoTail
<1> SUFFICES ASSUME NEW r2 \in Readers, rpc[r2] \in {"tail", "read"},
                    rpc'[r2] = "done", got'[r2] = NoTail
             PROVE  tail = NoTail
  OBVIOUS
<1>1. CASE Writer
  BY <1>1 DEF Writer
<1>2. ASSUME NEW r \in Readers, IterBegin(r) \/ IterNext(r) \/ IterEnd(r) \/ FileTailSeek(r)
      PROVE  tail = NoTail
  BY <1>2 DEF IterBegin, IterNext, IterEnd, FileTailSeek, ReaderTypeOK
<1>3. ASSUME NEW r \in Readers, FileTailRead(r)
      PROVE  tail = NoTail
  <2>1. CASE r2 = r
    <3>1. tailOff = 0
      BY <1>3, <2>1 DEF FileTailRead, SeekInv
    <3>2. QED
      BY <1>3, <2>1, <3>1 DEF FileTailRead, ReaderTypeOK
  <2>2. CASE r2 # r
    BY <1>3, <2>2 DEF FileTailRead, ReaderTypeOK
  <2>3. QED
    BY <2>1, <2>2
<1>4. ASSUME NEW r \in Readers, SqliteTail(r)
      PROVE  tail = NoTail
  BY <1>4 DEF SqliteTail, ReaderTypeOK
<1>5. CASE UNCHANGED allVars
  BY <1>5 DEF allVars, readerVars
<1>6. QED
  BY <1>1, <1>2, <1>3, <1>4, <1>5 DEF ReaderNext

\* Spec 4.2 with one VerifyAll at a time: fileStore.Tail reports no tail
\* only when none is stored, because readTailLocked seeks to 0 before its
\* ReadFull and the writer's Append waits for the read lock
\* (file_store.go:400-431); sqliteStore.Tail reads the row itself.  With
\* two readers the statement is false (the tail_readers run): they hold
\* the read lock together and share the offset.
THEOREM SingleReaderTailNotLost ==
    ASSUME \A a, b \in Readers : a = b
    PROVE  ReaderSpec => TailNotLost
<1>1. ReaderInit => SeekInv
  BY DEF ReaderInit, SeekInv
<1>2. ReaderTypeOK /\ SeekInv /\ [ReaderNext]_allVars => SeekInv'
  BY SeekInvStep
<1>3. ReaderTypeOK /\ SeekInv /\ [ReaderNext]_allVars
        => [\A r \in Readers :
               rpc[r] \in {"tail", "read"} /\ rpc'[r] = "done" /\ got'[r] = NoTail
                   => tail = NoTail]_allVars
  BY TailNotLostStep
<1>4. QED
  BY <1>1, <1>2, <1>3, ReaderTypeCorrect, PTL DEF ReaderSpec, TailNotLost


-----------------------------------------------------------------------------
(* Readers never write: VerifyAll only reads through Iter and Tail.        *)

\* With any number of VerifyAll calls running beside it, on either store,
\* the logger and its store behave as Spec allows: Iter and Tail change
\* nothing the logger or the store hold (fileStore.Tail moves only the
\* shared tail-file offset), so every theorem about Spec holds of the
\* composition.
THEOREM ReaderImplementsLogger == ReaderSpec => Spec
<1>1. ReaderInit => Init
  BY DEF ReaderInit
<1>2. [ReaderNext]_allVars => [Next]_vars
  <2> SUFFICES ASSUME [ReaderNext]_allVars PROVE [Next]_vars
    OBVIOUS
  <2>1. CASE Writer
    BY <2>1 DEF Writer
  <2>2. ASSUME NEW r \in Readers,
               \/ IterBegin(r) \/ IterNext(r) \/ IterEnd(r)
               \/ FileTailSeek(r) \/ FileTailRead(r) \/ SqliteTail(r)
        PROVE  UNCHANGED vars
    BY <2>2 DEF IterBegin, IterNext, IterEnd, FileTailSeek, FileTailRead, SqliteTail
  <2>3. CASE UNCHANGED allVars
    BY <2>3 DEF allVars
  <2>4. QED
    BY <2>1, <2>2, <2>3 DEF ReaderNext
<1>3. QED
  BY <1>1, <1>2, PTL DEF ReaderSpec, Spec

=============================================================================
