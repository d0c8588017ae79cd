------------------------------ MODULE Verifier ------------------------------
(***************************************************************************)
(* Replay verification of the two MAC chains: VerifyChain and its entry    *)
(* points (src/unnamed/part_006) and the SemiTrustedVerifier and           *)
(* TrustedVerifier of src/verifier.go, as pure operators over the values   *)
(* they read from the store.                                               *)
(***************************************************************************)
EXTENDS Primitives

\* VerifyChain (part_006:16-63).  step[k] is the loop state after the k-th
\* record: the evolving key, the previous aggregate, the named result
\* lastTag and the error, if any.  The loop fails fast: once err is set the
\* state no longer changes, as the code returns at once.  lastTag starts as
\* the zero tag, not tStart, and that is what an empty replay returns.
VerifyChain(records, startIdx, kStart, tStart, useVerifierChain) ==
    LET step[k \in 0 .. Len(records)] ==
          IF k = 0
          THEN [key |-> kStart, prev |-> tStart, lastTag |-> ZeroTag, err |-> "none"]
          ELSE LET s      == step[k - 1]
                   r      == records[k]
                   key    == fwdKey(s.key)
                   macVal == mac(key, r.Index, r.TS, r.Msg)
                   tag    == IF isZero32(s.prev) THEN htag(macVal)
                                                 ELSE fold(s.prev, macVal)
                   stored == IF useVerifierChain THEN r.TagV ELSE r.TagT
               IN  CASE s.err # "none"          -> s
                     [] r.Index # startIdx + k  -> [s EXCEPT !.err = "gap"]
                     [] tag # stored            -> [s EXCEPT !.err = "mismatch"]
                     [] OTHER -> [key |-> key, prev |-> tag, lastTag |-> tag,
                                  err |-> "none"]
    IN  [lastTag |-> step[Len(records)].lastTag, err |-> step[Len(records)].err]

\* VerifyFrom and VerifyFromTrusted (part_006:80-90).
VerifyFrom(records, startIdx, kStart, tStart) ==
    VerifyChain(records, startIdx, kStart, tStart, TRUE)
VerifyFromTrusted(records, startIdx, kStart, tStart) ==
    VerifyChain(records, startIdx, kStart, tStart, FALSE)

\* Store.Iter(startIdx) drained into a slice: the records with
\* Index >= startIdx, in stored order.
IterFrom(recs, startIdx) == SelectSeq(recs, LAMBDA r : r.Index >= startIdx)

\* The outcome of a verifier entry point: the replay must succeed, the tail
\* must be present and its tag must equal the replay's final tag.
Outcome(res, tail, NoTail, useVerifierChain) ==
    CASE res.err # "none" -> res.err
      [] tail = NoTail    -> "noTail"
      [] res.lastTag # (IF useVerifierChain THEN tail.TagV ELSE tail.TagT)
                          -> "mismatch"
      [] OTHER            -> "ok"

\* SemiTrustedVerifier.VerifyFromAnchor (verifier.go:19-44).
VerifyFromAnchorV(recs, tail, NoTail, a) ==
    Outcome(VerifyFrom(IterFrom(recs, a.Index + 1), a.Index, a.Key, a.TagV),
            tail, NoTail, TRUE)

\* TrustedVerifier.VerifyAll (verifier.go:60-87).
VerifyAllT(recs, tail, NoTail, b0) ==
    Outcome(VerifyFromTrusted(IterFrom(recs, 1), 0, b0, ZeroTag),
            tail, NoTail, FALSE)
=============================================================================
