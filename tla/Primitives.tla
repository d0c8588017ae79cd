----------------------------- MODULE Primitives -----------------------------
(***************************************************************************)
(* The cryptographic primitives of securelog (src/unnamed/part_003,        *)
(* lines 246-281) as a free term algebra.  SHA-256 and HMAC-SHA256 are     *)
(* modelled as injective constructors (collision resistance): two keys,    *)
(* MACs or aggregate tags are equal exactly when they were built from      *)
(* equal inputs.                                                           *)
(*                                                                         *)
(*  - A key K_i = H^i(K_0) is the record [seed |-> K_0, gen |-> i].        *)
(*  - mac(K, be64(idx), be64(ts), msg) is the record of its four inputs;   *)
(*    the three chunks are fixed-width except the last, so the             *)
(*    concatenation is injective and the record loses nothing.             *)
(*  - An aggregate tag is [start, macs]: the all-zero tag has start        *)
(*    "zero" and no MACs, htag(t) = SHA-256(t) starts a chain ("h"), and   *)
(*    fold(p, t) = SHA-256(p || t) appends t to the MACs of p.  A fold     *)
(*    onto the zero tag keeps start "zero", so fold(0^32, t) and htag(t)   *)
(*    stay distinct, as the hashes are.                                    *)
(***************************************************************************)
EXTENDS Naturals, Sequences

\* fwdKey (part_003:262): K_i = H(K_{i-1}).
fwdKey(k) == [k EXCEPT !.gen = @ + 1]

\* The key [seed |-> s, gen |-> 0] is the 32-byte value s itself.
SeedKey(s) == [seed |-> s, gen |-> 0]

\* mac (part_003:264-272) over the chunks be64(idx), be64(ts), msg.
mac(key, idx, ts, msg) == [key |-> key, idx |-> idx, ts |-> ts, msg |-> msg]

\* The zero value of a [32]byte tag.
ZeroTag == [start |-> "zero", macs |-> << >>]

\* htag (part_003:248-251): SHA-256(tag), the first aggregate of a chain.
htag(t) == [start |-> "h", macs |-> <<t>>]

\* fold (part_003:274-281): SHA-256(prev || mac).
fold(prev, t) == [start |-> prev.start, macs |-> Append(prev.macs, t)]

\* isZero32 (part_003:253-259).
isZero32(x) == x = ZeroTag

\* The values these constructors build, given the seeds, indices,
\* timestamps and messages in play.
KeyOf(Seeds) == [seed : Seeds, gen : Nat]
MacOf(Seeds, Idx, Times, Msgs) ==
    [key : KeyOf(Seeds), idx : Idx, ts : Times, msg : Msgs]
TagOf(M) == [start : {"zero", "h"}, macs : Seq(M)]
=============================================================================
