---------------------------- MODULE AppendOnlyLog ---------------------------
(***************************************************************************)
(* What a Logger writing through a Store promises (spec 4.2, 8.1): the     *)
(* stored log is the sequence of the messages whose Append returned nil,   *)
(* in call order.  A failed append leaves no trace.  A writer appends only *)
(* at the end of the log, and a writer started afresh over an existing log *)
(* (position 0) can add nothing to it.                                     *)
(***************************************************************************)
EXTENDS Naturals, Sequences

CONSTANT Entries    \* the messages that can be logged

VARIABLES
    log,   \* the stored messages, oldest first
    pos    \* how many entries the writer believes the log holds

aolVars == <<log, pos>>

AOLInit == log = << >> /\ pos = 0

\* A successful append: only at the end of the log.
AOLWrite(e) ==
    /\ pos = Len(log)
    /\ log' = Append(log, e)
    /\ pos' = pos + 1

\* The writer is replaced by a fresh one; the log is kept.
AOLReset ==
    /\ pos' = 0
    /\ log' = log

AOLNext == (\E e \in Entries : AOLWrite(e)) \/ AOLReset

AOLSpec == AOLInit /\ [][AOLNext]_aolVars
=============================================================================
