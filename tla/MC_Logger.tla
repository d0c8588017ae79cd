------------------------------ MODULE MC_Logger -----------------------------
(* Model-checking instance of Logger: one application message, one        *)
(* timestamp; the bounds are set per run in the .cfg files.               *)
EXTENDS Logger

MCPayloads == {"a"}
MCTimes == {1}
=============================================================================
