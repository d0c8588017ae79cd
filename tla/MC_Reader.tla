------------------------------ MODULE MC_Reader -----------------------------
(* Model-checking instance of Reader: one application message, one        *)
(* timestamp; the readers and bounds are set per run.                      *)
EXTENDS Reader

MCPayloads == {"a"}
MCTimes == {1}
=============================================================================
