------------------------------ MODULE MC_Remote -----------------------------
(* Model-checking instance of Remote: one application message, two      *)
(* timestamps; closers, transport and bounds are set per run.              *)
EXTENDS Remote

MCPayloads == {"a"}
MCTimes == {1, 2}
=============================================================================
