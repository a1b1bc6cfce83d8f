----------------------------- MODULE MCPoolFeed -----------------------------
(* Small instance of PoolFeed for TLC. *)
EXTENDS PoolFeed, TLC

CONSTANTS cetus, turbos, amm, TURBOS

\* One entry in upper case.
MCSpelling == [p \in Pool |-> IF p = turbos THEN TURBOS ELSE p]

MCMaxVersion == (cetus :> 2) @@ (turbos :> 1) @@ (amm :> 1)
=============================================================================
