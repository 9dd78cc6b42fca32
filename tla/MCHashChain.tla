----------------------------- MODULE MCHashChain -----------------------------
(***************************************************************************)
(* Model-checking instance of HashChain.                                   *)
(***************************************************************************)
EXTENDS HashChain, TLC

MCDecisions == {"ALLOW", "DENY"}
MCTimes     == {0, 1, NoTime}
MCVersions  == {"v1.5", "v1.3"}
=============================================================================
