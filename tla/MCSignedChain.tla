---------------------------- MODULE MCSignedChain ----------------------------
(***************************************************************************)
(* SignedChain on two chains, with a token time on either side of the      *)
(* drift threshold.                                                        *)
(***************************************************************************)
EXTENDS SignedChain, TLC

CONSTANTS a, b  \* the two chains

MCChainIds   == {a, b}
MCTimestamps == {0}
MCTokenTimes == {60, 61}
MCDecisions  == {"ALLOW", "DELEGATE"}

ChainSymmetry == Permutations(MCChainIds)
=============================================================================
