---------------------------- MODULE MCWebVerifier ----------------------------
(***************************************************************************)
(* An instance of WebVerifier: true, forged, signed and refused records.   *)
(***************************************************************************)
EXTENDS WebVerifier

CONSTANTS b1, b2, sig

Record(gate, body, signature, hash) ==
    [gate |-> gate, body |-> body, signature |-> signature, hash |-> hash]

True1     == Record("open", b1, None, <<b1, None>>)
True2     == Record("open", b2, None, <<b2, None>>)
Forged    == Record("open", b2, None, <<b1, None>>)
Signed    == Record("open", b1, sig, <<b1, None>>)
Legacy    == Record("legacy", b1, None, <<b1, None>>)
Surrogate == Record("surrogate", b1, None, <<b1, None>>)

MCDOTexts     == {True1, True2, Forged, Signed, Legacy, Surrogate}
MCVectorTexts == {Garbage, <<True1, True2>>, <<True1, Forged>>, <<Surrogate>>}
=============================================================================
