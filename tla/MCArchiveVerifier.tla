-------------------------- MODULE MCArchiveVerifier --------------------------
(***************************************************************************)
(* Instances of ArchiveVerifier: two vectors besides the canary, and every *)
(* way one of them can be wrong.                                           *)
(***************************************************************************)
EXTENDS ArchiveVerifier

CONSTANTS b1, b2

MCDefinitions == <<[id |-> "DO-011", body |-> b1], [id |-> "DO-051", body |-> b2]>>
MCAVMapping   == <<[av |-> "AV-003", src |-> "DO-011"], [av |-> "AV-012", src |-> "DO-051"]>>

Object(body, prev, heavy) ==
    [body |-> body, prev |-> prev, ext |-> None, heavy |-> heavy, hash |-> Legacy]
Extended(do) == [do EXCEPT !.ext = "x"]
Bare(do)     == [do EXCEPT !.hash.bare = TRUE]

True(do)  == [do EXCEPT !.hash = Digest(Preimage(do))]
False(do) == [do EXCEPT !.hash = Digest(RunnerRegressedPreimage(do))]
AV(id, do) == [id |-> id, do |-> do]

AV003s == {AV("AV-003", True(Object(b1, None, FALSE))),
           AV("AV-003", Object(b1, None, FALSE)),
           AV("AV-003", True(Object(b1, None, TRUE)))}
AV012s == {AV("AV-012", True(Object(b2, "p", FALSE))),
           AV("AV-012", True(Object(b2, Zeros, FALSE))),
           AV("AV-012", True(Extended(Object(b2, Zeros, FALSE)))),
           AV("AV-012", Bare(True(Object(b2, "p", FALSE)))),
           AV("AV-012", Object(b2, "p", FALSE))}
AV013s == {AV("AV-013", False(Object(b2, "f", FALSE))),
           AV("AV-013", False(Extended(Object(b2, "f", FALSE)))),
           AV("AV-013", Bare(False(Object(b2, "f", FALSE)))),
           AV("AV-013", Object(b2, "f", FALSE)),
           AV("AV-013", True(Object(b2, "f", FALSE))),
           AV("AV-013", True(Object(b2, "f", TRUE))),
           AV("AV-013", [Object(b2, "f", FALSE) EXCEPT !.hash = None])}
AV008  == AV("AV-008", True(Object(b1, None, FALSE)))

Statics == {<<AV("DO-011", do)>> : do \in {True(Object(b1, None, FALSE)), Object(b1, None, FALSE)}}

MCVectorFiles ==
    LET good   == AV("AV-003", True(Object(b1, None, FALSE)))
        linked == AV("AV-012", True(Object(b2, "p", FALSE)))
        bad    == AV("AV-003", Object(b1, None, FALSE))
        avs    == {<<x, y, z>> : x \in AV003s, y \in AV012s, z \in AV013s}
                  \cup {<<>>, <<good, linked>>, <<good, linked, AV008>>}
                  \cup {<<z, z, z>> : z \in AV013s}
                  \cup {<<good, linked, bad, z>> : z \in AV013s}
                  \cup {<<AV("AV-003", z.do), linked, z>> : z \in AV013s}
    IN  {[dos |-> ds, avs |-> s] : ds \in Statics, s \in avs}

\* A file in order, and one whose canary holds no digest of anything.
MCReplacements ==
    {[dos |-> <<AV("DO-011", True(Object(b1, None, FALSE)))>>,
      avs |-> <<AV("AV-003", True(Object(b1, None, FALSE))),
                AV("AV-012", True(Object(b2, "p", FALSE))), AV("AV-013", z)>>] :
     z \in {False(Object(b2, "f", FALSE)), Object(b2, "f", FALSE)}}

\* The answers of a file of two true vectors and its canary, with one id left
\* out, or with the bytes of a regressed program.
MCAnswerFiles ==
    LET full(Pre(_)) ==
            [id \in {"DO-011", "AV-003", "AV-012", "AV-013"} |->
                Pre(IF id \in {"DO-011", "AV-003"} THEN Object(b1, None, FALSE)
                    ELSE Object(b2, IF id = "AV-012" THEN "p" ELSE "f", FALSE))]
        whole == full(Preimage)
    IN  {whole, full(RegressedPreimage)}
        \cup {[id \in DOMAIN whole \ {gone} |-> whole[id]] : gone \in {"DO-011", "AV-013"}}
=============================================================================
