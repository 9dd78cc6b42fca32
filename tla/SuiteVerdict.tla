---------------------------- MODULE SuiteVerdict ----------------------------
(***************************************************************************)
(* What a run of the hash-layer verifier promises: it reads a vector set   *)
(* and perhaps an answer file, and passes exactly when the pair is sound.  *)
(* How it walks through the vectors and the keys is VectorSuite's matter.  *)
(***************************************************************************)
EXTENDS VectorShapes

VARIABLES data, answersData, verdict

vars == <<data, answersData, verdict>>

Severity(code) == CHOOSE p \in 1..6 : Codes[p] = code

\* A breach vector names the most severe breach of its record and declares
\* all the others.
SoundBreach(v) ==
    LET hits == {code \in Breaches : Holds(code, v.dos[1].record)}
    IN  /\ v.dos[1].passed
        /\ hits = {v.breach} \cup v.also_present
        /\ \A code \in v.also_present : Severity(v.breach) < Severity(code)

SoundVector(v) ==
    CASE v.kind = "canary" -> ~ v.dos[1].passed
      [] v.kind = "match"  -> /\ v.dos[1].passed
                              /\ v.required \subseteq v.dos[1].record.present
                              /\ ~ (v.sod /\ v.dos[1].record.self_authored)
      [] v.kind = "breach" -> SoundBreach(v)
      [] v.kind = "pair"   -> v.dos[1].passed /\ ~ v.dos[2].passed
      [] v.kind = "chain"  -> v.detected = v.breach

\* One answer for each record of a supported version, and no other.
OracleOf(suite) == [k \in {k \in AllKeys(suite) : DOOf(suite, k).supported} |->
                       DOOf(suite, k).bytes]

Sound ==
    /\ data # Torn /\ answersData # Torn
    /\ \A i \in DOMAIN data : SoundVector(data[i])
    /\ answersData # Absent => answersData = OracleOf(data)

Init == verdict = "none"

\* The files are read one after the other.
Read == verdict' = "none"

Judge ==
    /\ verdict = "none"
    /\ verdict' = IF Sound THEN "passed" ELSE "failed"
    /\ UNCHANGED <<data, answersData>>

Next == Read \/ Judge

Spec == Init /\ [][Next]_vars
=============================================================================
