---------------------------- MODULE VectorShapes ----------------------------
(***************************************************************************)
(* The vectors of decision-object-vectors-v1.5.json and the semantic       *)
(* breaches of a single Decision Object.  A vector is one record (that     *)
(* must match, breach something, or be the canary), the pair of a base and *)
(* its tampered copy, or a chain, of which the breach that is detected is  *)
(* kept: detecting it is the business of HashChain.  Of each record it is  *)
(* kept whether its version is supported, whether its hash agrees, its     *)
(* canonical bytes and what the six breach tests read.                     *)
(***************************************************************************)
EXTENDS Integers, Sequences

CONSTANTS
    Jurisdictions,        \* codes a profile may name
    KNOWN_JURISDICTIONS,  \* the codes the verifier recognises
    Fields,               \* fields a profile may activate, signature included
    Ids,                  \* vector ids
    Bytes,                \* canonical bytes
    Absent,               \* no such file
    Torn                  \* a file that is cut off in the middle

Records ==
    [jurisdictions: SUBSET Jurisdictions, activated_fields: SUBSET Fields,
     present: SUBSET Fields, risk_level: {"low", "high", "critical"},
     oversight: BOOLEAN, self_authored: BOOLEAN, trees_agree: BOOLEAN,
     resolvable: BOOLEAN]

\* In the order collectDOBreaches looks for them.
Codes == <<"jurisdiction_mismatch", "compliance_field_missing",
           "oversight_missing", "sod_violation", "tree_snapshot_divergence",
           "content_unresolvable">>

Breaches == {Codes[p] : p \in 1..6}

\* A critical record must activate its signature, and what is activated must
\* be there.
Holds(code, d) ==
    \/ /\ code = "jurisdiction_mismatch"
       /\ ~ d.jurisdictions \subseteq KNOWN_JURISDICTIONS
    \/ /\ code = "compliance_field_missing"
       /\ \/ ~ d.activated_fields \subseteq d.present
          \/ d.risk_level = "critical" /\ "signature" \notin d.activated_fields
    \/ /\ code = "oversight_missing"
       /\ d.risk_level \in {"high", "critical"} /\ ~ d.oversight
    \/ code = "sod_violation" /\ d.self_authored
    \/ code = "tree_snapshot_divergence" /\ ~ d.trees_agree
    \/ code = "content_unresolvable" /\ ~ d.resolvable

CollectDOBreaches(d) == {code \in Breaches : Holds(code, d)}

\* Mutant: the warning is looked for first.
DetectDOBreachWarned(d) ==
    IF Holds(Codes[6], d) THEN Codes[6]
    ELSE Codes[CHOOSE p \in 1..6 :
                   Holds(Codes[p], d) /\ \A q \in 1..(p - 1) : ~ Holds(Codes[q], d)]

\* The first of the breaches that were collected.
DetectDOBreach(d) ==
    Codes[CHOOSE p \in 1..6 :
              Holds(Codes[p], d) /\ \A q \in 1..(p - 1) : ~ Holds(Codes[q], d)]

-----------------------------------------------------------------------------
DOs == [supported: BOOLEAN, passed: BOOLEAN, bytes: Bytes, record: Records]

\* A match requires fields, a breach vector declares the breach it is about
\* and the others, a chain has the breach that is detected.
Vectors ==
    [id: Ids, kind: {"match", "canary", "breach", "pair", "chain"},
     dos: Seq(DOs), required: SUBSET Fields, sod: BOOLEAN, breach: STRING,
     also_present: SUBSET Breaches, detected: STRING]

\* The answer key <<id, i>> stands for <id>, <id>-base, <id>-tampered, <id>[i].
Keys(v) == {<<v.id, i>> : i \in DOMAIN v.dos}

AllKeys(suite) == UNION {Keys(suite[i]) : i \in DOMAIN suite}

DOOf(suite, key) ==
    LET i == CHOOSE i \in DOMAIN suite : suite[i].id = key[1]
    IN  suite[i].dos[key[2]]
=============================================================================
