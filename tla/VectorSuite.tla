---------------------------- MODULE VectorSuite ----------------------------
(***************************************************************************)
(* The vector files of the hash layer and the three programs that share    *)
(* them: the generator (main of scripts/generate-v1.5.cjs) writes the      *)
(* vectors and then the answers, the verifier (main of                     *)
(* scripts/verify-v1.5.js) reads the answers and then the vectors and      *)
(* compares, and the conformance generator                                 *)
(* (scripts/generate-conformance.cjs) runs the verifier and writes the     *)
(* report.  All are started by hand in one working copy, so they may       *)
(* overlap, and the generator may die between two steps.                   *)
(***************************************************************************)
EXTENDS VectorShapes

CONSTANTS
    Suites,   \* the vector sets the generator's source may define
    MaxEdits  \* bound: edits of the generator's source

ASSUME SuiteAssumption == Suites \subseteq Seq(Vectors) /\ MaxEdits \in Nat

VARIABLES
    source,       \* the vector set the generator's source defines
    edits,        \* how often it was edited
    vectors,      \* decision-object-vectors-v1.5.json
    answers,      \* decision-object-answers-v1.5.json
    report,       \* what conformance/CONFORMANCE.md says of Check 2
    gen, built,   \* the generator's step and what it built
    ver,          \* the verifier's step
    data,         \* the vectors and the answers it parsed
    answersData,
    cursor,       \* the vector it looks at next
    failures,     \* the vectors and keys counted in fail
    errors,       \* the vectors and keys an error message names
    readKeys,     \* the answers that were used
    conf          \* the conformance generator's step

files         == <<vectors, answers>>
generatorVars == <<gen, built>>
verifierVars  == <<ver, data, answersData, cursor, failures, errors, readKeys>>
vars == <<source, edits, files, report, generatorVars, verifierVars, conf>>

-----------------------------------------------------------------------------
\* registerAnswer for every record of the set, but those behind the version
\* gate.
Answers(suite) ==
    [k \in {k \in AllKeys(suite) : DOOf(suite, k).supported} |->
        DOOf(suite, k).bytes]

\* Every working copy holds the committed vectors; the answers are not
\* committed, so there are none, or those of some earlier generation.  The
\* report is the committed one until this copy writes its own.
Init ==
    /\ source \in Suites /\ edits = 0 /\ vectors = source
    /\ answers \in {Absent} \cup {Answers(s) : s \in Suites}
    /\ report = "committed"
    /\ gen = "idle" /\ built = source
    /\ ver = "idle" /\ data = << >> /\ answersData = Absent /\ cursor = 1
    /\ failures = {} /\ errors = {} /\ readKeys = {}
    /\ conf = "idle"

EditSource ==
    /\ edits < MaxEdits
    /\ edits' = edits + 1
    /\ \E s \in Suites \ {source} : source' = s
    /\ UNCHANGED <<files, report, generatorVars, verifierVars, conf>>

-----------------------------------------------------------------------------
(***************************************************************************)
(* The generator.  A file that is being written is torn.                   *)
(***************************************************************************)
Build ==
    /\ gen = "idle"
    /\ gen' = "writing vectors"
    /\ built' = source
    /\ vectors' = Torn
    /\ UNCHANGED <<source, edits, answers, report, verifierVars, conf>>

WriteVectors ==
    /\ gen = "writing vectors"
    /\ gen' = "wrote vectors"
    /\ vectors' = built
    /\ UNCHANGED <<source, edits, answers, report, built, verifierVars, conf>>

OpenAnswers ==
    /\ gen = "wrote vectors"
    /\ gen' = "writing answers"
    /\ answers' = Torn
    /\ UNCHANGED <<source, edits, vectors, report, built, verifierVars, conf>>

WriteAnswers ==
    /\ gen = "writing answers"
    /\ gen' = "idle"
    /\ answers' = Answers(built)
    /\ UNCHANGED <<source, edits, vectors, report, built, verifierVars, conf>>

Crash ==
    /\ gen # "idle"
    /\ gen' = "idle"
    /\ UNCHANGED <<source, edits, files, report, built, verifierVars, conf>>

Generate == Build \/ WriteVectors \/ OpenAnswers \/ WriteAnswers \/ Crash

-----------------------------------------------------------------------------
(***************************************************************************)
(* The verifier: the answers are parsed first, if the file exists, then    *)
(* the vectors; what does not parse ends it.                               *)
(***************************************************************************)
ReadAnswers ==
    /\ ver' = "vectors"
    /\ answersData' = answers
    /\ cursor' = 1 /\ failures' = {} /\ errors' = {} /\ readKeys' = {}
    /\ UNCHANGED <<source, edits, files, report, generatorVars, data>>

Start ==
    /\ conf = "idle" /\ ver \in {"idle", "passed", "failed"}
    /\ ReadAnswers
    /\ UNCHANGED conf

Others == UNCHANGED <<source, edits, files, report, generatorVars, conf>>

ReadVectors ==
    /\ ver = "vectors" /\ answersData # Torn
    /\ ver' = "check"
    /\ data' = vectors
    /\ UNCHANGED <<answersData, cursor, failures, errors, readKeys>> /\ Others

Unparsable ==
    /\ \/ ver = "vectors" /\ answersData = Torn
       \/ ver = "check" /\ data = Torn
    /\ ver' = "failed"
    /\ UNCHANGED <<data, answersData, cursor, failures, errors, readKeys>>
    /\ Others

\* Mutant: nobody reads what else the vector declares.
ReportsBreachPrimary(v) ==
    LET d == v.dos[1].record
    IN  CollectDOBreaches(d) # {} /\ DetectDOBreach(d) = v.breach

\* What the vector loop asks of a breach vector: the first breach is the one
\* expected, the others are declared and nothing else is.
ReportsBreach(v) ==
    LET d == v.dos[1].record
    IN  /\ CollectDOBreaches(d) # {} /\ DetectDOBreach(d) = v.breach
        /\ v.also_present = CollectDOBreaches(d) \ {v.breach}

Passes(v) ==
    \/ v.kind = "canary" /\ ~ v.dos[1].passed
    \/ /\ v.kind = "match" /\ v.dos[1].passed
       /\ v.required \subseteq v.dos[1].record.present
       /\ ~ (v.sod /\ v.dos[1].record.self_authored)
    \/ v.kind = "breach" /\ v.dos[1].passed /\ ReportsBreach(v)
    \/ v.kind = "pair" /\ v.dos[1].passed /\ ~ v.dos[2].passed
    \/ v.kind = "chain" /\ v.detected = v.breach

\* A vector is named by <<id, 0>>.  A match vector whose hash disagrees is
\* counted, but named only when there is a message already.
Named(v) == v.kind = "match" /\ ~ v.dos[1].passed => errors # {}

CheckVector ==
    /\ ver = "check" /\ data # Torn /\ cursor <= Len(data)
    /\ LET v == data[cursor]
           missed == IF Passes(v) THEN {} ELSE {<<v.id, 0>>}
       IN  /\ failures' = failures \cup missed
           /\ errors' = errors \cup (IF Named(v) THEN missed ELSE {})
    /\ cursor' = cursor + 1
    /\ UNCHANGED <<ver, data, answersData, readKeys>> /\ Others

\* Step 6 is there only when there are answers.
Step6 ==
    /\ ver = "check" /\ data # Torn /\ cursor > Len(data)
    /\ answersData # Absent
    /\ ver' = "cross"
    /\ cursor' = 1
    /\ UNCHANGED <<data, answersData, failures, errors, readKeys>> /\ Others

\* Mutant: an answer is taken for read before it is looked for.
AddReadKeysEarly(asked, found) == readKeys \cup asked

AddReadKeys(asked, found) == readKeys \cup found

\* crossCheck for the records of one vector: a record of an unsupported
\* version must have no answer, any other must have its own bytes as answer.
CrossCheck ==
    /\ ver = "cross" /\ cursor <= Len(data)
    /\ LET own     == Keys(data[cursor])
           gated   == {k \in own : ~ DOOf(data, k).supported}
           asked   == own \ gated
           found   == asked \cap DOMAIN answersData
           drifted == {k \in found : answersData[k] # DOOf(data, k).bytes}
           missing == asked \ found
       IN  /\ readKeys' = AddReadKeys(asked, found)
           /\ failures' = failures \cup drifted \cup missing
           /\ errors' = errors \cup drifted \cup missing
                            \cup (gated \cap DOMAIN answersData)
    /\ cursor' = cursor + 1
    /\ UNCHANGED <<ver, data, answersData>> /\ Others

\* Mutant: answers nobody asked for are let pass.
DeadKeysIgnored == {}

DeadKeys == DOMAIN answersData \ readKeys

CheckDeadKeys ==
    /\ ver = "cross" /\ cursor = Len(data) + 1
    /\ failures' = failures \cup DeadKeys
    /\ errors' = errors \cup DeadKeys
    /\ ver' = "exit"
    /\ UNCHANGED <<data, answersData, cursor, readKeys>> /\ Others

Exit ==
    /\ \/ ver = "exit"
       \/ /\ ver = "check" /\ data # Torn /\ cursor > Len(data)
          /\ answersData = Absent
    /\ ver' = IF failures = {} /\ errors = {} THEN "passed" ELSE "failed"
    /\ UNCHANGED <<data, answersData, cursor, failures, errors, readKeys>>
    /\ Others

Verify ==
    \/ Start \/ ReadVectors \/ Unparsable \/ CheckVector \/ Step6
    \/ CrossCheck \/ CheckDeadKeys \/ Exit

-----------------------------------------------------------------------------
(***************************************************************************)
(* The conformance generator: a verification of its own, then the version  *)
(* is read off the vectors and the report is written.  A line the verifier *)
(* did not print is replaced by a literal.                                 *)
(***************************************************************************)
Conform ==
    /\ conf = "idle" /\ ver \in {"idle", "passed", "failed"}
    /\ conf' = "verifying"
    /\ ReadAnswers

ReadVersion ==
    /\ conf = "verifying" /\ ver \in {"passed", "failed"}
    /\ conf' = IF ver = "passed" /\ vectors # Torn THEN "writing" ELSE "idle"
    /\ UNCHANGED <<source, edits, files, report, generatorVars, verifierVars>>

WriteReport ==
    /\ conf = "writing"
    /\ conf' = "idle"
    /\ report' = IF answersData = Absent THEN "literal" ELSE "measured"
    /\ UNCHANGED <<source, edits, files, generatorVars, verifierVars>>

Conformance == Conform \/ ReadVersion \/ WriteReport

Next == EditSource \/ Generate \/ Verify \/ Conformance

Spec == Init /\ [][Next]_vars

-----------------------------------------------------------------------------
Oracles == {Answers(s) : s \in Suites}

\* Every variable keeps to its type, and what is counted belongs to the
\* vectors and answers that were read.
TypeOK ==
    /\ source \in Suites /\ edits \in 0..MaxEdits
    /\ vectors \in Suites \cup {Torn}
    /\ answers \in Oracles \cup {Absent, Torn}
    /\ report \in {"committed", "literal", "measured"}
    /\ gen \in {"idle", "writing vectors", "wrote vectors", "writing answers"}
    /\ built \in Suites
    /\ ver \in {"idle", "vectors", "check", "cross", "exit", "passed", "failed"}
    /\ data \in Suites \cup {<< >>, Torn}
    /\ answersData \in Oracles \cup {Absent, Torn}
    /\ cursor \in 1..(IF data = Torn THEN 1 ELSE Len(data) + 1)
    /\ conf \in {"idle", "verifying", "writing"}
    /\ readKeys \subseteq (IF answersData \in {Absent, Torn} THEN {}
                           ELSE DOMAIN answersData)
    /\ failures \cup errors \subseteq Ids \X Nat

\* The verifier passes exactly the pairs that are sound: its two loops, the
\* set of used answers and the two kinds of tally come to one verdict about
\* the vectors and answers it read (main of verify-v1.5.js).
Verdict == INSTANCE SuiteVerdict WITH
    verdict <- IF ver \in {"passed", "failed"} THEN ver ELSE "none"

ImplementsSuiteVerdict == Verdict!Spec

\* Vectors and answers of two generations, left by a crash of the generator
\* or read while it writes, never pass together unless they are the same
\* byte for byte (Step 6 of verify-v1.5.js, files of generate-v1.5.cjs).
NoMixedGenerations ==
    ver = "passed" /\ answersData # Absent => answersData = Answers(data)

\* No vector that passes lets the warning content_unresolvable be reported
\* in place of a real breach of its record (collectDOBreaches).
WarningNeverMasks ==
    ver = "passed" =>
        \A i \in DOMAIN data :
            data[i].kind = "breach" /\ data[i].breach = "content_unresolvable"
            => \A code \in Breaches \ {"content_unresolvable"} :
                   ~ Holds(code, data[i].dos[1].record)

\* README.md:197 "the results are produced by the verification run itself":
\* what the report says of Check 2 was measured.
ReportIsMeasured == report # "literal"

-----------------------------------------------------------------------------
(***************************************************************************)
(* The inductive invariant behind the theorems of VectorSuiteProofs.       *)
(***************************************************************************)
\* A file that is missing or does not parse is no answers and no vectors.
ASSUME FileAssumption ==
    /\ \A s \in Suites : Absent # Answers(s) /\ Torn # Answers(s) /\ Torn # s
    /\ Torn # << >> /\ Torn # Absent

Parsed == data # Torn /\ answersData # Torn

\* The keys that the first n vectors ask for.
Asked(n) ==
    {k \in UNION {Keys(data[i]) : i \in 1..n} : DOOf(data, k).supported}

\* What the tally says: nothing was counted in the first n vectors exactly
\* when they all pass, and a message is about what was counted.
Scanned(n) ==
    /\ failures = {} <=> \A i \in 1..n : Passes(data[i])
    /\ errors \subseteq failures

\* So it is for the answers: the used ones are those asked for and found, and
\* all that is named and not counted is an answer to an unsupported record.
Answered(n) ==
    \A k \in Asked(n) : k \in DOMAIN answersData /\ answersData[k] = DOOf(data, k).bytes

Unsupported ==
    {k \in AllKeys(data) \cap DOMAIN answersData : ~ DOOf(data, k).supported}

Crossed(n) ==
    /\ readKeys = Asked(n) \cap DOMAIN answersData
    /\ failures = {} <=> (\A i \in 1..Len(data) : Passes(data[i])) /\ Answered(n)
    /\ errors \subseteq failures \cup Unsupported

Finished ==
    /\ failures = {} <=> /\ \A i \in 1..Len(data) : Passes(data[i])
                        /\ Answered(Len(data))
                        /\ DOMAIN answersData \subseteq Asked(Len(data))
    /\ errors \subseteq failures \cup Unsupported

ScanInv ==
    /\ ver \in {"vectors", "check"} => readKeys = {}
    /\ ver = "vectors" => cursor = 1 /\ failures = {} /\ errors = {}
    /\ ver = "check" => answersData # Torn /\ (data # Torn => Scanned(cursor - 1))
    /\ ver \in {"cross", "exit"} => Parsed /\ answersData # Absent
    /\ ver = "cross" => Crossed(cursor - 1)
    /\ ver = "exit" => Finished

PassedInv == ver = "passed" => Verdict!Sound

IInv == TypeOK /\ ScanInv /\ PassedInv
=============================================================================
