--------------------------- MODULE ArchiveVerifier ---------------------------
(***************************************************************************)
(* The archive of v1.3 at work: verify.js checks the vector file against   *)
(* itself (Check 1) and, when asked, against an answers file (Check 2);    *)
(* reference-runner.js looks at the same file with five modes; the         *)
(* generator or a maintainer replaces the file in between.                 *)
(***************************************************************************)
EXTENDS ArchiveRecord, Functions

CONSTANTS
    VectorFiles,        \* the vector files there may be at first
    Replacements,       \* those that may take their place later
    AnswerFiles,        \* functions from ids to canonical bytes
    ExpectedPassCount,  \* 11 in the code
    MaxEdits            \* bound on how often the vector file is replaced

VARIABLES
    file,      \* decision-object-vectors-v1.3.json
    answers,   \* the answers file, None when there is none
    edits,
    phase,     \* where verify.js is, "idle" between runs
    ci,        \* whether it was asked for the report
    held,      \* the vectors it read
    oracle,    \* the answers it read, None without --answers
    c1,        \* the counters of Check 1
    c2,        \* the counters of Check 2
    exit,      \* the exit code of the last run, None before and during a run
    report,    \* CONFORMANCE.md, None at first
    runner     \* the last verdict of the reference runner and the file it read

env      == <<file, answers, edits>>
verifier == <<phase, ci, held, oracle, c1, c2, exit, report>>
vars     == <<env, verifier, runner>>

NoC1 == [doPasses |-> 0, doFails |-> 0, passes |-> 0, mismatches |-> 0, errors |-> 0]
NoC2 == [doMatches |-> 0, doMismatches |-> 0, avMatches |-> 0, avMismatches |-> 0]

Init ==
    /\ file \in VectorFiles
    /\ answers \in AnswerFiles \cup {None}
    /\ edits = 0
    /\ phase = "idle"
    /\ ci = FALSE
    /\ held = None
    /\ oracle = None
    /\ c1 = NoC1
    /\ c2 = NoC2
    /\ exit = None
    /\ report = None
    /\ runner = None

-----------------------------------------------------------------------------
Replace(by) ==
    /\ edits < MaxEdits
    /\ file' = by
    /\ edits' = edits + 1
    /\ UNCHANGED <<answers, verifier, runner>>

Generate == Replace(Generated)
Edit     == \E f \in Replacements \ {file} : Replace(f)

RunReference ==
    /\ runner' = [on |-> file, verdict |-> Verdict(file.avs)]
    /\ UNCHANGED <<env, verifier>>

-----------------------------------------------------------------------------
Complete(f) == \A i \in DOMAIN f.avs : f.avs[i].do.hash # None

Start ==
    /\ phase = "idle"
    /\ \E dual \in BOOLEAN, report_ \in BOOLEAN :
           /\ ci' = report_
           /\ oracle' = IF dual THEN answers ELSE None
           /\ held' = file
           /\ IF (dual /\ answers = None) \/ ~Complete(file)
              THEN phase' = "idle" /\ exit' = 1
              ELSE phase' = "DOs" /\ exit' = None
    /\ c1' = NoC1
    /\ c2' = NoC2
    /\ UNCHANGED <<env, report, runner>>

CheckDOs ==
    /\ phase = "DOs"
    /\ c1' = [c1 EXCEPT !.doPasses = Count(held.dos, Matches),
                        !.doFails  = Count(held.dos, LAMBDA v : ~Matches(v))]
    /\ phase' = "AVs"
    /\ UNCHANGED <<env, ci, held, oracle, c2, exit, report, runner>>

\* How an audit vector is counted, whatever digest its object is found to have.
Status(av, result) ==
    IF av.id = "AV-013" THEN IF result # "match" THEN "passes" ELSE "errors"
    ELSE IF result = "match" THEN "passes" ELSE "mismatches"

CountStatus(avs, s) == Count(avs, LAMBDA av : Status(av, VerifyDO(av)) = s)

\* Mutant: an object over the limits is counted nowhere.
CheckAVsUncounted ==
    /\ phase = "AVs"
    /\ LET light == SelectSeq(held.avs, LAMBDA av : ~av.do.heavy)
       IN  c1' = [c1 EXCEPT !.passes     = CountStatus(light, "passes"),
                            !.mismatches = CountStatus(light, "mismatches"),
                            !.errors     = CountStatus(light, "errors")]
    /\ phase' = IF oracle = None THEN "summary" ELSE "answers"
    /\ UNCHANGED <<env, ci, held, oracle, c2, exit, report, runner>>

CheckAVs ==
    /\ phase = "AVs"
    /\ c1' = [c1 EXCEPT !.passes     = CountStatus(held.avs, "passes"),
                        !.mismatches = CountStatus(held.avs, "mismatches"),
                        !.errors     = CountStatus(held.avs, "errors")]
    /\ phase' = IF oracle = None THEN "summary" ELSE "answers"
    /\ UNCHANGED <<env, ci, held, oracle, c2, exit, report, runner>>

Against(v) ==
    IF v.id \notin DOMAIN oracle THEN "SKIP"
    ELSE IF oracle[v.id] = Preimage(v.do) THEN "MATCH" ELSE "MISMATCH"

CrossCheck ==
    /\ phase = "answers"
    /\ LET results(vs, r) == Count(vs, LAMBDA v : Against(v) = r)
       IN  c2' = [doMatches    |-> results(held.dos, "MATCH"),
                  doMismatches |-> results(held.dos, "MISMATCH"),
                  avMatches    |-> results(held.avs, "MATCH"),
                  avMismatches |-> results(held.avs, "MISMATCH")]
    /\ phase' = "summary"
    /\ UNCHANGED <<env, ci, held, oracle, c1, exit, report, runner>>

-----------------------------------------------------------------------------
\* Mutant: mismatches are only printed.
C1OkPrinted(n, t) ==
    n > 0 => t.passes - 1 = ExpectedPassCount /\ t.errors = 0

\* The canary count, c1Passes - matchCount, is always the one expected.
C1Ok(n, t) ==
    n > 0 => /\ t.passes - 1 = ExpectedPassCount
             /\ t.mismatches = 0
             /\ t.errors = 0

\* Mutant: AV-013 may be skipped like any other.
C2OkSkipping == c2.doMismatches = 0 /\ c2.avMismatches = 0

C2Ok ==
    /\ c2.doMismatches = 0
    /\ c2.avMismatches = 0
    /\ \A i \in DOMAIN held.avs :
           held.avs[i].id = "AV-013" => "AV-013" \in DOMAIN oracle

Conformance ==
    [on      |-> held,
     matches |-> c1.passes - c1.mismatches,
     of      |-> Len(held.avs) - c1.mismatches,
     dual    |-> oracle # None]

Summarize ==
    /\ phase = "summary"
    /\ LET ok == C1Ok(Len(held.avs), c1) /\ (oracle # None => C2Ok)
       IN  /\ exit' = IF ok THEN 0 ELSE 1
           /\ report' = IF ok /\ ci THEN Conformance ELSE report
    /\ phase' = "idle"
    /\ UNCHANGED <<env, ci, held, oracle, c1, c2, runner>>

Next ==
    \/ Generate \/ Edit \/ RunReference
    \/ Start \/ CheckDOs \/ CheckAVs \/ CrossCheck \/ Summarize

Spec == Init /\ [][Next]_vars

-----------------------------------------------------------------------------
\* Every object that was read is counted once (verify.js:408-476).
TypeOK ==
    /\ phase \in {"idle", "DOs", "AVs", "answers", "summary"}
    /\ exit \in {None, 0, 1}
    /\ phase \in {"AVs", "answers", "summary"} => c1.doPasses + c1.doFails = Len(held.dos)
    /\ phase \in {"answers", "summary"} \/ exit = 0 =>
           c1.passes + c1.mismatches + c1.errors = Len(held.avs)

Passed == exit = 0

\* A run that passes found every audit vector but AV-013 equal to its own
\* hash and within the limits, and as many of them as the code expects
\* (verify.js:439-476, 558-571).
PassVouches ==
    Passed /\ held.avs # <<>> =>
        /\ Len(held.avs) = ExpectedPassCount + 1
        /\ \A i \in DOMAIN held.avs :
               held.avs[i].id # "AV-013" => Matches(held.avs[i]) /\ ~held.avs[i].do.heavy

\* A dual run that passes found the canonical bytes of every object the answers
\* know, and those of AV-013 among them (verify.js:217-256, 574-589).
DualVouches ==
    Passed /\ oracle # None =>
        /\ \A v \in Range(held.dos) \cup Range(held.avs) :
               v.id \in DOMAIN oracle => oracle[v.id] = Preimage(v.do)
        /\ \A v \in Range(held.avs) : v.id = "AV-013" => v.id \in DOMAIN oracle

\* verify.js as a program that deletes the whole audit object would count.
RegressedOk(avs) ==
    LET result(av) == IF av.do.heavy THEN "limit"
                      ELSE IF Regressed(av) THEN "match" ELSE "mismatch"
        of(s)      == Count(avs, LAMBDA av : Status(av, result(av)) = s)
    IN  C1Ok(Len(avs), [passes |-> of("passes"), mismatches |-> of("mismatches"),
                        errors |-> of("errors")])

\* Which files that verify.js passes tell it from a program that deletes the
\* whole audit object: those with a vector besides AV-013, or with an AV-013
\* that such a program takes for true.  A file with no audit vector, or only
\* with canaries of no digest, passes both (verify.js:156-166, 450-457, 559).
RegressedRejected ==
    Passed =>
        (RegressedOk(held.avs) <=>
            \A i \in DOMAIN held.avs :
                /\ held.avs[i].id = "AV-013"
                /\ held.avs[i].do.heavy \/ ~Regressed(held.avs[i]))

Discriminates(avs) ==
    \E i \in DOMAIN avs : avs[i].id = "AV-013" /\ ~Matches(avs[i]) /\ Regressed(avs[i])

\* Both programs make the same bytes of it and read its hash alike.
Common(do) == do.ext = None /\ ~do.hash.bare

PassedTogether ==
    /\ Passed
    /\ runner # None
    /\ runner.on = held
    /\ runner.verdict.pass

\* What verifier and reference runner together say of the chain position, when
\* both pass on one file: an AV-013 is there that neither takes for true and a
\* regressed runner does, and a regressed verify.js too unless the object has
\* extensions_validation, which only one of the two deletes, or its hash lacks
\* the prefix; and an AV-012 is there that verify.js finds true and whose hash
\* depends on its previous_hash, which is not said of one with that field
\* (verify.js:156-178, reference-runner.js:212-321).
TogetherComplete ==
    PassedTogether =>
        /\ \E i \in DOMAIN held.avs :
               /\ held.avs[i].id = "AV-013"
               /\ ~Matches(held.avs[i]) /\ ~RunnerMatches(held.avs[i])
               /\ RunnerRegressed(held.avs[i])
               /\ Common(held.avs[i].do) => Regressed(held.avs[i])
        /\ \E i \in DOMAIN held.avs :
               /\ held.avs[i].id = "AV-012"
               /\ Matches(held.avs[i])
               /\ held.avs[i].do.ext = None => held.avs[i].do.prev # Zeros

-----------------------------------------------------------------------------
\* What verify.js:27-30 says of AV-013, and the verdict prints as "canary:
\* active": a passing run found it to hold the digest of a regressed runner.
CanaryDiscriminates == Passed => Discriminates(held.avs)

\* What verify.js:613 prints when it passes without answers, '11/11 MATCH': as
\* many vectors matched.  An empty list passes too.
ElevenMatched ==
    Passed /\ oracle = None =>
        Count(held.avs, LAMBDA av : av.id # "AV-013" /\ Matches(av)) = ExpectedPassCount

\* What reference-runner.js:249 says of mode 4, 'detection works': AV-012 has its
\* hash and loses it with its predecessor.
ModesAgree ==
    PassedTogether =>
        \E i \in DOMAIN held.avs :
            /\ held.avs[i].id = "AV-012"
            /\ RunnerMatches(held.avs[i])
            /\ held.avs[i].do.prev # Zeros

\* What docs/DESIGN-verify-js-v1.3.md:130 of the archive says of exit code 0:
\* everything passed, the static objects too.
StaticObjectsCount ==
    Passed => \A i \in DOMAIN held.dos : Matches(held.dos[i])

\* What verify.js:643-645 says of the numbers in the report: the matches are
\* those of the vectors that matched.
ReportCountsMatches ==
    report # None => report.matches = Count(report.on.avs, Matches)

\* What CONTRIBUTING.md:38 of the archive asks for: regenerate, then verify.
GeneratedVerifies ==
    held = Generated /\ oracle = None /\ c1 # NoC1 => exit # 1

\* What docs/DESIGN-verify-js-v1.3.md:97 of the archive forbids: two vectors
\* with one decision object are counted alike, whatever their ids.
NoSpecialCase ==
    held # None =>
        \A i, j \in DOMAIN held.avs :
            held.avs[i].do = held.avs[j].do =>
                Status(held.avs[i], VerifyDO(held.avs[i]))
                    = Status(held.avs[j], VerifyDO(held.avs[j]))

\* What reference-runner.js:361 gives as the criteria of passing: every vector
\* but AV-013 matches.
RunnerCriteria ==
    runner # None =>
        (runner.verdict.pass =>
            \A i \in DOMAIN runner.on.avs :
                RunnerMatches(runner.on.avs[i]) <=> runner.on.avs[i].id # "AV-013")

-----------------------------------------------------------------------------
(***************************************************************************)
(* The inductive invariant behind the theorems of ArchiveVerifierProofs:   *)
(* what the counters hold once their check is over, and what an exit code  *)
(* of 0 was given for.                                                     *)
(***************************************************************************)
IsList(s) == s \in Seq(Range(s))

Readable(f) ==
    /\ IsList(f.dos)
    /\ IsList(f.avs)
    /\ \A i \in DOMAIN f.avs : {"body", "prev", "ext"} \subseteq DOMAIN f.avs[i].do

ASSUME ArchiveAssumption ==
    /\ \A f \in VectorFiles \cup Replacements : Readable(f)
    /\ IsList(Definitions) /\ IsList(AVMapping)
    /\ \A m \in Range(AVMapping) : \E d \in Range(Definitions) : d.id = m.src
    /\ \E m \in Range(AVMapping) : m.av = "AV-003"
    /\ ExpectedPassCount \in Nat
    /\ None \notin {0, 1}

Counted ==
    /\ c1.passes     = CountStatus(held.avs, "passes")
    /\ c1.mismatches = CountStatus(held.avs, "mismatches")
    /\ c1.errors     = CountStatus(held.avs, "errors")

Compared ==
    /\ c2.doMismatches = Count(held.dos, LAMBDA v : Against(v) = "MISMATCH")
    /\ c2.avMismatches = Count(held.avs, LAMBDA v : Against(v) = "MISMATCH")

IInv ==
    /\ Readable(file)
    /\ DOMAIN c1 = DOMAIN NoC1
    /\ phase # "idle" => exit = None
    /\ phase # "idle" \/ exit = 0 => Readable(held)
    /\ phase \in {"answers", "summary"} \/ exit = 0 => Counted
    /\ (phase = "summary" \/ exit = 0) /\ oracle # None => Compared
    /\ exit = 0 => C1Ok(Len(held.avs), c1) /\ (oracle # None => C2Ok)
    /\ runner # None => Readable(runner.on) /\ runner.verdict = Verdict(runner.on.avs)
=============================================================================
