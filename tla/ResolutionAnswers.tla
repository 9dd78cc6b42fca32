-------------------------- MODULE ResolutionAnswers --------------------------
(***************************************************************************)
(* The answers of the resolution vectors and the check of a submission:    *)
(* generate-v-resolve.mjs writes what the reference evaluator decides,     *)
(* a runner (run-v-resolve.mjs is one) writes what it decides, and         *)
(* verify-v-resolve-submission.mjs compares the two by id.                 *)
(***************************************************************************)
EXTENDS FactPath, FiniteSets, SequencesExt

CONSTANTS
    VectorSets,  \* what resolution-vectors.json may hold, functions from ids
    Decided,     \* the decisions a submission may be edited to
    MaxEdits     \* bound on edits of the vectors and of the submission

VARIABLES
    vectors,     \* resolution-vectors.json
    answers,     \* v-resolve-answers.json, None while there is none
    submission,  \* the results of the runner, a sequence of [id, decision]
    ranOn,       \* the vectors it ran on, None once its results were edited
    reading,     \* the submission a check has read, None when none runs
    accepted,    \* submission and answers of the last check that passed
    edits

vars == <<vectors, answers, submission, ranOn, reading, accepted, edits>>

Init ==
    /\ vectors \in VectorSets
    /\ answers = None
    /\ submission = None
    /\ ranOn = None
    /\ reading = None
    /\ accepted = None
    /\ edits = 0

EditVectors ==
    /\ edits < MaxEdits
    /\ vectors' \in VectorSets \ {vectors}
    /\ edits' = edits + 1
    /\ UNCHANGED <<answers, submission, ranOn, reading, accepted>>

\* The file is replaced in one step, and not at all when the program dies.  The
\* release is the one that happens to be installed.
Generate ==
    /\ \E release \in Releases :
           /\ \A id \in DOMAIN vectors : EngineDecides(release, vectors[id]) # "throws"
           /\ answers' = [id \in DOMAIN vectors |-> EngineDecides(release, vectors[id])]
    /\ UNCHANGED <<vectors, submission, ranOn, reading, accepted, edits>>

\* The orders in which the file may list its vectors.
Listings(D) == {l \in [1..Cardinality(D) -> D] :
                   \A i, j \in 1..Cardinality(D) : i # j => l[i] # l[j]}

\* A rule the runner refuses ends it before it writes anything.
RunRunner ==
    /\ \A id \in DOMAIN vectors : RunnerDecides(vectors[id]) # "throws"
    /\ \E l \in Listings(DOMAIN vectors) :
           submission' = [i \in 1..Cardinality(DOMAIN vectors) |->
                             [id |-> l[i], decision |-> RunnerDecides(vectors[l[i]])]]
    /\ ranOn' = vectors
    /\ UNCHANGED <<vectors, answers, reading, accepted, edits>>

\* A third party hands in other results: one more, possibly of an id that is
\* there already, or one less.
EditSubmission ==
    /\ submission # None
    /\ edits < MaxEdits
    /\ \/ \E id \in UNION {DOMAIN vs : vs \in VectorSets}, d \in Decided :
              submission' = Append(submission, [id |-> id, decision |-> d])
       \/ \E i \in DOMAIN submission : submission' = RemoveAt(submission, i)
    /\ ranOn' = None
    /\ edits' = edits + 1
    /\ UNCHANGED <<vectors, answers, reading, accepted>>

-----------------------------------------------------------------------------
ReadSubmission ==
    /\ submission # None
    /\ reading = None
    /\ reading' = [results |-> submission, ranOn |-> ranOn]
    /\ UNCHANGED <<vectors, answers, submission, ranOn, accepted, edits>>

\* Map.set: the last result of an id is the one that counts.
Actual(results, id) ==
    LET of == {i \in DOMAIN results : results[i].id = id}
    IN  IF of = {} THEN None ELSE results[CHOOSE i \in of : \A j \in of : j <= i].decision

\* Mutant: a vector without a result is left out.
FailsReported(results, as) ==
    {id \in DOMAIN as : Actual(results, id) \notin {None, as[id]}}

Fails(results, as) == {id \in DOMAIN as : Actual(results, id) # as[id]}

\* Without the file of answers the program dies.
JudgeSubmission ==
    /\ reading # None
    /\ accepted' = IF answers # None /\ Fails(reading.results, answers) = {}
                   THEN [results |-> reading.results, answers |-> answers] ELSE None
    /\ reading' = None
    /\ UNCHANGED <<vectors, answers, submission, ranOn, edits>>

Next ==
    \/ EditVectors \/ Generate \/ RunRunner \/ EditSubmission
    \/ ReadSubmission \/ JudgeSubmission

Spec == Init /\ [][Next]_vars

-----------------------------------------------------------------------------
\* A release resolves the rules of the vectors, as the runner reads them, the
\* way the runner does.
ResolvesLikeRunner(release, vs) ==
    \A id \in DOMAIN vs : Evaluates(release, Read(vs[id])) = RunnerDecides(vs[id])

\* The runner's own results on neutral vectors, compared with answers that some
\* release generated from the same vectors, are accepted just when the release
\* resolves these rules as the runner does: flattening the fact and converting
\* the rules neither makes a difference nor hides one
\* (generate-v-resolve.mjs:24-63, run-v-resolve.mjs:13-65).
RunnerAccepted ==
    [][\A release \in Releases :
           /\ reading # None /\ reading' = None
           /\ reading.ranOn # None
           /\ \A id \in DOMAIN reading.ranOn : Neutral(reading.ranOn[id])
           /\ answers = [id \in DOMAIN reading.ranOn |->
                             EngineDecides(release, reading.ranOn[id])]
           => (accepted' # None <=> ResolvesLikeRunner(release, reading.ranOn))]_vars

\* An accepted submission answers every vector the answers know, also when it
\* was made for other vectors, was cut or has two results of one id
\* (verify-v-resolve-submission.mjs:34-62).
AcceptedAnswersAll ==
    accepted # None =>
        \A id \in DOMAIN accepted.answers :
            \E i \in DOMAIN accepted.results :
                accepted.results[i] = [id |-> id, decision |-> accepted.answers[id]]
=============================================================================
