-------------------------- MODULE ResolutionPrograms --------------------------
(***************************************************************************)
(* The runner of Resolution and the three programs that rely on a          *)
(* resolution: the answers and the check of a submission, the check of     *)
(* decision records and the check of producers.  Each is run by itself and *)
(* they share no variable: of the four one moves, the others stay.         *)
(***************************************************************************)
EXTENDS Resolution

CONSTANTS
    None, VectorSets, Decided, MaxEdits,
    MainFiles, DivergenceFiles, ScenarioLists, UndefinedExpr,
    Releases, Evaluates(_, _)

VARIABLES
    vectors, answers, submission, ranOn, reading, accepted, edits,
    files, file, objects, tally, ok,
    scenarios, producer, next, fails, verdict,
    part  \* the program that is run

answerVars   == <<vectors, answers, submission, ranOn, reading, accepted, edits>>
decisionVars == <<files, file, objects, tally, ok>>
producerVars == <<scenarios, producer, next, fails, verdict>>

Answers  == INSTANCE ResolutionAnswers
Decision == INSTANCE DecisionCheck WITH todo <- objects
Producer == INSTANCE ProducerCheck WITH ok <- verdict

-----------------------------------------------------------------------------
(***************************************************************************)
(* What the programs read.                                                 *)
(***************************************************************************)
Ids == UNION {DOMAIN vs : vs \in VectorSets}

\* A result of a submission.
Given == [id: Ids, decision: Decisions \cup {"none"}]

\* What a release makes of the vectors of a file.
Keys == UNION {[DOMAIN vs -> Decisions \cup {"throws"}] : vs \in VectorSets}

\* A rule of a vector as it is written, and a vector.
Entries ==
    [when: [logic: {"true", "AND", "OR"},
            conditions: Seq([field: Seq(STRING), value: STRING])],
     ring: 0..3, priority: Int, override: DOMAIN strength \cup {None}, then: Decisions]

IsVector(v) == v.rules \in Seq(Entries) /\ Answers!IsFact(v.fact)

ASSUME VectorsAssumption ==
    /\ None \notin DOMAIN strength
    /\ None \notin Decisions \cup Keys \cup [results: Seq(Given), answers: Keys]
    /\ Decided \subseteq Decisions
    /\ \A vs \in VectorSets :
           IsFiniteSet(DOMAIN vs) /\ \A id \in DOMAIN vs : IsVector(vs[id])

\* All that is known of a release: it decides or throws.
ASSUME ReleasesAssumption ==
    \A release \in Releases : \A vs \in VectorSets : \A id \in DOMAIN vs :
        Answers!EngineDecides(release, vs[id]) \in Decisions \cup {"throws"}

\* What a condition of a policy comes to.
Conditions == {"match", "nomatch", "unsupported"}

\* A policy of a record or of a scenario.
Policies ==
    [id: STRING, when: Conditions \cup {None},
     ring: (0..3) \cup {None}, priority: Int \cup {None},
     override: DOMAIN strength, then: Decisions]

DecisionObjects ==
    [policies: Seq(Policies), context: BOOLEAN, decision: Decisions \cup {None},
     applied: STRING \cup {None}, risk: STRING, required: BOOLEAN]

ASSUME FilesAssumption ==
    /\ None \notin BOOLEAN
    /\ None \notin Conditions
    /\ MainFiles \cup DivergenceFiles \subseteq
           Seq([{"decision_object", "base_do", "tampered_do"} ->
                   DecisionObjects \cup {None}])

Scenarios == [rules: Seq(Policies), risk: STRING, required: BOOLEAN]

ASSUME ScenariosAssumption ==
    ScenarioLists \subseteq Seq(Scenarios) /\ UndefinedExpr \in Conditions

-----------------------------------------------------------------------------
ProgramsInit ==
    /\ Init /\ Answers!Init /\ Decision!Init /\ Producer!Init
    /\ part \in {"runner", "answers", "decisions", "producers"}

ProgramsNext ==
    /\ UNCHANGED part
    /\ \/ /\ part = "runner" /\ Next
          /\ UNCHANGED <<answerVars, decisionVars, producerVars>>
       \/ /\ part = "answers" /\ Answers!Next
          /\ UNCHANGED <<vars, decisionVars, producerVars>>
       \/ /\ part = "decisions" /\ Decision!Next
          /\ UNCHANGED <<vars, answerVars, producerVars>>
       \/ /\ part = "producers" /\ Producer!Next
          /\ UNCHANGED <<vars, answerVars, decisionVars>>

programVars == <<part, vars, answerVars, decisionVars, producerVars>>

ProgramsSpec == ProgramsInit /\ [][ProgramsNext]_programVars

-----------------------------------------------------------------------------
\* With the answers of the same vectors the runner's own results are accepted
\* just when the installed release resolves their rules as the runner does
\* (generate-v-resolve.mjs:24-63, run-v-resolve.mjs:13-65).
RunnerAccepted == Answers!RunnerAccepted

\* An accepted submission answers every vector the answers know
\* (verify-v-resolve-submission.mjs:34-62).
AcceptedAnswersAll == Answers!AcceptedAnswersAll

\* No record of main vectors that pass claims an ALLOW that its rules or the
\* oversight restrict (verify-decision.mjs:45-77).
AllowIsEarned == Decision!AllowIsEarned

\* A record whose rules can only make the evaluator throw is reported
\* (verify-decision.mjs:58-71).
UnevaluableIsReported == Decision!UnevaluableIsReported
=============================================================================
