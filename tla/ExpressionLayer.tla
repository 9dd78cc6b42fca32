-------------------------- MODULE ExpressionLayer --------------------------
(***************************************************************************)
(* The expression layer's artifacts: generate-v-engine.mjs writes the      *)
(* vectors and the answers, two files, and three programs read them again: *)
(* the full verifier evaluates with the installed engine, the second       *)
(* source recomputes the sensitive ones by itself, the reverse verifier    *)
(* looks whether tampered trees evaluate differently.  The tests start     *)
(* them side by side.                                                      *)
(*                                                                         *)
(* The engine is the package @openoba/erdl: a record of what it makes of a *)
(* tree (a value, or an exception with a message), how it renders one, and *)
(* which tree it compiles a simple condition into.  An answer has the      *)
(* value and whether an exception was expected.                            *)
(***************************************************************************)
EXTENDS Integers, FiniteSets

CONSTANTS
    Revisions,   \* the sets of vector definitions of v-engine.mjs
    Engines,     \* the engines that may be installed
    Reference,   \* the engine that made the committed vectors
    Truth,       \* what the second source makes of a tree
    Tamper,      \* the tree with its literals changed
    Exclusive,   \* the trees with both expr and field/operator/value
    Throws,      \* the outcome of an evaluation that throws
    NoValue,     \* the value null of type "null"
    Threshold,   \* differences the reverse verifier asks for, 20 in the code
    None,
    MaxChanges   \* bound on edits of the source and installations

ASSUME ExpressionLayerAssumption ==
    /\ Reference \in Engines
    /\ Threshold \in Nat \ {0}
    /\ MaxChanges \in Nat

VARIABLES
    source,     \* the definitions in v-engine.mjs
    engine,     \* the installed engine
    vectors,    \* v-engine-vectors.json
    answers,    \* v-engine-answers.json, None while there is none
    generator,  \* the running generator
    reader,     \* the running verifier
    passed,     \* what each program last exited 0 for
    changes     \* edits and installations so far

vars == <<source, engine, vectors, answers, generator, reader, passed, changes>>

Programs == {"full", "second", "reverse"}

-----------------------------------------------------------------------------
(***************************************************************************)
(* What the generator makes of a definition.                               *)
(***************************************************************************)
Value(v) == [value |-> v, threw |-> FALSE]

\* The tree of a compiled condition is the engine's.
Compiled(d, e) == [d EXCEPT !.tree = e.compile[d.simple]]

\* So is the first tree of a projection; the second is given or, for a
\* decision table, compiled as well.  Both are evaluated, but only the first
\* result is recorded.
Projected(d, e) ==
    [Compiled(d, e) EXCEPT !.other = IF d.table = "none" THEN d.other ELSE e.table[d.table]]

Published(d, e) ==
    CASE d.kind = "compile"    -> Compiled(d, e)
      [] d.kind = "projection" -> Projected(d, e)
      [] OTHER                 -> d

\* Only the entry says that a constraint is a limit (expectThrow), not the file.
Unmarked(p) == [p EXCEPT !.kind = IF @ = "limit" THEN "constraint" ELSE @]

NodeAnswer(v, e)  == Value(e.eval[v.tree])
GlossAnswer(v, e) == Value(e.gloss[v.tree])

\* A limit is answered by whether the engine threw, an exclusive writing by
\* whether it was found to be one, others by their value.
ConstraintAnswer(v, e) ==
    CASE v.kind = "exclusive"  -> Value(IF v.tree \in Exclusive THEN 1 ELSE 0)
      [] v.kind = "limit"      -> [value |-> NoValue, threw |-> e.eval[v.tree] = Throws]
      [] v.kind = "constraint" -> NodeAnswer(v, e)

\* checkRate tells whether the limit is kept, the condition that it is reached.
ModifierAnswer(v, e) ==
    Value(IF v.kind = "rate" THEN 1 - e.eval[v.tree] ELSE e.eval[v.tree])

Expected(v, e) ==
    CASE v.kind \in {"exclusive", "limit", "constraint"} -> ConstraintAnswer(v, e)
      [] v.kind \in {"rate", "within"}                   -> ModifierAnswer(v, e)
      [] v.kind \in {"gloss", "integrity"}               -> GlossAnswer(v, e)
      [] v.kind \in {"node", "compile", "projection"}    -> NodeAnswer(v, e)

\* Evaluations outside the limit vectors are not caught: the generator dies.
Dies(defs, e) ==
    \E d \in defs : /\ d.kind \in {"node", "constraint", "compile", "projection"}
                    /\ \/ e.eval[Published(d, e).tree] = Throws
                       \/ d.kind = "projection" /\ e.eval[Published(d, e).other] = Throws

Kinds == {"node", "constraint", "compile", "projection", "limit", "exclusive",
          "rate", "within", "gloss", "integrity"}
Trees == DOMAIN Truth

Definitions ==
    [id: STRING, kind: Kinds, tree: Trees, other: Trees, simple: STRING,
     table: STRING, sensitive: BOOLEAN, normal: BOOLEAN]

\* The second source is given nodes and constraints only, and no two definitions
\* of a revision share an id.  Two revisions may number their constraints, and
\* mark them as limits, as they like.
ASSUME DefinitionsAssumption ==
    /\ \A defs \in Revisions, e \in Engines : \A d \in defs :
           /\ d \in Definitions /\ Published(d, e) \in Definitions
           /\ d.sensitive => d.kind \in {"node", "constraint"}
    /\ \A defs \in Revisions : \A c, d \in defs : c.id = d.id => c = d

\* No tree has the value null of type "null" that a limit is answered with.
ASSUME EnginesAssumption ==
    /\ Tamper \in [Trees -> Trees]
    /\ NoValue \notin {0, 1}
    /\ \A t \in Trees : Truth[t] # NoValue
    /\ \A e \in Engines : \A t \in Trees :
           NoValue \notin {e.eval[t], 1 - e.eval[t], e.gloss[t]}

VectorsOf(defs, e) == {Unmarked(Published(d, e)) : d \in defs}
AnswersOf(defs, e) ==
    [id \in {d.id : d \in defs} |->
        Expected(Published(CHOOSE d \in defs : d.id = id, e), e)]

-----------------------------------------------------------------------------
Init ==
    /\ source \in Revisions
    /\ engine \in Engines
    /\ vectors = VectorsOf(source, Reference)
    /\ answers = None
    /\ generator = None
    /\ reader = None
    /\ passed = [p \in Programs |-> None]
    /\ changes = 0

Edit ==
    /\ changes < MaxChanges
    /\ source' \in Revisions \ {source}
    /\ changes' = changes + 1
    /\ UNCHANGED <<engine, vectors, answers, generator, reader, passed>>

Install ==
    /\ changes < MaxChanges
    /\ engine' \in Engines \ {engine}
    /\ changes' = changes + 1
    /\ UNCHANGED <<source, vectors, answers, generator, reader, passed>>

-----------------------------------------------------------------------------
(***************************************************************************)
(* The generator.  Each file is written beside its place and renamed.      *)
(***************************************************************************)
StartGenerator ==
    /\ generator = None
    /\ ~Dies(source, engine)
    /\ generator' = [step |-> "vectors", defs |-> source, engine |-> engine]
    /\ UNCHANGED <<source, engine, vectors, answers, reader, passed, changes>>

\* Mutant: the file is truncated and then written in place.
WriteVectorsInPlace ==
    /\ generator # None
    /\ generator.step = "vectors"
    /\ IF vectors # {} THEN vectors' = {} /\ generator' = generator
       ELSE /\ vectors' = VectorsOf(generator.defs, generator.engine)
            /\ generator' = [generator EXCEPT !.step = "answers"]
    /\ UNCHANGED <<source, engine, answers, reader, passed, changes>>

RenameVectors ==
    /\ generator # None
    /\ generator.step = "vectors"
    /\ vectors' = VectorsOf(generator.defs, generator.engine)
    /\ generator' = [generator EXCEPT !.step = "answers"]
    /\ UNCHANGED <<source, engine, answers, reader, passed, changes>>

RenameAnswers ==
    /\ generator # None
    /\ generator.step = "answers"
    /\ answers' = AnswersOf(generator.defs, generator.engine)
    /\ generator' = None
    /\ UNCHANGED <<source, engine, vectors, reader, passed, changes>>

\* Killed before a rename: a temporary file may be left, nothing else.
Crash ==
    /\ generator # None
    /\ generator' = None
    /\ UNCHANGED <<source, engine, vectors, answers, reader, passed, changes>>

-----------------------------------------------------------------------------
(***************************************************************************)
(* verify of the full verifier.  An exception ends the program, which is   *)
(* no pass either.                                                         *)
(***************************************************************************)
Evaluates(v, e, a) == e.eval[v.tree] # Throws /\ a.value = e.eval[v.tree]

\* Mutant: where the generator wrote no value, what it recorded is compared.
VerifyConstraintRecorded(v, e, a) ==
    IF a.value = NoValue THEN a.threw = (e.eval[v.tree] = Throws) ELSE Evaluates(v, e, a)

\* The answer says whether an exception is expected.  If not the result is
\* compared, and no result has the type "null" that a limit is answered with.
VerifyConstraint(v, e, a) == IF a.threw THEN e.eval[v.tree] = Throws ELSE Evaluates(v, e, a)

\* Mutant: only the writing the answer was made from is evaluated.
VerifyProjectionOnce(v, e, a) == Evaluates(v, e, a)

\* The simple condition and the other writing of it must agree.
VerifyProjection(v, e, a) ==
    Evaluates(v, e, a) /\ e.eval[v.other] = e.eval[v.tree]

\* Mutant: the compiled tree of the file is evaluated as it is.
VerifyCompiledAsIs(v, e, a) == Evaluates(v, e, a)

\* The condition is compiled again.
VerifyCompiled(v, e, a) == e.compile[v.simple] = v.tree /\ Evaluates(v, e, a)

\* Mutant: checkRate is taken for the truth of the condition.
VerifyModifierAsIs(v, e, a) == a.value = e.eval[v.tree]

VerifyModifier(v, e, a) ==
    a.value = IF v.kind = "rate" THEN 1 - e.eval[v.tree] ELSE e.eval[v.tree]

Verify(v, e, a) ==
    CASE v.kind = "gloss"      -> e.gloss[v.tree] = a.value
      [] v.kind = "integrity"  -> /\ e.gloss[v.tree] = a.value
                                  /\ e.gloss[v.tree] # e.gloss[v.other]
      [] v.kind = "projection" -> VerifyProjection(v, e, a)
      [] v.kind = "exclusive"  -> a.value = (IF v.tree \in Exclusive THEN 1 ELSE 0)
      [] v.kind = "constraint" -> VerifyConstraint(v, e, a)
      [] v.kind = "compile"    -> VerifyCompiled(v, e, a)
      [] v.kind \in {"rate", "within"} -> VerifyModifier(v, e, a)
      [] v.kind = "node"       -> Evaluates(v, e, a)

\* v.expected is undefined without an answer, and reading it throws.
Full(vs, as, e) == \A v \in vs : v.id \in DOMAIN as /\ Verify(v, e, as[v.id])

\* Mutant: the constraints are left to the full verifier.
SecondNodesOnly(vs, as) ==
    \A v \in vs : v.sensitive /\ v.kind = "node" =>
        v.id \in DOMAIN as /\ as[v.id].value = Truth[v.tree]

Second(vs, as) ==
    \A v \in vs : v.sensitive =>
        v.id \in DOMAIN as /\ as[v.id].value = Truth[v.tree]

Tampered(vs, as) == {v \in vs : /\ v.normal
                                /\ v.id \in DOMAIN as
                                /\ Tamper[v.tree] # v.tree}

\* Mutant: a tree that evaluates as before is counted with the others.
DetectedAll(vs, as, e) == Tampered(vs, as)

\* What is compared: the result, or the message of the exception.
Outcome(e, t) ==
    IF e.eval[t] = Throws THEN <<"__ERR__", e.message[t]>> ELSE <<"value", e.eval[t]>>

Detected(vs, as, e) ==
    {v \in Tampered(vs, as) : Outcome(e, Tamper[v.tree]) # Outcome(e, v.tree)}

Exits0(program, vs, as, e) ==
    CASE program = "full"    -> Full(vs, as, e)
      [] program = "second"  -> Second(vs, as)
      [] program = "reverse" -> Cardinality(Detected(vs, as, e)) >= Threshold

-----------------------------------------------------------------------------
(***************************************************************************)
(* A verifier reads the vectors, then the answers, then decides.           *)
(***************************************************************************)
StartReader ==
    /\ reader = None
    /\ \E p \in Programs :
           reader' = [program |-> p, engine |-> engine, vectors |-> vectors,
                      answers |-> None]
    /\ UNCHANGED <<source, engine, vectors, answers, generator, passed, changes>>

\* Without the file of answers the program dies.
ReadAnswers ==
    /\ reader # None
    /\ reader.answers = None
    /\ reader' = IF answers = None THEN None ELSE [reader EXCEPT !.answers = answers]
    /\ UNCHANGED <<source, engine, vectors, answers, generator, passed, changes>>

Judge ==
    /\ reader # None
    /\ reader.answers # None
    /\ passed' = [passed EXCEPT ![reader.program] =
                     IF Exits0(reader.program, reader.vectors, reader.answers, reader.engine)
                     THEN [engine |-> reader.engine, vectors |-> reader.vectors,
                           answers |-> reader.answers]
                     ELSE None]
    /\ reader' = None
    /\ UNCHANGED <<source, engine, vectors, answers, generator, changes>>

Next ==
    \/ Edit \/ Install
    \/ StartGenerator \/ RenameVectors \/ RenameAnswers \/ Crash
    \/ StartReader \/ ReadAnswers \/ Judge

Spec == Init /\ [][Next]_vars

-----------------------------------------------------------------------------
AllVectors == {VectorsOf(defs, e) : defs \in Revisions, e \in Engines}
AllAnswers == {AnswersOf(defs, e) : defs \in Revisions, e \in Engines}

\* Vectors and answers are well formed and belong to some engine, whatever
\* crashed: a renamed file is never half of another (atomicWrite).
TypeOK ==
    /\ source \in Revisions
    /\ engine \in Engines
    /\ vectors \in AllVectors
    /\ answers \in AllAnswers \cup {None}
    /\ generator # None => generator.step \in {"vectors", "answers"}
    /\ reader # None => reader.program \in Programs
    /\ changes \in 0..MaxChanges

\* A published constraint as the entry its answer is for: whether it was marked
\* as a limit is what only the answer knows.
Marked(v, a) == IF a.threw THEN [v EXCEPT !.kind = "limit"] ELSE v

\* What the full verifier exits 0 for is what the generator would write of
\* these vectors with the same engine, a constraint taken for marked as a limit
\* just when its answer expects an exception: no value of an older engine, no
\* condition compiled by another, no limit answered by an engine that did not
\* keep it.  It holds for files torn by a crash or read around a rename, and
\* when an edit renumbered or marked the constraints in between
\* (verify-v-engine-full.mjs:62-159 against v-engine.mjs:404-783).
PassMeansFresh ==
    passed["full"] # None =>
        LET e == passed["full"].engine
        IN  \A v \in passed["full"].vectors :
                LET a == passed["full"].answers[v.id]
                IN  /\ a = Expected(Marked(v, a), e)
                    /\ a.threw => v.kind = "constraint"
                    /\ v.kind = "compile" => v.tree = e.compile[v.simple]

\* What the generator writes with an engine it does not die of.
WrittenBy(defs, vs, as, e) ==
    ~ Dies(defs, e) /\ vs = VectorsOf(defs, e) /\ as = AnswersOf(defs, e)

\* An engine that keeps its limits, compiles both writings of a projection to
\* the same result and renders tampered trees differently.
Sound(defs, e) ==
    \A p \in {Published(d, e) : d \in defs} :
        /\ p.kind = "limit" => e.eval[p.tree] = Throws
        /\ p.kind = "projection" => e.eval[p.other] = e.eval[p.tree]
        /\ p.kind = "integrity" => e.gloss[p.other] # e.gloss[p.tree]

\* The full verifier raises no false alarm: what the generator wrote with a
\* sound engine passes with the same engine.  Both have the reading of rate
\* conditions, exclusive writings and exceptions from the same text, each for
\* itself (verify-v-engine-full.mjs:37-123, v-engine.mjs:742-747).
FreshPasses ==
    [][/\ reader # None /\ reader' = None
       /\ reader.program = "full"
       /\ \E defs \in Revisions :
              /\ WrittenBy(defs, reader.vectors, reader.answers, reader.engine)
              /\ Sound(defs, reader.engine)
       => passed'["full"] # None]_vars

\* A vector that was answered as a limit cannot pass with an engine that
\* evaluates it, also when the engine that wrote the answer did not keep the
\* limit and recorded just that.  Such an answer has the value NoValue
\* (v-engine.mjs:508-518, verify-v-engine-full.mjs:92-99).
LimitsEnforced ==
    passed["full"] # None =>
        \A v \in passed["full"].vectors :
            passed["full"].answers[v.id].value = NoValue =>
                passed["full"].engine.eval[v.tree] = Throws

\* For files of one revision, whatever engines wrote them: every entry it marks
\* as a limit is one for the engine that passed.
MarkedLimitsEnforced ==
    passed["full"] # None =>
        \A defs \in Revisions, f, g \in Engines :
            /\ passed["full"].vectors = VectorsOf(defs, f)
            /\ passed["full"].answers = AnswersOf(defs, g)
            => \A d \in defs :
                   d.kind = "limit" => passed["full"].engine.eval[d.tree] = Throws

\* The same of the vectors alone, "all deterministically checkable"
\* (v-engine.mjs:447).  Not so: answers of a revision that does not mark the
\* entry expect its value, and an engine without the limit gives it.
LimitsOfVectors ==
    passed["full"] # None =>
        \A defs \in Revisions, f \in Engines :
            passed["full"].vectors = VectorsOf(defs, f) =>
                \A d \in defs :
                    d.kind = "limit" => passed["full"].engine.eval[d.tree] = Throws

\* The two writings of a projection give the same result although the
\* generator compares nothing (verify-v-engine-full.mjs:60-77, v-engine.mjs:605-659).
ProjectionsAgree ==
    passed["full"] # None =>
        \A v \in passed["full"].vectors :
            v.kind = "projection" =>
                passed["full"].engine.eval[v.other] = passed["full"].engine.eval[v.tree]

\* The trees a passing run has compared are those the engine compiles, as
\* README.md:122 counts the projections among the compilation vectors and
\* verify-v-engine-reverse.mjs:80 has them covered by the full verifier.  They
\* are not: nothing compiles the decision tables again
\* (verify-v-engine-full.mjs:71-86).
ProjectionsCompiled ==
    passed["full"] # None =>
        \A v \in passed["full"].vectors :
            v.kind = "projection" => Published(v, passed["full"].engine) = v

\* Generator and full verifier share the engine, so a fault of it is in both.
\* The second source finds it on the sensitive vectors: when both pass on the
\* same files the engine evaluates those as the second source does
\* (verify-v-engine.mjs:30-33, :310-345).
SensitiveAsSpecified ==
    /\ passed["full"] # None /\ passed["second"] # None
    /\ passed["full"].vectors = passed["second"].vectors
    /\ passed["full"].answers = passed["second"].answers
    => \A v \in passed["full"].vectors :
           v.sensitive => passed["full"].engine.eval[v.tree] = Truth[v.tree]

\* An engine that gives every tree the same value, or throws on every tree with
\* the same message, is never passed by the reverse verifier
\* (verify-v-engine-reverse.mjs:61-95).
ConstantEngineFound ==
    passed["reverse"] # None =>
        \E t, u \in DOMAIN Truth :
            Outcome(passed["reverse"].engine, t) # Outcome(passed["reverse"].engine, u)

\* "the vast majority should be detected", the verifier says of its 34 trees
\* (verify-v-engine-reverse.mjs:94).  An engine that evaluates none of them is
\* passed all the same when its messages name what they are about.
ThrowingEngineFound ==
    passed["reverse"] # None =>
        \E t \in DOMAIN Truth : passed["reverse"].engine.eval[t] # Throws

-----------------------------------------------------------------------------
(***************************************************************************)
(* The inductive invariant behind the theorems of ExpressionLayerProofs.   *)
(***************************************************************************)
Readers ==
    [program: Programs, engine: Engines, vectors: AllVectors,
     answers: AllAnswers \cup {None}]

Generators == [step: {"vectors", "answers"}, defs: Revisions, engine: Engines]

Passes == [engine: Engines, vectors: AllVectors, answers: AllAnswers]

\* None is no file of answers and no pass.
ASSUME NoneAssumption ==
    /\ \A defs \in Revisions, e \in Engines : AnswersOf(defs, e) # None
    /\ None \notin Passes

\* What a program exited 0 for are files that were once whole, and that it
\* let pass.
PassInv ==
    /\ passed \in [Programs -> Passes \cup {None}]
    /\ \A p \in Programs :
           passed[p] # None =>
               Exits0(p, passed[p].vectors, passed[p].answers, passed[p].engine)

IInv ==
    /\ TypeOK
    /\ generator # None => generator \in Generators
    /\ reader # None => reader \in Readers
    /\ PassInv
=============================================================================
