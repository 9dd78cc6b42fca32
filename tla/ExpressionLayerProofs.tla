----------------------- MODULE ExpressionLayerProofs -----------------------
(***************************************************************************)
(* Proofs about ExpressionLayer, for any revisions and engines: what the   *)
(* three programs exited 0 for holds of the engine, whatever was edited,   *)
(* installed, crashed or renamed meanwhile.                                *)
(***************************************************************************)
EXTENDS ExpressionLayer, SecondSource, FiniteSetTheorems, TLAPS

LEMMA VectorsType ==
    ASSUME NEW vs \in AllVectors, NEW v \in vs
    PROVE  /\ v \in Definitions
           /\ v.kind \in Kinds \ {"limit"} /\ v.tree \in Trees /\ v.other \in Trees
           /\ v.sensitive => v.kind \in {"node", "constraint"}
<1>1. PICK defs \in Revisions, e \in Engines : vs = VectorsOf(defs, e)
  BY DEF AllVectors
<1>2. PICK d \in defs : v = Unmarked(Published(d, e))
  BY <1>1 DEF VectorsOf
<1> DEFINE p == Published(d, e)
<1>3. d \in Definitions /\ p \in Definitions /\ (d.sensitive => d.kind \in {"node", "constraint"})
  BY <1>1, <1>2, DefinitionsAssumption
<1>4. p.sensitive = d.sensitive /\ p.kind = d.kind
  BY <1>3 DEF Published, Compiled, Projected, Definitions
<1> HIDE DEF p
<1>5. /\ v \in Definitions /\ v.sensitive = p.sensitive
      /\ v.kind = IF p.kind = "limit" THEN "constraint" ELSE p.kind
  BY <1>2, <1>3 DEF p, Unmarked, Definitions, Kinds
<1>6. v.kind \in Kinds \ {"limit"} /\ v.tree \in Trees /\ v.other \in Trees
  BY <1>3, <1>5 DEF Definitions, Kinds
<1> QED
  BY <1>3, <1>4, <1>5, <1>6

\* An answer says that an exception was expected only for a limit, and then
\* nothing else.
LEMMA ExpectedShape ==
    ASSUME NEW v \in Definitions, NEW e \in Engines
    PROVE  LET a == Expected(v, e)
           IN  /\ a = [value |-> a.value, threw |-> a.threw] /\ a.threw \in BOOLEAN
               /\ v.kind = "limit" =>
                      a.value = NoValue /\ a.threw = (e.eval[v.tree] = Throws)
               /\ v.kind # "limit" => a.threw = FALSE
<1>1. v.kind \in Kinds
  BY DEF Definitions
<1>2. CASE v.kind \in {"exclusive", "limit", "constraint"}
  BY <1>2 DEF Expected, ConstraintAnswer, NodeAnswer, Value
<1>3. CASE v.kind \in {"rate", "within"}
  BY <1>3 DEF Expected, ModifierAnswer, Value
<1>4. CASE v.kind \in {"gloss", "integrity"}
  BY <1>4 DEF Expected, GlossAnswer, Value
<1>5. CASE v.kind \in {"node", "compile", "projection"}
  BY <1>5 DEF Expected, NodeAnswer, Value
<1> QED
  BY <1>1, <1>2, <1>3, <1>4, <1>5 DEF Kinds

LEMMA WrittenOnce ==
    \A ans \in AllAnswers : \E defs \in Revisions : \E e \in Engines : ans = AnswersOf(defs, e)
<1> DEFINE A(defs, e) == AnswersOf(defs, e)
<1> HIDE DEF A
<1>1. \A ans \in {A(defs, e) : defs \in Revisions, e \in Engines} :
         \E defs \in Revisions : \E e \in Engines : ans = A(defs, e)
  OBVIOUS
<1>2. AllAnswers = {A(defs, e) : defs \in Revisions, e \in Engines}
  BY DEF AllAnswers, A
<1>3. \A ans \in AllAnswers : \E defs \in Revisions : \E e \in Engines : ans = A(defs, e)
  BY <1>1, <1>2
<1> QED
  BY <1>3 DEF A

\* An answer that expects an exception has no value, whatever revision it is of.
LEMMA AnswerShape ==
    ASSUME NEW ans \in AllAnswers, NEW id \in DOMAIN ans
    PROVE  LET a == ans[id]
           IN  /\ a = [value |-> a.value, threw |-> a.threw] /\ a.threw \in BOOLEAN
               /\ a.threw => a.value = NoValue
<1>5. PICK r \in Revisions, f \in Engines : ans = AnswersOf(r, f)
  BY WrittenOnce
<1> DEFINE c == CHOOSE x \in r : x.id = id
<1>6. \E x \in r : x.id = id
  BY <1>5 DEF AnswersOf
<1>7. c \in r
  BY <1>6
<1>8. ans[id] = Expected(Published(c, f), f)
  BY <1>5 DEF AnswersOf
<1> HIDE DEF c
<1> DEFINE p == Published(c, f)
<1>12. ans[id] = Expected(p, f) /\ p \in Definitions
  BY <1>5, <1>7, <1>8, DefinitionsAssumption
<1> HIDE DEF p
<1> DEFINE x == Expected(p, f)
<1>13. /\ x = [value |-> x.value, threw |-> x.threw] /\ x.threw \in BOOLEAN
       /\ p.kind = "limit" => x.value = NoValue /\ x.threw = (f.eval[p.tree] = Throws)
       /\ p.kind # "limit" => x.threw = FALSE
  BY <1>5, <1>12, ExpectedShape, Zenon
<1>14. x.threw => x.value = NoValue
  BY <1>13
<1> HIDE DEF x
<1> QED
  BY <1>12, <1>13, <1>14 DEF x

(***************************************************************************)
(* What a verifier that accepts one answer has found out.                  *)
(***************************************************************************)
LEMMA Accepted ==
    ASSUME NEW vs \in AllVectors, NEW v \in vs, NEW ans \in AllAnswers, v.id \in DOMAIN ans,
           NEW e \in Engines, Verify(v, e, ans[v.id])
    PROVE  LET a == ans[v.id]
           IN  /\ a = Expected(Marked(v, a), e)
               /\ a.threw => v.kind = "constraint"
               /\ a.value = NoValue => a.threw /\ e.eval[v.tree] = Throws
               /\ v.kind = "compile" => v.tree = e.compile[v.simple]
               /\ v.kind = "projection" => e.eval[v.other] = e.eval[v.tree]
               /\ v.kind \in {"node", "constraint"} /\ ~ a.threw => a.value = e.eval[v.tree]
<1> DEFINE a == ans[v.id]
<1>1. v.kind \in Kinds \ {"limit"} /\ v.tree \in Trees /\ v \in Definitions
  BY VectorsType
<1>2. /\ a = [value |-> a.value, threw |-> a.threw] /\ a.threw \in BOOLEAN
      /\ a.threw => a.value = NoValue
  BY AnswerShape
<1>3. Verify(v, e, a)
  OBVIOUS
<1>4. NoValue \notin {e.eval[v.tree], 1 - e.eval[v.tree], e.gloss[v.tree], 0, 1}
  BY <1>1, EnginesAssumption
<1> HIDE DEF a
<1>5. CASE a.threw
  <2>1. a.value = NoValue /\ a = [value |-> NoValue, threw |-> TRUE]
    BY <1>2, <1>5
  <2>2. v.kind = "constraint"
    <3>1. CASE v.kind \in {"node", "compile", "projection"}
      BY <1>3, <1>4, <2>1, <3>1 DEF Verify, Evaluates, VerifyCompiled, VerifyProjection
    <3>2. CASE v.kind \in {"gloss", "integrity"}
      BY <1>3, <1>4, <2>1, <3>2 DEF Verify
    <3>3. CASE v.kind = "exclusive"
      BY <1>3, <1>4, <2>1, <3>3 DEF Verify
    <3>4. CASE v.kind \in {"rate", "within"}
      BY <1>3, <1>4, <2>1, <3>4 DEF Verify, VerifyModifier
    <3> QED
      BY <1>1, <3>1, <3>2, <3>3, <3>4 DEF Kinds
  <2>3. e.eval[v.tree] = Throws
    BY <1>3, <1>5, <2>2 DEF Verify, VerifyConstraint
  <2> DEFINE d == [v EXCEPT !.kind = "limit"]
  <2>4. d.kind = "limit" /\ d.tree = v.tree /\ Marked(v, a) = d
    BY <1>1, <1>5 DEF Definitions, Marked
  <2> HIDE DEF d
  <2>5. Expected(d, e) = [value |-> NoValue, threw |-> TRUE]
    BY <2>3, <2>4 DEF Expected, ConstraintAnswer
  <2> QED
    BY <1>5, <2>1, <2>2, <2>3, <2>4, <2>5 DEF a
<1>6. ASSUME ~ a.threw, NEW x, a.value = x, Expected(v, e) = Value(x), x # NoValue
      PROVE  a = Expected(Marked(v, a), e) /\ a.value # NoValue
  <2>1. a.threw = FALSE /\ Marked(v, a) = v
    BY <1>2, <1>6 DEF Marked
  <2> QED
    BY <1>2, <1>6, <2>1 DEF Value
<1>7. CASE ~ a.threw /\ v.kind \in {"node", "constraint"}
  <2>1. a.value = e.eval[v.tree]
    BY <1>3, <1>7 DEF Verify, VerifyConstraint, Evaluates
  <2>2. Expected(v, e) = Value(e.eval[v.tree])
    BY <1>7 DEF Expected, NodeAnswer, ConstraintAnswer
  <2> QED
    BY <1>4, <1>6, <1>7, <2>1, <2>2 DEF a
<1>8. CASE ~ a.threw /\ v.kind = "compile"
  <2>1. a.value = e.eval[v.tree] /\ v.tree = e.compile[v.simple]
    BY <1>3, <1>8 DEF Verify, VerifyCompiled, Evaluates
  <2>2. Expected(v, e) = Value(e.eval[v.tree])
    BY <1>8 DEF Expected, NodeAnswer
  <2> QED
    BY <1>4, <1>6, <1>8, <2>1, <2>2 DEF a
<1>9. CASE ~ a.threw /\ v.kind = "projection"
  <2>1. a.value = e.eval[v.tree] /\ e.eval[v.other] = e.eval[v.tree]
    BY <1>3, <1>9 DEF Verify, VerifyProjection, Evaluates
  <2>2. Expected(v, e) = Value(e.eval[v.tree])
    BY <1>9 DEF Expected, NodeAnswer
  <2> QED
    BY <1>4, <1>6, <1>9, <2>1, <2>2 DEF a
<1>10. CASE ~ a.threw /\ v.kind = "exclusive"
  <2>1. a.value = (IF v.tree \in Exclusive THEN 1 ELSE 0)
    BY <1>3, <1>10 DEF Verify
  <2>2. Expected(v, e) = Value(IF v.tree \in Exclusive THEN 1 ELSE 0)
    BY <1>10 DEF Expected, ConstraintAnswer
  <2> QED
    BY <1>4, <1>6, <1>10, <2>1, <2>2 DEF a
<1>11. CASE ~ a.threw /\ v.kind \in {"gloss", "integrity"}
  <2>1. a.value = e.gloss[v.tree]
    BY <1>3, <1>11 DEF Verify
  <2>2. Expected(v, e) = Value(e.gloss[v.tree])
    BY <1>11 DEF Expected, GlossAnswer
  <2> QED
    BY <1>4, <1>6, <1>11, <2>1, <2>2 DEF a
<1>12. CASE ~ a.threw /\ v.kind \in {"rate", "within"}
  <2>1. a.value = IF v.kind = "rate" THEN 1 - e.eval[v.tree] ELSE e.eval[v.tree]
    BY <1>3, <1>12 DEF Verify, VerifyModifier
  <2>2. Expected(v, e) = Value(IF v.kind = "rate" THEN 1 - e.eval[v.tree] ELSE e.eval[v.tree])
    BY <1>12 DEF Expected, ModifierAnswer
  <2> QED
    BY <1>4, <1>6, <1>12, <2>1, <2>2 DEF a
<1> QED
  BY <1>1, <1>5, <1>7, <1>8, <1>9, <1>10, <1>11, <1>12 DEF Kinds

(***************************************************************************)
(* The invariant.                                                          *)
(***************************************************************************)
LEMMA Written ==
    ASSUME NEW defs \in Revisions, NEW e \in Engines
    PROVE  VectorsOf(defs, e) \in AllVectors /\ AnswersOf(defs, e) \in AllAnswers
  BY DEF AllVectors, AllAnswers

LEMMA InvInit == Init => IInv
<1> SUFFICES ASSUME Init PROVE IInv
  OBVIOUS
<1> USE DEF Init
<1>1. vectors \in AllVectors
  BY ExpressionLayerAssumption, Written
<1>2. changes \in 0..MaxChanges
  BY ExpressionLayerAssumption
<1>3. TypeOK
  BY <1>1, <1>2 DEF TypeOK
<1>4. PassInv
  BY DEF PassInv
<1> QED
  BY <1>3, <1>4 DEF IInv

\* The types of everything but what is changed by a step of the generator or
\* a verifier.
LEMMA ChangeStep == ASSUME IInv, Edit \/ Install PROVE IInv'
<1>1. TypeOK
  BY DEF IInv
<1>2. /\ source' \in Revisions /\ engine' \in Engines
      /\ changes < MaxChanges /\ changes' = changes + 1
      /\ UNCHANGED <<vectors, answers, generator, reader, passed>>
  BY <1>1 DEF Edit, Install, TypeOK
<1>3. changes' \in 0..MaxChanges
  <2>1. MaxChanges \in Nat
    BY ExpressionLayerAssumption
  <2>2. changes \in 0..MaxChanges
    BY <1>1 DEF TypeOK
  <2> QED
    BY <1>2, <2>1, <2>2
<1>4. TypeOK'
  BY <1>1, <1>2, <1>3 DEF TypeOK
<1> QED
  BY <1>2, <1>4 DEF IInv, PassInv

LEMMA GeneratorStep ==
    ASSUME IInv, StartGenerator \/ RenameVectors \/ RenameAnswers \/ Crash
    PROVE  IInv'
<1>1. TypeOK /\ (generator # None => generator \in Generators)
  BY DEF IInv
<1>2. /\ UNCHANGED <<source, engine, reader, passed, changes>>
      /\ vectors' \in AllVectors
      /\ answers' \in AllAnswers \cup {None}
      /\ generator' # None => generator' \in Generators
  <2>1. CASE StartGenerator
    BY <1>1, <2>1 DEF StartGenerator, TypeOK, Generators
  <2>2. CASE RenameVectors
    <3>1. generator \in Generators /\ generator.defs \in Revisions /\ generator.engine \in Engines
      BY <1>1, <2>2 DEF RenameVectors, Generators
    <3>2. [generator EXCEPT !.step = "answers"] \in Generators
      BY <3>1 DEF Generators
    <3> QED
      BY <1>1, <2>2, <3>1, <3>2, Written DEF RenameVectors, TypeOK
  <2>3. CASE RenameAnswers
    <3>1. generator.defs \in Revisions /\ generator.engine \in Engines
      BY <1>1, <2>3 DEF RenameAnswers, Generators
    <3> QED
      BY <1>1, <2>3, <3>1, Written DEF RenameAnswers, TypeOK
  <2>4. CASE Crash
    BY <1>1, <2>4 DEF Crash, TypeOK
  <2> QED
    BY <2>1, <2>2, <2>3, <2>4
<1>3. generator' # None => generator'.step \in {"vectors", "answers"}
  BY <1>2 DEF Generators
<1>4. TypeOK'
  BY <1>1, <1>2, <1>3 DEF TypeOK
<1>5. PassInv'
  BY <1>2 DEF IInv, PassInv
<1> QED
  BY <1>2, <1>4, <1>5 DEF IInv

LEMMA ReaderStep == ASSUME IInv, StartReader \/ ReadAnswers \/ Judge PROVE IInv'
<1>1. TypeOK /\ (reader # None => reader \in Readers) /\ PassInv
      /\ (generator # None => generator \in Generators)
  BY DEF IInv
<1>2. UNCHANGED <<source, engine, vectors, answers, generator, changes>>
  BY DEF StartReader, ReadAnswers, Judge
<1>3. reader' # None => reader' \in Readers
  <2>1. CASE StartReader
    BY <1>1, <2>1 DEF StartReader, TypeOK, Readers
  <2>2. CASE ReadAnswers
    <3>1. reader \in Readers /\ answers \in AllAnswers \cup {None}
      BY <1>1, <2>2 DEF ReadAnswers, TypeOK
    <3>2. [reader EXCEPT !.answers = answers] \in Readers
      BY <3>1 DEF Readers
    <3> QED
      BY <2>2, <3>2 DEF ReadAnswers
  <2>3. CASE Judge
    BY <2>3 DEF Judge
  <2> QED
    BY <2>1, <2>2, <2>3
<1>4. reader' # None => reader'.program \in Programs
  BY <1>3 DEF Readers
<1>5. TypeOK'
  BY <1>1, <1>2, <1>4 DEF TypeOK
<1>6. PassInv'
  <2>1. CASE StartReader \/ ReadAnswers
    BY <1>1, <2>1 DEF StartReader, ReadAnswers, PassInv
  <2>2. CASE Judge
    <3> DEFINE p == reader.program
               found == [engine |-> reader.engine, vectors |-> reader.vectors,
                         answers |-> reader.answers]
    <3>1. /\ reader # None /\ reader.answers # None
          /\ passed' = [passed EXCEPT ![p] =
                IF Exits0(p, reader.vectors, reader.answers, reader.engine) THEN found ELSE None]
      BY <2>2 DEF Judge
    <3>2. reader \in Readers /\ p \in Programs /\ reader.answers \in AllAnswers
          /\ reader.engine \in Engines /\ reader.vectors \in AllVectors
      BY <1>1, <3>1 DEF Readers
    <3>3. found \in Passes
      BY <3>2 DEF Passes
    <3>4. found.engine = reader.engine /\ found.vectors = reader.vectors
          /\ found.answers = reader.answers
      OBVIOUS
    <3>5. passed \in [Programs -> Passes \cup {None}]
      BY <1>1 DEF PassInv
    <3> HIDE DEF p, found
    <3>6. passed' \in [Programs -> Passes \cup {None}]
      BY <3>1, <3>2, <3>3, <3>5
    <3>7. ASSUME NEW q \in Programs, passed'[q] # None
          PROVE  Exits0(q, passed'[q].vectors, passed'[q].answers, passed'[q].engine)
      <4>1. CASE q = p
        <5>1. Exits0(p, reader.vectors, reader.answers, reader.engine) /\ passed'[p] = found
          BY <3>1, <3>2, <3>5, <3>7, <4>1
        <5> QED
          BY <3>4, <4>1, <5>1
      <4>2. CASE q # p
        <5>1. passed'[q] = passed[q]
          BY <3>1, <3>5, <4>2
        <5> QED
          BY <1>1, <3>7, <5>1 DEF PassInv
      <4> QED
        BY <4>1, <4>2
    <3> QED
      BY <3>6, <3>7 DEF PassInv, Exits0, Full, Second, Detected, Outcome, Tampered, Verify,
         Evaluates, VerifyConstraint, VerifyProjection, VerifyCompiled, VerifyModifier
  <2> QED
    BY <2>1, <2>2
<1> QED
  BY <1>1, <1>2, <1>3, <1>5, <1>6 DEF IInv

LEMMA InvStep == IInv /\ [Next]_vars => IInv'
<1> SUFFICES ASSUME IInv, [Next]_vars PROVE IInv'
  OBVIOUS
<1>1. CASE Next
  BY <1>1, ChangeStep, GeneratorStep, ReaderStep DEF Next
<1>2. CASE UNCHANGED vars
  <2>1. UNCHANGED <<source, engine, vectors, answers, generator, reader, passed, changes>>
    BY <1>2 DEF vars
  <2>2. TypeOK' /\ PassInv'
    BY <2>1 DEF IInv, TypeOK, PassInv
  <2> QED
    BY <2>1, <2>2 DEF IInv
<1> QED
  BY <1>1, <1>2

\* The invariant holds in every reachable state.
THEOREM Inductive == Spec => []IInv
  BY InvInit, InvStep, PTL DEF Spec

(***************************************************************************)
(* The theorems.                                                           *)
(***************************************************************************)
LEMMA FullPassed ==
    ASSUME IInv, passed["full"] # None, NEW v \in passed["full"].vectors
    PROVE  LET e == passed["full"].engine
               a == passed["full"].answers[v.id]
           IN  /\ a = Expected(Marked(v, a), e)
               /\ a.threw => v.kind = "constraint" /\ a.value = NoValue
               /\ a.value = NoValue => e.eval[v.tree] = Throws
               /\ v.kind = "compile" => v.tree = e.compile[v.simple]
               /\ v.kind = "projection" => e.eval[v.other] = e.eval[v.tree]
               /\ v.kind \in {"node", "constraint"} /\ ~ a.threw => a.value = e.eval[v.tree]
               /\ v.tree \in Trees
               /\ v.sensitive => v.kind \in {"node", "constraint"}
<1>1. "full" \in Programs
  BY DEF Programs
<1>2. PassInv
  BY DEF IInv
<1>3. passed["full"] \in Passes
      /\ Exits0("full", passed["full"].vectors, passed["full"].answers, passed["full"].engine)
  BY <1>1, <1>2 DEF PassInv
<1> DEFINE vs == passed["full"].vectors
           ans == passed["full"].answers
           e  == passed["full"].engine
<1>4. vs \in AllVectors /\ ans \in AllAnswers /\ e \in Engines
  BY <1>3 DEF Passes
<1>5. v.id \in DOMAIN ans /\ Verify(v, e, ans[v.id])
  BY <1>3 DEF Exits0, Full
<1>6. v \in vs
  OBVIOUS
<1> HIDE DEF vs, ans, e
<1> DEFINE a == ans[v.id]
<1>7. /\ a = Expected(Marked(v, a), e)
      /\ a.threw => v.kind = "constraint"
      /\ a.value = NoValue => e.eval[v.tree] = Throws
      /\ v.kind = "compile" => v.tree = e.compile[v.simple]
      /\ v.kind = "projection" => e.eval[v.other] = e.eval[v.tree]
      /\ v.kind \in {"node", "constraint"} /\ ~ a.threw => a.value = e.eval[v.tree]
  BY <1>4, <1>5, <1>6, Accepted
<1>8. a.threw => a.value = NoValue
  BY <1>4, <1>5, AnswerShape
<1>9. v.tree \in Trees /\ (v.sensitive => v.kind \in {"node", "constraint"})
  BY <1>4, <1>6, VectorsType
<1> QED
  BY <1>7, <1>8, <1>9 DEF vs, ans, e

\* Files are whole and of one generation each (ExpressionLayer, TypeOK).
THEOREM TypeCorrect == Spec => []TypeOK
<1>1. IInv => TypeOK
  BY DEF IInv
<1> QED
  BY <1>1, Inductive, PTL

\* verify-v-engine-full.mjs exits 0 only for the answers the generator would
\* write of these vectors, marked as the answers say, with the engine that
\* verified them.
THEOREM Fresh == Spec => []PassMeansFresh
<1>1. IInv => PassMeansFresh
  BY FullPassed DEF PassMeansFresh
<1> QED
  BY <1>1, Inductive, PTL

\* It exits 0 only for an engine that keeps every limit the answers are for.
THEOREM Limits == Spec => []LimitsEnforced
<1>1. IInv => LimitsEnforced
  BY FullPassed DEF LimitsEnforced
<1> QED
  BY <1>1, Inductive, PTL

\* For files of one revision these are all the limits the revision marks,
\* whatever engines compiled the vectors and wrote the answers.
THEOREM MarkedLimits == Spec => []MarkedLimitsEnforced
<1>1. IInv => MarkedLimitsEnforced
  <2> SUFFICES ASSUME IInv, passed["full"] # None,
                      NEW defs \in Revisions, NEW f \in Engines, NEW g \in Engines,
                      passed["full"].vectors = VectorsOf(defs, f),
                      passed["full"].answers = AnswersOf(defs, g),
                      NEW d \in defs, d.kind = "limit"
               PROVE  passed["full"].engine.eval[d.tree] = Throws
    BY DEF MarkedLimitsEnforced
  <2>1. d \in Definitions /\ Published(d, f) = d /\ Published(d, g) = d
    BY DefinitionsAssumption DEF Published
  <2> DEFINE v == Unmarked(d)
  <2>2. v \in passed["full"].vectors
    BY <2>1 DEF VectorsOf
  <2>3. v.id = d.id /\ v.tree = d.tree
    BY <2>1 DEF Unmarked, Definitions
  <2> HIDE DEF v
  <2>4. (CHOOSE c \in defs : c.id = d.id) = d
    BY DefinitionsAssumption
  <2>5. passed["full"].answers[d.id] = Expected(d, g)
    <3> DEFINE found(id) == CHOOSE c \in defs : c.id = id
    <3>1. passed["full"].answers =
              [id \in {c.id : c \in defs} |-> Expected(Published(found(id), g), g)]
      BY DEF AnswersOf
    <3>2. found(d.id) = d /\ d.id \in {c.id : c \in defs}
      BY <2>4
    <3> HIDE DEF found
    <3> QED
      BY <2>1, <3>1, <3>2
  <2>6. passed["full"].answers[v.id].value = NoValue
    BY <2>1, <2>3, <2>5, ExpectedShape
  <2> QED
    BY <2>2, <2>3, <2>6, FullPassed
<1> QED
  BY <1>1, Inductive, PTL

\* It exits 0 only when both writings of every projection evaluate alike.
THEOREM Projections == Spec => []ProjectionsAgree
<1>1. IInv => ProjectionsAgree
  BY FullPassed DEF ProjectionsAgree
<1> QED
  BY <1>1, Inductive, PTL

\* An engine that the full verifier and the second source pass on the same
\* files evaluates the sensitive trees as the second source does.
THEOREM Sensitive == Spec => []SensitiveAsSpecified
<1>1. IInv => SensitiveAsSpecified
  <2> SUFFICES ASSUME IInv, passed["full"] # None, passed["second"] # None,
                      passed["full"].vectors = passed["second"].vectors,
                      passed["full"].answers = passed["second"].answers,
                      NEW v \in passed["full"].vectors, v.sensitive
               PROVE  passed["full"].engine.eval[v.tree] = Truth[v.tree]
    BY DEF SensitiveAsSpecified
  <2> DEFINE a == passed["full"].answers[v.id]
  <2>1. /\ a.threw => a.value = NoValue
        /\ ~ a.threw => a.value = passed["full"].engine.eval[v.tree]
        /\ v.tree \in Trees
    BY FullPassed
  <2>2. "second" \in Programs /\ PassInv
    BY DEF Programs, IInv
  <2>3. Exits0("second", passed["second"].vectors, passed["second"].answers,
               passed["second"].engine)
    BY <2>2 DEF PassInv
  <2>4. a.value = Truth[v.tree]
    BY <2>3 DEF Exits0, Second
  <2>5. Truth[v.tree] # NoValue
    BY <2>1, EnginesAssumption
  <2> QED
    BY <2>1, <2>4, <2>5
<1> QED
  BY <1>1, Inductive, PTL

\* The reverse verifier exits 0 only for an engine with different outcomes, or
\* different messages of exceptions, on two trees.
THEOREM Discriminates == Spec => []ConstantEngineFound
<1>1. IInv => ConstantEngineFound
  <2> SUFFICES ASSUME IInv, passed["reverse"] # None
               PROVE  \E t, u \in DOMAIN Truth :
                          Outcome(passed["reverse"].engine, t) # Outcome(passed["reverse"].engine, u)
    BY DEF ConstantEngineFound
  <2>1. "reverse" \in Programs /\ PassInv
    BY DEF Programs, IInv
  <2> DEFINE vs == passed["reverse"].vectors
             ans == passed["reverse"].answers
             e  == passed["reverse"].engine
  <2>2. Exits0("reverse", vs, ans, e) /\ passed["reverse"] \in Passes
    BY <2>1 DEF PassInv
  <2>3. vs \in AllVectors
    BY <2>2 DEF Passes
  <2>4. Cardinality(Detected(vs, ans, e)) >= Threshold
    BY <2>2 DEF Exits0
  <2>5. Detected(vs, ans, e) # {}
    <3>1. Threshold \in Nat \ {0}
      BY ExpressionLayerAssumption
    <3>2. Cardinality({}) = 0
      BY FS_EmptySet
    <3> DEFINE D == Detected(vs, ans, e)
    <3>3. Cardinality(D) >= Threshold
      BY <2>4
    <3> HIDE DEF D
    <3>4. D # {}
      BY <3>1, <3>2, <3>3
    <3> QED
      BY <3>4 DEF D
  <2>6. PICK v \in vs : Outcome(e, Tamper[v.tree]) # Outcome(e, v.tree)
    BY <2>5 DEF Detected, Tampered
  <2>7. v.tree \in Trees /\ Tamper[v.tree] \in Trees
    <3> HIDE DEF vs
    <3> QED
      BY <2>3, VectorsType, EnginesAssumption
  <2> QED
    BY <2>6, <2>7 DEF Trees
<1> QED
  BY <1>1, Inductive, PTL

(***************************************************************************)
(* No false alarm.                                                         *)
(***************************************************************************)
\* Publishing keeps the id.
LEMMA SameId ==
    ASSUME NEW defs \in Revisions, NEW d \in defs, NEW e \in Engines
    PROVE  Published(d, e).id = d.id /\ Unmarked(Published(d, e)).id = d.id
<1> DEFINE p == Published(d, e)
<1>1. d \in Definitions /\ p \in Definitions
  BY DefinitionsAssumption
<1>2. p.id = d.id
  BY <1>1 DEF Published, Compiled, Projected, Definitions
<1> HIDE DEF p
<1>3. Unmarked(p).id = p.id
  BY <1>1 DEF Unmarked, Definitions
<1> QED
  BY <1>2, <1>3 DEF p

\* What the generator writes of a definition with a sound engine.
LEMMA WrittenOf ==
    ASSUME NEW defs \in Revisions, NEW vs, NEW ans, NEW e \in Engines,
           WrittenBy(defs, vs, ans, e), Sound(defs, e), NEW v \in vs
    PROVE  \E p \in Definitions :
               /\ v = Unmarked(p) /\ v.id \in DOMAIN ans /\ ans[v.id] = Expected(p, e)
               /\ p.kind \in {"node", "constraint", "compile", "projection"} =>
                      e.eval[p.tree] # Throws
               /\ p.kind = "compile" => p.tree = e.compile[p.simple]
               /\ p.kind = "limit" => e.eval[p.tree] = Throws
               /\ p.kind = "projection" => e.eval[p.other] = e.eval[p.tree]
               /\ p.kind = "integrity" => e.gloss[p.other] # e.gloss[p.tree]
<1>1. PICK d \in defs : v = Unmarked(Published(d, e))
  BY DEF WrittenBy, VectorsOf
<1> DEFINE p == Published(d, e)
<1>2. d \in Definitions /\ p \in Definitions /\ v.id = d.id
  BY <1>1, SameId, DefinitionsAssumption
<1>3. (CHOOSE c \in defs : c.id = v.id) = d
  BY <1>2, DefinitionsAssumption
<1>4. v.id \in DOMAIN ans /\ ans[v.id] = Expected(p, e)
  BY <1>2, <1>3 DEF WrittenBy, AnswersOf
<1>5. p.kind = d.kind
  BY <1>2 DEF Published, Compiled, Projected, Definitions
<1>6. p.kind \in {"node", "constraint", "compile", "projection"} => e.eval[p.tree] # Throws
  BY <1>5 DEF WrittenBy, Dies
<1>7. p.kind = "compile" => p.tree = e.compile[p.simple]
  BY <1>2, <1>5 DEF Published, Compiled, Definitions
<1>8. /\ p.kind = "limit" => e.eval[p.tree] = Throws
      /\ p.kind = "projection" => e.eval[p.other] = e.eval[p.tree]
      /\ p.kind = "integrity" => e.gloss[p.other] # e.gloss[p.tree]
  BY DEF Sound
<1> HIDE DEF p
<1> QED
  BY <1>1, <1>2, <1>4, <1>6, <1>7, <1>8 DEF p

\* The full verifier, which computes every answer in its own way, finds it.
LEMMA Recognised ==
    ASSUME NEW defs \in Revisions, NEW vs, NEW ans, NEW e \in Engines,
           WrittenBy(defs, vs, ans, e), Sound(defs, e)
    PROVE  Full(vs, ans, e)
<1> SUFFICES ASSUME NEW v \in vs PROVE v.id \in DOMAIN ans /\ Verify(v, e, ans[v.id])
  BY DEF Full
<1>1. PICK p \in Definitions :
          /\ v = Unmarked(p) /\ v.id \in DOMAIN ans /\ ans[v.id] = Expected(p, e)
          /\ p.kind \in {"node", "constraint", "compile", "projection"} =>
                 e.eval[p.tree] # Throws
          /\ p.kind = "compile" => p.tree = e.compile[p.simple]
          /\ p.kind = "limit" => e.eval[p.tree] = Throws
          /\ p.kind = "projection" => e.eval[p.other] = e.eval[p.tree]
          /\ p.kind = "integrity" => e.gloss[p.other] # e.gloss[p.tree]
  BY WrittenOf
<1>2. p.kind \in Kinds
  BY DEF Definitions
<1>3. /\ p.kind = "limit" => v.kind = "constraint" /\ v.tree = p.tree
      /\ p.kind # "limit" => v = p
  BY <1>1 DEF Unmarked, Definitions
<1> DEFINE a == ans[v.id]
<1>4. a = Expected(p, e)
  BY <1>1
<1> HIDE DEF a
<1>5. CASE p.kind \in {"node", "constraint"}
  <2>1. a.value = e.eval[v.tree] /\ a.threw = FALSE /\ e.eval[v.tree] # Throws
    BY <1>1, <1>3, <1>4, <1>5 DEF Expected, NodeAnswer, ConstraintAnswer, Value
  <2> QED
    BY <1>1, <1>3, <1>5, <2>1 DEF a, Verify, VerifyConstraint, Evaluates
<1>6. CASE p.kind = "projection"
  <2>1. a.value = e.eval[v.tree]
    BY <1>3, <1>4, <1>6 DEF Expected, NodeAnswer, Value
  <2> QED
    BY <1>1, <1>3, <1>6, <2>1 DEF a, Verify, VerifyProjection, Evaluates
<1>7. CASE p.kind = "compile"
  <2>1. a.value = e.eval[v.tree]
    BY <1>3, <1>4, <1>7 DEF Expected, NodeAnswer, Value
  <2> QED
    BY <1>1, <1>3, <1>7, <2>1 DEF a, Verify, VerifyCompiled, Evaluates
<1>8. CASE p.kind = "limit"
  <2>1. a.threw = TRUE /\ e.eval[v.tree] = Throws /\ v.kind = "constraint"
    BY <1>1, <1>3, <1>4, <1>8 DEF Expected, ConstraintAnswer
  <2> QED
    BY <1>1, <2>1 DEF a, Verify, VerifyConstraint
<1>9. CASE p.kind \in {"exclusive", "gloss", "integrity"}
  <2>1. /\ v.kind = "exclusive" => a.value = (IF v.tree \in Exclusive THEN 1 ELSE 0)
        /\ v.kind \in {"gloss", "integrity"} => a.value = e.gloss[v.tree]
    BY <1>3, <1>4, <1>9 DEF Expected, ConstraintAnswer, GlossAnswer, Value
  <2> QED
    BY <1>1, <1>3, <1>9, <2>1 DEF a, Verify
<1>10. CASE p.kind \in {"rate", "within"}
  <2>1. a.value = IF v.kind = "rate" THEN 1 - e.eval[v.tree] ELSE e.eval[v.tree]
    BY <1>3, <1>4, <1>10 DEF Expected, ModifierAnswer, Value
  <2> QED
    BY <1>1, <1>3, <1>10, <2>1 DEF a, Verify, VerifyModifier
<1> QED
  BY <1>2, <1>5, <1>6, <1>7, <1>8, <1>9, <1>10 DEF Kinds

\* What the generator wrote with a sound engine passes with the same engine,
\* whatever was edited, installed or renamed while the verifier read it.
THEOREM NoFalseAlarm == Spec => FreshPasses
<1>1. ASSUME IInv, [Next]_vars, reader # None, reader' = None, reader.program = "full",
             NEW defs \in Revisions,
             WrittenBy(defs, reader.vectors, reader.answers, reader.engine),
             Sound(defs, reader.engine)
      PROVE  passed'["full"] # None
  <2>1. reader \in Readers /\ PassInv
    BY <1>1 DEF IInv
  <2>2. /\ reader.vectors \in AllVectors /\ reader.engine \in Engines
        /\ reader.answers \in AllAnswers \cup {None}
    BY <2>1 DEF Readers
  <2>3. Full(reader.vectors, reader.answers, reader.engine)
    BY <1>1, <2>2, Recognised
  <2>4. reader.answers # None
    BY <1>1, <2>2, NoneAssumption DEF WrittenBy
  <2>5. CASE Judge
    <3>1. Exits0("full", reader.vectors, reader.answers, reader.engine)
      BY <2>3 DEF Exits0
    <3>2. passed'["full"] = [engine |-> reader.engine, vectors |-> reader.vectors,
                             answers |-> reader.answers]
      BY <1>1, <2>1, <2>5, <3>1 DEF Judge, PassInv, Programs
    <3>3. passed'["full"] \in Passes
      BY <2>2, <2>4, <3>2 DEF Passes
    <3> QED
      BY <3>3, NoneAssumption
  <2>6. CASE ~ Judge
    BY <1>1, <2>4, <2>6
       DEF Next, vars, Edit, Install, StartGenerator, RenameVectors, RenameAnswers, Crash,
           StartReader, ReadAnswers
  <2> QED
    BY <2>5, <2>6
<1>2. IInv /\ [Next]_vars =>
          (/\ reader # None /\ reader' = None
           /\ reader.program = "full"
           /\ \E defs \in Revisions :
                  /\ WrittenBy(defs, reader.vectors, reader.answers, reader.engine)
                  /\ Sound(defs, reader.engine)
           => passed'["full"] # None)
  BY <1>1
<1> QED
  BY <1>2, Inductive, PTL DEF Spec, FreshPasses

-----------------------------------------------------------------------------
(***************************************************************************)
(* The calendar: years and months follow each other without gap, so every  *)
(* day is one day of one month.                                            *)
(***************************************************************************)
LEMMA YearLength ==
    ASSUME NEW y \in Int
    PROVE  /\ DayFromYear(y) \in Int
           /\ DayFromYear(y + 1) = DayFromYear(y) + 365 + (IF Leap(y) THEN 1 ELSE 0)
<1>1. /\ (y - 1968) \div 4 = (y - 1969) \div 4 + (IF y % 4 = 0 THEN 1 ELSE 0)
      /\ (y - 1969) \div 4 \in Int
  OBVIOUS
<1>2. /\ (y - 1900) \div 100 = (y - 1901) \div 100 + (IF y % 100 = 0 THEN 1 ELSE 0)
      /\ (y - 1901) \div 100 \in Int
  OBVIOUS
<1>3. /\ (y - 1600) \div 400 = (y - 1601) \div 400 + (IF y % 400 = 0 THEN 1 ELSE 0)
      /\ (y - 1601) \div 400 \in Int
  OBVIOUS
<1>4. y % 400 = 0 => y % 100 = 0 /\ y % 4 = 0
  OBVIOUS
<1>5. (y % 100 = 0 => y % 4 = 0)
  OBVIOUS
<1>6. /\ y + 1 - 1970 = y - 1970 + 1 /\ y + 1 - 1969 = y - 1968
      /\ y + 1 - 1901 = y - 1900 /\ y + 1 - 1601 = y - 1600
  OBVIOUS
<1> QED
  BY <1>1, <1>2, <1>3, <1>4, <1>5, <1>6 DEF DayFromYear, Leap

LEMMA YearsApart ==
    ASSUME NEW y \in Int, NEW z \in Int, y < z
    PROVE  DayFromYear(y) < DayFromYear(z)
  BY DEF DayFromYear

LEMMA YearFound ==
    ASSUME NEW d \in Int, NEW g \in Int, g = 1970 + ((d * 400) \div 146097)
    PROVE  DayFromYear(g - 1) <= d /\ d < DayFromYear(g + 2)
  BY DEF DayFromYear

LEMMA DaysType ==
    ASSUME NEW y \in Int, NEW m \in 0..12
    PROVE  DaysBefore(y, m) \in Nat
<1>1. m \in {0, 1, 2, 3, 4, 5, 6, 7, 8, 9, 10, 11, 12}
  OBVIOUS
<1> QED
  BY <1>1 DEF DaysBefore

\* The first of March comes after 59 or 60 days; every month has 28 to 31 days.
LEMMA MonthLengths ==
    ASSUME NEW y \in Int, NEW m \in 0..11
    PROVE  /\ DaysBefore(y, 0) = 0
           /\ DaysBefore(y, 12) = 365 + (IF Leap(y) THEN 1 ELSE 0)
           /\ DaysBefore(y, m + 1) >= DaysBefore(y, m) + 28
           /\ DaysBefore(y, m + 1) <= DaysBefore(y, m) + 31
           /\ m # 1 => DaysBefore(y, m + 1) >= DaysBefore(y, m) + 30
           /\ m = 1 => DaysBefore(y, m + 1) = DaysBefore(y, m) + 28 + (IF Leap(y) THEN 1 ELSE 0)
<1>1. m \in {0, 1, 2, 3, 4, 5, 6, 7, 8, 9, 10, 11}
  OBVIOUS
<1> QED
  BY <1>1 DEF DaysBefore

LEMMA MonthsApart ==
    ASSUME NEW y \in Int, NEW m \in 0..12, NEW k \in 0..12, m < k
    PROVE  DaysBefore(y, m) < DaysBefore(y, k)
<1>1. m \in {0, 1, 2, 3, 4, 5, 6, 7, 8, 9, 10, 11, 12} /\ k \in {0, 1, 2, 3, 4, 5, 6, 7, 8, 9, 10, 11, 12}
  OBVIOUS
<1> QED
  BY <1>1 DEF DaysBefore

LEMMA MonthFound ==
    ASSUME NEW y \in Int, NEW d \in Nat, d < DaysBefore(y, 12)
    PROVE  \E m \in 0..11 : DaysBefore(y, m) <= d /\ d < DaysBefore(y, m + 1)
<1>1. SUFFICES ASSUME \A m \in 0..11 : DaysBefore(y, m) <= d => DaysBefore(y, m + 1) <= d
               PROVE  FALSE
  <2>1. ASSUME NEW m \in 0..11 PROVE DaysBefore(y, m + 1) \in Nat
    <3>1. m + 1 \in 0..12
      OBVIOUS
    <3> QED
      BY <3>1, DaysType
  <2> QED
    BY <2>1
<1>2. DaysBefore(y, 0) <= d
  BY MonthLengths
<1>3. /\ DaysBefore(y, 1) <= d /\ DaysBefore(y, 2) <= d /\ DaysBefore(y, 3) <= d
      /\ DaysBefore(y, 4) <= d /\ DaysBefore(y, 5) <= d /\ DaysBefore(y, 6) <= d
  BY <1>1, <1>2
<1>4. /\ DaysBefore(y, 7) <= d /\ DaysBefore(y, 8) <= d /\ DaysBefore(y, 9) <= d
      /\ DaysBefore(y, 10) <= d /\ DaysBefore(y, 11) <= d /\ DaysBefore(y, 12) <= d
  BY <1>1, <1>3
<1>5. DaysBefore(y, 12) \in Nat
  BY DaysType
<1> QED
  BY <1>4, <1>5

\* The calendar reads an instant as the year, month and day that MakeDay puts there.
LEMMA YearIs ==
    ASSUME NEW t \in Int, NEW y \in Int,
           DayFromYear(y) <= DayOf(t), DayOf(t) < DayFromYear(y + 1)
    PROVE  YearOf(t) = y
<1> DEFINE d == DayOf(t)
           g == 1970 + ((DayOf(t) * 400) \div 146097)
<1>1. d \in Int /\ g \in Int
  BY DEF DayOf, DayMinutes
<1>2. YearOf(t) = CHOOSE z \in (g - 1)..(g + 1) :
                      DayFromYear(z) <= d /\ d < DayFromYear(z + 1)
  BY DEF YearOf
<1>3. /\ g = 1970 + ((d * 400) \div 146097)
      /\ DayFromYear(y) <= d /\ d < DayFromYear(y + 1)
  OBVIOUS
<1> HIDE DEF d, g
<1>4. DayFromYear(g - 1) <= d /\ d < DayFromYear(g + 2)
  BY <1>1, <1>3, YearFound
<1>5. \A z \in Int : DayFromYear(z) \in Int
  BY YearLength
<1>6. y \in (g - 1)..(g + 1)
  <2>1. ~ (y < g - 1)
    <3>1. SUFFICES ASSUME y < g - 1 PROVE FALSE
      OBVIOUS
    <3>2. y + 1 = g - 1 \/ y + 1 < g - 1
      BY <1>1, <3>1
    <3>3. DayFromYear(y + 1) <= DayFromYear(g - 1)
      BY <1>1, <1>5, <3>2, YearsApart
    <3> QED
      BY <1>1, <1>4, <1>5, <1>3, <3>3
  <2>2. ~ (g + 1 < y)
    <3>1. SUFFICES ASSUME g + 1 < y PROVE FALSE
      OBVIOUS
    <3>2. g + 2 = y \/ g + 2 < y
      BY <1>1, <3>1
    <3>3. DayFromYear(g + 2) <= DayFromYear(y)
      BY <1>1, <1>5, <3>2, YearsApart
    <3> QED
      BY <1>1, <1>4, <1>5, <1>3, <3>3
  <2> QED
    BY <1>1, <2>1, <2>2
<1>7. ASSUME NEW z \in (g - 1)..(g + 1),
             DayFromYear(z) <= d, d < DayFromYear(z + 1)
      PROVE  z = y
  <2>1. z \in Int
    BY <1>1
  <2>2. ~ (z < y)
    <3>1. SUFFICES ASSUME z < y PROVE FALSE
      OBVIOUS
    <3>2. z + 1 = y \/ z + 1 < y
      BY <2>1, <3>1
    <3>3. DayFromYear(z + 1) <= DayFromYear(y)
      BY <1>5, <2>1, <3>2, YearsApart
    <3> QED
      BY <1>1, <1>5, <1>7, <1>3, <2>1, <3>3
  <2>3. ~ (y < z)
    <3>1. SUFFICES ASSUME y < z PROVE FALSE
      OBVIOUS
    <3>2. y + 1 = z \/ y + 1 < z
      BY <2>1, <3>1
    <3>3. DayFromYear(y + 1) <= DayFromYear(z)
      BY <1>5, <2>1, <3>2, YearsApart
    <3> QED
      BY <1>1, <1>5, <1>7, <1>3, <2>1, <3>3
  <2> QED
    BY <2>1, <2>2, <2>3
<1> QED
  BY <1>6, <1>7, <1>2, <1>3

LEMMA YearExists ==
    ASSUME NEW d \in Int
    PROVE  \E y \in Int : DayFromYear(y) <= d /\ d < DayFromYear(y + 1)
<1> DEFINE g == 1970 + ((d * 400) \div 146097)
<1>1. g \in Int /\ DayFromYear(g - 1) <= d /\ d < DayFromYear(g + 2)
  BY YearFound
<1>2. \A z \in Int : DayFromYear(z) \in Int
  BY YearLength
<1> HIDE DEF g
<1>3. CASE d < DayFromYear(g)
  <2>1. g - 1 \in Int /\ (g - 1) + 1 = g
    BY <1>1
  <2> QED
    BY <1>1, <1>3, <2>1
<1>4. CASE ~ (d < DayFromYear(g)) /\ d < DayFromYear(g + 1)
  BY <1>1, <1>2, <1>4
<1>5. CASE ~ (d < DayFromYear(g)) /\ ~ (d < DayFromYear(g + 1))
  <2>1. g + 1 \in Int /\ (g + 1) + 1 = g + 2
    BY <1>1
  <2>2. DayFromYear(g + 1) <= d
    BY <1>2, <1>5, <2>1
  <2> QED
    BY <1>1, <2>1, <2>2
<1> QED
  BY <1>3, <1>4, <1>5

MonthDays(y, m) == DaysBefore(y, m + 1) - DaysBefore(y, m)

LEMMA MonthType ==
    ASSUME NEW y \in Int, NEW m \in 0..11
    PROVE  /\ DayFromYear(y) \in Int /\ DaysBefore(y, m) \in Nat /\ DaysBefore(y, m + 1) \in Nat
           /\ MonthDays(y, m) \in 28..31
<1>1. m \in 0..12 /\ m + 1 \in 0..12
  OBVIOUS
<1>2. DayFromYear(y) \in Int /\ DaysBefore(y, m) \in Nat /\ DaysBefore(y, m + 1) \in Nat
  BY <1>1, YearLength, DaysType
<1>3. MonthDays(y, m) \in 28..31
  BY <1>2, MonthLengths DEF MonthDays
<1> QED
  BY <1>2, <1>3

LEMMA MakeDayIs ==
    ASSUME NEW y \in Int, NEW m \in 0..11, NEW k \in Int
    PROVE  MakeDay(y, m, k) = DayFromYear(y) + DaysBefore(y, m) + k - 1
<1>1. m \div 12 = 0 /\ m % 12 = m
  OBVIOUS
<1>2. y + m \div 12 = y
  BY <1>1
<1> QED
  BY <1>1, <1>2 DEF MakeDay

LEMMA Placed ==
    ASSUME NEW t \in Int, NEW y \in Int, NEW m \in 0..11, NEW k \in 1..MonthDays(y, m),
           DayOf(t) = MakeDay(y, m, k)
    PROVE  YearOf(t) = y /\ MonthOf(t) = m /\ DateOf(t) = k
<1>1. /\ k \in Int /\ MonthDays(y, m) \in 28..31 /\ DayFromYear(y) \in Int
      /\ DaysBefore(y, m) \in Nat /\ DaysBefore(y, m + 1) \in Nat
  <2>1. /\ MonthDays(y, m) \in 28..31 /\ DayFromYear(y) \in Int
        /\ DaysBefore(y, m) \in Nat /\ DaysBefore(y, m + 1) \in Nat
    BY MonthType
  <2>2. k \in Int
    BY <2>1
  <2> QED
    BY <2>1, <2>2
<1>2. DayOf(t) = DayFromYear(y) + DaysBefore(y, m) + k - 1
  BY <1>1, MakeDayIs
<1>3. DaysBefore(y, m + 1) <= DaysBefore(y, 12) /\ DaysBefore(y, 12) \in Nat
  <2>1. DaysBefore(y, 12) \in Nat
    BY DaysType
  <2>2. m + 1 = 12 \/ m + 1 < 12
    OBVIOUS
  <2>3. CASE m + 1 < 12
    <3>1. m + 1 \in 0..12 /\ 12 \in 0..12
      OBVIOUS
    <3> QED
      BY <1>1, <2>1, <2>3, <3>1, MonthsApart
  <2> QED
    BY <1>1, <2>1, <2>2, <2>3
<1>4. DayFromYear(y + 1) = DayFromYear(y) + DaysBefore(y, 12)
  <2>1. DayFromYear(y + 1) = DayFromYear(y) + 365 + (IF Leap(y) THEN 1 ELSE 0)
    BY YearLength
  <2>2. DaysBefore(y, 12) = 365 + (IF Leap(y) THEN 1 ELSE 0)
    BY MonthLengths
  <2> QED
    BY <1>1, <2>1, <2>2
<1>5. YearOf(t) = y
  <2>1. DayFromYear(y) <= DayOf(t) /\ DayOf(t) < DayFromYear(y + 1)
    BY <1>1, <1>2, <1>3, <1>4 DEF MonthDays
  <2> QED
    BY <2>1, YearIs
<1>6. MonthOf(t) = m
  <2>1. /\ DayFromYear(y) + DaysBefore(y, m) <= DayOf(t)
        /\ DayOf(t) < DayFromYear(y) + DaysBefore(y, m + 1)
    BY <1>1, <1>2 DEF MonthDays
  <2>2. ASSUME NEW z \in 0..11,
               DayFromYear(y) + DaysBefore(y, z) <= DayOf(t),
               DayOf(t) < DayFromYear(y) + DaysBefore(y, z + 1)
        PROVE  z = m
    <3>1. /\ z \in 0..12 /\ z + 1 \in 0..12 /\ m \in 0..12 /\ m + 1 \in 0..12
          /\ DaysBefore(y, z) \in Nat /\ DaysBefore(y, z + 1) \in Nat
      <4>1. z \in 0..12 /\ z + 1 \in 0..12 /\ m \in 0..12 /\ m + 1 \in 0..12
        OBVIOUS
      <4> QED
        BY <4>1, DaysType
    <3>2. CASE z < m
      <4>1. z + 1 = m \/ z + 1 < m
        BY <3>2
      <4>2. DaysBefore(y, z + 1) <= DaysBefore(y, m)
        BY <1>1, <3>1, <4>1, MonthsApart
      <4> QED
        BY <1>1, <1>2, <2>1, <2>2, <3>1, <4>2
    <3>3. CASE m < z
      <4>1. m + 1 = z \/ m + 1 < z
        BY <3>3
      <4>2. DaysBefore(y, m + 1) <= DaysBefore(y, z)
        BY <1>1, <3>1, <4>1, MonthsApart
      <4> QED
        BY <1>1, <1>2, <2>1, <2>2, <3>1, <4>2
    <3> QED
      BY <3>2, <3>3
  <2>3. MonthOf(t) = CHOOSE z \in 0..11 :
                         /\ DayFromYear(y) + DaysBefore(y, z) <= DayOf(t)
                         /\ DayOf(t) < DayFromYear(y) + DaysBefore(y, z + 1)
    BY <1>5 DEF MonthOf
  <2> QED
    BY <2>1, <2>2, <2>3
<1>7. DateOf(t) = k
  <2>1. MakeDay(y, m, 1) = DayFromYear(y) + DaysBefore(y, m) + 1 - 1
    <3>1. 1 \in Int
      OBVIOUS
    <3> QED
      BY <3>1, MakeDayIs, Zenon
  <2> QED
    BY <1>1, <1>2, <1>5, <1>6, <2>1 DEF DateOf
<1> QED
  BY <1>5, <1>6, <1>7

\* Every instant has a year, a month and a day of that month.
LEMMA Split ==
    ASSUME NEW t \in Int
    PROVE  /\ YearOf(t) \in Int /\ MonthOf(t) \in 0..11
           /\ DateOf(t) \in 1..MonthDays(YearOf(t), MonthOf(t))
           /\ DayOf(t) = MakeDay(YearOf(t), MonthOf(t), DateOf(t))
<1>1. DayOf(t) \in Int
  BY DEF DayOf, DayMinutes
<1>2. PICK y \in Int : DayFromYear(y) <= DayOf(t) /\ DayOf(t) < DayFromYear(y + 1)
  BY <1>1, YearExists
<1>3. DayFromYear(y) \in Int /\ DaysBefore(y, 12) \in Nat
  BY YearLength, DaysType
<1>4. DayFromYear(y + 1) = DayFromYear(y) + DaysBefore(y, 12)
  <2>1. DayFromYear(y + 1) = DayFromYear(y) + 365 + (IF Leap(y) THEN 1 ELSE 0)
    BY YearLength
  <2>2. DaysBefore(y, 12) = 365 + (IF Leap(y) THEN 1 ELSE 0)
    BY MonthLengths
  <2> QED
    BY <1>3, <2>1, <2>2
<1> DEFINE d == DayOf(t) - DayFromYear(y)
<1>5. d \in Nat /\ d < DaysBefore(y, 12)
  BY <1>1, <1>2, <1>3, <1>4
<1>6. PICK m \in 0..11 : DaysBefore(y, m) <= d /\ d < DaysBefore(y, m + 1)
  <2> HIDE DEF d
  <2> QED
    BY <1>5, MonthFound
<1> DEFINE k == d - DaysBefore(y, m) + 1
<1>7. DaysBefore(y, m) \in Nat /\ DaysBefore(y, m + 1) \in Nat
  BY MonthType
<1>8. k \in 1..MonthDays(y, m)
  BY <1>5, <1>6, <1>7 DEF MonthDays
<1>9. DayOf(t) = MakeDay(y, m, k)
  <2>1. k \in Int
    BY <1>5, <1>7
  <2>2. MakeDay(y, m, k) = DayFromYear(y) + DaysBefore(y, m) + k - 1
    BY <2>1, MakeDayIs
  <2> QED
    BY <1>1, <1>3, <1>7, <2>2
<1> HIDE DEF d, k
<1>10. YearOf(t) = y /\ MonthOf(t) = m /\ DateOf(t) = k
  BY <1>8, <1>9, Placed
<1> QED
  BY <1>8, <1>9, <1>10

LEMMA AtIs ==
    ASSUME NEW t \in Int, NEW d \in Int
    PROVE  At(t, d) \in Int /\ DayOf(At(t, d)) = d /\ At(t, d) % DayMinutes = t % DayMinutes
<1> DEFINE m == t % 1440
<1>1. m \in 0..1439
  OBVIOUS
<1> HIDE DEF m
<1>2. d * 1440 + m \in Int /\ (d * 1440 + m) \div 1440 = d /\ (d * 1440 + m) % 1440 = m
  BY <1>1
<1>3. At(t, d) = d * 1440 + m /\ t % DayMinutes = m /\ DayMinutes = 1440
  BY DEF At, DayMinutes, m
<1> QED
  BY <1>2, <1>3 DEF DayOf

LEMMA MakeDayMoves ==
    ASSUME NEW y \in Int, NEW m \in Int, NEW k \in Int
    PROVE  MakeDay(y, m, k) = MakeDay(y + (m \div 12), m % 12, k)
<1>1. y + (m \div 12) \in Int /\ m % 12 \in 0..11
  OBVIOUS
<1>2. MakeDay(y + (m \div 12), m % 12, k) =
          DayFromYear(y + (m \div 12)) + DaysBefore(y + (m \div 12), m % 12) + k - 1
  BY <1>1, MakeDayIs
<1> QED
  BY <1>1, <1>2 DEF MakeDay

\* The days of a month run over into the next one.
LEMMA RunsOver ==
    ASSUME NEW y \in Int, NEW m \in 0..11, NEW k \in Int
    PROVE  MakeDay(y, m + 1, k) = MakeDay(y, m, MonthDays(y, m) + k)
<1>1. /\ DayFromYear(y) \in Int /\ DaysBefore(y, m) \in Nat /\ DaysBefore(y, m + 1) \in Nat
      /\ MonthDays(y, m) \in 28..31
  BY MonthType
<1>2. MonthDays(y, m) + k \in Int
  BY <1>1
<1>3. MakeDay(y, m, MonthDays(y, m) + k) =
          DayFromYear(y) + DaysBefore(y, m) + (MonthDays(y, m) + k) - 1
  BY <1>2, MakeDayIs
<1>4. MakeDay(y, m, MonthDays(y, m) + k) = DayFromYear(y) + DaysBefore(y, m + 1) + k - 1
  BY <1>1, <1>3 DEF MonthDays
<1>5. CASE m + 1 \in 0..11
  <2>1. MakeDay(y, m + 1, k) = DayFromYear(y) + DaysBefore(y, m + 1) + k - 1
    BY <1>5, MakeDayIs
  <2> QED
    BY <1>4, <2>1
<1>6. CASE m = 11
  <2>1. (m + 1) \div 12 = 1 /\ (m + 1) % 12 = 0 /\ m + 1 = 12
    BY <1>6
  <2>2. /\ DayFromYear(y + 1) = DayFromYear(y) + 365 + (IF Leap(y) THEN 1 ELSE 0)
        /\ DaysBefore(y, 12) = 365 + (IF Leap(y) THEN 1 ELSE 0)
    BY YearLength, MonthLengths
  <2>3. DaysBefore(y + 1, 0) = 0
    BY MonthLengths
  <2>4. MakeDay(y, m + 1, k) = DayFromYear(y + 1) + 0 + k - 1
    BY <2>1, <2>3 DEF MakeDay
  <2>5. DayFromYear(y + 1) = DayFromYear(y) + DaysBefore(y, m + 1)
    BY <1>1, <2>1, <2>2
  <2>6. DayFromYear(y + 1) + 0 + k - 1 = DayFromYear(y + 1) + k - 1
    BY <1>1, <2>5
  <2> QED
    BY <1>1, <1>4, <2>4, <2>5, <2>6
<1> QED
  BY <1>5, <1>6

\* Date.UTC sees the month of the year itself, but for year 0: the years 1 to
\* 99 are leap years just as 1901 to 1999.
LEMMA LastDay ==
    ASSUME NEW t \in Int
    PROVE  /\ LastDayOfMonth(t) \in 1..MonthDays(YearOf(t), MonthOf(t))
           /\ YearOf(t) # 0 => LastDayOfMonth(t) = MonthDays(YearOf(t), MonthOf(t))
<1> DEFINE y == YearOf(t)
           m == MonthOf(t)
           z == IF y \in 0..99 THEN 1900 + y ELSE y
           u == UTC(y, m + 1, 0)
<1>1. y \in Int /\ m \in 0..11
  BY Split
<1>2. z \in Int /\ (Leap(z) => Leap(y)) /\ (y # 0 => (Leap(z) <=> Leap(y)))
  <2>1. CASE y \in 1..99
    <3>1. z = 1900 + y
      BY <2>1
    <3>2. (1900 + y) % 4 = y % 4 /\ (1900 + y) % 100 = y % 100
      BY <2>1
    <3>3. (1900 + y) % 400 # 0 /\ y % 400 # 0 /\ y % 100 # 0
      BY <2>1
    <3> QED
      BY <2>1, <3>1, <3>2, <3>3 DEF Leap
  <2>2. CASE y \notin 0..99
    BY <1>1, <2>2
  <2>3. CASE y = 0
    <3>1. z = 1900 /\ 1900 % 100 = 0 /\ 1900 % 400 = 300
      BY <2>3
    <3> QED
      BY <2>3, <3>1 DEF Leap
  <2>4. y = 0 \/ y \in 1..99 \/ y \notin 0..99
    BY <1>1
  <2> QED
    BY <2>1, <2>2, <2>3, <2>4
<1>3. u = MakeDay(z, m + 1, 0) * DayMinutes
  BY DEF UTC
<1>4. LastDayOfMonth(t) = DateOf(u)
  BY DEF LastDayOfMonth
<1> HIDE DEF y, m, z, u
<1>5. /\ y # 0 => MonthDays(z, m) = MonthDays(y, m)
      /\ MonthDays(z, m) <= MonthDays(y, m)
      /\ MonthDays(y, m) \in 28..31
  <2>1. y # 0 => MonthDays(z, m) = MonthDays(y, m)
    BY <1>2 DEF MonthDays, DaysBefore
  <2>2. MonthDays(y, m) \in 28..31
    BY <1>1, MonthType
  <2>3. CASE m = 1
    <3>1. /\ DaysBefore(z, m + 1) = DaysBefore(z, m) + 28 + (IF Leap(z) THEN 1 ELSE 0)
          /\ DaysBefore(y, m + 1) = DaysBefore(y, m) + 28 + (IF Leap(y) THEN 1 ELSE 0)
      BY <1>1, <1>2, <2>3, MonthLengths
    <3>2. DaysBefore(z, m) \in Nat /\ DaysBefore(y, m) \in Nat
      BY <1>1, <1>2, MonthType
    <3> QED
      BY <1>2, <2>1, <2>2, <3>1, <3>2 DEF MonthDays
  <2>4. CASE m # 1
    <3>1. m \in {0, 2, 3, 4, 5, 6, 7, 8, 9, 10, 11}
      BY <1>1, <2>4
    <3>2. MonthDays(z, m) = MonthDays(y, m)
      BY <3>1 DEF MonthDays, DaysBefore
    <3> QED
      BY <2>1, <2>2, <3>2
  <2> QED
    BY <2>3, <2>4
<1>6. MonthDays(z, m) \in 28..31 /\ MakeDay(z, m, MonthDays(z, m)) \in Int
  <2>1. /\ DayFromYear(z) \in Int /\ DaysBefore(z, m) \in Nat /\ MonthDays(z, m) \in 28..31
    BY <1>1, <1>2, MonthType
  <2>2. MonthDays(z, m) \in Int
    BY <2>1
  <2>3. MakeDay(z, m, MonthDays(z, m)) = DayFromYear(z) + DaysBefore(z, m) + MonthDays(z, m) - 1
    BY <1>1, <1>2, <2>2, MakeDayIs
  <2> QED
    BY <2>1, <2>3
<1>7. MakeDay(z, m + 1, 0) = MakeDay(z, m, MonthDays(z, m))
  <2>1. 0 \in Int /\ MonthDays(z, m) + 0 = MonthDays(z, m)
    BY <1>6
  <2>2. MakeDay(z, m + 1, 0) = MakeDay(z, m, MonthDays(z, m) + 0)
    BY <1>1, <1>2, <2>1, RunsOver, Zenon
  <2> QED
    BY <2>1, <2>2
<1>8. u \in Int /\ DayOf(u) = MakeDay(z, m, MonthDays(z, m))
  BY <1>3, <1>6, <1>7 DEF DayOf, DayMinutes
<1>9. MonthDays(z, m) \in 1..MonthDays(z, m)
  BY <1>6
<1>10. DateOf(u) = MonthDays(z, m)
  BY <1>1, <1>2, <1>8, <1>9, Placed
<1>11. LastDayOfMonth(t) \in 1..MonthDays(y, m)
  BY <1>4, <1>5, <1>6, <1>10
<1>12. y # 0 => LastDayOfMonth(t) = MonthDays(y, m)
  BY <1>4, <1>5, <1>10
<1> QED
  BY <1>11, <1>12 DEF y, m

\* The instant r is on day k of month m in year y, at the same time as t.
OnDay(r, t, y, m, k) ==
    /\ r \in Int /\ r % DayMinutes = t % DayMinutes
    /\ YearOf(r) = y /\ MonthOf(r) = m /\ DateOf(r) = k
    /\ DayOf(r) = MakeDay(y, m, k)

LEMMA SetTo ==
    ASSUME NEW t \in Int, NEW y \in Int, NEW m \in 0..11, NEW k \in 1..MonthDays(y, m)
    PROVE  OnDay(At(t, MakeDay(y, m, k)), t, y, m, k)
<1>1. k \in Int /\ MakeDay(y, m, k) \in Int
  <2>1. /\ MonthDays(y, m) \in 28..31 /\ DayFromYear(y) \in Int /\ DaysBefore(y, m) \in Nat
    BY MonthType
  <2>2. k \in Int
    BY <2>1
  <2>3. MakeDay(y, m, k) = DayFromYear(y) + DaysBefore(y, m) + k - 1
    BY <2>2, MakeDayIs
  <2> QED
    BY <2>1, <2>2, <2>3
<1> DEFINE r == At(t, MakeDay(y, m, k))
<1>2. r \in Int /\ DayOf(r) = MakeDay(y, m, k) /\ r % DayMinutes = t % DayMinutes
  BY <1>1, AtIs
<1> HIDE DEF r
<1>3. YearOf(r) = y /\ MonthOf(r) = m /\ DateOf(r) = k
  BY <1>2, Placed
<1> QED
  BY <1>2, <1>3 DEF r, OnDay

\* After the last day of a month comes the first of the next one.
LEMMA DayAfterLast ==
    ASSUME NEW r \in Int, NEW y \in Int, NEW m \in 0..11,
           DayOf(r) = MakeDay(y, m, MonthDays(y, m))
    PROVE  DateOf(r + DayMinutes) = 1
<1>1. /\ MonthDays(y, m) \in 28..31 /\ DayFromYear(y) \in Int /\ DaysBefore(y, m) \in Nat
  BY MonthType
<1>2. /\ MonthDays(y, m) \in Int /\ MonthDays(y, m) + 1 \in Int /\ m + 1 \in Int /\ 1 \in Int
  BY <1>1
<1>3. /\ MakeDay(y, m, MonthDays(y, m)) = DayFromYear(y) + DaysBefore(y, m) + MonthDays(y, m) - 1
      /\ MakeDay(y, m, MonthDays(y, m) + 1) = DayFromYear(y) + DaysBefore(y, m) + (MonthDays(y, m) + 1) - 1
  BY <1>2, MakeDayIs
<1>4. r + DayMinutes \in Int /\ DayOf(r + DayMinutes) = DayOf(r) + 1
  BY DEF DayOf, DayMinutes
<1>5. DayOf(r + DayMinutes) = MakeDay(y, m, MonthDays(y, m) + 1)
  BY <1>1, <1>3, <1>4
<1>6. DayOf(r + DayMinutes) = MakeDay(y, m + 1, 1)
  BY <1>2, <1>5, RunsOver, Zenon
<1> DEFINE y2 == y + ((m + 1) \div 12)
           m2 == (m + 1) % 12
<1>7. y2 \in Int /\ m2 \in 0..11 /\ MakeDay(y, m + 1, 1) = MakeDay(y2, m2, 1)
  <2>1. MakeDay(y, m + 1, 1) = MakeDay(y2, m2, 1)
    BY <1>2, MakeDayMoves, Zenon
  <2>2. y2 \in Int /\ m2 \in 0..11
    BY <1>2
  <2> QED
    BY <2>1, <2>2
<1> HIDE DEF y2, m2
<1>8. 1 \in 1..MonthDays(y2, m2)
  <2>1. MonthDays(y2, m2) \in 28..31
    BY <1>7, MonthType
  <2> QED
    BY <2>1
<1> QED
  BY <1>4, <1>6, <1>7, <1>8, Placed

LEMMA MonthsLand ==
    ASSUME NEW t \in Int, NEW n \in Int, YearOf(AddMonths(t, n)) # 0
    PROVE  LandsInMonth(AddMonths(t, n), t, n)
<1> DEFINE y == YearOf(t)
           m == MonthOf(t)
           k == DateOf(t)
           a == SetDate(t, 1)
           y2 == y + ((m + n) \div 12)
           m2 == (m + n) % 12
           b == SetMonth(a, m + n)
           last == LastDayOfMonth(b)
           date == IF k < last THEN k ELSE last
           r == SetDate(b, date)
<1>1. y \in Int /\ m \in 0..11 /\ k \in 1..MonthDays(y, m) /\ MonthDays(y, m) \in 28..31
  BY Split, MonthType
<1>2. a = At(t, MakeDay(y, m, 1)) /\ r = AddMonths(t, n)
  BY DEF SetDate, AddMonths
<1>3. b = At(a, MakeDay(YearOf(a), m + n, DateOf(a)))
  BY DEF SetMonth
<1>4. r = At(b, MakeDay(YearOf(b), MonthOf(b), date))
  BY DEF SetDate
<1>5. date = IF k < last THEN k ELSE last
  OBVIOUS
<1>6. y2 = y + ((m + n) \div 12) /\ m2 = (m + n) % 12
  OBVIOUS
<1>7. y = YearOf(t) /\ m = MonthOf(t) /\ k = DateOf(t) /\ last = LastDayOfMonth(b)
  OBVIOUS
<1> HIDE DEF y, m, k, a, y2, m2, b, last, date, r
<1>8. 1 \in 1..MonthDays(y, m) /\ 1 \in Int /\ m + n \in Int
  BY <1>1
<1>9. OnDay(a, t, y, m, 1)
  BY <1>1, <1>2, <1>8, SetTo, Zenon
<1>10. y2 \in Int /\ m2 \in 0..11 /\ MakeDay(y, m + n, 1) = MakeDay(y2, m2, 1)
  <2>1. /\ y + ((m + n) \div 12) \in Int /\ (m + n) % 12 \in 0..11
        /\ MakeDay(y, m + n, 1) = MakeDay(y + ((m + n) \div 12), (m + n) % 12, 1)
    <3>1. y \in Int /\ m + n \in Int /\ 1 \in Int
      BY <1>1, <1>8
    <3>2. y + ((m + n) \div 12) \in Int /\ (m + n) % 12 \in 0..11
      BY <3>1
    <3>3. MakeDay(y, m + n, 1) = MakeDay(y + ((m + n) \div 12), (m + n) % 12, 1)
      BY <3>1, <3>2, MakeDayIs DEF MakeDay
    <3> QED
      BY <3>2, <3>3
  <2> QED
    BY <1>6, <2>1
<1>11. MonthDays(y2, m2) \in 28..31 /\ 1 \in 1..MonthDays(y2, m2)
  <2>1. MonthDays(y2, m2) \in 28..31
    BY <1>10, MonthType
  <2> QED
    BY <2>1
<1>12. OnDay(b, a, y2, m2, 1)
  <2>1. b = At(a, MakeDay(y2, m2, 1)) /\ a \in Int
    BY <1>3, <1>9, <1>10 DEF OnDay
  <2> QED
    BY <1>10, <1>11, <2>1, SetTo, Zenon
\* Whatever the last day is taken to be, it is a day of the month.
<1>13. /\ last \in 1..MonthDays(y2, m2)
       /\ y2 # 0 => last = MonthDays(y2, m2)
  BY <1>7, <1>12, LastDay DEF OnDay
<1>14. date \in 1..MonthDays(y2, m2)
  BY <1>1, <1>5, <1>11, <1>13
<1>15. OnDay(r, b, y2, m2, date)
  <2>1. r = At(b, MakeDay(y2, m2, date)) /\ b \in Int
    BY <1>4, <1>12 DEF OnDay
  <2> QED
    BY <1>10, <1>14, <2>1, SetTo, Zenon
<1>16. 12 * y2 + m2 = 12 * y + m + n
  <2> DEFINE s == m + n
  <2>1. s \in Int /\ s = m + n
    BY <1>8
  <2> HIDE DEF s
  <2>2. 12 * (s \div 12) + (s % 12) = s /\ s \div 12 \in Int /\ s % 12 \in Int
    BY <2>1
  <2>3. y2 = y + (s \div 12) /\ m2 = s % 12
    BY <1>6, <2>1
  <2> QED
    BY <1>1, <2>1, <2>2, <2>3
<1>17. y2 # 0
  BY <1>2, <1>15 DEF OnDay
<1>18. DateOf(r) = k \/ (DateOf(r) < k /\ DateOf(r + DayMinutes) = 1)
  <2>1. CASE k < last
    BY <1>5, <1>15, <2>1 DEF OnDay
  <2>2. CASE ~ (k < last)
    <3>1. date = last /\ DayOf(r) = MakeDay(y2, m2, MonthDays(y2, m2))
      BY <1>5, <1>13, <1>15, <1>17, <2>2 DEF OnDay
    <3>2. DateOf(r + DayMinutes) = 1
      BY <1>10, <1>15, <3>1, DayAfterLast DEF OnDay
    <3>3. last = k \/ last < k
      BY <1>1, <1>11, <1>13, <2>2
    <3> QED
      BY <1>15, <3>1, <3>2, <3>3 DEF OnDay
  <2> QED
    BY <2>1, <2>2
<1>19. r % DayMinutes = t % DayMinutes
  BY <1>9, <1>12, <1>15 DEF OnDay
<1> QED
  BY <1>2, <1>7, <1>15, <1>16, <1>18, <1>19 DEF LandsInMonth, OnDay

LEMMA YearsLand ==
    ASSUME NEW t \in Int, NEW n \in Int
    PROVE  LandsInMonth(AddYears(t, n), t, 12 * n)
<1> DEFINE y == YearOf(t)
           m == MonthOf(t)
           k == DateOf(t)
           z == y + n
           o == SetFullYear(t, z)
           r == AddYears(t, n)
<1>1. y \in Int /\ m \in 0..11 /\ k \in 1..MonthDays(y, m) /\ z \in Int
  BY Split
<1>2. y = YearOf(t) /\ m = MonthOf(t) /\ k = DateOf(t) /\ z = y + n
  OBVIOUS
<1>3. o = At(t, MakeDay(z, m, k))
  BY DEF SetFullYear
<1>4. r = IF m = 1 /\ k = 29 /\ MonthOf(o) # 1 THEN At(o, MakeDay(YearOf(o), MonthOf(o), 0)) ELSE o
  BY DEF AddYears, SetDate
<1>5. r = AddYears(t, n)
  OBVIOUS
<1> HIDE DEF y, m, k, z, o, r
<1>6. MonthDays(y, m) \in 28..31 /\ MonthDays(z, m) \in 28..31
  BY <1>1, MonthType
<1>7. 12 * z + m = 12 * y + m + 12 * n
  BY <1>1, <1>2
<1>8. CASE k \in 1..MonthDays(z, m)
  <2>1. OnDay(o, t, z, m, k)
    BY <1>1, <1>3, <1>8, SetTo, Zenon
  <2>2. r = o
    BY <1>4, <2>1 DEF OnDay
  <2> QED
    BY <1>2, <1>5, <1>7, <2>1, <2>2 DEF LandsInMonth, OnDay
<1>9. CASE k \notin 1..MonthDays(z, m)
\* Only 29 February is missing in another year.
  <2>1. m = 1 /\ k = 29 /\ MonthDays(z, m) = 28
    <3>1. /\ DaysBefore(z, m) \in Nat /\ DaysBefore(y, m) \in Nat
          /\ DaysBefore(z, m + 1) \in Nat /\ DaysBefore(y, m + 1) \in Nat
      BY <1>1, MonthType
    <3>2. CASE m = 1
      <4>1. /\ DaysBefore(z, m + 1) = DaysBefore(z, m) + 28 + (IF Leap(z) THEN 1 ELSE 0)
            /\ DaysBefore(y, m + 1) = DaysBefore(y, m) + 28 + (IF Leap(y) THEN 1 ELSE 0)
        BY <1>1, <3>2, MonthLengths
      <4> QED
        BY <1>1, <1>6, <1>9, <3>1, <3>2, <4>1 DEF MonthDays
    <3>3. CASE m # 1
      <4>1. m \in {0, 2, 3, 4, 5, 6, 7, 8, 9, 10, 11}
        BY <1>1, <3>3
      <4>2. MonthDays(z, m) = MonthDays(y, m)
        BY <4>1 DEF MonthDays, DaysBefore
      <4> QED
        BY <1>1, <1>9, <4>2
    <3> QED
      BY <3>2, <3>3
  <2>2. MonthDays(z, 1) = 28 /\ 1 \in 0..11 /\ 2 \in 0..11 /\ 28 \in 1..MonthDays(z, 1)
    BY <2>1
  <2>3. 1 \in 1..MonthDays(z, 2)
    <3>1. MonthDays(z, 2) \in 28..31
      BY <1>1, <2>2, MonthType
    <3> QED
      BY <3>1
  <2>4. MakeDay(z, m, k) = MakeDay(z, 2, 1) /\ MakeDay(z, 2, 0) = MakeDay(z, 1, 28)
    <3>1. \A j \in Int : MakeDay(z, 2, j) = MakeDay(z, 1, 28 + j)
      <4>1. ASSUME NEW j \in Int PROVE MakeDay(z, 1 + 1, j) = MakeDay(z, 1, MonthDays(z, 1) + j)
        BY <1>1, <2>2, RunsOver
      <4> QED
        BY <2>2, <4>1
    <3> QED
      BY <2>1, <3>1
  <2>5. OnDay(o, t, z, 2, 1)
    BY <1>1, <1>3, <2>2, <2>3, <2>4, SetTo, Zenon
  <2>6. r = At(o, MakeDay(z, 1, 28)) /\ o \in Int
    BY <1>4, <2>1, <2>4, <2>5 DEF OnDay
  <2>7. OnDay(r, o, z, 1, 28)
    BY <1>1, <2>2, <2>6, SetTo, Zenon
  <2>8. DateOf(r + DayMinutes) = 1
    BY <1>1, <2>2, <2>7, DayAfterLast DEF OnDay
  <2>9. 28 < k
    BY <2>1
  <2> QED
    BY <1>2, <1>5, <1>7, <2>1, <2>5, <2>7, <2>8, <2>9 DEF LandsInMonth, OnDay
<1> QED
  BY <1>8, <1>9

-----------------------------------------------------------------------------
(***************************************************************************)
(* The rounding of a fraction.                                             *)
(***************************************************************************)
LEMMA ProductBound ==
    ASSUME NEW a \in Int, NEW b \in Int, NEW d \in Nat \ {0}, a < b
    PROVE  a * d + d <= b * d
  OBVIOUS

LEMMA DivisionIs ==
    ASSUME NEW d \in Nat \ {0}, NEW n \in Int
    PROVE  /\ n \div d \in Int /\ n % d \in 0..(d - 1)
           /\ n = ((n \div d) * d) + (n % d)
  OBVIOUS

LEMMA DivisionUnique ==
    ASSUME NEW d \in Nat \ {0}, NEW q \in Int, NEW r \in 0..(d - 1)
    PROVE  ((q * d) + r) \div d = q /\ ((q * d) + r) % d = r
<1> DEFINE n == (q * d) + r
           p == n \div d
           s == n % d
<1>1. n \in Int /\ q * d \in Int
  OBVIOUS
<1>2. p \in Int /\ s \in 0..(d - 1) /\ n = (p * d) + s
  <2> HIDE DEF n
  <2> QED
    BY <1>1, DivisionIs
<1>3. (p * d) + s = (q * d) + r /\ p * d \in Int
  BY <1>2
<1> HIDE DEF n, p, s
<1>4. ~ (p < q)
  BY <1>1, <1>2, <1>3, ProductBound
<1>5. ~ (q < p)
  BY <1>1, <1>2, <1>3, ProductBound
<1>6. p = q
  BY <1>2, <1>4, <1>5
<1> QED
  BY <1>1, <1>2, <1>3, <1>6 DEF n, p, s

\* The digit that is cut off and what follows it tell on which side of the half
\* the remainder is.
LEMMA NextDigit ==
    ASSUME NEW d \in Nat \ {0}, NEW s \in 0..(d - 1),
           NEW x, x = (10 * s) \div d, NEW w, w = (10 * s) % d
    PROVE  /\ x \in 0..9 /\ w \in 0..(d - 1) /\ 10 * s = (x * d) + w
           /\ (x > 5 \/ (x = 5 /\ w # 0)) <=> 2 * s > d
           /\ (x = 5 /\ w = 0) <=> 2 * s = d
<1>1. x \in Int /\ w \in 0..(d - 1) /\ 10 * s = (x * d) + w
  <2>1. 10 * s \in Int
    OBVIOUS
  <2> QED
    BY <2>1, DivisionIs
<1>2. ~ (x < 0)
  BY <1>1, ProductBound
<1>3. ~ (9 < x)
  <2>1. SUFFICES ASSUME 9 < x PROVE FALSE
    OBVIOUS
  <2>2. 9 * d + d <= x * d
    BY <1>1, <2>1, ProductBound
  <2> QED
    BY <1>1, <2>2
<1>4. x \in {0, 1, 2, 3, 4, 5, 6, 7, 8, 9}
  BY <1>1, <1>2, <1>3
<1>5. (x > 5 \/ (x = 5 /\ w # 0)) <=> 2 * s > d
  BY <1>1, <1>4
<1>6. (x = 5 /\ w = 0) <=> 2 * s = d
  BY <1>1, <1>4
<1> QED
  BY <1>1, <1>4, <1>5, <1>6

\* The digits of toDecimalString are those of the nearest number with so many
\* places, of two equally near ones the even one (verify-v-engine.mjs:78-88).
\* A power of 10 is 1 or a multiple of 10.
THEOREM HalfEven ==
    ASSUME NEW num \in Nat, NEW den \in Nat \ {0},
           NEW pow \in Nat \ {0}, pow = 1 \/ pow % 10 = 0,
           NEW parts, parts = RoundHalfEven(num, den, pow)
    PROVE  /\ parts[1] \in Nat /\ parts[2] \in 0..(pow - 1)
           /\ parts[1] * pow + parts[2] = Nearest(num * pow, den)
<1> DEFINE ip   == num \div den
           rem  == num % den
           R    == rem * pow
           k    == R \div den
           s    == R % den
           x    == (10 * s) \div den
           w    == (10 * s) % den
<1>1. /\ ip \in Nat /\ rem \in 0..(den - 1) /\ num = (ip * den) + rem
  <2>1. ip \in Int /\ rem \in 0..(den - 1) /\ num = (ip * den) + rem
    <3>1. num \in Int
      OBVIOUS
    <3> QED
      BY <3>1, DivisionIs, Zenon
  <2>2. ~ (ip < 0)
    <3> HIDE DEF ip, rem
    <3> QED
      BY <2>1, ProductBound
  <2> HIDE DEF ip, rem
  <2> QED
    BY <2>1, <2>2
<1>2. ip = num \div den /\ rem = num % den /\ R = rem * pow
  OBVIOUS
<1> HIDE DEF ip, rem
<1>3. R \in Nat /\ R + pow <= den * pow
  <2>1. R \in Nat
    BY <1>1
  <2>2. rem < den /\ rem \in Int /\ den \in Int
    BY <1>1
  <2> QED
    BY <2>1, <2>2, ProductBound
<1>4. k = R \div den /\ s = R % den
  OBVIOUS
<1> HIDE DEF R
<1>5. k \in Int /\ s \in 0..(den - 1) /\ R = (k * den) + s
  <2>1. R \in Int
    BY <1>3
  <2>2. /\ R \div den \in Int /\ R % den \in 0..(den - 1)
        /\ R = ((R \div den) * den) + (R % den)
    BY <2>1, DivisionIs, Zenon
  <2> QED
    BY <1>4, <2>2
<1> HIDE DEF k, s
<1>6. k \in Nat /\ k < pow
  <2>1. ~ (k < 0)
    BY <1>3, <1>5, ProductBound
  <2>2. ~ (pow <= k)
    <3>1. SUFFICES ASSUME pow <= k PROVE FALSE
      OBVIOUS
    <3>2. pow * den <= k * den
      <4>1. pow = k \/ pow < k
        BY <1>5, <3>1
      <4> QED
        BY <1>5, <4>1, ProductBound
    <3>3. den * pow = pow * den
      OBVIOUS
    <3> QED
      BY <1>3, <1>5, <3>2, <3>3
  <2> QED
    BY <1>5, <2>1, <2>2
<1>7. /\ x \in 0..9 /\ w \in 0..(den - 1) /\ 10 * s = (x * den) + w
      /\ (x > 5 \/ (x = 5 /\ w # 0)) <=> 2 * s > den
      /\ (x = 5 /\ w = 0) <=> 2 * s = den
  BY <1>5, NextDigit
<1> HIDE DEF x, w
\* What the code computes.
<1> DEFINE T == rem * pow * 10
<1>8. T \div den = 10 * k + x /\ T % den = w
  <2>1. T = ((10 * k + x) * den) + w
    <3>1. T = R * 10
      BY <1>2
    <3>2. R * 10 = (10 * k) * den + 10 * s
      BY <1>5
    <3>3. (10 * k + x) * den = (10 * k) * den + x * den
      BY <1>5, <1>7
    <3> HIDE DEF T
    <3> QED
      BY <1>5, <1>7, <3>1, <3>2, <3>3
  <2>2. 10 * k + x \in Int
    BY <1>5, <1>7
  <2> HIDE DEF T
  <2> QED
    BY <1>7, <2>1, <2>2, DivisionUnique
<1> DEFINE scaled == T \div den
<1>9. scaled \div 10 = k /\ scaled % 10 = x
  <2>1. scaled = 10 * k + x
    BY <1>8
  <2> HIDE DEF scaled
  <2> QED
    BY <1>5, <1>7, <2>1
<1> DEFINE last == IF pow > 1 THEN k % 10 ELSE ip % 10
           up   == RoundsUp(last, x, w # 0)
           frac == IF up THEN k + 1 ELSE k
<1>10. parts = IF frac >= pow THEN <<ip + 1, frac - pow>> ELSE <<ip, frac>>
  BY <1>2, <1>8, <1>9 DEF RoundHalfEven
\* What it ought to be.
<1> DEFINE q == ip * pow + k
<1>11. (num * pow) \div den = q /\ (num * pow) % den = s
  <2>1. num * pow = (q * den) + s
    <3>1. num * pow = (ip * den) * pow + rem * pow
      BY <1>1
    <3>2. (ip * den) * pow = (ip * pow) * den
      BY <1>1
    <3>3. (ip * pow + k) * den = (ip * pow) * den + k * den
      BY <1>1, <1>5
    <3> QED
      BY <1>1, <1>2, <1>5, <3>1, <3>2, <3>3
  <2>2. q \in Int
    BY <1>1, <1>5
  <2> HIDE DEF q
  <2> QED
    BY <1>5, <2>1, <2>2, DivisionUnique
<1>12. last % 2 = q % 2 /\ q \in Nat
  <2>1. CASE pow = 1
    <3>1. k = 0 /\ q = ip
      BY <1>1, <1>6, <2>1
    <3>2. last = ip % 10
      BY <2>1
    <3>3. (ip % 10) % 2 = ip % 2
      BY <1>1
    <3> QED
      BY <1>1, <3>1, <3>2, <3>3
  <2>2. CASE pow % 10 = 0
    <3>1. pow > 1
      BY <2>2
    <3>2. last = k % 10 /\ (k % 10) % 2 = k % 2
      BY <1>6, <3>1
    <3>3. PICK h \in Int : pow = 2 * h
      <4>1. pow = 2 * (pow \div 2) /\ pow \div 2 \in Int
        BY <2>2
      <4> QED
        BY <4>1
    <3>4. ip * pow = 2 * (ip * h) /\ ip * h \in Int /\ ip * pow \in Nat
      BY <1>1, <3>3
    <3>5. (ip * pow + k) % 2 = k % 2
      BY <1>6, <3>4
    <3> QED
      BY <1>6, <3>2, <3>4, <3>5
  <2> QED
    BY <2>1, <2>2
<1>13. frac = IF 2 * s > den \/ (2 * s = den /\ q % 2 = 1) THEN k + 1 ELSE k
  BY <1>7, <1>12 DEF RoundsUp
<1>14. Nearest(num * pow, den) = q - k + frac
  <2>1. q % 2 \in {0, 1}
    BY <1>12
  <2>2. Nearest(num * pow, den) =
            IF 2 * s < den THEN q ELSE IF 2 * s > den THEN q + 1 ELSE q + (q % 2)
    BY <1>11 DEF Nearest
  <2> HIDE DEF q, frac
  <2> QED
    BY <1>5, <1>12, <1>13, <2>1, <2>2
<1>15. frac \in Nat /\ frac <= pow
  BY <1>6
<1> HIDE DEF frac
<1>16. q - k + frac = ip * pow + frac
  BY <1>1, <1>6, <1>15
<1>17. CASE frac >= pow
  <2>1. parts = <<ip + 1, 0>> /\ frac = pow
    BY <1>10, <1>15, <1>17
  <2>2. (ip + 1) * pow + 0 = ip * pow + pow
    BY <1>1
  <2> QED
    BY <1>1, <1>14, <1>16, <2>1, <2>2
<1>18. CASE ~ (frac >= pow)
  <2>1. parts = <<ip, frac>>
    BY <1>10, <1>18
  <2> QED
    BY <1>1, <1>14, <1>15, <1>16, <1>18, <2>1
<1> QED
  BY <1>17, <1>18

\* A fraction and its multiple have one nearest integer.
LEMMA NearestScaled ==
    ASSUME NEW num \in Nat, NEW den \in Nat \ {0}, NEW c \in Nat \ {0}
    PROVE  Nearest(num * c, den * c) = Nearest(num, den)
<1> DEFINE q == num \div den
           r == num % den
<1>1. q \in Int /\ r \in 0..(den - 1) /\ num = (q * den) + r
  <2>1. num \in Int
    OBVIOUS
  <2> QED
    BY <2>1, DivisionIs, Zenon
<1>2. Nearest(num, den) = IF 2 * r < den THEN q ELSE IF 2 * r > den THEN q + 1 ELSE q + (q % 2)
  BY DEF Nearest
<1> HIDE DEF q, r
<1>3. den * c \in Nat \ {0} /\ r * c \in Nat
  BY <1>1
<1>4. r * c \in 0..((den * c) - 1)
  <2>1. r * c + c <= den * c
    BY <1>1, ProductBound
  <2> QED
    BY <1>3, <2>1
<1>5. num * c = (q * (den * c)) + (r * c)
  <2>1. num * c = (q * den) * c + r * c
    BY <1>1
  <2>2. (q * den) * c = q * (den * c)
    BY <1>1
  <2> QED
    BY <2>1, <2>2
<1>6. (num * c) \div (den * c) = q /\ (num * c) % (den * c) = r * c
  <2> DEFINE d == den * c
             t == r * c
  <2>1. d \in Nat \ {0} /\ t \in 0..(d - 1) /\ num * c = (q * d) + t
    BY <1>3, <1>4, <1>5
  <2> HIDE DEF d, t
  <2>2. (num * c) \div d = q /\ (num * c) % d = t
    BY <1>1, <2>1, DivisionUnique
  <2> QED
    BY <2>2 DEF d, t
<1>7. /\ 2 * (r * c) < den * c <=> 2 * r < den
      /\ 2 * (r * c) > den * c <=> 2 * r > den
  <2>1. 2 * (r * c) = (2 * r) * c /\ 2 * r \in Int
    BY <1>1
  <2>2. 2 * r < den => (2 * r) * c + c <= den * c
    BY <2>1, ProductBound
  <2>3. den < 2 * r => den * c + c <= (2 * r) * c
    BY <2>1, ProductBound
  <2>4. 2 * r = den => (2 * r) * c = den * c
    OBVIOUS
  <2>5. (2 * r) * c \in Int
    BY <2>1
  <2> QED
    BY <1>3, <2>1, <2>2, <2>3, <2>4, <2>5
<1>8. Nearest(num * c, den * c) =
          IF 2 * (r * c) < den * c THEN q ELSE IF 2 * (r * c) > den * c THEN q + 1 ELSE q + (q % 2)
  BY <1>6 DEF Nearest
<1> QED
  BY <1>2, <1>7, <1>8

\* The digits do not depend on how a number is written as a fraction: whether an
\* operand or a partial result was reduced before (norm) never changes what is
\* written, for all fractions of one value (verify-v-engine.mjs:42-92).
THEOREM ReducedAlike ==
    ASSUME NEW num \in Nat, NEW den \in Nat \ {0},
           NEW num2 \in Nat, NEW den2 \in Nat \ {0}, num * den2 = num2 * den,
           NEW pow \in Nat \ {0}, pow = 1 \/ pow % 10 = 0
    PROVE  RoundHalfEven(num, den, pow) = RoundHalfEven(num2, den2, pow)
<1> DEFINE a == RoundHalfEven(num, den, pow)
           b == RoundHalfEven(num2, den2, pow)
<1>1. a = <<a[1], a[2]>> /\ b = <<b[1], b[2]>>
  BY DEF RoundHalfEven
<1>2. /\ a[1] \in Nat /\ a[2] \in 0..(pow - 1)
      /\ (a[1] * pow) + a[2] = Nearest(num * pow, den)
  <2> HIDE DEF a
  <2> QED
    BY HalfEven DEF a
<1>3. /\ b[1] \in Nat /\ b[2] \in 0..(pow - 1)
      /\ (b[1] * pow) + b[2] = Nearest(num2 * pow, den2)
  <2> HIDE DEF b
  <2> QED
    BY HalfEven DEF b
<1> HIDE DEF a, b
<1>4. Nearest(num * pow, den) = Nearest(num2 * pow, den2)
  <2> DEFINE m == num * pow
             n == num2 * pow
  <2>1. m \in Nat /\ n \in Nat /\ m * den2 = n * den
    <3>1. (num * pow) * den2 = (num * den2) * pow
      OBVIOUS
    <3>2. (num2 * pow) * den = (num2 * den) * pow
      OBVIOUS
    <3> QED
      BY <3>1, <3>2
  <2> HIDE DEF m, n
  <2>2. Nearest(m * den2, den * den2) = Nearest(m, den)
    BY <2>1, NearestScaled
  <2>3. Nearest(n * den, den2 * den) = Nearest(n, den2)
    BY <2>1, NearestScaled
  <2>4. den * den2 = den2 * den
    OBVIOUS
  <2> QED
    BY <2>1, <2>2, <2>3, <2>4 DEF m, n
<1>5. a[1] = b[1] /\ a[2] = b[2]
  <2>1. (a[1] * pow) + a[2] = (b[1] * pow) + b[2]
    BY <1>2, <1>3, <1>4
  <2>2. ((a[1] * pow) + a[2]) \div pow = a[1] /\ ((a[1] * pow) + a[2]) % pow = a[2]
    <3>1. a[1] \in Int /\ a[2] \in 0..(pow - 1) /\ pow \in Nat \ {0}
      BY <1>2
    <3> QED
      BY <3>1, DivisionUnique, Zenon
  <2>3. ((b[1] * pow) + b[2]) \div pow = b[1] /\ ((b[1] * pow) + b[2]) % pow = b[2]
    <3>1. b[1] \in Int /\ b[2] \in 0..(pow - 1) /\ pow \in Nat \ {0}
      BY <1>3
    <3> QED
      BY <3>1, DivisionUnique, Zenon
  <2> QED
    BY <2>1, <2>2, <2>3
<1> QED
  BY <1>1, <1>5 DEF a, b

-----------------------------------------------------------------------------
(***************************************************************************)
(* One evaluation of the second source.                                    *)
(***************************************************************************)
EvalInv ==
    /\ tree \in Expressions /\ ctx \in Contexts
    /\ out = NoOutput \/ out = Output

LEMMA EvalInvariant == EvalSpec => []EvalInv
<1>1. EvalInit => EvalInv
  BY DEF EvalInit, EvalInv
<1>2. EvalInv /\ [Evaluate]_evalVars => EvalInv'
  <2>1. SUFFICES ASSUME EvalInv, [Evaluate]_evalVars PROVE EvalInv'
    OBVIOUS
  <2>2. UNCHANGED <<tree, ctx>> /\ (out' = Output \/ out' = out)
    BY <2>1 DEF Evaluate, evalVars
  <2>3. Output' = Output
    BY <2>2 DEF Output, Result
  <2> QED
    BY <2>1, <2>2, <2>3 DEF EvalInv, NoOutput
<1> QED
  BY <1>1, <1>2, PTL DEF EvalSpec

\* What a node with two operands is applied to.
LEMMA NodeIs ==
    ASSUME EvalInv, IsNode, tree.op \in CompareOps \cup {"date_add"}
    PROVE  \E vals : /\ vals[1] = Operand(1) /\ vals[2] = Operand(2)
                     /\ Result = Apply(tree, vals)
<1> DEFINE vals == ValuesOf(tree, ctx)
<1>1. 1 \in DOMAIN tree.args /\ 2 \in DOMAIN tree.args
  BY OperandsAssumption DEF EvalInv, IsNode
<1>2. vals[1] = Operand(1) /\ vals[2] = Operand(2)
  BY <1>1 DEF Operand, ValuesOf
<1>3. Result = EvalSExpr(tree, ctx, vals)
  BY EvalAssumption DEF EvalInv, Result
<1>4. EvalSExpr(tree, ctx, vals) = Apply(tree, vals)
  BY DEF EvalSExpr, IsNode
<1> QED
  BY <1>2, <1>3, <1>4

\* No comparison with a missing left operand, or of two sorts, is true, but
\* for ne of two computed values (verify-v-engine.mjs:202 and :223).
THEOREM NoComparisonFailsOpen == EvalSpec => []NoFailOpen
<1>1. EvalInv => NoFailOpen
  <2>1. SUFFICES ASSUME EvalInv, Done, IsNode, tree.op \in CompareOps, ~ Absent(Operand(2)),
                        ~ Absent(Operand(1)) => Sort(Operand(1)) # Sort(Operand(2)),
                        ~ (tree.op = "ne" /\ IsObject(Operand(1)) /\ IsObject(Operand(2)))
                 PROVE  out # [type |-> "boolean", value |-> <<TRUE>>]
    BY DEF NoFailOpen, Mixed, Holds
  <2>2. PICK vals : /\ vals[1] = Operand(1) /\ vals[2] = Operand(2)
                    /\ Result = Apply(tree, vals)
    BY <2>1, NodeIs
  <2>3. Result = Exception \/ Result = Compare(tree.op, Operand(1), Operand(2))
    <3>1. tree.op \notin ArithmeticOps /\ tree.op \notin AggregateOps
      BY <2>1 DEF ArithmeticOps, AggregateOps, CompareOps
    <3>2. /\ tree.op \notin QuantifierOps /\ tree.op \notin TimeOps
          /\ tree.op \notin {"in", "contains", "exists"}
      BY <2>1 DEF QuantifierOps, TimeOps, CompareOps
    <3> QED
      BY <2>1, <2>2, <3>1, <3>2 DEF Apply
  <2>4. Compare(tree.op, Operand(1), Operand(2)) \in {Unknown, Bool(FALSE)}
    <3>1. CASE Absent(Operand(1))
      BY <2>1, <3>1 DEF Compare
    <3>2. CASE ~ Absent(Operand(1))
      <4> DEFINE l == Operand(1)
                 r == Operand(2)
      <4>1. /\ ~ Absent(l) /\ ~ Absent(r) /\ Sort(l) # Sort(r)
            /\ ~ (tree.op = "ne" /\ IsObject(l) /\ IsObject(r))
        BY <2>1, <3>2
      <4> HIDE DEF l, r
      <4>2. ~ (IsNumber(l) /\ IsNumber(r)) /\ l.kind # r.kind
        BY <4>1 DEF Sort, IsNumber
      <4>3. Compare(tree.op, l, r) = CompareOthers(tree.op, l, r)
        BY <4>1, <4>2 DEF Compare
      <4>4. ASSUME TypeOf(l) # TypeOf(r)
            PROVE  CompareOthers(tree.op, l, r) \in {Unknown, Bool(FALSE)}
        BY <4>4 DEF CompareOthers
      <4>5. ASSUME TypeOf(l) = TypeOf(r)
            PROVE  CompareOthers(tree.op, l, r) \in {Unknown, Bool(FALSE)}
        <5>1. IsObject(l) /\ IsObject(r)
          BY <4>1, <4>2, <4>5 DEF TypeOf, IsObject, Absent
        <5>2. ~ Same(l, r)
          BY <4>2 DEF Same
        <5>3. tree.op # "ne"
          BY <4>1, <5>1
        <5> QED
          BY <5>2, <5>3 DEF CompareOthers
      <4> QED
        BY <4>3, <4>4, <4>5 DEF l, r
    <3> QED
      BY <3>1, <3>2
  <2>5. Output.type # "boolean" \/ Output.value = <<FALSE>>
    <3>1. CASE Result = Exception
      BY <3>1 DEF Output, Exception
    <3>2. CASE Result = Unknown
      <4>1. Result.kind = "unknown"
        BY <3>2 DEF Unknown
      <4>2. Output = SerializeValue(Result)
        BY <4>1 DEF Output
      <4>3. SerializeValue(Result).type = "unknown"
        BY <4>1 DEF SerializeValue
      <4> QED
        BY <4>2, <4>3
    <3>3. CASE Result = Bool(FALSE)
      <4>1. Result.kind = "boolean" /\ Result.is = FALSE
        BY <3>3 DEF Bool
      <4>2. Output = SerializeValue(Result)
        BY <4>1 DEF Output
      <4>3. SerializeValue(Result).value = <<FALSE>>
        BY <4>1 DEF SerializeValue
      <4> QED
        BY <4>2, <4>3
    <3> QED
      BY <2>3, <2>4, <3>1, <3>2, <3>3
  <2>6. out = Output
    BY <2>1 DEF EvalInv, Done
  <2>7. <<FALSE>> # <<TRUE>>
    <3>1. <<FALSE>>[1] = FALSE /\ <<TRUE>>[1] = TRUE
      OBVIOUS
    <3> QED
      BY <3>1
  <2> QED
    <3>1. SUFFICES ASSUME out = [type |-> "boolean", value |-> <<TRUE>>] PROVE FALSE
      OBVIOUS
    <3>2. Output.type = "boolean" /\ Output.value = <<TRUE>>
      <4>1. [type |-> "boolean", value |-> <<TRUE>>].type = "boolean"
        OBVIOUS
      <4>2. [type |-> "boolean", value |-> <<TRUE>>].value = <<TRUE>>
        BY Zenon
      <4> QED
        BY <2>6, <3>1, <4>1, <4>2, Zenon
    <3> QED
      BY <2>5, <2>7, <3>2
<1> QED
  BY <1>1, EvalInvariant, PTL

\* A date text and an amount are read as one instant and one number, or none.
LEMMA OneReading ==
    /\ \A s : \A t, u \in ParseIso(s) : t = u
    /\ \A v : \A n, m \in IntegerOf(v) : n = m
<1>1. ASSUME NEW s, NEW t \in ParseIso(s), NEW u \in ParseIso(s) PROVE t = u
  BY DEF ParseIso
<1>2. ASSUME NEW v, NEW n \in IntegerOf(v), NEW m \in IntegerOf(v) PROVE n = m
  <2>1. \A w : \A i, j \in Integral(w) : i = j
    BY DEF Integral
  <2> QED
    BY <2>1 DEF IntegerOf
<1> QED
  BY <1>1, <1>2

\* Adding months or years lands in the month meant, whatever the instant and
\* the number (dateAdd, verify-v-engine.mjs:128-148).
THEOREM MonthsLandRight == EvalSpec => []MonthsNeverRunOver
<1>1. EvalInv => MonthsNeverRunOver
  <2>1. SUFFICES ASSUME EvalInv, IsNode, Result.kind = "date",
                        tree.op = "date_add", tree.unit \in {"years", "months"},
                        NEW t \in ParseIso(Operand(1).date), NEW n \in IntegerOf(Operand(2)),
                        t \in Int, n \in Int, YearOf(Result.time) # 0
                 PROVE  LandsInMonth(Result.time, t, IF tree.unit = "years" THEN 12 * n ELSE n)
    BY DEF MonthsNeverRunOver
  <2>2. PICK vals : /\ vals[1] = Operand(1) /\ vals[2] = Operand(2)
                    /\ Result = Apply(tree, vals)
    BY <2>1, NodeIs
  <2>3. Result = Time(tree, vals)
    BY <2>1, <2>2 DEF Apply, ArithmeticOps, AggregateOps, CompareOps, QuantifierOps, TimeOps,
                      Exception
  <2>4. Result = OrNull(DateAdd(tree.unit, DateText(Operand(1)), IntegerOf(Operand(2))), Instant)
    BY <2>1, <2>2, <2>3 DEF Time, Exception
  <2> DEFINE sums == DateAdd(tree.unit, DateText(Operand(1)), IntegerOf(Operand(2)))
  <2>5. sums # {} /\ Result = Instant(CHOOSE x \in sums : TRUE)
    BY <2>1, <2>4 DEF OrNull, Null
  <2>6. DateText(Operand(1)) = Operand(1).date
    BY <2>5 DEF DateText, DateAdd, ParseIso
  <2>7. PICK u \in ParseIso(Operand(1).date), m \in IntegerOf(Operand(2)) :
            Result.time = Shift(tree.unit, u, m)
    BY <2>5, <2>6 DEF DateAdd, Instant
  <2>8. Result.time = Shift(tree.unit, t, n)
    BY <2>1, <2>7, OneReading
  <2>9. CASE tree.unit = "years"
    BY <2>1, <2>8, <2>9, YearsLand DEF Shift
  <2>10. CASE tree.unit = "months"
    BY <2>1, <2>8, <2>10, MonthsLand DEF Shift
  <2> QED
    BY <2>1, <2>9, <2>10
<1> QED
  BY <1>1, EvalInvariant, PTL
=============================================================================
