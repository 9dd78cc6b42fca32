---------------------------- MODULE ProducerCheck ----------------------------
(***************************************************************************)
(* verify-producer.mjs: two built-in producers, one that emits what it     *)
(* enforced and one that writes ALLOW on a second path, are run on every   *)
(* scenario and what they enforce is compared with what they record.       *)
(***************************************************************************)
EXTENDS Derivation

CONSTANTS
    ScenarioLists,  \* sequences of [rules, risk, required]
    UndefinedExpr   \* what the evaluator makes of the condition {expr: undefined}

VARIABLES
    scenarios,
    producer,   \* the producer being run, "done" in the end, "dead" on a throw
    next,       \* index of its next scenario
    fails,      \* how often each producer's record differed
    ok          \* the verdict, None before

vars == <<scenarios, producer, next, fails, ok>>

Producers == {"reference", "defective"}

\* deriveDecision gives every rule a condition, also one whose when is missing.
RuleDefs(rules) == [i \in DOMAIN rules |-> RuleOf(rules[i], UndefinedExpr)]

DeriveDecision(s) ==
    LET d == Evaluate(RuleDefs(s.rules))
    IN  IF d # "throws" /\ s.risk \in {"high", "critical"} /\ s.required
        THEN "REQUEST_HUMAN" ELSE d

\* The rule cited is the first of the scenario, whether it matched or not.
Emitted(p, s) ==
    [decision |-> IF p = "reference" THEN DeriveDecision(s) ELSE "ALLOW",
     applied  |-> IF s.rules = <<>> THEN None ELSE s.rules[1].id]

-----------------------------------------------------------------------------
Init ==
    /\ scenarios \in ScenarioLists
    /\ producer = "reference"
    /\ next = 1
    /\ fails = [p \in Producers |-> 0]
    /\ ok = None

RunScenario ==
    /\ producer \in Producers
    /\ next <= Len(scenarios)
    /\ LET s == scenarios[next]
       IN  /\ DeriveDecision(s) # "throws"
           /\ fails' = IF Emitted(producer, s).decision = DeriveDecision(s) THEN fails
                       ELSE [fails EXCEPT ![producer] = @ + 1]
    /\ next' = next + 1
    /\ UNCHANGED <<scenarios, producer, ok>>

\* The exception of a rule nothing can evaluate ends the program.
Die ==
    /\ producer \in Producers
    /\ next <= Len(scenarios)
    /\ DeriveDecision(scenarios[next]) = "throws"
    /\ producer' = "dead"
    /\ UNCHANGED <<scenarios, next, fails, ok>>

NextProducer ==
    /\ producer = "reference"
    /\ next > Len(scenarios)
    /\ producer' = "defective"
    /\ next' = 1
    /\ UNCHANGED <<scenarios, fails, ok>>

Finish ==
    /\ producer = "defective"
    /\ next > Len(scenarios)
    /\ ok' = (fails["reference"] = 0 /\ fails["defective"] > 0)
    /\ producer' = "done"
    /\ UNCHANGED <<scenarios, next, fails>>

Next == RunScenario \/ Die \/ NextProducer \/ Finish

Spec == Init /\ [][Next]_vars

-----------------------------------------------------------------------------
\* The harness passes only when it showed that it can fail: some scenario asks
\* for another decision than the ALLOW of the second path, by a rule that
\* matches and does not allow, or by a human (verify-producer.mjs:99).
HarnessTells ==
    ok = TRUE =>
        \E i \in DOMAIN scenarios :
            \/ NeedsHuman(scenarios[i].risk, scenarios[i].required)
            \/ \E k \in DOMAIN scenarios[i].rules :
                   /\ RuleDefs(scenarios[i].rules)[k].when = "match"
                   /\ scenarios[i].rules[k].then \notin {"ALLOW", "NOTIFY"}

\* What a single-path producer emits of a scenario whose first rule it cites,
\* as a record with those rules.
Record(s) ==
    [policies |-> s.rules, context |-> TRUE, decision |-> Emitted("reference", s).decision,
     applied |-> Emitted("reference", s).applied, risk |-> s.risk, required |-> s.required]

\* The derivation of RFC-002 1.5 is written in both programs, as
\* verify-producer.mjs:47 and verify-decision.mjs:65 say, so a record of what was
\* enforced should be coherent for verify-decision.mjs.  This does not hold: a
\* rule without a condition is a catch-all there (verify-decision.mjs:33) and a
\* rule with an undefined condition here (verify-producer.mjs:54).
SinglePathCoherent ==
    \A i \in 1..(next - 1) : Check(Record(scenarios[i])) \in {"coherent", "skip"}
=============================================================================
