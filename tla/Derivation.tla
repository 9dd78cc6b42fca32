----------------------------- MODULE Derivation -----------------------------
(***************************************************************************)
(* How verify-decision.mjs and verify-producer.mjs derive a decision from  *)
(* rules and context: each turns the policies into rules, has the          *)
(* evaluator of @openoba/erdl decide and raises what needs a human.  The   *)
(* evaluator resolves as ResolutionRule says, and allows when no rule      *)
(* decides.  Its releases differ in what an override lifts                 *)
(* (verify-v1.5.yml:66-69, CHANGELOG.md:18), and no override is passed on. *)
(*                                                                         *)
(* A policy is a rule of RuleOrder with its id; when, ring and priority    *)
(* may be missing.  Whether its condition holds of the context is part of  *)
(* it, and a condition the evaluator throws on is "unsupported".           *)
(***************************************************************************)
EXTENDS RuleOrder

CONSTANT None  \* what a record leaves out: a field, a ring, a cited rule

Default(x, d) == IF x = None THEN d ELSE x

\* What both programs pass on: override is not among it.  They differ in what
\* the evaluator finds where a policy has no condition.
RuleOf(p, unconditioned) ==
    [when |-> Default(p.when, unconditioned), ring |-> Default(p.ring, 3),
     priority |-> Default(p.priority, 100), override |-> "normal", then |-> p.then]

\* verify-decision.mjs: such a policy is a rule without conditions, a catch-all.
ToRules(policies) == [i \in DOMAIN policies |-> RuleOf(policies[i], "true")]

Evaluator(rs) == INSTANCE ResolutionRule WITH rules <- rs, decision <- "pending"

\* "throws" is an exception of the evaluator.
Evaluate(rs) ==
    LET d == CHOOSE x \in Evaluator(rs)!Outcomes : TRUE
    IN  IF d = "none" THEN "ALLOW" ELSE d

NeedsHuman(risk, required) == risk \in {"high", "critical"} /\ required

-----------------------------------------------------------------------------
(***************************************************************************)
(* check of verify-decision.mjs.  A decision object has its policies       *)
(* (empty when there is no such array), whether it has a context, the      *)
(* decision and the rule it cites (None when there is none), the risk      *)
(* level and whether oversight is required.                                *)
(***************************************************************************)
\* Not a record of a decision.
Skips(do) == do.policies = <<>> \/ do.decision = None \/ ~do.context

Dangling(do) ==
    /\ do.applied # None
    /\ \A i \in DOMAIN do.policies : do.policies[i].id # do.applied

\* Mutant: a critical risk is not raised.
DerivedHighOnly(do) ==
    IF do.risk = "high" /\ do.required THEN "REQUEST_HUMAN"
    ELSE Evaluate(ToRules(do.policies))

\* Mutant: what needs a human is raised before the rules are evaluated.
DerivedRaisedFirst(do) ==
    IF NeedsHuman(do.risk, do.required) THEN "REQUEST_HUMAN"
    ELSE Evaluate(ToRules(do.policies))

\* An exception counts as a divergence before anything is raised.
Derived(do) ==
    LET d == Evaluate(ToRules(do.policies))
    IN  IF d # "throws" /\ NeedsHuman(do.risk, do.required) THEN "REQUEST_HUMAN" ELSE d

Check(do) ==
    IF Skips(do) THEN "skip"
    ELSE IF Dangling(do) \/ Derived(do) # do.decision THEN "divergence" ELSE "coherent"
=============================================================================
