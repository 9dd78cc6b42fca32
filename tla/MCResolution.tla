---------------------------- MODULE MCResolution ----------------------------
(***************************************************************************)
(* Instances of Resolution, with every list of up to three rules from a    *)
(* stock that has each kind of rule the scan and the fold tell apart, and  *)
(* of the programs that rely on a resolution.  They share no variable: of  *)
(* the four one moves, the others stay where they began.                   *)
(***************************************************************************)
EXTENDS ResolutionPrograms, TLC

Stocked(when, rings, priorities, overrides, decisions) ==
    [when: {when}, ring: rings, priority: priorities, override: overrides,
     then: decisions]

Stock ==
    UNION {Stocked("match", {0, 3}, {10}, {"normal", "high"}, {"DENY", "ALLOW"}),
           Stocked("match", {0}, {10}, {"normal"},
              {"ROLLBACK", "EMERGENCY_HALT", "NOTIFY", "REQUEST_HUMAN", "WORKFLOW"}),
           Stocked("match", {0}, {20}, {"critical"}, {"ALLOW"}),
           Stocked("match", {3}, {5}, {"low"}, {"GUIDE"}),
           Stocked("true", {0}, {10}, {"normal"}, {"DENY", "ALLOW", "EMERGENCY_HALT"}),
           Stocked("nomatch", {0}, {10}, {"normal"}, {"DENY"}),
           Stocked("unsupported", {0}, {20}, {"normal"}, {"DENY"})}

MCRulebooks == UNION {[1..n -> Stock] : n \in 0..3}

-----------------------------------------------------------------------------
(***************************************************************************)
(* ResolutionAnswers: facts of two levels with equal keys on both, one of  *)
(* them with an array; vector sets of one or two vectors.  Of the releases *)
(* of the evaluator, "current" resolves by ResolutionRule and allows when  *)
(* no rule decides; "lagging" takes a DENY with an override behind an      *)
(* ALLOW of its ring for lifted, what the note on the published package    *)
(* names (verify-v1.5.yml:66-69).                                          *)
(***************************************************************************)
Lifted(rs, i) ==
    /\ rs[i].then = "DENY" /\ rs[i].when = "match" /\ rs[i].override # "normal"
    /\ \E j \in DOMAIN rs :
           /\ rs[j].then = "ALLOW" /\ rs[j].when = "match" /\ rs[j].ring = rs[i].ring
           /\ rs[j].priority < rs[i].priority

MCEvaluates(release, rs) ==
    LET d == Answers!Outcome(IF release = "current" THEN rs
                             ELSE [i \in DOMAIN rs |->
                                      IF Lifted(rs, i) THEN [rs[i] EXCEPT !.when = "nomatch"]
                                      ELSE rs[i]])
    IN  IF d = "none" THEN "ALLOW" ELSE d

Tool == <<"tool">>
Name == <<"name">>

Leaf(path, v)   == [path |-> path, keys |-> 1..Len(path), value |-> v, inner |-> FALSE]
Dotted(path, v) == [Leaf(path, v) EXCEPT !.keys = {1}]
Inner(path, v)  == [Leaf(path, v) EXCEPT !.inner = TRUE]

Single == <<Leaf(Tool \o Name, "read")>>
Listed == <<Leaf(Tool, "[read]"), Inner(Tool \o <<"0">>, "read")>>

Facts ==
    {Single,
     Listed,
     <<Leaf(Tool \o Name, "null")>>,
     <<Leaf(Tool \o Name, "read"), Leaf(Name, "write")>>,
     <<Leaf(Tool, "read")>>,
     <<Dotted(Tool \o Name, "write"), Leaf(Tool \o Name, "read")>>,
     <<Leaf(Tool \o Name, "read"), Dotted(Tool \o Name, "write")>>}

When(logic, conditions) == [logic |-> logic, conditions |-> conditions]
Eq(path, value) == [field |-> path, value |-> value]

Entry(when, then, ring, override) ==
    [when |-> when, then |-> then, ring |-> ring, priority |-> 10, override |-> override]

Always == When("true", <<>>)
IsRead == When("AND", <<Eq(Tool \o Name, "read")>>)
Both   == When("AND", <<Eq(Name, "write"), Eq(Tool \o Name, "read")>>)

Last == [Entry(IsRead, "DENY", 0, "critical") EXCEPT !.priority = 20]

SameRing == <<Entry(IsRead, "ALLOW", 0, "normal"), Last>>

AnswerRules ==
    {<<Entry(IsRead, "DENY", 0, None), Entry(Always, "ALLOW", 0, "normal")>>,
     <<Entry(IsRead, "DENY", 0, "normal"), Entry(Both, "ALLOW", 0, "high"),
       Entry(Always, "ALLOW", 3, None)>>,
     <<Entry(When("AND", <<Eq(Name, "write")>>), "ESCALATE", 3, "normal"),
       Entry(Always, "ALLOW", 0, None)>>}
OddRules ==
    {<<Entry(When("OR", <<Eq(Name, "write"), Eq(Tool \o Name, "read")>>), "DENY", 0, "normal")>>,
     <<Entry(When("AND", <<>>), "DENY", 0, "normal"), Entry(IsRead, "ALLOW", 0, "normal")>>,
     <<Entry(When("AND", <<Eq(Name, "stop")>>), "DENY", 0, "normal")>>}
ByIndex == <<Entry(When("AND", <<Eq(Tool \o <<"0">>, "read")>>), "DENY", 0, "normal")>>

V(f, rs) == [fact |-> f, rules |-> rs]

MCVectorSets ==
    {(1 :> V(f, rs)) : f \in Facts, rs \in AnswerRules}
    \cup {(1 :> V(Single, rs)) : rs \in OddRules}
    \cup {(1 :> V(Listed, ByIndex)), (1 :> V(Single, SameRing))}
    \cup {(1 :> V(f, rs) @@ 2 :> V(Single, <<Entry(Always, "ALLOW", 0, None)>>)) :
              f \in {Listed, Single}, rs \in {CHOOSE r \in AnswerRules : TRUE}}

-----------------------------------------------------------------------------
(***************************************************************************)
(* DecisionCheck: objects with up to two rules, main files of one vector   *)
(* with one or two objects, and a few divergence files.                    *)
(***************************************************************************)
Policy(id, when, then, ring, priority, override) ==
    [id |-> id, when |-> when, then |-> then, ring |-> ring, priority |-> priority,
     override |-> override]

SomePolicies == {Policy(id, w, d, None, None, "normal") :
                    id \in {"r1"}, w \in {None, "match", "nomatch", "unsupported"},
                    d \in {"ALLOW", "DENY", "NOTIFY"}}
            \cup {Policy("r1", "match", "EMERGENCY_HALT", 0, 1, "normal")}
Second   == {Policy("r2", w, d, 0, 10, o) : w \in {"match", "nomatch"},
                d \in {"ALLOW", "ROLLBACK", "ESCALATE"}, o \in {"normal", "critical"}}

PolicyLists == {<<>>} \cup {<<p>> : p \in SomePolicies} \cup {<<p, q>> : p \in SomePolicies, q \in Second}

DO(ps, ctx, d, applied, risk, required) ==
    [policies |-> ps, context |-> ctx, decision |-> d, applied |-> applied,
     risk |-> risk, required |-> required]

Objects ==
    {DO(ps, TRUE, d, a, r, TRUE) : ps \in PolicyLists,
        d \in {"ALLOW", "DENY", "REQUEST_HUMAN", "ROLLBACK"}, a \in {None, "r1", "r3"},
        r \in {"low", "critical"}}
    \cup {DO(<<Policy("r1", "match", "ALLOW", 0, 1, "normal")>>, c, d, "r1", "high", q) :
             c \in BOOLEAN, d \in {None, "ALLOW"}, q \in BOOLEAN}

Vector(do, base, tampered) ==
    [decision_object |-> do, base_do |-> base, tampered_do |-> tampered]

Good  == DO(<<Policy("r1", "match", "DENY", 0, 1, "normal")>>, TRUE, "DENY", "r1", "low", FALSE)
Bad   == [Good EXCEPT !.decision = "ALLOW"]
Bare  == [Good EXCEPT !.policies = <<>>]

MCMainFiles == {<<Vector(o, None, None)>> : o \in Objects}
               \cup {<<Vector(None, Good, x), Vector(y, None, None)>> :
                        x \in {Good, Bad, Bare}, y \in {Good, Bad, Bare}}
MCDivergenceFiles == {<<Vector(Bad, None, None)>>,
                      <<Vector(Bare, None, None)>>,
                      <<Vector(Bad, None, None), Vector(Bare, None, None)>>,
                      <<Vector(None, Good, Bad)>>}

-----------------------------------------------------------------------------
(***************************************************************************)
(* ProducerCheck: up to three scenarios of one or two rules.               *)
(***************************************************************************)
One(when, then, ring) == <<Policy("r1", when, then, ring, None, "normal")>>
ScenarioRules ==
    {<<>>, One("match", "DENY", 0), One("match", "ALLOW", None), One("match", "NOTIFY", 0),
     One("unsupported", "DENY", 0), One(None, "DENY", 0),
     Append(One("nomatch", "DENY", 0), Policy("r2", "match", "ALLOW", 3, None, "normal")),
     Append(One("match", "ALLOW", 0), Policy("r2", "match", "ESCALATE", 3, None, "normal"))}

Scenario == [rules: ScenarioRules, risk: {"low", "high", "critical"}, required: BOOLEAN]

MCScenarioLists == UNION {[1..n -> Scenario] : n \in 1..2}
                   \cup [1..3 -> {s \in Scenario : s.risk # "high" /\ s.required}]

-----------------------------------------------------------------------------
\* What a part that does not move begins with.
V0 == CHOOSE v \in MCVectorSets : TRUE
F0 == [main       |-> <<Vector(None, Good, Good), Vector(Good, None, None)>>,
       divergence |-> <<Vector(Bad, None, None)>>]
S0 == <<[rules |-> <<>>, risk |-> "low", required |-> FALSE]>>

MCInit ==
    /\ \/ part = "runner"    /\ vectors = V0 /\ files = F0 /\ scenarios = S0
       \/ part = "answers"   /\ rules = <<>> /\ files = F0 /\ scenarios = S0
       \/ part = "decisions" /\ rules = <<>> /\ vectors = V0 /\ scenarios = S0
       \/ part = "producers" /\ rules = <<>> /\ vectors = V0 /\ files = F0
    /\ ProgramsInit

MCSpec == MCInit /\ [][ProgramsNext]_programVars
=============================================================================
