---------------------------- MODULE ResolutionRule ----------------------------
(***************************************************************************)
(* What the resolution of a rule set comes to, as a relation between the   *)
(* rules and the decision, without a scan and without a list of hits.      *)
(***************************************************************************)
EXTENDS RuleOrder

VARIABLES rules, decision

Indices == 1..Len(rules)

Explicit(i) == rules[i].when # "true"

\* Catch-alls count only when no explicit rule matches.
Holds(i) ==
    \/ rules[i].when = "match"
    \/ /\ rules[i].when = "true"
       /\ \A j \in Indices : rules[j].when # "match"

Halts(i) == Holds(i) /\ rules[i].then = "EMERGENCY_HALT"

\* Nothing behind a rule that halts is looked at.
Reached(i) == \A j \in Indices : Halts(j) => ~ Ahead(rules, j, i)

Hits == {i \in Indices : Holds(i) /\ Reached(i)}

Refused == \E i \in Indices : rules[i].when = "unsupported" /\ Reached(i)

Uncovered ==
    {r \in Hits : /\ rules[r].then \in RESTRICTIVE
                  /\ \A o \in Hits : ~ Covers(rules[o], rules[r])}

Permissive == {i \in Hits : rules[i].then \in DOMAIN decStrength}

\* The first of the rules in S, and the first of the strongest ones.
FirstOf(S) == {i \in S : \A j \in S \ {i} : Ahead(rules, i, j)}

Strongest(S) ==
    {i \in S : \A j \in S :
        decStrength[rules[i].then] <= decStrength[rules[j].then]}

Outcomes ==
    IF Refused THEN {"throws"}
    ELSE IF Uncovered # {} THEN {rules[i].then : i \in FirstOf(Uncovered)}
    ELSE IF Permissive # {}
         THEN {rules[i].then : i \in FirstOf(Strongest(Permissive))}
    ELSE {"none"}

Init == rules \in Seq(Rules) /\ decision = "pending"

Resolve ==
    /\ decision = "pending"
    /\ decision' \in Outcomes
    /\ UNCHANGED rules

Next == Resolve

Spec == Init /\ [][Next]_<<rules, decision>>
=============================================================================
