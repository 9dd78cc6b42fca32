------------------------------ MODULE Resolution ------------------------------
(***************************************************************************)
(* resolve of scripts/run-v-resolve.mjs: the scan of the rules in their    *)
(* order, which collects the rules that hit, and the fold of the hits into *)
(* one decision.                                                           *)
(***************************************************************************)
EXTENDS RuleOrder, FiniteSets

CONSTANT Rulebooks  \* the rule lists of the vectors

ASSUME RulebooksAssumption == Rulebooks \subseteq Seq(Rules)

VARIABLES
    rules,               \* input.rules
    todo,                \* indices of the rules the loop has still to visit
    hits,                \* indices of the rules that matched, in order
    anyExplicitMatched,
    totalEvaluated,
    decision             \* "pending" until the fold, "none" for null

vars == <<rules, todo, hits, anyExplicitMatched, totalEvaluated, decision>>

Outcomes == Decisions \cup {"none", "throws"}

Init ==
    /\ rules \in Rulebooks
    /\ todo = 1..Len(rules)
    /\ hits = << >>
    /\ anyExplicitMatched = FALSE
    /\ totalEvaluated = 0
    /\ decision = "pending"

-----------------------------------------------------------------------------
(***************************************************************************)
(* One turn of the loop over the explicit rules and then the catch-alls.   *)
(***************************************************************************)
Visit(i) ==
    /\ decision = "pending"
    /\ i \in todo
    /\ \A j \in todo \ {i} : Ahead(rules, i, j)

Inert(i) == rules[i].when = "true" /\ anyExplicitMatched

\* Mutant: a catch-all is counted before it is found inert.
SkipCatchAllCounted(i) ==
    /\ Visit(i)
    /\ Inert(i)
    /\ todo' = todo \ {i}
    /\ totalEvaluated' = totalEvaluated + 1
    /\ UNCHANGED <<rules, hits, anyExplicitMatched, decision>>

\* A catch-all is inert once an explicit rule matched.
SkipCatchAll(i) ==
    /\ Visit(i)
    /\ Inert(i)
    /\ todo' = todo \ {i}
    /\ UNCHANGED <<rules, hits, anyExplicitMatched, totalEvaluated, decision>>

\* An expression the runner does not know ends the resolution.
Refuse(i) ==
    /\ Visit(i)
    /\ rules[i].when = "unsupported"
    /\ decision' = "throws"
    /\ totalEvaluated' = totalEvaluated + 1
    /\ UNCHANGED <<rules, todo, hits, anyExplicitMatched>>

\* Mutant: a rule that does not match is looked at again.
MissAgain(i) ==
    /\ Visit(i)
    /\ rules[i].when = "nomatch"
    /\ totalEvaluated' = totalEvaluated + 1
    /\ UNCHANGED <<rules, todo, hits, anyExplicitMatched, decision>>

Miss(i) ==
    /\ Visit(i)
    /\ rules[i].when = "nomatch"
    /\ todo' = todo \ {i}
    /\ totalEvaluated' = totalEvaluated + 1
    /\ UNCHANGED <<rules, hits, anyExplicitMatched, decision>>

\* EMERGENCY_HALT is the one decision that breaks the loop.
Hit(i) ==
    /\ Visit(i)
    /\ rules[i].when \in {"match", "true"}
    /\ ~ Inert(i)
    /\ hits' = Append(hits, i)
    /\ anyExplicitMatched' = (anyExplicitMatched \/ rules[i].when # "true")
    /\ totalEvaluated' = totalEvaluated + 1
    /\ todo' = IF rules[i].then = "EMERGENCY_HALT" THEN {} ELSE todo \ {i}
    /\ UNCHANGED <<rules, decision>>

-----------------------------------------------------------------------------
(***************************************************************************)
(* The fold.                                                               *)
(***************************************************************************)
\* Mutant: overrides are not consulted.
UncoveredAlways == {p \in 1..Len(hits) : rules[hits[p]].then \in RESTRICTIVE}

\* Positions of the hits whose restriction no hit covers.
Uncovered ==
    {p \in 1..Len(hits) :
        /\ rules[hits[p]].then \in RESTRICTIVE
        /\ \A q \in 1..Len(hits) : ~ Covers(rules[hits[q]], rules[hits[p]])}

NonRestrictive ==
    {p \in 1..Len(hits) : rules[hits[p]].then \in DOMAIN decStrength}

\* Mutant: reduce with <=.
LastLeast(S, rank) ==
    CHOOSE p \in S : \A q \in S :
        rank[p] < rank[q] \/ (rank[p] = rank[q] /\ p >= q)

\* reduce with a strict comparison: the least rank, and the first of these.
FirstLeast(S, rank) ==
    CHOOSE p \in S : \A q \in S :
        rank[p] < rank[q] \/ (rank[p] = rank[q] /\ p <= q)

Decide ==
    IF Uncovered # {}
    THEN LET ring == [p \in Uncovered |-> rules[hits[p]].ring]
         IN  rules[hits[FirstLeast(Uncovered, ring)]].then
    ELSE IF NonRestrictive # {}
    THEN LET rank == [p \in NonRestrictive |-> decStrength[rules[hits[p]].then]]
         IN  rules[hits[FirstLeast(NonRestrictive, rank)]].then
    ELSE "none"

Fold ==
    /\ decision = "pending"
    /\ todo = {}
    /\ decision' = Decide
    /\ UNCHANGED <<rules, todo, hits, anyExplicitMatched, totalEvaluated>>

Next ==
    \/ \E i \in todo : SkipCatchAll(i) \/ Refuse(i) \/ Miss(i) \/ Hit(i)
    \/ Fold

Spec == Init /\ [][Next]_vars

-----------------------------------------------------------------------------
\* Every variable keeps to its type; no rule is counted twice.
TypeOK ==
    /\ rules \in Seq(Rules)
    /\ todo \subseteq 1..Len(rules)
    /\ hits \in Seq(1..Len(rules))
    /\ anyExplicitMatched \in BOOLEAN
    /\ totalEvaluated \in 0..Len(rules)
    /\ decision \in Outcomes \cup {"pending"}

\* The scan and the fold come to what the rules alone determine.
Rule == INSTANCE ResolutionRule
ImplementsRule == Rule!Spec

\* total_evaluated, which the vectors observe: unless a rule halts or is
\* refused, every explicit rule counts, and the catch-alls exactly when no
\* explicit rule matched.
EvaluatedCount ==
    LET explicit == {i \in 1..Len(rules) : rules[i].when # "true"}
        halts    == \E i \in 1..Len(rules) : rules[i].then = "EMERGENCY_HALT"
    IN  decision \notin {"pending", "throws"} /\ ~ halts =>
            totalEvaluated = IF \E i \in explicit : rules[i].when = "match"
                             THEN Cardinality(explicit) ELSE Len(rules)

Restrictions ==
    [when: {"match"}, ring: {0, 3}, priority: {10},
     override: {"normal", "critical"}, then: RESTRICTIVE]

\* One more restrictive rule that matches never loosens a restriction: what was
\* denied stays denied, wherever the rule is put by ring and override.
Tightened(r) == INSTANCE ResolutionRule WITH rules <- Append(rules, r)
TighteningNeverLoosens ==
    decision \in RESTRICTIVE =>
        \A r \in Restrictions : Tightened(r)!Outcomes \subseteq RESTRICTIVE

Orders == {p \in [1..Len(rules) -> 1..Len(rules)] :
              \A i, j \in 1..Len(rules) : i # j => p[i] # p[j]}

Permuted(p) == INSTANCE ResolutionRule
    WITH rules <- [i \in 1..Len(rules) |-> rules[p[i]]]

\* The order in which rules are listed never decides between a restriction and
\* its absence, as long as no rule halts the scan.
ListingNeverLoosens ==
    (\A i \in 1..Len(rules) : rules[i].then # "EMERGENCY_HALT") =>
        \A p \in Orders :
            decision \in RESTRICTIVE => Permuted(p)!Outcomes \subseteq RESTRICTIVE

\* scripts/run-v-resolve.mjs calls its fold invariant under permutation: no
\* order of the same rules comes to another decision.
PermutationInvariant ==
    decision # "pending" => \A p \in Orders : Permuted(p)!Outcomes = {decision}

-----------------------------------------------------------------------------
(***************************************************************************)
(* The inductive invariant behind the theorems of ResolutionProofs: what   *)
(* the scan has visited lies ahead of what it has not, and the hits are    *)
(* what ResolutionRule says of the visited rules, in order.                *)
(***************************************************************************)
Visited == (1..Len(rules)) \ todo

Counted(i) == rules[i].when # "true" \/ Rule!Holds(i)

ScanInv ==
    /\ \A i \in Visited, j \in todo : Ahead(rules, i, j)
    /\ \A i \in Visited : Rule!Halts(i) => todo = {}
    /\ \A i \in Visited : rules[i].when = "unsupported" => ~ Rule!Reached(i)
    /\ \A p \in 1..Len(hits) : hits[p] \in Visited
    /\ \A i \in Visited :
        (\E p \in 1..Len(hits) : hits[p] = i) <=> Rule!Holds(i) /\ Rule!Reached(i)
    /\ \A p, q \in 1..Len(hits) : p < q => Ahead(rules, hits[p], hits[q])
    /\ todo # {} => (anyExplicitMatched <=> \E i \in Visited : rules[i].when = "match")

CountInv ==
    /\ totalEvaluated + Cardinality(todo) <= Len(rules)
    /\ (\A i \in 1..Len(rules) : rules[i].then # "EMERGENCY_HALT") =>
        totalEvaluated = Cardinality({i \in Visited : Counted(i)})

IInv ==
    /\ TypeOK
    /\ decision = "pending" => ScanInv /\ CountInv
    /\ EvaluatedCount
=============================================================================
