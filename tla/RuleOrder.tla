------------------------------ MODULE RuleOrder ------------------------------
(***************************************************************************)
(* The rules of one resolution vector as scripts/run-v-resolve.mjs reads   *)
(* them.  Whether the conditions of a rule hold of the fact is part of the *)
(* rule here: "match" or "nomatch" for an AND of eq conditions, "true" for *)
(* a catch-all, "unsupported" for what the runner refuses by throwing.     *)
(***************************************************************************)
EXTENDS Integers, Sequences

RESTRICTIVE == {"DENY", "ROLLBACK", "QUARANTINE"}

\* How strongly a decision that restricts nothing counts, the least first.
decStrength ==
    [EMERGENCY_HALT |-> 0, REQUEST_HUMAN |-> 2, WORKFLOW |-> 2, ESCALATE |-> 3,
     DELEGATE |-> 4, DEFER |-> 5, CORRECT |-> 6, GUIDE |-> 7, ALLOW |-> 8]

strength == [low |-> 0, normal |-> 1, high |-> 2, critical |-> 3]

Decisions == RESTRICTIVE \cup {"NOTIFY"} \cup DOMAIN decStrength

Rules ==
    [when: {"true", "match", "nomatch", "unsupported"}, ring: 0..3,
     priority: Int, override: DOMAIN strength, then: Decisions]

\* Mutant: one pass over all rules.
PlaceOnePass(rules, i) ==
    << 0, rules[i].ring, rules[i].priority, - strength[rules[i].override], i >>

\* The place of rule i in the scan: explicit rules before catch-alls, then by
\* ring, priority and override, the stronger override first, then by index.
Place(rules, i) ==
    << IF rules[i].when = "true" THEN 1 ELSE 0,
       rules[i].ring, rules[i].priority, - strength[rules[i].override], i >>

Ahead(rules, i, j) ==
    \E k \in 1..5 :
        /\ Place(rules, i)[k] < Place(rules, j)[k]
        /\ \A l \in 1..(k - 1) : Place(rules, i)[l] = Place(rules, j)[l]

\* An ALLOW with a high or critical override covers a restriction that is
\* weaker and lies in the same or an outer ring.
Covers(o, r) ==
    /\ o.then = "ALLOW"
    /\ o.override \in {"high", "critical"}
    /\ strength[o.override] > strength[r.override]
    /\ o.ring <= r.ring
=============================================================================
