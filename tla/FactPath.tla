------------------------------ MODULE FactPath ------------------------------
(***************************************************************************)
(* How a rule's condition finds its value in the nested fact of a vector:  *)
(* generate-v-resolve.mjs flattens the fact to dotted keys and converts    *)
(* the rules for the evaluator of @openoba/erdl, run-v-resolve.mjs walks   *)
(* down the fact and reads the rules as they are.  How the evaluator then  *)
(* resolves is not in this repository and changes with its release.        *)
(*                                                                         *)
(* A fact is the list of its leaves in the order in which Object.entries   *)
(* reaches them, depth first.  A leaf has the path to it, the parts        *)
(* between the dots of all the keys on the way; the positions in it at     *)
(* which a key begins, {1, 2} for {"tool": {"name": v}} and {1} for        *)
(* {"tool.name": v}; and its value.  An array is a leaf with its own       *)
(* identity, and an object without leaves equals nothing for either.  What *)
(* an index or "length" finds in an array or in a text is an inner leaf;   *)
(* of these a fact lists those that matter.                                *)
(***************************************************************************)
EXTENDS RuleOrder

CONSTANTS
    None,            \* undefined: a path that leads nowhere, a field left out
    Releases,        \* the releases of @openoba/erdl that may be installed
    Evaluates(_, _)  \* what a release decides by a list of rules, or "throws"

\* The keys on the way to the leaf a are the first ones on the way to b.
LeadsTo(a, b) ==
    /\ Len(a.path) <= Len(b.path)
    /\ \A k \in DOMAIN a.path : a.path[k] = b.path[k] /\ (k \in a.keys <=> k \in b.keys)
    /\ Len(a.path) + 1 \in b.keys \cup {Len(b.path) + 1}

\* What JSON.parse returns: every key of an object has one value, so no leaf
\* has the keys of another one, and these lead on to inner leaves only.
IsFact(f) ==
    /\ f \in Seq([path: Seq(STRING), keys: SUBSET Nat, value: STRING, inner: BOOLEAN])
    /\ \A i, j \in DOMAIN f : i # j /\ LeadsTo(f[i], f[j]) =>
           f[j].inner /\ f[i].path # f[j].path
    /\ \A j \in DOMAIN f : f[j].inner => \E i \in DOMAIN f : ~f[i].inner /\ LeadsTo(f[i], f[j])

\* The positions of the leaves that are entries of an object.
Outer(fact) == {i \in DOMAIN fact : ~fact[i].inner}

LastOf(S) == CHOOSE i \in S : \A j \in S : j <= i

\* Mutant: the keys of a nested object are not prefixed.
FlattenUnprefixed(fact) ==
    LET key(leaf) == SubSeq(leaf.path, LastOf(leaf.keys), Len(leaf.path))
    IN  [p \in {key(fact[i]) : i \in Outer(fact)} |->
            fact[LastOf({i \in Outer(fact) : key(fact[i]) = p})].value]

\* The values by their dotted keys; a later one replaces an equal one, and
\* arrays are not entered.
FlattenFact(fact) ==
    [p \in {fact[i].path : i \in Outer(fact)} |->
        fact[LastOf({i \in Outer(fact) : fact[i].path = p})].value]

FieldOf(context, path) == IF path \in DOMAIN context THEN context[path] ELSE None

\* get of the runner descends from value to value: each part of the path is a
\* key of its own, or an index into an array or a text.
Get(fact, path) ==
    LET at == {i \in DOMAIN fact : fact[i].path = path /\ fact[i].keys = 1..Len(path)}
    IN  IF at = {} THEN None ELSE fact[CHOOSE i \in at : TRUE].value

-----------------------------------------------------------------------------
(***************************************************************************)
(* A rule of a vector has when as [logic, conditions], the logic "true"    *)
(* for the catch-all, each condition an eq of [field, value], and its      *)
(* ring, priority, override and decision.  Both programs turn it into a    *)
(* rule of RuleOrder.                                                      *)
(***************************************************************************)
Kept(r, when) ==
    [when |-> when, ring |-> r.ring, priority |-> r.priority,
     override |-> IF r.override = None THEN "normal" ELSE r.override, then |-> r.then]

\* eq of two values of one type; null equals nothing.
Equal(actual, value) == actual \notin {None, "null"} /\ actual = value

EngineMatches(r, context) ==
    LET holds(c) == Equal(FieldOf(context, c.field), c.value)
        all      == {holds(r.when.conditions[i]) : i \in DOMAIN r.when.conditions}
    IN  IF r.when.logic = "OR" THEN TRUE \in all ELSE FALSE \notin all

\* A rule without conditions is a catch-all of the evaluator.
ToRule(r, context) ==
    Kept(r, IF r.when.logic = "true" \/ r.when.conditions = <<>> THEN "true"
            ELSE IF EngineMatches(r, context) THEN "match" ELSE "nomatch")

RunnerReads(r, fact) ==
    Kept(r, IF r.when.logic = "true" THEN "true"
            ELSE IF r.when.logic # "AND" THEN "unsupported"
            ELSE IF \A i \in DOMAIN r.when.conditions :
                        LET c == r.when.conditions[i] IN Equal(Get(fact, c.field), c.value)
            THEN "match" ELSE "nomatch")

Of(rs) == INSTANCE ResolutionRule WITH rules <- rs, decision <- "pending"

Outcome(rs) == CHOOSE d \in Of(rs)!Outcomes : TRUE

Converted(v) ==
    LET context == FlattenFact(v.fact)
    IN  [i \in DOMAIN v.rules |-> ToRule(v.rules[i], context)]

EngineDecides(release, v) == Evaluates(release, Converted(v))

Read(v) == [i \in DOMAIN v.rules |-> RunnerReads(v.rules[i], v.fact)]

\* "none", the null of the runner, when no rule decides.
RunnerDecides(v) == Outcome(Read(v))

\* No dotted key: every part of a path is a key of its own.
Nested(f) == \A i \in DOMAIN f : f[i].keys = 1..Len(f[i].path)

\* No condition looks into an array or a text.
StaysOutside(v) ==
    \A i \in DOMAIN v.rules : \A k \in DOMAIN v.rules[i].when.conditions :
        \A j \in DOMAIN v.fact :
            v.fact[j].inner => v.fact[j].path # v.rules[i].when.conditions[k].field

\* A vector of the fixture contract (run-v-resolve.mjs:16-17): nested facts
\* and AND of at least one eq condition on them.
Neutral(v) ==
    /\ Nested(v.fact)
    /\ StaysOutside(v)
    /\ \A i \in DOMAIN v.rules :
           v.rules[i].when.logic # "true" =>
               v.rules[i].when.logic = "AND" /\ v.rules[i].when.conditions # <<>>

\* What docs/OPENOBA-DOBJ-RFC-002-EN.md:219 says of every reader of a fact: the
\* parts of a path are descended, and a flat dotted key is not found.
LooksUpByDescent(v) ==
    \A i \in DOMAIN v.rules :
        LET w == v.rules[i].when
        IN  \A k \in DOMAIN w.conditions :
                FieldOf(FlattenFact(v.fact), w.conditions[k].field)
                    = Get(v.fact, w.conditions[k].field)
=============================================================================
