---------------------------- MODULE DecisionCheck ----------------------------
(***************************************************************************)
(* verify-decision.mjs: every decision object of the main vectors has its  *)
(* decision derived again and must be coherent, every one of the           *)
(* divergence vectors must not.                                            *)
(*                                                                         *)
(* A vector is the function from the three fields it may carry objects in. *)
(* An object of a file is named by its place: the index of its vector and  *)
(* of its field.                                                           *)
(***************************************************************************)
EXTENDS Derivation, FiniteSets

CONSTANTS
    MainFiles,       \* the sequences of vectors the main file may hold
    DivergenceFiles  \* and those the divergence file may hold

VARIABLES
    files,    \* the vectors of both files
    file,     \* the file being checked, "done" in the end
    todo,     \* the places of it whose objects are still to be checked
    tally,    \* of each file, how often each result occurred
    ok        \* the verdict of each file, None before

vars == <<files, file, todo, tally, ok>>

Files   == {"main", "divergence"}
Results == {"skip", "coherent", "divergence"}

-----------------------------------------------------------------------------
\* The fields that may carry an object, in the order they are looked at.
Fields == <<"decision_object", "base_do", "tampered_do">>

\* The object at a place of a file, None when the vector does not carry it.
ObjectAt(f, p) == files[f][p[1]][Fields[p[2]]]

\* The places that carry an object.
DOs(f) == {p \in (1..Len(files[f])) \X (1..3) : ObjectAt(f, p) # None}

\* The vectors one after the other, of each the fields in their order.
Earlier(p, q) == p[1] < q[1] \/ (p[1] = q[1] /\ p[2] < q[2])

-----------------------------------------------------------------------------
Init ==
    /\ files \in [main: MainFiles, divergence: DivergenceFiles]
    /\ file = "main"
    /\ todo = DOs("main")
    /\ tally = [f \in Files |-> [r \in Results |-> 0]]
    /\ ok = [f \in Files |-> None]

CheckNext ==
    /\ file # "done"
    /\ \E p \in todo :
           /\ \A q \in todo \ {p} : Earlier(p, q)
           /\ tally' = [tally EXCEPT ![file][Check(ObjectAt(file, p))] = @ + 1]
           /\ todo' = todo \ {p}
    /\ UNCHANGED <<files, file, ok>>

Report ==
    /\ file # "done"
    /\ todo = {}
    /\ LET t == tally[file]
       IN  ok' = [ok EXCEPT ![file] =
                     IF file = "divergence" THEN t["divergence"] > 0 /\ t["coherent"] = 0
                     ELSE t["divergence"] = 0]
    /\ file' = IF file = "main" THEN "divergence" ELSE "done"
    /\ todo' = IF file = "main" THEN DOs("divergence") ELSE {}
    /\ UNCHANGED <<files, tally>>

Next == CheckNext \/ Report

Spec == Init /\ [][Next]_vars

-----------------------------------------------------------------------------
Total(f) == tally[f]["skip"] + tally[f]["coherent"] + tally[f]["divergence"]

\* Every object of a file is counted once, under one result
\* (verify-decision.mjs:79-99).
TypeOK ==
    /\ file \in Files \cup {"done"}
    /\ ok \in [Files -> BOOLEAN \cup {None}]
    /\ \A f \in Files :
           Total(f) = IF f = file THEN Cardinality(DOs(f)) - Cardinality(todo)
                      ELSE IF ok[f] # None THEN Cardinality(DOs(f)) ELSE 0

Passed(f) == ok[f] = TRUE
Judged(f) == {p \in DOs(f) : ~Skips(ObjectAt(f, p))}
Matches(r) == r.when = "match"

\* When the main vectors pass, no record claims ALLOW although a matching rule
\* of its own restricts, or a human had to decide, and none claims a
\* restriction without such a rule, whatever the order, rings and priorities
\* of its rules (RFC-002 1.5; verify-decision.mjs:45-77).
AllowIsEarned ==
    Passed("main") =>
        \A p \in Judged("main") :
            LET do == ObjectAt("main", p)
            IN  /\ do.decision = "ALLOW" =>
                       /\ ~NeedsHuman(do.risk, do.required)
                       /\ \A k \in DOMAIN do.policies :
                              Matches(do.policies[k]) =>
                                  do.policies[k].then \notin RESTRICTIVE
                /\ do.decision \in RESTRICTIVE =>
                       \E k \in DOMAIN do.policies :
                           /\ do.policies[k].then = do.decision
                           /\ do.policies[k].when \in {"match", None}

\* A record whose rules the evaluator can only throw on never passes with the
\* main vectors, neither as one that could not be checked at all nor as one a
\* human had to decide anyway (verify-decision.mjs:58-71).
UnevaluableIsReported ==
    \A f \in Files : Passed(f) =>
        \A p \in Judged(f) :
            LET do == ObjectAt(f, p)
            IN  (\A k \in DOMAIN do.policies : do.policies[k].when = "unsupported")
                    => f = "divergence"

-----------------------------------------------------------------------------
\* What decision-divergence-vectors.json:3 says of its vectors, and the
\* verdict prints as "all MUST diverge": when they pass, each was reported.
AllDiverge ==
    Passed("divergence") =>
        \A p \in DOs("divergence") : Check(ObjectAt("divergence", p)) = "divergence"

\* What docs/VERIFIER-GUIDE.en.md:145 gives as covered: no record is coherent
\* that asserts ALLOW while it cites a rule that denies.
NoAllowCitingDeny ==
    Passed("main") =>
        \A p \in Judged("main") :
            LET do == ObjectAt("main", p)
            IN  ~ \E k \in DOMAIN do.policies :
                      /\ do.policies[k].id = do.applied
                      /\ do.policies[k].then = "DENY"
                      /\ do.decision = "ALLOW"

\* What docs/VERIFIER-GUIDE.en.md:142 says of the derivation: ring, priority
\* and override.  A record whose decision follows from its rules with their
\* overrides is not reported.
OverridesCount ==
    \A p \in Judged("main") :
        LET do   == ObjectAt("main", p)
            full == [k \in DOMAIN do.policies |->
                       [ToRules(do.policies)[k] EXCEPT !.override = do.policies[k].override]]
        IN  /\ ~Dangling(do)
            /\ ~NeedsHuman(do.risk, do.required)
            /\ do.decision = Evaluate(full)
            /\ do.decision # "throws"
            => Check(do) = "coherent"
=============================================================================
