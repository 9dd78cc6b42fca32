--------------------------- MODULE SubmissionCheck ---------------------------
(***************************************************************************)
(* What a third party's runner submits and when it passes: the check of    *)
(* the pull request (verify-submission.cjs for the hash layer,             *)
(* verify-v-engine-submission.mjs for the expression layer) and the check  *)
(* behind a row of the registry (update-registry.cjs and                   *)
(* update-expression-registry.cjs).                                        *)
(*                                                                         *)
(* An answer is a model value: two are equal exactly when the comparison   *)
(* of the layer says so (same bytes; same value, type and error flags).    *)
(***************************************************************************)
CONSTANTS
    Keys,      \* oracle keys of the hash layer, vector ids of the other
    Values,    \* answers
    Missing,   \* no answer under a key
    SkipKeys,  \* SKIP_KEYS of verify-submission.cjs
    SkipIds    \* SKIP_IDS of verify-v-engine-submission.mjs

ASSUME KeysAssumption ==
    Missing \notin Values /\ SkipKeys \subseteq Keys /\ SkipIds \subseteq Keys

Layers  == {"audit", "expression"}
Answers == [Keys -> Values \cup {Missing}]

\* The reference answers that the vectors of a commit determine.  A record
\* behind the version gate has none.
References == [Layers -> Answers]

Submissions ==
    [layer: Layers, answers: Answers, k01_check1: {"MATCH", "MISMATCH"}]

\* Every key of keys that the reference answers is answered the same.
Agrees(sub, reference, keys) ==
    \A k \in keys : reference[k] # Missing => sub.answers[k] = reference[k]

DeadKeys(sub, reference) ==
    {k \in Keys : reference[k] = Missing /\ sub.answers[k] # Missing}

\* crossVerify, failed = 0.
CrossVerify(sub, reference) ==
    /\ Agrees(sub, reference, Keys \ SkipKeys)
    /\ DeadKeys(sub, reference) = {}
    /\ sub.k01_check1 = "MISMATCH"

\* The step of verify-v1.5.yml that cross-verifies one submission.
PassesCI(sub, references) ==
    IF sub.layer = "expression"
    THEN Agrees(sub, references["expression"], Keys \ SkipIds)
    ELSE CrossVerify(sub, references["audit"])

\* The two registry generators: a submission that fails is skipped.
Recordable(sub, references) ==
    IF sub.layer = "expression"
    THEN Agrees(sub, references["expression"], Keys)
    ELSE CrossVerify(sub, references["audit"])
=============================================================================
