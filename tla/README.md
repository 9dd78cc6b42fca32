# Verification project for erdl-vectors

TLA+ models of the programs of this repository, the TLC runs that check them on
small instances, and proofs of the most important facts for every instance.
`PROJECT.json` gives the lines every definition was translated from.

## 1. The system

The repository publishes test vectors for Decision Objects (DOs) and for the
expression and resolution layers below them, and the programs that generate and
verify them. There is no server: the programs are started by hand, by the test
runner or by GitHub Actions, and they share files.

| Component | State it keeps | Operations | Talks to |
|---|---|---|---|
| Hash-layer verifier `verify-v1.5.js`, `jcs.cjs` | parsed vectors and answers, tallies | `verifyDO`, `collectDOBreaches`, `detectChainBreach`, vector loop, Step 6 | reads both vector files; exit status and text read by the conformance generator; exports `verifyDO` to the submission check |
| Hash-layer generator `generate-v1.5.cjs` | answers table, chains under construction | `buildDO`, `recomputeHash`, `rechainFrom`, normal and attacked chains, `registerAnswer` | writes vectors, then answers |
| Conformance report `generate-conformance.cjs` | none | runs the verifier, reads the vectors again, writes the report | spawns the verifier |
| Submission check and registry `verify-submission.cjs`, `verify-v-engine-submission.mjs`, `update-registry.cjs`, `update-expression-registry.cjs`, two workflows | main, pull requests, waiting push event, running job; the two tables between their markers | check, merge, checkout, derive, replace the table, commit, push | GitHub |
| Rule resolution `run-v-resolve.mjs` | list of hits, counters | scan of the rules, fold | reads the resolution vectors |
| Resolution answers and submission check `generate-v-resolve.mjs`, `verify-v-resolve-submission.mjs` | answers file, submissions | flatten the fact, have the external evaluator decide, compare by id | external package |
| Decision re-derivation, producer check `verify-decision.mjs`, `verify-producer.mjs` | tallies | derive the decision again, compare with the recorded one | external package, the vectors |
| Signature and time layer `generate-signature.cjs`, `verify-signature.cjs`, `generate-tsa.cjs`, `mock-tsa.cjs`, `verify-tsa.cjs` | chain of signatures | sign, anchor, trace back, check anchor | vector files |
| Expression layer `v-engine.mjs`, `generate-v-engine.mjs`, `verify-v-engine.mjs`, `-full`, `-reverse` | two artifacts | second-source evaluator with fixed-point arithmetic and a calendar; generation by two renames; three verifiers | external engine, files |
| Web verifier `web/verify.html` | the field, digests and files under way, two panels | asynchronous verification of a record or a file | browser |
| Archive v1.3 `generate-vectors.cjs`, `verify.js`, `reference-runner.js` | counters, report | self-check, check against answers, five modes of the runner | files |

What is hard here: a chain that is rehashed after tampering is consistent in
itself; breaches come several at a time and only the first is named, so orders
matter; two programs decide about the same submission; main moves while a job
runs, and push events are coalesced; vectors and answers are two files written
one after the other and read in the other order; a proof is added to a record
that is signed already; the resolution of rules mixes a scan that stops early
with a fold over a set; one meaning is written down in several programs (what is
deleted before hashing, how a rule becomes a decision, how a path finds its
value, the negated rate condition), so they may drift apart; a generator and the
verifier that checks it share an engine and its faults; results arrive in a page
in any order.

What makes each component correct:

- chain verifier: what it accepts is one ordered chain, and with a known last
  hash it is the producer's; the code it names is the one its checks determine;
- generator: each attacked chain shows exactly the breach it declares;
- vector suite: the verifier passes a pair of files exactly when it is sound,
  and never files of two generations that differ;
- registry: the job never undoes a commit, registers exactly what passes,
  commits only whole tables, and registers the last submission in the end;
- resolution: scan and fold implement the rule, and no further restriction
  loosens a decision;
- resolution answers: the repository's own runner is accepted or refused by its
  resolution alone, and an accepted submission answers every vector;
- decision checks: a record that passes does not claim an ALLOW its rules or the
  oversight restrict, and one nobody can evaluate does not pass;
- signatures: a traced chain is one chain the signer made, an accepted anchor
  was issued for this signature at about this time;
- expression layer: what passes is fresh, whole and of this engine; what passes
  the second source too is right on the sensitive vectors; arithmetic is exact
  and rounded once, and nothing missing compares as true;
- web verifier: each verdict is about one record, and is the Node verifier's;
- archive: a passing run vouches for every vector, and together with the
  reference runner for the canary.

## 2. Modules

| Group | Modules | Role |
|---|---|---|
| Hash chain | `DecisionObject` | a DO at the hash layer, its digest, `verifyDO`, `buildDO`, rehashing |
| | `HashChain` | producer, attacks C02..C08, free tampering, the scan of `detectChainBreach` |
| | `ChainJudgement` | abstract: one judgement of the whole chain |
| | `HashChainProofs` | theorems |
| Vector suite | `VectorShapes` | what a vector is, answer keys, `collectDOBreaches` |
| | `VectorSuite` | generator, verifier main and conformance generator on shared files |
| | `SuiteVerdict` | abstract: read, then pass exactly when sound |
| | `VectorSuiteProofs` | theorems |
| Registry | `SubmissionCheck` | the two checks and what the registry takes |
| | `Registry` | pull requests, main, push events, the recording job |
| | `AtomicRegistry` | abstract: recording in one step |
| | `RegistryFiles` | the tables between their markers, in two files |
| | `RegistryPrograms` | the pipeline and the files, of which one moves |
| | `RegistryProofs` | theorems |
| Resolution | `RuleOrder` | strengths, order of the scan, coverage |
| | `Resolution` | loop and fold of `resolve` |
| | `ResolutionRule` | abstract: decision as a relation of the rules |
| | `FactPath` | flattening of a fact and descent into it; rules as each program reads them |
| | `ResolutionAnswers` | answers generator, runner, submission check |
| | `ResolutionPrograms` | the runner, the answers and the two programs below, of which one moves |
| | `ResolutionProofs` | theorems |
| Decisions | `Derivation` | policies to rules, oversight, on `ResolutionRule` |
| | `DecisionCheck` | `verify-decision.mjs` |
| | `ProducerCheck` | `verify-producer.mjs` |
| Signatures | `SignedRecord` | signing, tokens, verification of one record |
| | `SignedChain` | signer, vectors V-SIGN-001..005, custody, traceback, anchors |
| | `SignedChainProofs` | theorems |
| Second source | `FixedPoint`, `Calendar` | exact fractions and their rounding; dates |
| | `Expression` | `evalSExpr`, one level of a tree, and `serializeValue` |
| | `SecondSource` | one evaluation, and what it is compared with |
| Expression layer | `ExpressionLayer` | generator, full, second-source and reverse verifier on two artifacts |
| | `ExpressionLayerProofs` | theorems |
| Web | `WebVerifier`, `WebVerifierProofs` | the page and its theorems |
| Archive | `ArchiveRecord` | what a hash commits to, the generator's file, the runner's modes |
| | `ArchiveVerifier` | `verify.js` with both checks, edits of the file in between |
| | `ArchiveVerifierProofs` | theorems |
| MC* | `MCHashChain`, `MCVectorSuite`, `MCRegistry`, `MCResolution`, `MCSignedChain`, `MCExpression`, `MCArchiveVerifier`, `MCWebVerifier` | instances for TLC |

Three modules hold several parts that share no variable: `RegistryPrograms` (the
pipeline, and the files), `ResolutionPrograms` (the runner, the answers, the decision
check, the producers) and `MCExpression` (the layer, and the second source). A
variable `part` chooses one at the beginning; it moves, the others stay in one of
their initial states.

`Eval` of `SecondSource`, which the code defines by recursion over a tree, is a
constant, and the recursive definition, `MCEval`, is in `MCExpression`, which only TLC
uses. The theorems assume of `Eval` that recursion equation on the trees and contexts
of the instance, and TLC evaluates it there.

### Correspondence and abstractions

**Hash chain.** A record keeps the audit fields the verifier looks at, one
decision that stands for all the other fields, and its hash. SHA-256 is taken
to be free of collisions, so a digest is written as what it commits to: the
list of the contents from the genesis record on. `Forged` is a hash nobody
computed. `NoTime` is a timestamp that is missing, or no text: JavaScript's `<` is
false of it, either way round. Sequence numbers are the integers; a text works as
one too, since `+ 1` appends to it. A signature or a key id at the top of a record
is deleted before hashing and so is outside of what a hash, or a tip, anchors. Records that are oversize, of the old layout, with unsafe numbers or
with a lone surrogate are `Shapes`, each with the outcome `verifyDO` gives it;
the last one throws, outside any `try`. Each iteration of the two loops of
`detectChainBreach` is an action (`CheckRecord`, `CheckLink`), `CheckGenesis` is
between them. `BuildTamperedChain` has an action for each case of the function.
`Custody` stands for whoever holds a copy: one field overwritten, a record
dropped, two swapped, one rehashed, or all from one point on rechained.

**Vector suite.** A vector has one of five kinds, and of each record the model
keeps whether its version is supported, whether its hash agrees, its bytes and
what the six breach tests read. A file is a vector set, an answers table,
`Absent` or `Torn` (being written, or left by a crash). Generator actions:
`Build` (everything in memory, and the vectors file opened), `WriteVectors`,
`OpenAnswers`, `WriteAnswers`, `Crash`. Verifier actions: `ReadAnswers` first and
`ReadVectors` second as in the code, `Unparsable`, `CheckVector` and `CrossCheck`
for each vector, `CheckDeadKeys`, `Exit`. `failures` is the counter `fail`,
`errors` the list of messages, as sets. The breach of a chain vector is data
here, since `HashChain` is about how it is detected.

**Registry.** A tree is the vectors' reference answers, the submissions and the
registry. A row is the submission it is about. `StartJob` takes the commit of the
event, not the tip; `Regenerate` runs both generators; `Push` is a fast-forward or
nothing. GitHub is external and modelled from how the workflows use it.
`RegistryFiles` looks inside: a file is a sequence of pieces, text, marker or
table, and each program reads a file, replaces what stands between its two
markers, and writes it back by one plain write that a crash can cut off. Main
does not move there while the job runs, since `Registry` covers that.

**Resolution.** Of a rule the model keeps whether its condition matches, fails,
is `true` or is not supported by the runner, its ring, priority, override and
decision. Every rule has a ring, as in every vector. `Visit` picks the next index
in the sorted order; the actions are the branches of the loop body.

**Resolution answers.** A fact is the list of its leaves, in the order in which the
recursion of `flattenFact` reaches them; a leaf has the path to it and where in the
path a key begins, so a key with a dot in it is told from two nested ones, and
`FlattenFact` needs no recursion. `FactPath` has the two readings of it: the generator
flattens the fact to dotted keys, a later key overwriting an earlier one and an array
being one value, the runner descends, into an array by index too. What such an index
or `length` finds is an inner leaf, and a fact lists those some condition asks for.
How the evaluator resolves is the business of the package, whose published releases
differ (`verify-v1.5.yml:66-69`), so a release is any function from converted rules to
a decision or an exception (`Evaluates`), and `Generate` takes one that may be
installed. That it looks up fields in the flat context and joins `eq` conditions as
`EngineMatches` does is how the generator uses it. Vectors and submissions may be
edited between the steps.

**Decisions.** Both programs turn policies into rules, ask the evaluator and
raise what needs a human. A policy without `when` is a catch-all for the one
(`ToRules`), for the other a rule with an undefined condition, of which the evaluator
makes `UndefinedExpr` (`RuleDefs`). The evaluator resolves as `ResolutionRule` says:
its releases differ in what an override does, and neither program passes one on.
`DecisionCheck` takes the objects one at a time and
counts, skips or reports them as the loop does, first the main file and then the
divergence file; `ProducerCheck` runs both producers on every scenario.

**Signatures.** Ed25519 is deterministic and taken to be unforgeable: a
signature is the list of statements it commits to, each with the key that
signed it. Custody knows all that was issued and one other key, so records and
tokens can be moved between chains but not made.

**Second source.** Numbers are exact fractions as in the code (numerator and
denominator, written at a scale with half-even rounding); the scale is 2 in the
instance instead of 14, and the lengths at which `String(v)` switches to an
exponent are constants. A string has a name, a Unicode form and the date it
reads as. Dates are minutes since 1970 on the calendar of ECMAScript. `EvalSExpr`
is one call of `evalSExpr`, given what its calls for the operands return.

**Expression layer.** The engine is data: a value or an exception with a message
for each tree, a gloss, and what a simple condition compiles to. The two files are
sets of vectors and answers, each replaced by one rename; programs read them in
their own order. That a constraint is a limit (`expectThrow`) is a mark of the
definition; the vector does not carry it (`Unmarked`), the answer does. Ids are
unique within one revision of the definitions, and two revisions may use one id for
different trees and marks. One edit of the definitions or a change of the engine can come
between any two steps, and the generator can be killed.

**Web.** Everything up to the first `await` that waits is one step. Digests and
file contents arrive in any order. The vector loop is modelled by whether every
record matches.

**Archive.** A preimage is the body with its predecessor's hash, or the body
alone for a program that deletes the whole audit object. Each program has its own:
`verify.js` and the generator delete `extensions_validation`, the reference runner
keeps it; `verify.js` compares the hash with its prefix, the runner strips the
prefix if there is one. `verify.js` reads the
file once (`Start`), and `CheckDOs`, `CheckAVs`, `CrossCheck` and `Summarize` are
its phases; a file may be replaced at any time, the generator's output among
them.

## 3. Runs

| Run | Question | Bounds, and why they are enough |
|---|---|---|
| `chain` | what `detectChainBreach` accepts and reports | 3 records, the length of every chain the generator makes and the first with two links; 2 free edits: change and rechain, or two independent breaches; 2 times and none, 2 decisions and versions; 688794 states |
| `chain_priority` (violation) | is the documented order of breaches kept over the chain? | same instance |
| `suite` | what do two files left by any interleaving pass as? | 14 vector sets: one vector of each kind, and sets that differ from it in one respect; answers absent or of any set; one edit of the source, so two generations meet; crashes anywhere, any number of runs; 1040410 states |
| `registry` | does the recording respect a moving main, is the last submission recorded, and what do the two registry programs leave in the files? | pipeline: 2 files, two vector sets, 3 commits by contributors, one failing job, so that one job runs, one event waits and one is coalesced. Files: 2 tables per layer, one crash, one edit that loses a marker or a file. 564200 states |
| `registry_merged` (violation) | is a merged submission always registered? | 1 file, one vector set, no failing job |
| `resolution` | do scan and fold implement the rule, is it monotone, and do the programs that rely on a resolution agree with it? | every list of up to 3 rules of a stock of 20: a restriction, its override and a third that disturbs them; facts of two levels with equal keys on both, a dotted key beside a nested one, or an array; two releases of the evaluator, one of which lifts a restriction the rule upholds; two edits; objects of up to 2 policies, files of up to 2 vectors; up to 3 scenarios; 499361 states |
| `signed` | what do traceback and anchor check let pass? | 2 chains, 3 records in all, one free edit, token times 60 and 61 s off a record of time 0, on either side of the threshold; the two chain ids are symmetric; 174514 states |
| `signed_anchored` (violation) | does an anchored record verify with the exported function of the signing script? | same instance |
| `expression` | what does a passing run of a verifier say about files and engine, and is the second source right on single trees? | layer: a vector of every kind, three revisions, one of which has a limit without its mark, 11 engines, each with one fault at most, one of them throwing on every tree with a message of its own, one change, crashes anywhere. Second source: numbers with up to three places at scale 2, so that ties and what lies just beside them occur; ends of months, leap years, years before 1970; trees of depth two. 379216 states |
| `second_source_empty` (violation) | does a quantifier over an empty array fold to false? | same instance |
| `archive_verifier` | what does exit code 0 of `verify.js` vouch for, alone and with the reference runner? | 258 vector files, each wrong in one way, with and without the canary, empty, or with `extensions_validation` or a hash without prefix, which the two programs read differently; 4 answers files; one replacement, so each program sees an older or a newer file; `ExpectedPassCount` is 2 in place of 11; 415584 states |
| `web_verifier` | is each verdict about one record, and do all arrive? | 3 verifications in flight in either panel, 6 records, 4 files; 38696 states |

Deadlock is not checked where the programs end or the bounds stop the
environment: `chain`, `registry`, `resolution`, `signed`, `expression`, `archive_verifier` and
the violation runs of their modules. The suite's programs and the page can
always go on, and there it is checked.

The properties, by hazard:

- `TipAnchorsHistory`: an accepted chain whose last hash the producer issued is a
  beginning of the producer's ledger, whatever was rehashed. A chain cut off at
  its end is therefore accepted: nothing in the vector tells the last hash.
- `AcceptedIsOrdered`: neighbour tests order the whole chain, its times only over a
  stretch in which no record is without one (section 4, `TimesNeverRunBack`).
- `VectorsNamed`: C01 is accepted, C02..C08 are named as they declare.
- `ImplementsJudgement`: the scan gives the verdict of `ChainJudgement`.
- `ImplementsSuiteVerdict`: two loops, the used keys and two tallies come to
  "every vector is sound, and the answers are exactly those of the vectors".
- `NoMixedGenerations`: no pass compares two generations of files that differ.
  `WarningNeverMasks`: the code that only warns is never the one a record is
  named for when another holds.
- `ImplementsAtomicRegistry`: however main moves, a recording changes only the
  registry, to what the tree it lands on determines. `LatestSubmissionRecorded`:
  liveness, below. `ExitZeroListsAll`: a program that exits with 0 left every file
  that is there with the rows of its layer between that layer's markers, whatever
  markers were lost or runs cut off before. It looks at nothing else: a file torn
  behind these markers passes with exit code 0 and stays torn.
  `RecordingKeepsText`: the bot commits whole, equal tables and no other text.
- `ImplementsRule`, `EvaluatedCount`, `TighteningNeverLoosens`,
  `ListingNeverLoosens`: the resolution.
- `RunnerAccepted` and `AcceptedAnswersAll`: two ways to find a value and two
  orders of files. On the vectors of the contract (rules the runner supports, nested
  facts, no condition that looks into an array) the runner is accepted exactly when
  the release that gave the answers resolves the rules as the runner does: with a
  lagging release it is refused, which is why the check is off in CI.
- `AllowIsEarned`, `UnevaluableIsReported`: a decision comes from the rules, the
  oversight or an exception of the evaluator, and none passes for another. A record
  whose one rule is a catch-all may claim what that rule says.
- `TracedIsOneChain`, `AnchorsAreGenuine`, `VectorsJudged`: the signatures.
- `PassMeansFresh`, `LimitsEnforced`, `FreshPasses`, `SensitiveAsSpecified`: what a pass
  of the full verifier means, that it raises no false alarm, and what the
  second source adds. A limit is what the answers say was one: answers of a revision
  without the mark expect a value, and then an engine without the limit passes
  (section 4, `LimitsOfVectors`). `RoundedOnce`, `MonthsNeverRunOver`: the second
  source, against definitions that do not follow the code (integer arithmetic on
  scaled numbers, months counted from year 0). `NoFailOpen`: against the sorts of
  values a rule distinguishes, which are more than `typeof` has; it leaves out `ne` of
  two values that are objects of the program, which can be true (section 4,
  `NoMixedComparisonHolds`).
- `PassVouches`, `RegressedRejected`, `TogetherComplete`: the archive. One pass is
  subtracted for the canary without a look, AV-013 passes for any failure, an empty
  list passes, and the runner does not look at the other vectors; these say what is
  left. `RegressedRejected` names the passing files that do not tell `verify.js` from
  a program that deletes the audit object: those with no vector but AV-013 ones,
  none of which has the digest of such a program. `TogetherComplete` says less of
  objects the two programs read differently (section 4, `ModesAgree`).
- `VerdictIsOfOneRecord`, `HashModeParity`, `AnswersArrive`: the page.

Every property has a mutant of the code, in the module next to what it changes,
that the run finds violated.

### Fairness

- `Registry`: weak fairness of `Record`, which is `StartJob`, `Regenerate` and `Push`.
  GitHub starts a queued job and runs it to its end; a job that fails is `Abort`,
  which is not fair and bounded by `MaxAborts`, and the liveness property exempts
  behaviours with one. Contributors are not fair.
- `WebVerifier`: weak fairness of each digest and each file that is under way.
  `crypto.subtle.digest` and `FileReader` call back. The user is not fair.

Everything else is a safety question: the programs run once and to their end, and
whoever starts them owes nothing.

## 4. Findings

The four violation runs:

1. `chain_priority`: the documents put `hash_mismatch` before
   `version_unsupported` for the whole chain, the code takes the first bad record
   (and the first bad link) whatever its breach.
2. `registry_merged`: the job pushes once and only submissions trigger it; a push
   of somebody else during the job leaves the registry behind.
3. `signed_anchored`: `verifySignature` of `generate-signature.cjs` keeps
   `timestamp_proof` in the preimage, against the comment in the same file.
4. `second_source_empty`: a quantifier over an empty array is UNKNOWN, the contract
   says it folds to false.

Other places where the code does not do what a document or comment says. The
property stands in the module and is not part of a run; TLC finds it violated when
it is added to the passing run's configuration as an invariant.

| Property | The code | The text |
|---|---|---|
| `HashChain!TimesNeverRunBack` | neighbours are compared by `<`, which a record without a time passes on both sides, so the chain 1, none, 0 is accepted once it is rehashed (`verify-v1.5.js:259`) | `docs/VERIFIER-GUIDE.en.md:127`: `timestamp < previous` is `time_regression`; `docs/OPENOBA-DOBJ-RFC-002-EN.md:414`: timestamp rolls back |
| `Registry!RecordingRegistersChecked` | the check of an expression submission leaves out `SKIP_IDS` (`verify-v-engine-submission.mjs:89`), the registry generator does not (`update-expression-registry.cjs:87`) | `RUNNER_CONTRACT.en.md:84`: registered on merge |
| `Resolution!PermutationInvariant` | ties of strength are decided by the position in the list (`run-v-resolve.mjs:62`) | `run-v-resolve.mjs:48`: invariant under permutation |
| `VectorSuite!ReportIsMeasured` | without the answers file the verifier passes without Step 6 and the report states a literal (`generate-conformance.cjs:62`); CI generates the answers first and is not affected | `README.md:197`: produced by the run itself |
| `SecondSource!MissingCollapsesToFalse` | comparison with a missing field is UNKNOWN, `ne` is true (`verify-v-engine.mjs:205`) | `EXPRESSION-RUNNER-CONTRACT.md:72` |
| `SecondSource!MissingPropagates` | a missing operand two levels down ends as null, serialized false (`verify-v-engine.mjs:190`) | `verify-v-engine.mjs:187` |
| `SecondSource!NumbersAreCanonical` | large numbers have an exponent, a small negative fraction is `-0` (`verify-v-engine.mjs:292`) | `docs/OPENOBA-DOBJ-RFC-002-EN.md:64` |
| `SecondSource!StrictIso` | 30 February is read as 1 March (`verify-v-engine.mjs:103`) | `verify-v-engine.mjs:96` |
| `ExpressionLayer!ProjectionsCompiled` | nothing compiles the decision tables again (`verify-v-engine-full.mjs:72`) | `README.md:122`, `verify-v-engine-reverse.mjs:80` |
| `ExpressionLayer!LimitsOfVectors` | only the answer says that a constraint is a limit (`verify-v-engine-full.mjs:92`); after a mark or the order of the entries was edited between the two renames, answers of the other revision expect the value, and an engine without the limit passes | `v-engine.mjs:447`: resource limits, all deterministically checkable |
| `ExpressionLayer!ThrowingEngineFound` | messages are compared (`verify-v-engine-reverse.mjs:66`), so an engine that throws on every tree, each time with another message, is counted as detecting | `verify-v-engine-reverse.mjs:94`: detected are results that change |
| `SecondSource!NoMixedComparisonHolds` | a computed number, a list and a date are all `object` for `typeof`, and `ne` of two of them is true (`verify-v-engine.mjs:224`) | `verify-v-engine.mjs:223`: type-mismatched comparison folds unknown, no fail-open via `!==` |
| `DecisionCheck!AllDiverge` | a skipped object of the divergence file passes (`verify-decision.mjs:105`) | `decision-divergence-vectors.json:3` |
| `DecisionCheck!NoAllowCitingDeny` | of the cited rule only its existence is checked (`verify-decision.mjs:54`) | `docs/VERIFIER-GUIDE.en.md:145` |
| `DecisionCheck!OverridesCount` | the override of a policy is dropped (`verify-decision.mjs:28`) | `docs/VERIFIER-GUIDE.en.md:142` |
| `FactPath!LooksUpByDescent` (with a fact that has a dotted key or an array) | the fact is flattened, arrays are not entered (`generate-v-resolve.mjs:24`) | `docs/OPENOBA-DOBJ-RFC-002-EN.md:219` |
| `ProducerCheck!SinglePathCoherent` | a rule without `when` is a catch-all in the decision check (`verify-decision.mjs:33`) and has an undefined condition in the producer check (`verify-producer.mjs:54`), so what the single-path producer enforced is reported | `verify-producer.mjs:47` and `verify-decision.mjs:65`: both derive by RFC-002 1.5 |
| `WebVerifier!SignatureDeleted` | the page deletes `audit.hash` only (`web/verify.html:108`) | `RUNNER_CONTRACT.en.md:18` |
| `ArchiveVerifier!CanaryDiscriminates` | AV-013 passes for any failure, or is missing (`verify.js:562`) | `verify.js:27` of the archive |
| `ArchiveVerifier!ElevenMatched` | with an empty `audit_vectors` list nothing is counted and the run passes (`verify.js:559`), with exit code 0 and, when asked, a report | `verify.js:613`, printed by that run: "11/11 MATCH + AV-013 CHAIN CANARY DETECTED" |
| `ArchiveVerifier!ModesAgree` | mode 4 does not ask that AV-012 matches before it is tampered with (`reference-runner.js:250`), and `extensions_validation` is deleted by `verify.js` only (`verify.js:165`): an AV-012 with that field and a `previous_hash` of zeros passes both | `reference-runner.js:249`: detection works |
| `ArchiveVerifier!StaticObjectsCount` | `doFails` enters no verdict (`verify.js:427`) | `docs/DESIGN-verify-js-v1.3.md:130` of the archive |
| `ArchiveVerifier!ReportCountsMatches` | the report claims one match too many (`verify.js:645`) | `verify.js:644` |
| `ArchiveVerifier!GeneratedVerifies` | the generator deletes the audit object, the verifier keeps it (`generate-vectors.cjs:228`) | `CONTRIBUTING.md:38` of the archive |
| `ArchiveVerifier!NoSpecialCase` | AV-013 is known by its id (`verify.js:450`) | `docs/DESIGN-verify-js-v1.3.md:97` of the archive |
| `ArchiveVerifier!RunnerCriteria` | mode 1 does not count (`reference-runner.js:362`) | `reference-runner.js:361` |

Remarks. The AV-013 stored in the archived file is not the digest of the record
with its audit object deleted, so it fails mode 5 of the reference runner and is a
case of `CanaryDiscriminates`. The archive's CI passes `submissions/*.json` as
second positional argument, which `verify.js` takes for the vector file (observed,
not modelled). `README.en.md:177` says that a regressed validator passes AV-001 to
AV-012; on a file that `verify.js` passes it takes none of these for true, and such a
file tells it from `verify.js` unless it has no vector besides AV-013
(`RegressedRejected`). A vector whose kind the main verifier does not know is skipped
without a message and counted nowhere (`verify-v1.5.js:307`); the suites modelled have
known kinds only. A time that cannot be parsed makes the drift NaN, which is not above
the threshold (`verify-tsa.cjs:55`); the times of records and tokens are numbers in the
model. `signature` and `signing_key_id` are deleted before hashing (`verify-v1.5.js:136`),
so a known tip (`TipAnchorsHistory`) anchors every other field, these two not. With two verifications of the page in
flight the panel may end with the earlier one's result, though always with a true
one.

## 5. Proofs

Proved by TLAPS for all values of the constants, from the named assumptions of
the modules only. Each proof follows the same plan: an inductive invariant `IInv`
(checked by TLC on the instance first), one step per action, the property from
`IInv` and temporal logic at the end.

- `HashChainProofs`: type correctness; `AcceptedOrder` and `TipAnchor` for chains of
  any length and any number of edits. The two properties speak about finished
  scans only and are not inductive. `IInv` adds what the scan knows at its cursor
  (`ScanInv`: records before it are sound, in the second loop all are and the links
  before it hold), and what a hash in the ledger stands for: the hash of record n
  is the history of the first n contents. An accepted chain then has hashes that
  are histories too, and equal histories are equal records, from the tip down.
  `Refinement`: a step of the scan is a stutter of `ChainJudgement`, and the step
  that ends it is its `Judge`; `ScanInv` gives what came before the fault that is
  named.
  `Named`: C01 for ledgers of any length, C02..C08 for every normal chain of three
  records. `DeclaredInv` says that the producer's records are its own
  (`ProducedInv`) and that the two loops come to the declared breach on the copy
  (`ScansTo`); each attack is followed through `rechainFrom` (`RechainLinks`,
  `Replaced`) to the first check that sees it. The loops come to one verdict only
  (`ScanUnique`), and the scan reports it (`ScanReports`).
- `RegistryProofs`: type correctness; `Inductive`, `Refinement`: the key fact is that
  an event or a job of commit `sha` has the tree at the tip exactly when `sha` is the
  tip's (`OnTip`), so a fast-forward cannot lose a commit, and that a job about to
  push carries the registry derived from its tree. `ExitZero`, `KeepsText`, for any
  rows: a whole file keeps its pieces in their places whatever is replaced between
  two markers (`FilesInv`), so a program that came to its end wrote its rows into
  each file that had both markers, and what is pushed differs from main in tables
  only.
- `ResolutionProofs`: type correctness, `CountedOnce`, `Refinement` (the scan and the
  fold allow only decisions of `ResolutionRule`), for rule lists of any length:
  the hits are the holding rules ahead of all of `todo`, in the order of the sort,
  and the counter is the number of those visited. `TighteningSafe`, `ListingSafe`: a
  finished run's decision is an outcome of the rule (`DecidedInv`), and whether an
  outcome restricts depends on the foremost rules alone; one more restriction or
  another listing leaves a foremost restriction there. `Earned`: the tally of main
  vectors is empty only if every object so far was coherent (`DecisionInv`), and a
  coherent object has a rule for its restriction and none against its ALLOW.
  `Unevaluable`: where no rule can be evaluated none halts the scan, so the first one
  throws, and a divergence counted is never a pass.
  `OrderDecidesTies` says what is left of the comment that
  `PermutationInvariant` states (section 4): when no two rules tie (`NoTies`), a permutation
  carries over every relation `ResolutionRule` is made of (`PermutedOutcomes`), and the
  rules leave one outcome (`OneOutcome`), so no order of the list changes it.
  `Tells` (a difference that was counted is one a scenario asked for, `DifferenceInv`)
  and `EachCounted` (the counts are the sizes of sets of objects visited, `CountsInv`)
  are about definitions that no run names: they are proved only.
  `AnswersAll`: the last result of an id is one of its results (`AnswersInv`).
  `OwnAccepted`: results that nobody edited say of each vector what the runner does,
  since a listing without repetition reaches every vector (`OwnInv`), and on vectors of
  the contract the evaluator is given the very rules the runner resolves
  (`NeutralAgree`), so the answers are those of the release on these rules. For that,
  no two entries of a nested fact have one path, so flattening and descent find the
  same value outside of arrays and texts (`NestedLookup`, `NestedByDescent`), and every
  rule is converted to what the runner makes of it. Nothing is assumed of a release
  but that it decides or throws.
- `SignedChainProofs`: type correctness, `OneChain`, `Judged`, `Genuine`, for any number
  of chains and edits: records outside the producer's are built of signatures it
  issued or of the other key's, and the traceback ties each to the one before.
- `VectorSuiteProofs`: type correctness and `OneGeneration`: what a finished loop has
  seen of vectors and answers, under any crashes and rewritings. `Implements`: in the
  loops the messages so far are none exactly if all vectors taken so far are sound,
  and the used keys are those asked for and found (`ScanInv`), so the two tallies
  come to the one judgement of `SuiteVerdict`. `NoMasking`: what a passed vector was
  named for is known from the same invariant (`PassedInv`).
- `ExpressionLayerProofs`, on the two files: type correctness, `Fresh`, `Limits`,
  `Projections`, `Sensitive`, `Discriminates`: what a program exited 0 for are two files
  that were once whole, and that its test accepts (`PassInv`). `NoFalseAlarm`, the
  other direction: every kind of vector is followed from the definition through the
  generator to the comparison the verifier makes. In `Fresh` and `Limits` answers of one
  revision may meet vectors of another: an answer has the value null just when it was
  made for a limit (`AnswerShape`), which no evaluation gives, so the comparison fails
  unless the answer expects an exception and the engine throws. `MarkedLimits`: with
  files of one revision, the answers made for limits are those of the marked entries.
- `ExpressionLayerProofs`, on the second source: `NoComparisonFailsOpen`, for any trees
  as operands: where the sorts differ, `typeof` differs too unless both values are
  objects, and the comparison without a match of types is unknown. `MonthsLandRight`, for every instant and every number of months: the
  years follow each other without gap, and the months of a year do, so every day is
  one day of one month of one year (`YearFound`, `MonthFound`, `Placed`), the setters
  move within it (`SetTo`, `MakeDayMoves`), and the last day of a month is found by
  the detour through the next month's day 0 (`LastDay`). `HalfEven`: the digits
  `toDecimalString` computes, with their carry, are those of the nearest number with
  so many places, and of the even one of two as near, for every fraction.
  `ReducedAlike`: two fractions of one value are written alike, so it does not matter
  where an operand or a partial result was reduced (`NearestScaled`).
- `WebVerifierProofs`: type correctness, `ShownIsTrue`, `Parity`.
- `ArchiveVerifierProofs`: `Vouches`, `DualVouched`, `OnlyCanariesPassRegressed`,
  `Together`, for files of any length: the counters of a finished check are the sizes
  of disjoint sets of indices that make up the file, so counts fix what every vector
  was. A regressed program would need all vectors counted as passes, and one other
  than AV-013 cannot be a match for both (`Apart`); where there is none besides AV-013
  it has all of them. In `Together` what mode 4 and mode 5 say of the runner's bytes is
  carried over to those of `verify.js` for objects without `extensions_validation`.

Assumptions: the types and finiteness of the constants, and that values that stand
for something special (`Forged`, `Torn`, `Absent`, `NoValue`, `None`, `Legacy`) are no
ordinary ones (`NoneAssumption`, parts of the others). What is more than that:

- `VectorsAssumption` and `ScenariosAssumption`, `FilesAssumption` of
  `ResolutionPrograms`: rules and objects have the fields the programs read, an
  object of a fact has a key only once, and there are finitely many vectors.
  `ReleasesAssumption`: a release of the evaluator decides or throws.
- `DefinitionsAssumption`: a revision of the definitions has an id only once, and
  only nodes and constraints are for the second source. `EnginesAssumption`: no engine,
  and not the second source, renders a tree as the null of type "null" a limit is
  answered with; `serializeValue` of `v-engine.mjs` has no such pair.
- `EvalAssumption`: `Eval` satisfies the recursion equation of `evalSExpr`.
  `OperandsAssumption`: a comparison and `date_add` have two operands, as in all the
  vectors.
- `ArchiveAssumption`: files are lists of objects, each audit vector of the generator
  is made from a definition, and AV-003 is one of them, as in `generate-vectors.cjs`.

TLC evaluates all of them.

Left to TLC:

- liveness (`LatestSubmissionRecorded`, `AnswersArrive`), since the prover has no
  fairness reasoning to offer here;
- `RoundedOnce`: operands are reduced by a greatest common divisor and folded over
  a list of arguments, both recursions over data. Of it, the rounding step is proved
  (`HalfEven`), and that reducing before it changes nothing (`ReducedAlike`).

`MonthsNeverRunOver` speaks of results outside the year 0: `lastDayOfMonth` asks
`Date.UTC`, which reads the years 0 to 99 as 1900 to 1999, and of these only the year
0 has another February than the one it is read as, so there the 29th is not reached.

## 6. Not modelled

- The canonicaliser's text: what a digest commits to and when the canonicaliser
  throws is modelled, its bytes are not.
- Command lines, console output, the wording of files, the date of the reports.
- The definitions of the vectors (`generate-v1.5.cjs`, `v-engine.mjs` 1 to 400,
  `generate-vectors.cjs`, the resolution and decision vectors) are data: one or
  more of each kind stand for them.
- The external packages `@openoba/erdl` and `json-canonicalize`; the evaluator is any
  function from rules to decisions for the answers, and the documented resolution for
  the decision checks, the engine any function from trees to values.
- The page repeats `collectDOBreaches` and `detectChainBreach`; they are modelled once,
  in `VectorShapes` and `HashChain`.

## 7. How it was built

The plan was: hash chain, registry, resolution, signatures, vector suite, then the
web page, the decision checks, the resolution answers, the second source and the
expression layer, the registry's files, the archive; and proofs of the safety
properties of each as soon as TLC had nothing against them. All of it is done.
