----------------------- MODULE ArchiveVerifierProofs -----------------------
(***************************************************************************)
(* Proofs about ArchiveVerifier, for vector files of any length and any    *)
(* answers: what a passing run of verify.js says of the file it read, and  *)
(* what it and the reference runner say together.                          *)
(***************************************************************************)
EXTENDS ArchiveVerifier, FiniteSetTheorems, SequenceTheorems, TLAPS

-----------------------------------------------------------------------------
(***************************************************************************)
(* Lists and what is counted in them.                                      *)
(***************************************************************************)
LEMMA ListDomain ==
    ASSUME NEW s, IsList(s)
    PROVE  Len(s) \in Nat /\ DOMAIN s = 1..Len(s)
BY DEF IsList

LEMMA ListFinite ==
    ASSUME NEW s, IsList(s)
    PROVE  IsFiniteSet(DOMAIN s) /\ Cardinality(DOMAIN s) = Len(s)
BY ListDomain, FS_Interval

\* What is counted as none is nowhere.
LEMMA NoneCounted ==
    ASSUME NEW s, IsList(s), NEW E \in SUBSET DOMAIN s, Cardinality(E) = 0
    PROVE  E = {}
BY ListFinite, FS_Subset, FS_EmptySet

\* A list that begins with what it is made of is a list.
LEMMA FunctionIsList ==
    ASSUME NEW n \in Nat, NEW f, f = [i \in 1..n |-> f[i]]
    PROVE  IsList(f) /\ DOMAIN f = 1..n
<1> DEFINE R == Range(f)
<1>1. DOMAIN f = 1..n /\ \A i \in 1..n : f[i] \in R
  BY DEF Range
<1> HIDE DEF R
<1>2. f \in [1..n -> R]
  BY <1>1
<1>3. f \in Seq(R)
  BY <1>2
<1> QED
  BY <1>1, <1>3 DEF IsList, R

LEMMA SequenceIsList ==
    ASSUME NEW R, NEW s \in Seq(R)
    PROVE  IsList(s)
<1>1. Len(s) \in Nat /\ s \in [1..Len(s) -> R]
  BY LenProperties
<1> QED
  BY <1>1, FunctionIsList

\* The index that FirstWith chooses.
LEMMA FirstIndex ==
    ASSUME NEW s, IsList(s), NEW E \in SUBSET DOMAIN s, E # {}
    PROVE  (CHOOSE i \in E : \A j \in E : i <= j) \in E
<1> DEFINE D == 1..Len(s)
           T == {1..i : i \in E}
<1>1. D = DOMAIN s /\ E \subseteq D /\ Len(s) \in Nat /\ IsFiniteSet(D)
  BY ListDomain, ListFinite
<1>2. T \subseteq FiniteSubsetsOf(D) /\ T # {}
  <2> SUFFICES ASSUME NEW i \in E PROVE 1..i \in SUBSET D /\ IsFiniteSet(1..i)
    BY DEF FiniteSubsetsOf
  <2>1. i \in Int /\ 1..i \in SUBSET D
    BY <1>1
  <2> QED
    BY <2>1, FS_Interval
<1>3. IsWellFoundedOn(StrictSubsetOrdering(D), FiniteSubsetsOf(D))
  BY <1>1, FS_StrictSubsetOrderingWellFounded
<1> HIDE DEF T
<1>4. PICK S \in T : \A R \in T : <<R, S>> \notin StrictSubsetOrdering(D)
  BY <1>2, <1>3, WFMin
<1>5. PICK i \in E : S = 1..i
  BY <1>4 DEF T
<1>6. ASSUME NEW j \in E PROVE i <= j
  <2>1. i \in Nat /\ j \in Nat /\ i >= 1
    BY <1>1
  <2>2. SUFFICES ASSUME j < i PROVE FALSE
    BY <2>1
  <2>3. 1..j \in T /\ 1..j \in SUBSET D /\ 1..i \in SUBSET D
    BY <1>1 DEF T
  <2>4. 1..j \subseteq 1..i /\ i \in 1..i /\ i \notin 1..j
    BY <2>1, <2>2
  <2> QED
    BY <1>4, <1>5, <2>3, <2>4 DEF StrictSubsetOrdering
<1> QED
  BY <1>6

-----------------------------------------------------------------------------
(***************************************************************************)
(* Files.                                                                  *)
(***************************************************************************)
LEMMA Built ==
    ASSUME NEW body
    PROVE  {"body", "prev", "ext"} \subseteq DOMAIN BuildDO(body)
BY DEF BuildDO

\* The generator writes a file that can be read: every vector copies a static
\* object.
LEMMA GeneratedReadable == Readable(Generated)
<1> DEFINE dos == [i \in DOMAIN Definitions |->
                    [id |-> Definitions[i].id, do |-> BuildDO(Definitions[i].body)]]
           copied(m) == {i \in DOMAIN dos : dos[i].id = m.src}
           copy(m) == dos[CHOOSE i \in copied(m) : \A j \in copied(m) : i <= j].do
           avs == [i \in DOMAIN AVMapping |->
                    [id |-> AVMapping[i].av, do |-> copy(AVMapping[i])]]
           old == {i \in DOMAIN avs : avs[i].id = "AV-003"}
           av003 == avs[CHOOSE i \in old : \A j \in old : i <= j]
           av008 == [id |-> "AV-008", do |-> [av003.do EXCEPT !.hash = Legacy]]
<1>1. Generated = [dos |-> dos, avs |-> Append(avs, av008)]
  BY DEF Generated, FirstWith, Indices, HasId
<1>2. IsList(dos) /\ DOMAIN dos = DOMAIN Definitions
  BY ListDomain, FunctionIsList, ArchiveAssumption
<1>3. IsList(avs) /\ DOMAIN avs = DOMAIN AVMapping
  BY ListDomain, FunctionIsList, ArchiveAssumption
<1>4. ASSUME NEW k \in DOMAIN AVMapping
      PROVE  {"body", "prev", "ext"} \subseteq DOMAIN copy(AVMapping[k])
  <2> DEFINE m == AVMapping[k]
             c == CHOOSE i \in copied(m) : \A j \in copied(m) : i <= j
  <2>1. PICK n \in DOMAIN Definitions : Definitions[n].id = m.src
    BY ArchiveAssumption DEF Range
  <2>2. n \in copied(m)
    BY <1>2, <2>1
  <2>3. c \in copied(m)
    BY <1>2, <2>2, FirstIndex
  <2>4. dos[c].do = BuildDO(Definitions[c].body)
    BY <1>2, <2>3
  <2> QED
    BY <2>4, Built
<1>5. \A k \in DOMAIN avs : {"body", "prev", "ext"} \subseteq DOMAIN avs[k].do
  BY <1>3, <1>4
<1> HIDE DEF avs, dos
<1>6. {"body", "prev", "ext"} \subseteq DOMAIN av008.do
  <2> DEFINE c == CHOOSE i \in old : \A j \in old : i <= j
  <2>1. PICK k \in DOMAIN AVMapping : AVMapping[k].av = "AV-003"
    BY ArchiveAssumption DEF Range
  <2>2. avs[k].id = "AV-003"
    BY <2>1 DEF avs
  <2>3. old \in SUBSET DOMAIN avs /\ old # {}
    BY <1>3, <2>1, <2>2
  <2> HIDE DEF old
  <2>4. c \in old
    BY <1>3, <2>3, FirstIndex
  <2>5. {"body", "prev", "ext"} \subseteq DOMAIN av003.do
    BY <1>5, <2>3, <2>4
  <2> QED
    BY <2>5
<1> HIDE DEF av008
<1>7. IsList(Append(avs, av008))
  <2> DEFINE R == Range(avs) \cup {av008}
             app == Append(avs, av008)
  <2>1. avs \in Seq(R)
    BY <1>3 DEF IsList
  <2>2. app \in Seq(R)
    BY <2>1
  <2> QED
    BY <2>2, SequenceIsList
<1>8. ASSUME NEW k \in DOMAIN Append(avs, av008)
      PROVE  {"body", "prev", "ext"} \subseteq DOMAIN Append(avs, av008)[k].do
  BY <1>3, <1>5, <1>6 DEF IsList
<1> QED
  BY <1>1, <1>2, <1>7, <1>8 DEF Readable

-----------------------------------------------------------------------------
(***************************************************************************)
(* The invariant.                                                          *)
(***************************************************************************)
LEMMA InvInit == Init => IInv
BY ArchiveAssumption DEF Init, IInv, NoC1

LEMMA ReplaceStep ==
    ASSUME IInv, NEW by, Replace(by), Readable(by)
    PROVE  IInv'
BY DEF IInv, Replace, verifier, Counted, CountStatus, Count, Indices, Compared, Against,
       C1Ok, C2Ok

LEMMA InvStep == IInv /\ [Next]_vars => IInv'
<1> SUFFICES ASSUME IInv, [Next]_vars PROVE IInv'
  OBVIOUS
<1>n. None # 0
  BY ArchiveAssumption
<1>1. CASE Generate
  BY <1>1, ReplaceStep, GeneratedReadable DEF Generate
<1>2. CASE Edit
  BY <1>2, ReplaceStep, ArchiveAssumption DEF Edit
<1>3. CASE RunReference
  BY <1>3 DEF IInv, RunReference, env, verifier, Counted, Compared, Against, C2Ok,
     CountStatus, Count, Indices
<1>4. CASE Start
  <2>1. /\ Readable(file') /\ held' = file /\ exit' # 0 /\ c1' = NoC1
        /\ phase' # "idle" => exit' = None
        /\ phase' \in {"idle", "DOs"} /\ UNCHANGED runner
    BY <1>4, <1>n DEF IInv, Start, env
  <2> QED
    BY <2>1 DEF IInv
<1>5. CASE CheckDOs
  <2>1. /\ phase = "DOs" /\ phase' = "AVs" /\ UNCHANGED <<file, held, exit, runner>>
        /\ DOMAIN c1' = DOMAIN c1
    BY <1>5 DEF CheckDOs, env
  <2> QED
    BY <1>n, <2>1 DEF IInv
<1>6. CASE CheckAVs
  <2>1. /\ phase = "AVs" /\ UNCHANGED <<file, held, oracle, exit, runner>>
        /\ phase' = IF oracle = None THEN "summary" ELSE "answers"
        /\ c1' = [c1 EXCEPT !.passes     = CountStatus(held.avs, "passes"),
                            !.mismatches = CountStatus(held.avs, "mismatches"),
                            !.errors     = CountStatus(held.avs, "errors")]
    BY <1>6 DEF CheckAVs, env
  <2>2. DOMAIN c1 = DOMAIN NoC1
    BY DEF IInv
  <2>3. Counted' /\ DOMAIN c1' = DOMAIN NoC1
    BY <2>1, <2>2 DEF NoC1, Counted
  <2> QED
    BY <1>n, <2>1, <2>3 DEF IInv
<1>7. CASE CrossCheck
  BY <1>7, <1>n DEF IInv, CrossCheck, env, Counted, Compared, Against, Count, Indices
<1>8. CASE Summarize
  BY <1>8, <1>n DEF IInv, Summarize, env, Counted, Compared, Against, C2Ok, Count, Indices
<1>9. CASE UNCHANGED vars
  BY <1>9 DEF IInv, vars, env, verifier, Counted, Compared, Against, C2Ok, CountStatus,
     Count, Indices
<1> QED
  BY <1>1, <1>2, <1>3, <1>4, <1>5, <1>6, <1>7, <1>8, <1>9 DEF Next

\* The counters of a finished check and the meaning of exit code 0 hold at all
\* times (verify.js:408-589).
THEOREM Inductive == Spec => []IInv
BY InvInit, InvStep, PTL DEF Spec

-----------------------------------------------------------------------------
(***************************************************************************)
(* What a passing run says of the audit vectors.                           *)
(***************************************************************************)
Result(av) == VerifyDO(av)

\* No audit vector is counted as a mismatch or an error.
LEMMA NoneFailed ==
    ASSUME NEW avs, IsList(avs), avs # <<>>, NEW t,
           t.passes     = CountStatus(avs, "passes"),
           t.mismatches = CountStatus(avs, "mismatches"),
           t.errors     = CountStatus(avs, "errors"),
           C1Ok(Len(avs), t)
    PROVE  /\ Len(avs) = ExpectedPassCount + 1
           /\ \A i \in DOMAIN avs : Status(avs[i], Result(avs[i])) = "passes"
<1> DEFINE of(r) == {i \in DOMAIN avs : Status(avs[i], VerifyDO(avs[i])) = r}
<1>1. Len(avs) > 0
  BY ListDomain DEF IsList
<1>2. /\ t.passes = Cardinality(of("passes"))
      /\ t.mismatches = Cardinality(of("mismatches"))
      /\ t.errors = Cardinality(of("errors"))
  BY DEF CountStatus, Count, Indices
<1>3. t.passes - 1 = ExpectedPassCount /\ t.mismatches = 0 /\ t.errors = 0
  BY <1>1 DEF C1Ok
<1>4. of("mismatches") = {} /\ of("errors") = {}
  BY <1>2, <1>3, NoneCounted
<1>5. \A i \in DOMAIN avs : Status(avs[i], VerifyDO(avs[i])) = "passes"
  BY <1>4 DEF Status
<1>6. of("passes") = DOMAIN avs
  BY <1>5
<1>7. t.passes = Len(avs) /\ Len(avs) \in Nat
  BY <1>2, <1>6, ListFinite, ListDomain
<1> QED
  BY <1>3, <1>5, <1>7, ArchiveAssumption DEF Result

LEMMA PassedFile ==
    ASSUME IInv, Passed, held.avs # <<>>
    PROVE  /\ IsList(held.avs)
           /\ Len(held.avs) = ExpectedPassCount + 1
           /\ \A i \in DOMAIN held.avs : Status(held.avs[i], Result(held.avs[i])) = "passes"
<1>1. IsList(held.avs) /\ Counted /\ C1Ok(Len(held.avs), c1)
  BY DEF IInv, Passed, Readable
<1> QED
  BY <1>1, NoneFailed DEF Counted

LEMMA PassVouchesHolds == IInv => PassVouches
<1> SUFFICES ASSUME IInv, Passed, held.avs # <<>>
             PROVE  /\ Len(held.avs) = ExpectedPassCount + 1
                    /\ \A i \in DOMAIN held.avs :
                           held.avs[i].id # "AV-013" => Matches(held.avs[i]) /\ ~held.avs[i].do.heavy
  BY DEF PassVouches
<1> QED
  BY PassedFile DEF Status, Result, VerifyDO, Matches

\* A run of verify.js that exits with 0 found every audit vector but AV-013
\* true and within the limits, in the number expected (verify.js:439-476, 558-571).
THEOREM Vouches == Spec => []PassVouches
BY Inductive, PassVouchesHolds, PTL

-----------------------------------------------------------------------------
(***************************************************************************)
(* What a passing dual run says of the canonical bytes.                    *)
(***************************************************************************)
\* No vector that the answers know is counted as a mismatch.
LEMMA NoneDiffers ==
    ASSUME NEW vs, IsList(vs), Count(vs, LAMBDA v : Against(v) = "MISMATCH") = 0
    PROVE  \A v \in Range(vs) : v.id \in DOMAIN oracle => oracle[v.id] = Preimage(v.do)
<1> DEFINE E == {i \in DOMAIN vs : Against(vs[i]) = "MISMATCH"}
<1>1. Cardinality(E) = 0
  BY DEF Count, Indices
<1>2. E = {}
  BY <1>1, NoneCounted
<1>3. \A i \in DOMAIN vs : Against(vs[i]) # "MISMATCH"
  BY <1>2
<1> QED
  BY <1>3 DEF Range, Against

LEMMA DualVouchesHolds == IInv => DualVouches
<1> SUFFICES ASSUME IInv, Passed, oracle # None
             PROVE  /\ \A v \in Range(held.dos) \cup Range(held.avs) :
                           v.id \in DOMAIN oracle => oracle[v.id] = Preimage(v.do)
                    /\ \A v \in Range(held.avs) : v.id = "AV-013" => v.id \in DOMAIN oracle
  BY DEF DualVouches
<1>1. Readable(held) /\ Compared /\ C2Ok
  BY DEF IInv, Passed
<1>2. /\ IsList(held.dos) /\ Count(held.dos, LAMBDA v : Against(v) = "MISMATCH") = 0
      /\ IsList(held.avs) /\ Count(held.avs, LAMBDA v : Against(v) = "MISMATCH") = 0
  BY <1>1 DEF Readable, Compared, C2Ok
<1>3. \A v \in Range(held.dos) \cup Range(held.avs) :
          v.id \in DOMAIN oracle => oracle[v.id] = Preimage(v.do)
  BY <1>2, NoneDiffers
<1> QED
  BY <1>1, <1>3 DEF C2Ok, Range

\* A dual run that exits with 0 found the bytes of every object the answers know,
\* and the answers know AV-013 (verify.js:217-256, 574-589).
THEOREM DualVouched == Spec => []DualVouches
BY Inductive, DualVouchesHolds, PTL

-----------------------------------------------------------------------------
(***************************************************************************)
(* Regressed programs, and verifier and reference runner together.         *)
(***************************************************************************)
\* No bytes are both those of a whole audit object and those of a deleted one.
LEMMA Apart ==
    ASSUME NEW av
    PROVE  /\ ~(Matches(av) /\ Regressed(av))
           /\ RunnerRegressed(av) => ~Matches(av) /\ ~RunnerMatches(av)
<1>1. /\ Preimage(av.do).audit = "kept" /\ RunnerPreimage(av.do).audit = "kept"
      /\ RegressedPreimage(av.do).audit = "deleted"
      /\ RunnerRegressedPreimage(av.do).audit = "deleted"
  BY DEF Preimage, RegressedPreimage, RunnerPreimage, RunnerRegressedPreimage
<1>2. /\ Matches(av) => av.do.hash.of = Preimage(av.do)
      /\ Regressed(av) => av.do.hash.of = RegressedPreimage(av.do)
      /\ RunnerMatches(av) => av.do.hash.of = RunnerPreimage(av.do)
      /\ RunnerRegressed(av) => av.do.hash.of = RunnerRegressedPreimage(av.do)
  <2>1. \A b, c : [of |-> b, bare |-> c].of = b
    OBVIOUS
  <2>2. \A b : IsDigest(av.do.hash, b) => av.do.hash.of = b
    BY <2>1, Zenon DEF IsDigest
  <2>3. \A b : av.do.hash = Digest(b) => av.do.hash.of = b
    BY <2>1, Zenon DEF Digest
  <2> QED
    BY <2>2, <2>3, Zenon DEF Matches, Regressed, RunnerMatches, RunnerRegressed
<1>3. "kept" # "deleted"
  OBVIOUS
<1> QED
  BY <1>1, <1>2, <1>3, Zenon

LEMMA RegressedRejectedHolds == IInv => RegressedRejected
<1> DEFINE avs == held.avs
           result(av) == IF av.do.heavy THEN "limit"
                         ELSE IF Regressed(av) THEN "match" ELSE "mismatch"
           status(av) == Status(av, result(av))
           tally == [passes |-> Count(avs, LAMBDA av : status(av) = "passes"),
                     mismatches |-> Count(avs, LAMBDA av : status(av) = "mismatches"),
                     errors |-> Count(avs, LAMBDA av : status(av) = "errors")]
           Canary(av) == av.id = "AV-013" /\ (av.do.heavy \/ ~Regressed(av))
<1> SUFFICES ASSUME IInv, Passed
             PROVE  RegressedOk(avs) <=> \A i \in DOMAIN avs : Canary(avs[i])
  BY DEF RegressedRejected
<1>1. IsList(avs) /\ Len(avs) \in Nat /\ DOMAIN avs = 1..Len(avs)
  BY ListDomain DEF IInv, Passed, Readable
<1>2. RegressedOk(avs) <=> C1Ok(Len(avs), tally)
  BY DEF RegressedOk
<1>3. ASSUME avs = <<>>
      PROVE  RegressedOk(avs) <=> \A i \in DOMAIN avs : Canary(avs[i])
  <2>1. Len(avs) = 0
    BY <1>3
  <2>2. RegressedOk(avs)
    BY <1>2, <2>1 DEF C1Ok
  <2>3. DOMAIN avs = {}
    BY <1>3
  <2> QED
    BY <2>2, <2>3
<1>4. ASSUME avs # <<>>
      PROVE  RegressedOk(avs) <=> \A i \in DOMAIN avs : Canary(avs[i])
  <2>1. /\ Len(avs) = ExpectedPassCount + 1 /\ Len(avs) > 0
        /\ \A i \in DOMAIN avs : avs[i].id # "AV-013" => Matches(avs[i]) /\ ~avs[i].do.heavy
    BY <1>4, PassVouchesHolds, ArchiveAssumption DEF PassVouches
  <2>2. ASSUME RegressedOk(avs), NEW i \in DOMAIN avs
        PROVE  Canary(avs[i])
    <3>1. tally.mismatches = 0 /\ tally.errors = 0
      BY <1>2, <2>1, <2>2 DEF C1Ok
    <3>2. /\ Cardinality({k \in DOMAIN avs : status(avs[k]) = "mismatches"}) = 0
          /\ Cardinality({k \in DOMAIN avs : status(avs[k]) = "errors"}) = 0
      BY <3>1 DEF Count, Indices
    <3>3. status(avs[i]) # "mismatches" /\ status(avs[i]) # "errors"
      BY <1>1, <3>2, NoneCounted
    <3>4. avs[i].id = "AV-013"
      BY <2>1, <3>3, Apart DEF Status
    <3>5. result(avs[i]) # "match"
      BY <3>3, <3>4 DEF Status
    <3> QED
      BY <3>4, <3>5
  <2>3. ASSUME \A i \in DOMAIN avs : Canary(avs[i])
        PROVE  RegressedOk(avs)
    <3> DEFINE of(r) == {i \in DOMAIN avs : status(avs[i]) = r}
    <3>1. \A i \in DOMAIN avs : status(avs[i]) = "passes"
      BY <2>3 DEF Status
    <3>2. /\ tally.passes = Cardinality(of("passes"))
          /\ tally.mismatches = Cardinality(of("mismatches"))
          /\ tally.errors = Cardinality(of("errors"))
      BY DEF Count, Indices
    <3>3. of("passes") = DOMAIN avs /\ of("mismatches") = {} /\ of("errors") = {}
      BY <3>1
    <3>4. tally.passes = Len(avs) /\ tally.mismatches = 0 /\ tally.errors = 0
      BY <1>1, <3>2, <3>3, ListFinite, FS_EmptySet
    <3> QED
      BY <1>2, <2>1, <3>4, ArchiveAssumption DEF C1Ok
  <2> QED
    BY <2>2, <2>3
<1> QED
  BY <1>3, <1>4

\* A file that verify.js passes is passed by a program that deletes the whole
\* audit object only when it has no vector but AV-013 ones, and none of them with
\* the digest of such a program; an empty list is one (verify.js:156-166,
\* 450-457, 559).
THEOREM OnlyCanariesPassRegressed == Spec => []RegressedRejected
BY Inductive, RegressedRejectedHolds, PTL

\* What FirstWith finds: the first of the vectors of one id.
First(avs, id) ==
    CHOOSE i \in {k \in DOMAIN avs : avs[k].id = id} :
        \A j \in {k \in DOMAIN avs : avs[k].id = id} : i <= j

LEMMA FirstHasId ==
    ASSUME NEW avs, IsList(avs), NEW id, NEW k \in DOMAIN avs, avs[k].id = id
    PROVE  First(avs, id) \in DOMAIN avs /\ avs[First(avs, id)].id = id
<1> DEFINE E == {i \in DOMAIN avs : avs[i].id = id}
<1>1. E \in SUBSET DOMAIN avs /\ E # {}
  OBVIOUS
<1>2. First(avs, id) \in E
  BY <1>1, FirstIndex DEF First
<1> QED
  BY <1>2

LEMMA ModesSeeFirst ==
    ASSUME NEW avs
    PROVE  /\ Mode4(avs) => /\ \E i \in DOMAIN avs : avs[i].id = "AV-012"
                            /\ ~IsDigest(avs[First(avs, "AV-012")].do.hash,
                                   RunnerPreimage([avs[First(avs, "AV-012")].do EXCEPT !.prev = Zeros]))
           /\ Mode5(avs) => /\ \E i \in DOMAIN avs : avs[i].id = "AV-013"
                            /\ RunnerRegressed(avs[First(avs, "AV-013")])
BY DEF Mode4, Mode5, FirstWith, Indices, HasId, First

LEMMA PassOf ==
    ASSUME NEW good \in BOOLEAN, NEW m1, NEW m3,
           NEW m4 \in BOOLEAN, NEW m5 \in BOOLEAN, NEW p \in BOOLEAN,
           NEW v, v.pass,
           v = IF good THEN [mode1 |-> m1, mode3 |-> m3, mode4 |-> m4, mode5 |-> m5, pass |-> p]
               ELSE [mode1 |-> FALSE, mode3 |-> 0, mode4 |-> FALSE, mode5 |-> FALSE,
                     pass |-> FALSE]
    PROVE  p
<1>1. CASE good
  BY <1>1
<1>2. CASE ~good
  <2>1. v.pass = FALSE
    BY <1>2
  <2> QED
    BY <2>1
<1> QED
  BY <1>1, <1>2

LEMMA VerdictPasses ==
    ASSUME NEW avs, Verdict(avs).pass
    PROVE  Mode4(avs) /\ Mode5(avs)
<1> DEFINE good == \A i \in DOMAIN avs : avs[i].do.hash # None
           p    == Mode4(avs) /\ Mode5(avs)
           m4   == Mode4(avs)
           m5   == Mode5(avs)
           m1   == Mode1(avs)
           m3   == FalseNegatives(avs)
           v    == Verdict(avs)
<1>1. v = IF good THEN [mode1 |-> m1, mode3 |-> m3, mode4 |-> m4, mode5 |-> m5, pass |-> p]
          ELSE [mode1 |-> FALSE, mode3 |-> 0, mode4 |-> FALSE, mode5 |-> FALSE,
                pass |-> FALSE]
  BY Zenon DEF Verdict
<1>2. good \in BOOLEAN /\ p \in BOOLEAN
  OBVIOUS
<1>3. m4 \in BOOLEAN /\ m5 \in BOOLEAN
  BY DEF Mode4, Mode5
<1>4. v.pass
  OBVIOUS
<1> HIDE DEF good, p, m4, m5, m1, m3, v
<1>5. p
  BY <1>1, <1>2, <1>3, <1>4, PassOf, Zenon
<1> QED
  BY <1>5, Zenon DEF p

\* What a common object's digest is for the regressed runner it is for the
\* regressed verify.js.
LEMMA CommonRegressed ==
    ASSUME NEW av, RunnerRegressed(av), Common(av.do)
    PROVE  Regressed(av)
<1>1. PICK bare \in BOOLEAN :
          av.do.hash = [of |-> RunnerRegressedPreimage(av.do), bare |-> bare]
  BY DEF RunnerRegressed, IsDigest
<1>2. bare = FALSE
  <2>1. av.do.hash.bare = bare
    BY <1>1
  <2> QED
    BY <2>1, Zenon DEF Common
<1>3. RunnerRegressedPreimage(av.do) = RegressedPreimage(av.do)
  BY DEF Common, RunnerRegressedPreimage, RegressedPreimage
<1> QED
  BY <1>1, <1>2, <1>3 DEF Regressed, Digest

LEMMA TogetherCompleteHolds == IInv => TogetherComplete
<1> DEFINE avs == held.avs
           Canary(av) == /\ av.id = "AV-013"
                         /\ ~Matches(av) /\ ~RunnerMatches(av)
                         /\ RunnerRegressed(av)
                         /\ Common(av.do) => Regressed(av)
           Linked(av) == /\ av.id = "AV-012"
                         /\ Matches(av)
                         /\ av.do.ext = None => av.do.prev # Zeros
<1> SUFFICES ASSUME IInv, PassedTogether
             PROVE  /\ \E i \in DOMAIN avs : Canary(avs[i])
                    /\ \E i \in DOMAIN avs : Linked(avs[i])
  BY DEF TogetherComplete
<1>1. Readable(held) /\ IsList(avs) /\ runner.verdict = Verdict(avs) /\ Passed
  BY DEF IInv, Readable, PassedTogether
<1>2. Mode4(avs) /\ Mode5(avs)
  <2>1. runner.verdict.pass = Verdict(avs).pass
    BY <1>1
  <2>2. Verdict(avs).pass
    BY <2>1 DEF PassedTogether
  <2> QED
    BY <2>2, VerdictPasses
<1>3. \E i \in DOMAIN avs : Canary(avs[i])
  <2> DEFINE k == First(avs, "AV-013")
  <2>1. (\E j \in DOMAIN avs : avs[j].id = "AV-013") /\ RunnerRegressed(avs[k])
    BY <1>2, ModesSeeFirst
  <2>2. k \in DOMAIN avs /\ avs[k].id = "AV-013"
    BY <1>1, <2>1, FirstHasId
  <2>3. Canary(avs[k])
    BY <2>1, <2>2, Apart, CommonRegressed
  <2> QED
    BY <2>2, <2>3
<1> DEFINE i == First(avs, "AV-012")
<1>4. i \in DOMAIN avs /\ avs[i].id = "AV-012"
  BY <1>1, <1>2, ModesSeeFirst, FirstHasId
<1> HIDE DEF i
<1>5. Matches(avs[i])
  BY <1>1, <1>4, ListDomain, PassVouchesHolds DEF PassVouches
<1>6. avs[i].do.ext = None => avs[i].do.prev # Zeros
  <2> SUFFICES ASSUME avs[i].do.ext = None, avs[i].do.prev = Zeros PROVE FALSE
    OBVIOUS
  <2> DEFINE do == avs[i].do
             zeroed == [do EXCEPT !.prev = Zeros]
  <2>1. ~IsDigest(do.hash, RunnerPreimage(zeroed))
    BY <1>2, ModesSeeFirst DEF i
  <2>2. {"body", "prev", "ext"} \subseteq DOMAIN do
    BY <1>1, <1>4 DEF Readable
  <2>3. zeroed.body = do.body /\ zeroed.prev = do.prev /\ zeroed.ext = do.ext
    BY <2>2
  <2>4. RunnerPreimage(zeroed) = RunnerPreimage(do)
    BY <2>3 DEF RunnerPreimage
  <2>5. Preimage(do) = RunnerPreimage(do)
    BY DEF Preimage, RunnerPreimage
  <2>6. do.hash = [of |-> RunnerPreimage(do), bare |-> FALSE]
    BY <1>5, <2>5 DEF Matches, Digest
  <2> QED
    BY <2>1, <2>4, <2>6 DEF IsDigest
<1> QED
  BY <1>3, <1>4, <1>5, <1>6

\* When verify.js and the reference runner pass on one file, it has an AV-013 that
\* a regressed runner takes for true and neither of them does, and an AV-012 that
\* verify.js finds true and whose hash depends on its predecessor; the latter is
\* not said of an AV-012 with extensions_validation, which the two programs read
\* differently (verify.js:165, reference-runner.js:212-321).
THEOREM Together == Spec => []TogetherComplete
BY Inductive, TogetherCompleteHolds, PTL
=============================================================================
