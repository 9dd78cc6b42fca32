---------------------------- MODULE ArchiveRecord ----------------------------
(***************************************************************************)
(* The decision objects of the v1.3 archive and what their audit.hash      *)
(* commits to.                                                             *)
(*                                                                         *)
(* A decision object is [body, prev, ext, heavy, hash]: body is all of it  *)
(* but the audit object and the fields every program deletes (signature,   *)
(* signing_key_id), prev the audit.previous_hash (None when the audit      *)
(* object has only its hash), ext the field extensions_validation (None    *)
(* when it has none), which verify.js and the generator delete and the     *)
(* reference runner does not, heavy whether it is over 1 MB or has over    *)
(* 100 extensions, hash the audit.hash.  A hash is [of, bare]: the bytes   *)
(* it is the digest of, and whether it is written without 'sha256:'; other *)
(* values stand for hashes of nothing here.  A vector file has its static  *)
(* objects, dos, and its audit vectors, avs, both sequences of [id, do].   *)
(***************************************************************************)
EXTENDS Naturals, Sequences, FiniteSets

CONSTANTS
    None,
    Legacy  \* the hash of an older release, of no object here

\* The bytes the reference runner hashes, and those of its regressed program,
\* which deletes the whole audit object.
RunnerPreimage(do) ==
    [body |-> do.body, ext |-> do.ext, audit |-> "kept", prev |-> do.prev]
RunnerRegressedPreimage(do) ==
    [body |-> do.body, ext |-> do.ext, audit |-> "deleted", prev |-> None]

\* The same bytes for verify.js and for the generator.
RegressedPreimage(do) == [RunnerRegressedPreimage(do) EXCEPT !.ext = None]

\* Mutant: the audit object is deleted as a whole.
PreimageRegressed(do) == [RunnerRegressedPreimage(do) EXCEPT !.ext = None]

Preimage(do) == [RunnerPreimage(do) EXCEPT !.ext = None]

Digest(bytes) == [of |-> bytes, bare |-> FALSE]

Matches(av)   == av.do.hash = Digest(Preimage(av.do))
Regressed(av) == av.do.hash = Digest(RegressedPreimage(av.do))

VerifyDO(av) ==
    IF av.do.heavy THEN "limit" ELSE IF Matches(av) THEN "match" ELSE "mismatch"

Indices(s, P(_)) == {i \in DOMAIN s : P(s[i])}
Count(s, P(_))   == Cardinality(Indices(s, P))
FirstWith(s, P(_)) == s[CHOOSE i \in Indices(s, P) : \A j \in Indices(s, P) : i <= j]
HasId(id, v)     == v.id = id

-----------------------------------------------------------------------------
(***************************************************************************)
(* generate-vectors.cjs: the static objects, the audit vectors that copy   *)
(* some of them, and AV-008, which copies AV-003 under a legacy hash.      *)
(***************************************************************************)
CONSTANTS
    Definitions,  \* the static objects, a sequence of [id, body]
    AVMapping     \* a sequence of [av, src], src an id of Definitions

BuildDO(body) ==
    LET do == [body |-> body, prev |-> None, ext |-> None, heavy |-> FALSE, hash |-> Legacy]
    IN  [do EXCEPT !.hash = Digest(RegressedPreimage(do))]

Generated ==
    LET dos   == [i \in DOMAIN Definitions |->
                    [id |-> Definitions[i].id, do |-> BuildDO(Definitions[i].body)]]
        copy(m) == FirstWith(dos, LAMBDA v : HasId(m.src, v)).do
        avs   == [i \in DOMAIN AVMapping |->
                    [id |-> AVMapping[i].av, do |-> copy(AVMapping[i])]]
        av003 == FirstWith(avs, LAMBDA av : HasId("AV-003", av))
    IN  [dos |-> dos,
         avs |-> Append(avs, [id |-> "AV-008", do |-> [av003.do EXCEPT !.hash = Legacy]])]

-----------------------------------------------------------------------------
(***************************************************************************)
(* reference-runner.js: its modes over the audit vectors of a file.  Mode  *)
(* 2 compares nothing.  'sha256:' is stripped from a stored hash that has  *)
(* it.                                                                     *)
(***************************************************************************)
IsDigest(hash, bytes) == \E bare \in BOOLEAN : hash = [of |-> bytes, bare |-> bare]

RunnerMatches(av)   == IsDigest(av.do.hash, RunnerPreimage(av.do))
RunnerRegressed(av) == IsDigest(av.do.hash, RunnerRegressedPreimage(av.do))

\* What mode 4 writes over the previous_hash.
CONSTANT Zeros

Mode1(avs) == \A i \in DOMAIN avs : RunnerMatches(avs[i])

FalseNegatives(avs) == Count(avs, RunnerRegressed)

Mode4(avs) ==
    /\ \E i \in DOMAIN avs : HasId("AV-012", avs[i])
    /\ LET do == FirstWith(avs, LAMBDA av : HasId("AV-012", av)).do
       IN  ~IsDigest(do.hash, RunnerPreimage([do EXCEPT !.prev = Zeros]))

\* Mutant: the regressed digest is not looked at.
Mode5Half(avs) ==
    /\ \E i \in DOMAIN avs : HasId("AV-013", avs[i])
    /\ LET av == FirstWith(avs, LAMBDA a : HasId("AV-013", a)) IN ~RunnerMatches(av)

Mode5(avs) ==
    /\ \E i \in DOMAIN avs : HasId("AV-013", avs[i])
    /\ LET av == FirstWith(avs, LAMBDA a : HasId("AV-013", a))
       IN  ~RunnerMatches(av) /\ RunnerRegressed(av)

\* What counts of mode 1 is the constant m1Correct, which is true; a vector
\* without a hash kills the program.
Verdict(avs) ==
    IF \A i \in DOMAIN avs : avs[i].do.hash # None
    THEN [mode1 |-> Mode1(avs), mode3 |-> FalseNegatives(avs),
          mode4 |-> Mode4(avs), mode5 |-> Mode5(avs), pass |-> Mode4(avs) /\ Mode5(avs)]
    ELSE [mode1 |-> FALSE, mode3 |-> 0, mode4 |-> FALSE, mode5 |-> FALSE, pass |-> FALSE]
=============================================================================
