--------------------------- MODULE DecisionObject ---------------------------
(***************************************************************************)
(* The Decision Object (DO) at the hash layer: its preimage, its digest,   *)
(* the five-step verification of one record (scripts/verify-v1.5.js) and   *)
(* the generator's recomputation of stored hashes                          *)
(* (scripts/generate-v1.5.cjs).                                            *)
(*                                                                         *)
(* SHA-256 over the canonical bytes is taken to be collision free.  The    *)
(* digest of a record commits to the record's content and to its           *)
(* previous_hash, which is itself such a digest, so the term               *)
(* h(c3, h(c2, h(c1, null))) is written as the list <<c1, c2, c3>> of the  *)
(* contents it commits to.  JSON null is the empty list; a hash value that *)
(* nobody obtained from a preimage is the list <<Forged>>.                 *)
(***************************************************************************)
EXTENDS Integers, Sequences

CONSTANTS
    Decisions,         \* values of result.decision
    Times,             \* values of timestamp; ISO strings compare like numbers
    NoTime,            \* no timestamp, or one of another kind than a string
    Versions,          \* values of audit.preimage_version
    PREIMAGE_VERSION,  \* the one version the verifier supports
    Forged             \* stands for a digest without a known preimage

ASSUME DOAssumption ==
    /\ Times \subseteq Int \cup {NoTime}
    /\ NoTime \in Times \ Int
    /\ PREIMAGE_VERSION \in Versions

Modes == {"hash", "signature"}

(***************************************************************************)
(* What the verifier can tell about the rest of the record:                *)
(*   v15        carries a canonical_tree or an activated_fields list       *)
(*   bare       carries neither, so only the version marks it as v1.5      *)
(*   oversize   serialises to more than 1 MB                               *)
(*   unsafe     has a number that is no safe integer                       *)
(*   surrogate  has a string the canonicaliser refuses                     *)
(***************************************************************************)
Shapes == {"v15", "bare", "oversize", "unsafe", "surrogate"}

(***************************************************************************)
(* chain_seq stands for what JavaScript's + and !== make of it: a text is  *)
(* followed by itself with a 1 behind it, and those texts count like the   *)
(* integers; null counts as 0 and true as 1.  A signature and a            *)
(* signing_key_id at the top of a record are deleted before hashing and    *)
(* are no part of it here.                                                 *)
(***************************************************************************)
Contents ==
    [chain_seq: Int, timestamp: Times, mode: Modes,
     preimage_version: Versions, shape: Shapes, decision: Decisions]

Hashes == Seq(Contents \cup {Forged})
Null   == << >>

DOs ==
    [chain_seq: Int, timestamp: Times, mode: Modes,
     preimage_version: Versions, shape: Shapes, decision: Decisions,
     previous_hash: Hashes, hash: Hashes]

\* Everything of the record but the stored hash and the link to its
\* predecessor.  audit.hash never enters the preimage.
Content(d) ==
    [chain_seq |-> d.chain_seq, timestamp |-> d.timestamp, mode |-> d.mode,
     preimage_version |-> d.preimage_version, shape |-> d.shape,
     decision |-> d.decision]

\* s < t as JavaScript has it: nothing is before, or after, a missing time.
EarlierThan(s, t) == s # NoTime /\ t # NoTime /\ s < t

\* 'sha256:' + sha256(jcs(clone)), the clone stripped of audit.hash.
Digest(d) == Append(d.previous_hash, Content(d))

-----------------------------------------------------------------------------
(***************************************************************************)
(* verifyDO.  The size limit is tested first, then the version             *)
(* discrimination, the supported version, the safe integers; the           *)
(* canonicaliser may throw, and nothing around it catches.                 *)
(***************************************************************************)
VerifyDO(d) ==
    IF d.shape = "oversize" THEN "resource_limit_exceeded"
    ELSE IF d.preimage_version # PREIMAGE_VERSION
         THEN IF d.shape = "bare" THEN "legacy"
                                  ELSE "preimage_version unsupported"
    ELSE IF d.shape = "unsafe"    THEN "unsafe number"
    ELSE IF d.shape = "surrogate" THEN "throws"
    ELSE IF d.hash = Digest(d)    THEN "passed" ELSE "hash mismatch"

-----------------------------------------------------------------------------
\* recomputeHash: the stored hash is made to agree with the record again.
RecomputeHash(d) == [d EXCEPT !.hash = Digest(d)]

\* rechainFrom: record k keeps its previous_hash and is rehashed, then every
\* later record is linked to the new hash of its predecessor and rehashed.
\* Record i thus commits to all that record k commits to, and to the contents
\* of the records k + 1 to i.
RechainFrom(c, k) ==
    LET rehashed(i) == Digest(c[k]) \o [j \in 1..(i - k) |-> Content(c[k + j])]
    IN  [i \in 1..Len(c) |->
            IF i < k THEN c[i]
            ELSE IF i = k THEN RecomputeHash(c[k])
            ELSE [c[i] EXCEPT !.previous_hash = rehashed(i - 1),
                              !.hash = rehashed(i)]]

\* The record buildDO emits: hash mode, the supported version, and a stored
\* hash computed over everything else.
BuildDO(seq, prev, time, decision) ==
    RecomputeHash([chain_seq |-> seq, timestamp |-> time, mode |-> "hash",
                   preimage_version |-> PREIMAGE_VERSION, shape |-> "v15",
                   decision |-> decision, previous_hash |-> prev,
                   hash |-> Null])
=============================================================================
