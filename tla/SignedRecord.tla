---------------------------- MODULE SignedRecord ----------------------------
(***************************************************************************)
(* The Decision Object at the signature layer: what is signed, the         *)
(* timestamp token that anchors a signature, and the verification of one   *)
(* record (scripts/generate-signature.cjs, verify-signature.cjs,           *)
(* mock-tsa.cjs, generate-tsa.cjs, verify-tsa.cjs).                        *)
(*                                                                         *)
(* Ed25519 is deterministic and taken to be unforgeable.  A signature      *)
(* commits to the record and, through previous_signature, to the           *)
(* signature before it, so a signature is written as the list of the       *)
(* statements it commits to, each a record's body and the key that signed  *)
(* it; JSON null is the empty list.  A signature that nobody made is       *)
(* <<Forged>>, a token that no authority issued is Forged.                 *)
(***************************************************************************)
EXTENDS Integers, Sequences

CONSTANTS
    ChainIds,    \* values of audit.chain_id
    Decisions,   \* values of result.decision
    Timestamps,  \* values of timestamp, in seconds
    TokenTimes,  \* values of timestamp_proof.requested_at, in seconds
    KEY,         \* the key pair behind test_public_key_pem
    OtherKey,    \* any other key pair
    Forged, NoProof

CRITICAL_DECISIONS == {"DELEGATE", "ESCALATE", "REQUEST_HUMAN"}

CLOCK_DRIFT_THRESHOLD == 60

Keys == {KEY, OtherKey}

ASSUME SignedAssumption ==
    /\ Timestamps \cup TokenTimes \subseteq Int
    /\ KEY # OtherKey
    /\ NoProof \notin [token: {Forged}, requested_at: TokenTimes]

Bodies == [chain_id: ChainIds, chain_seq: Nat, timestamp: Timestamps,
           decision: Decisions]

Statements == [body: Bodies, key: Keys]

Signatures == Seq(Statements \cup {Forged})
Null       == << >>

Issuable == [anchored: Signatures, time: TokenTimes]
Tokens   == Issuable \cup {Forged}

\* What nobody made is no statement and no token.
ASSUME ForgedAssumption == Forged \notin Statements /\ Forged \notin Issuable

Proofs == [token: Tokens, requested_at: TokenTimes] \cup {NoProof}

SignedDOs == [body: Bodies, previous_signature: Signatures,
              signature: Signatures, timestamp_proof: Proofs]

-----------------------------------------------------------------------------
\* The canonical bytes that are signed: the record without its signature, its
\* signing_key_id and its timestamp_proof.
SignDO(d, key) ==
    Append(d.previous_signature, [body |-> d.body, key |-> key])

BuildSignatureDO(body, prev, key) ==
    LET unsigned == [body |-> body, previous_signature |-> prev,
                     signature |-> Null, timestamp_proof |-> NoProof]
    IN  [unsigned EXCEPT !.signature = SignDO(unsigned, key)]

\* The authority's statement that it saw a signature at a time.
CreateToken(signature, time) == [anchored |-> signature, time |-> time]

\* The proof is put into a record that is already signed.
BuildTsaDO(body, prev, key, requestedAt) ==
    LET signed == BuildSignatureDO(body, prev, key)
    IN  [signed EXCEPT !.timestamp_proof =
            [token |-> CreateToken(signed.signature, requestedAt),
             requested_at |-> requestedAt]]

-----------------------------------------------------------------------------
\* Mutant: the proof is left in the preimage.
VerifySignatureAnchored(d) ==
    d.timestamp_proof = NoProof /\ d.signature = SignDO(d, KEY)

\* verifySignature of verify-signature.cjs and of verify-tsa.cjs, with the
\* public key of the vector file; signing_key_id is not looked at.
VerifySignature(d) == d.signature = SignDO(d, KEY)

\* verifySignature of generate-signature.cjs leaves timestamp_proof in the
\* clone.  Nothing was ever signed over a proof, so the bytes it rebuilds are
\* the signed ones only when the record has none.
GeneratorVerifySignature(d) ==
    d.timestamp_proof = NoProof /\ d.signature = SignDO(d, KEY)

\* Mutant: the time the token was issued for is not looked at.
VerifyTokenTimeless(signature, time, token) ==
    token # Forged /\ token.anchored = signature

VerifyToken(signature, time, token) == token = CreateToken(signature, time)

AbsDiff(a, b) == IF a < b THEN b - a ELSE a - b

DetectTsaBreach(d) ==
    LET tp == d.timestamp_proof
    IN  IF tp = NoProof
        THEN IF d.body.decision \in CRITICAL_DECISIONS
             THEN "timestamp_anchor_missing" ELSE "none"
        ELSE IF AbsDiff(d.body.timestamp, tp.requested_at) > CLOCK_DRIFT_THRESHOLD
             THEN "clock_drift_detected"
        ELSE IF ~ VerifyToken(d.signature, tp.requested_at, tp.token)
             THEN "tsa_token_invalid"
        ELSE "none"
=============================================================================
