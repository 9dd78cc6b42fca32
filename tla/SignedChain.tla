----------------------------- MODULE SignedChain -----------------------------
(***************************************************************************)
(* The life of signature-mode records: a producer signs the records of     *)
(* several chains, some of them anchored by the timestamp authority; a     *)
(* copy of one chain leaves its custody and is edited; two verifiers read  *)
(* it, the chain traceback of verify-signature.cjs record by record, then  *)
(* the anchor verification of verify-tsa.cjs.                              *)
(***************************************************************************)
EXTENDS SignedRecord, FiniteSets

CONSTANTS
    MaxSigned,  \* bound on the records signed, over all chains
    MaxEdits    \* bound on the edits of the copy

ASSUME BoundsAssumption == MaxSigned \in Nat /\ MaxEdits \in Nat

VARIABLES
    ledgers,   \* the records the producer signed, by chain_id
    chain,     \* the copy that is handed to the verifiers
    expected,  \* the vector's expected.verify, "unknown" after free edits
    edits,     \* number of free edits so far
    phase,     \* where the copy is
    cursor,    \* index of the record the running verifier looks at
    prevSig,   \* verifyChain's loop variable
    traceback, \* what verifyChain returns
    anchors    \* what verify-tsa.cjs found for each record

vars == <<ledgers, chain, expected, edits, phase, cursor, prevSig, traceback,
          anchors>>

custodyVars == <<ledgers, chain, expected, edits>>

Phases  == {"sign", "custody", "traceback", "anchors", "done"}
Results == {"pending", "pass", "fail"}
AnchorResults == {"signature invalid", "timestamp_anchor_missing",
                  "clock_drift_detected", "tsa_token_invalid", "none"}

Init ==
    /\ ledgers = [c \in ChainIds |-> << >>]
    /\ chain = << >>
    /\ expected = "none"
    /\ edits = 0
    /\ phase = "sign"
    /\ cursor = 0
    /\ prevSig = Null
    /\ traceback = "pending"
    /\ anchors = << >>

-----------------------------------------------------------------------------
Issued == UNION {{ledgers[c][i] : i \in 1..Len(ledgers[c])} : c \in ChainIds}

LastSignature(c) ==
    IF ledgers[c] = << >> THEN Null ELSE ledgers[c][Len(ledgers[c])].signature

NextBody(c, time, decision) ==
    [chain_id |-> c, chain_seq |-> Len(ledgers[c]), timestamp |-> time,
     decision |-> decision]

\* The producer signs the next record of a chain; no two records it signs are
\* alike, so Issued counts them.
Sign(c, d) ==
    /\ phase = "sign"
    /\ Cardinality(Issued) < MaxSigned
    /\ ledgers' = [ledgers EXCEPT ![c] = Append(@, d)]
    /\ UNCHANGED <<chain, expected, edits, phase, cursor, prevSig, traceback,
                   anchors>>

SignRecord(c) ==
    \E t \in Timestamps, x \in Decisions :
        Sign(c, BuildSignatureDO(NextBody(c, t, x), LastSignature(c), KEY))

SignAnchored(c) ==
    \E t \in Timestamps, x \in Decisions, r \in TokenTimes :
        Sign(c, BuildTsaDO(NextBody(c, t, x), LastSignature(c), KEY, r))

\* One chain leaves the producer (the vectors V-SIGN-001 and 003 as they are).
Publish(c) ==
    /\ phase = "sign"
    /\ ledgers[c] # << >>
    /\ chain' = ledgers[c]
    /\ phase' = "custody"
    /\ expected' = "pass"
    /\ UNCHANGED <<ledgers, edits, cursor, prevSig, traceback, anchors>>

-----------------------------------------------------------------------------
(***************************************************************************)
(* The vectors V-SIGN-002, 004 and 005: one attack on an untouched chain   *)
(* of one record, which must fail.  For one record with a null             *)
(* previous_signature verifyChain and verifySignature agree.               *)
(***************************************************************************)
MakeVector(d) ==
    /\ phase = "custody"
    /\ edits = 0
    /\ expected = "pass"
    /\ chain' = <<d>>
    /\ expected' = "fail"
    /\ UNCHANGED <<ledgers, edits, phase, cursor, prevSig, traceback, anchors>>

TamperedSignature ==
    \E x \in Decisions \ {chain[1].body.decision} :
        MakeVector([chain[1] EXCEPT !.body.decision = x])

ForgedSignature ==
    MakeVector(BuildSignatureDO(chain[1].body, chain[1].previous_signature,
                                OtherKey))

SignatureCanary == MakeVector([chain[1] EXCEPT !.signature = <<Forged>>])

-----------------------------------------------------------------------------
(***************************************************************************)
(* Free custody.  Whoever holds the copy may have any record the producer  *)
(* signed and any token the authority issued, but of the keys only         *)
(* OtherKey.                                                               *)
(***************************************************************************)
Edit(edited) ==
    /\ phase = "custody"
    /\ expected # "fail"
    /\ edits < MaxEdits
    /\ chain' = edited
    /\ expected' = "unknown"
    /\ edits' = edits + 1
    /\ UNCHANGED <<ledgers, phase, cursor, prevSig, traceback, anchors>>

IssuedSignatures == {d.signature : d \in Issued}
IssuedProofs     == {d.timestamp_proof : d \in Issued} \ {NoProof}
IssuedTokens     == {p.token : p \in IssuedProofs}

Overwrites(d) ==
    {[d EXCEPT !.body.decision = x] : x \in Decisions}
    \cup {[d EXCEPT !.body.timestamp = t] : t \in Timestamps}
    \cup {[d EXCEPT !.previous_signature = s] :
            s \in IssuedSignatures \cup {Null, <<Forged>>}}
    \cup {[d EXCEPT !.signature = SignDO(d, OtherKey)]}
    \cup {[d EXCEPT !.timestamp_proof = NoProof]}
    \cup {[d EXCEPT !.timestamp_proof = [token |-> k, requested_at |-> t]] :
            k \in IssuedTokens \cup {Forged}, t \in TokenTimes}

Overwrite(k) == \E d \in Overwrites(chain[k]) : Edit([chain EXCEPT ![k] = d])

\* Another record of the producer takes the place of this one.
Graft(k) == \E d \in Issued : Edit([chain EXCEPT ![k] = d])

Drop(k) == Edit([i \in 1..(Len(chain) - 1) |->
                    IF i < k THEN chain[i] ELSE chain[i + 1]])

Swap(k) == k < Len(chain)
           /\ Edit([chain EXCEPT ![k] = chain[k + 1], ![k + 1] = chain[k]])

Custody ==
    \E k \in 1..Len(chain) :
        Overwrite(k) \/ Graft(k) \/ Drop(k) \/ Swap(k)

-----------------------------------------------------------------------------
(***************************************************************************)
(* verifyChain.                                                            *)
(***************************************************************************)
Submit ==
    /\ phase = "custody"
    /\ phase' = "traceback"
    /\ cursor' = 1
    /\ prevSig' = Null
    /\ UNCHANGED <<custodyVars, traceback, anchors>>

\* Either verdict hands the records over to verify-tsa.cjs, which is a
\* program of its own and does not know of it.
Conclude(result) ==
    /\ traceback' = result
    /\ phase' = "anchors"
    /\ cursor' = 1
    /\ UNCHANGED prevSig

\* Mutant: the first record is not asked for a null previous_signature.
TraceRecordRootless ==
    /\ phase = "traceback"
    /\ IF cursor > Len(chain) THEN Conclude("pass")
       ELSE LET d == chain[cursor]
            IN  IF /\ VerifySignature(d)
                   /\ cursor > 1 => d.previous_signature = prevSig
                THEN /\ cursor' = cursor + 1
                     /\ prevSig' = d.signature
                     /\ UNCHANGED <<phase, traceback>>
                ELSE Conclude("fail")
    /\ UNCHANGED <<custodyVars, anchors>>

\* One turn of the loop, or its end.  The code compares the first record with
\* null and every later one with prevSig, which starts as null.
TraceRecord ==
    /\ phase = "traceback"
    /\ IF cursor > Len(chain) THEN Conclude("pass")
       ELSE LET d == chain[cursor]
            IN  IF VerifySignature(d) /\ d.previous_signature = prevSig
                THEN /\ cursor' = cursor + 1
                     /\ prevSig' = d.signature
                     /\ UNCHANGED <<phase, traceback>>
                ELSE Conclude("fail")
    /\ UNCHANGED <<custodyVars, anchors>>

(***************************************************************************)
(* main of verify-tsa.cjs: the signature first, then the anchor.           *)
(***************************************************************************)
AnchorResult(d) ==
    IF VerifySignature(d) THEN DetectTsaBreach(d) ELSE "signature invalid"

\* Mutant: a record with an invalid signature is passed over in silence.
CheckAnchorSilent ==
    /\ phase = "anchors"
    /\ IF cursor > Len(chain)
       THEN phase' = "done" /\ UNCHANGED <<cursor, anchors>>
       ELSE /\ anchors' = IF VerifySignature(chain[cursor])
                          THEN Append(anchors, AnchorResult(chain[cursor]))
                          ELSE anchors
            /\ cursor' = cursor + 1
            /\ UNCHANGED phase
    /\ UNCHANGED <<custodyVars, prevSig, traceback>>

CheckAnchor ==
    /\ phase = "anchors"
    /\ IF cursor > Len(chain)
       THEN phase' = "done" /\ UNCHANGED <<cursor, anchors>>
       ELSE /\ anchors' = Append(anchors, AnchorResult(chain[cursor]))
            /\ cursor' = cursor + 1
            /\ UNCHANGED phase
    /\ UNCHANGED <<custodyVars, prevSig, traceback>>

-----------------------------------------------------------------------------
Produce == \E c \in ChainIds : SignRecord(c) \/ SignAnchored(c) \/ Publish(c)

Vectors ==
    /\ Len(chain) = 1
    /\ TamperedSignature \/ ForgedSignature \/ SignatureCanary

Next ==
    \/ Produce
    \/ Vectors
    \/ Custody
    \/ Submit
    \/ TraceRecord
    \/ CheckAnchor

Spec == Init /\ [][Next]_vars

-----------------------------------------------------------------------------
\* Every variable keeps to its type, and verify-tsa.cjs has one result for
\* every record it went past.
TypeOK ==
    /\ ledgers \in [ChainIds -> Seq(SignedDOs)]
    /\ chain \in Seq(SignedDOs)
    /\ expected \in {"none", "pass", "fail", "unknown"}
    /\ edits \in 0..MaxEdits
    /\ phase \in Phases
    /\ cursor \in Nat
    /\ prevSig \in Signatures
    /\ traceback \in Results
    /\ anchors \in Seq(AnchorResults)
    /\ phase \in {"anchors", "done"} => Len(anchors) = cursor - 1

Unanchored(d) == [d EXCEPT !.timestamp_proof = NoProof]

\* A chain whose traceback passes is, up to the anchors, the beginning of one
\* chain the producer signed: no record of another chain fits in, none is
\* missing before the last, and none was changed, although verifyChain looks
\* neither at chain_id nor at chain_seq.
TracedIsOneChain ==
    traceback = "pass" =>
        \E c \in ChainIds :
            /\ Len(chain) <= Len(ledgers[c])
            /\ \A i \in 1..Len(chain) :
                  Unanchored(chain[i]) = Unanchored(ledgers[c][i])

\* A record that verify-tsa.cjs finds nothing wrong with was signed by the
\* producer, and if it is critical the authority issued a token for this very
\* signature at a time close to the record's timestamp, however proofs and
\* tokens were moved between records.
AnchorsAreGenuine ==
    \A i \in 1..Len(anchors) : anchors[i] = "none" =>
        /\ \E d \in Issued : Unanchored(d) = Unanchored(chain[i])
        /\ chain[i].body.decision \in CRITICAL_DECISIONS =>
              \E k \in IssuedTokens :
                  /\ k.anchored = chain[i].signature
                  /\ AbsDiff(k.time, chain[i].body.timestamp)
                        <= CLOCK_DRIFT_THRESHOLD

\* V-SIGN-001 to 005: chains as the producer signed them pass, anchored or
\* not, and the tampered, the forged and the canary record fail.
VectorsJudged ==
    traceback # "pending" /\ expected # "unknown" => traceback = expected

\* scripts/generate-signature.cjs, signDO: timestamp_proof is added after
\* signing and must not enter the signature preimage, so a record the producer
\* signed keeps verifying once it is anchored.
AnchoringKeepsSignature == \A d \in Issued : GeneratorVerifySignature(d)

-----------------------------------------------------------------------------
(***************************************************************************)
(* The inductive invariant behind the theorems of SignedChainProofs.       *)
(***************************************************************************)
\* A ledger is one chain: its records link to each other from null on.
LedgerInv ==
    \A c \in ChainIds : \A n \in 1..Len(ledgers[c]) :
        /\ ledgers[c][n].body.chain_id = c
        /\ ledgers[c][n].body.chain_seq = n - 1
        /\ VerifySignature(ledgers[c][n])
        /\ ledgers[c][n].previous_signature =
                IF n = 1 THEN Null ELSE ledgers[c][n - 1].signature

\* A signature that is not the producer's ends in a statement nobody made, or
\* in one under another key.
Available(s) ==
    \/ s \in IssuedSignatures
    \/ s # Null /\ s[Len(s)] = Forged
    \/ s # Null /\ s[Len(s)].key = OtherKey

\* Custody cannot make signatures or tokens.
Copied(d) ==
    /\ Available(d.signature)
    /\ \/ d.timestamp_proof = NoProof
       \/ d.timestamp_proof.token \in IssuedTokens \cup {Forged}

CopyInv == \A i \in 1..Len(chain) : Copied(chain[i])

\* The first n records are the beginning of a ledger.
Traced(n) ==
    \E c \in ChainIds :
        /\ n <= Len(ledgers[c])
        /\ \A i \in 1..n : Unanchored(chain[i]) = Unanchored(ledgers[c][i])

VectorInv ==
    /\ expected = "none" <=> phase = "sign"
    /\ phase = "sign" => chain = << >>
    /\ expected = "pass" => \E c \in ChainIds : chain = ledgers[c]
    /\ expected = "fail" => Len(chain) = 1 /\ ~ VerifySignature(chain[1])

ScanInv ==
    /\ phase # "sign" => ChainIds # {}
    /\ traceback = "pending" <=> phase \in {"sign", "custody", "traceback"}
    /\ phase = "traceback" =>
        /\ cursor \in 1..(Len(chain) + 1)
        /\ Traced(cursor - 1)
        /\ prevSig = IF cursor = 1 THEN Null ELSE chain[cursor - 1].signature
    /\ traceback = "pass" => Traced(Len(chain))
    /\ phase \in {"sign", "custody", "traceback"} => anchors = << >>
    /\ phase \in {"anchors", "done"} => cursor \in 1..(Len(chain) + 1)
    /\ Len(anchors) <= Len(chain)
    /\ \A i \in 1..Len(anchors) : anchors[i] = AnchorResult(chain[i])

IInv == TypeOK /\ LedgerInv /\ CopyInv /\ VectorInv /\ ScanInv /\ VectorsJudged
=============================================================================
