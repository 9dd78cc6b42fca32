------------------------------ MODULE HashChain ------------------------------
(***************************************************************************)
(* The life of one hash chain: a producer appends Decision Objects to its  *)
(* ledger (buildNormalChain of scripts/generate-v1.5.cjs), a copy of the   *)
(* ledger leaves its custody and is tampered with, either as               *)
(* buildTamperedChain does for the vectors C02..C08 or freely, and a       *)
(* verifier scans what it is given (detectChainBreach of                   *)
(* scripts/verify-v1.5.js): all records first, then the genesis record,    *)
(* then every link, stopping at the first breach.                          *)
(***************************************************************************)
EXTENDS DecisionObject

CONSTANTS
    ChainLen,   \* records of a normal chain
    MaxEdits    \* bound on free edits of one copy

ASSUME ChainAssumption == ChainLen \in Nat /\ MaxEdits \in Nat

\* A hash nobody issued is the digest of no record.
ASSUME ForgedAssumption == Forged \notin Contents

VARIABLES
    ledger,    \* the records the producer emitted, in order
    chain,     \* the copy that is handed to the verifier
    expected,  \* the vector's expected.breach, "unknown" for a free edit
    edits,     \* number of free edits so far
    phase,     \* where the copy, or the verifier's scan, is
    cursor,    \* index of the record or link the scan looks at next
    verdict    \* what detectChainBreach returns

vars == <<ledger, chain, expected, edits, phase, cursor, verdict>>

RecordBreaches == {"hash_mismatch", "version_unsupported"}
LinkBreaches   == {"previous_hash_dangling", "chain_seq_gap",
                   "mode_mixed_chain", "time_regression"}
Breaches       == RecordBreaches \cup {"chain_genesis_mismatch"} \cup LinkBreaches
Verdicts       == Breaches \cup {"none", "throws"}
Phases         == {"produce", "custody", "records", "genesis", "links", "done"}

Init ==
    /\ ledger = << >>
    /\ chain = << >>
    /\ expected = "none"
    /\ edits = 0
    /\ phase = "produce"
    /\ cursor = 0
    /\ verdict = "pending"

-----------------------------------------------------------------------------
(***************************************************************************)
(* The producer.                                                           *)
(***************************************************************************)
LastHash(c) == IF c = << >> THEN Null ELSE c[Len(c)].hash

\* One turn of buildNormalChain's loop: the next sequence number, linked to
\* the hash of the record before it.  Every record is given a time, and the
\* producer's clock does not run back.
BuildRecord(time, decision) ==
    /\ phase = "produce"
    /\ Len(ledger) < ChainLen
    /\ time # NoTime
    /\ ledger # << >> => time >= ledger[Len(ledger)].timestamp
    /\ ledger' = Append(ledger,
                        BuildDO(Len(ledger), LastHash(ledger), time, decision))
    /\ UNCHANGED <<chain, expected, edits, phase, cursor, verdict>>

\* A copy of the ledger leaves the producer (vector C01 as it stands).
Publish ==
    /\ phase = "produce"
    /\ chain' = ledger
    /\ phase' = "custody"
    /\ UNCHANGED <<ledger, expected, edits, cursor, verdict>>

-----------------------------------------------------------------------------
(***************************************************************************)
(* buildTamperedChain: one attack on a fresh normal chain of three         *)
(* records, with the breach code the vector declares for it.  Records are  *)
(* counted from 1 here and from 0 in the code.                             *)
(***************************************************************************)
Tamper(tampered, breach) ==
    /\ phase = "custody"
    /\ expected = "none"
    /\ Len(ledger) = 3
    /\ chain' = tampered
    /\ expected' = breach
    /\ UNCHANGED <<ledger, edits, phase, cursor, verdict>>

\* C02: the decision of one record is changed and nothing recomputed.
AlterDecision ==
    \E d \in Decisions :
        /\ d # ledger[2].decision
        /\ Tamper([ledger EXCEPT ![2].decision = d], "hash_mismatch")

\* C03: the middle record is removed, the next one relinked and rehashed.
RemoveMiddle ==
    LET relinked == [ledger[3] EXCEPT !.previous_hash = ledger[1].hash]
    IN  Tamper(<<ledger[1], RecomputeHash(relinked)>>, "chain_seq_gap")

\* C04: a record points at a hash no record has.
DanglePointer ==
    Tamper(RechainFrom([ledger EXCEPT ![2].previous_hash = <<Forged>>], 2),
           "previous_hash_dangling")

\* C05: the last record's timestamp is rolled back.
RollBackClock ==
    \E t \in Times :
        /\ EarlierThan(t, ledger[2].timestamp)
        /\ Tamper(RechainFrom([ledger EXCEPT ![3].timestamp = t], 3),
                  "time_regression")

\* C06: the chain is rebuilt on a genesis record that has a predecessor.
RebuildGenesis ==
    Tamper(RechainFrom([ledger EXCEPT ![1].previous_hash = <<Forged>>], 1),
           "chain_genesis_mismatch")

\* C07: a record is downgraded to a version the verifier does not support.
DowngradeVersion ==
    \E v \in Versions \ {PREIMAGE_VERSION} :
        Tamper(RechainFrom([ledger EXCEPT ![2].preimage_version = v], 2),
               "version_unsupported")

\* C08: a record claims the signature mode in a hash-mode chain.
MixModes ==
    Tamper(RechainFrom([ledger EXCEPT ![2].mode = "signature"], 2),
           "mode_mixed_chain")

BuildTamperedChain ==
    /\ Len(ledger) = 3
    /\ \/ AlterDecision
       \/ RemoveMiddle
       \/ DanglePointer
       \/ RollBackClock
       \/ RebuildGenesis
       \/ DowngradeVersion
       \/ MixModes

-----------------------------------------------------------------------------
(***************************************************************************)
(* Free custody: whoever holds the copy edits it in any way, with or       *)
(* without recomputing hashes, at most MaxEdits times.                     *)
(***************************************************************************)
Edit(edited) ==
    /\ phase = "custody"
    /\ expected \in {"none", "unknown"}
    /\ edits < MaxEdits
    /\ chain' = edited
    /\ expected' = "unknown"
    /\ edits' = edits + 1
    /\ UNCHANGED <<ledger, phase, cursor, verdict>>

Overwrites(d) ==
    {[d EXCEPT !.decision = x] : x \in Decisions}
    \cup {[d EXCEPT !.timestamp = t] : t \in Times}
    \cup {[d EXCEPT !.chain_seq = n] : n \in 0..ChainLen}
    \cup {[d EXCEPT !.mode = m] : m \in Modes}
    \cup {[d EXCEPT !.preimage_version = v] : v \in Versions}
    \cup {[d EXCEPT !.shape = s] : s \in Shapes}
    \cup {[d EXCEPT !.previous_hash = h] : h \in {Null, <<Forged>>}}
    \cup {[d EXCEPT !.hash = <<Forged>>]}

\* A field is overwritten, and the hashes behind it may be made to agree again.
Overwrite(k) ==
    \E d \in Overwrites(chain[k]) :
        \/ Edit([chain EXCEPT ![k] = d])
        \/ Edit(RechainFrom([chain EXCEPT ![k] = d], k))

Drop(k) == Edit([i \in 1..(Len(chain) - 1) |->
                    IF i < k THEN chain[i] ELSE chain[i + 1]])

Swap(k) == k < Len(chain)
           /\ Edit([chain EXCEPT ![k] = chain[k + 1], ![k + 1] = chain[k]])

Rehash(k) == Edit([chain EXCEPT ![k] = RecomputeHash(chain[k])])

Rechain(k) == Edit(RechainFrom(chain, k))

Custody ==
    \E k \in 1..Len(chain) :
        Overwrite(k) \/ Drop(k) \/ Swap(k) \/ Rehash(k) \/ Rechain(k)

-----------------------------------------------------------------------------
(***************************************************************************)
(* The verifier: detectChainBreach.                                        *)
(***************************************************************************)
Submit ==
    /\ phase = "custody"
    /\ phase' = "records"
    /\ cursor' = 1
    /\ UNCHANGED <<ledger, chain, expected, edits, verdict>>

Report(v) ==
    /\ phase' = "done"
    /\ verdict' = v
    /\ UNCHANGED cursor

\* Mutant: the error of the record itself is reported, not a breach code.
RecordBreachVerbatim(d) == IF VerifyDO(d) = "passed" THEN "none" ELSE VerifyDO(d)

\* Mutant: every failure of a record is taken for a hash mismatch.
RecordBreachUnversioned(d) ==
    IF VerifyDO(d) = "passed" THEN "none" ELSE "hash_mismatch"

\* Only an error that starts with 'preimage_version' names the version; every
\* other failure of a record is a hash mismatch.
RecordBreach(d) ==
    IF VerifyDO(d) = "passed" THEN "none"
    ELSE IF VerifyDO(d) = "throws" THEN "throws"
    ELSE IF VerifyDO(d) = "preimage_version unsupported" THEN "version_unsupported"
    ELSE "hash_mismatch"

\* The first loop.
CheckRecord ==
    /\ phase = "records"
    /\ IF cursor > Len(chain)
       THEN phase' = "genesis" /\ UNCHANGED <<cursor, verdict>>
       ELSE IF RecordBreach(chain[cursor]) = "none"
            THEN cursor' = cursor + 1 /\ UNCHANGED <<phase, verdict>>
            ELSE Report(RecordBreach(chain[cursor]))
    /\ UNCHANGED <<ledger, chain, expected, edits>>

\* Mutant: any first record will do.
CheckGenesisSkipped ==
    /\ phase = "genesis"
    /\ phase' = "links"
    /\ cursor' = 2
    /\ UNCHANGED <<ledger, chain, expected, edits, verdict>>

CheckGenesis ==
    /\ phase = "genesis"
    /\ IF chain # << >> /\ chain[1].previous_hash # Null
       THEN Report("chain_genesis_mismatch")
       ELSE phase' = "links" /\ cursor' = 2 /\ UNCHANGED verdict
    /\ UNCHANGED <<ledger, chain, expected, edits>>

\* Mutant: the clock is not looked at.
LinkBreachTimeless(prev, cur) ==
    IF cur.previous_hash # prev.hash          THEN "previous_hash_dangling"
    ELSE IF cur.chain_seq # prev.chain_seq + 1 THEN "chain_seq_gap"
    ELSE IF cur.mode # prev.mode               THEN "mode_mixed_chain"
    ELSE "none"

\* Mutant: the sequence number is looked at before the pointer.
LinkBreachSwapped(prev, cur) ==
    IF cur.chain_seq # prev.chain_seq + 1      THEN "chain_seq_gap"
    ELSE IF cur.previous_hash # prev.hash      THEN "previous_hash_dangling"
    ELSE IF cur.mode # prev.mode               THEN "mode_mixed_chain"
    ELSE IF EarlierThan(cur.timestamp, prev.timestamp) THEN "time_regression"
    ELSE "none"

LinkBreach(prev, cur) ==
    IF cur.previous_hash # prev.hash          THEN "previous_hash_dangling"
    ELSE IF cur.chain_seq # prev.chain_seq + 1 THEN "chain_seq_gap"
    ELSE IF cur.mode # prev.mode               THEN "mode_mixed_chain"
    ELSE IF EarlierThan(cur.timestamp, prev.timestamp) THEN "time_regression"
    ELSE "none"

\* The second loop.
CheckLink ==
    /\ phase = "links"
    /\ IF cursor > Len(chain)
       THEN Report("none")
       ELSE LET breach == LinkBreach(chain[cursor - 1], chain[cursor])
            IN  IF breach = "none"
                THEN cursor' = cursor + 1 /\ UNCHANGED <<phase, verdict>>
                ELSE Report(breach)
    /\ UNCHANGED <<ledger, chain, expected, edits>>

-----------------------------------------------------------------------------
Produce ==
    (\E t \in Times, d \in Decisions : BuildRecord(t, d)) \/ Publish

DetectChainBreach == CheckRecord \/ CheckGenesis \/ CheckLink

Next ==
    \/ Produce
    \/ BuildTamperedChain
    \/ Custody
    \/ Submit
    \/ DetectChainBreach

Spec == Init /\ [][Next]_vars

-----------------------------------------------------------------------------
\* Every variable keeps to its type; what the scan reports is a breach code,
\* nothing or an exception, never the text verifyDO returns.
TypeOK ==
    /\ ledger \in Seq(DOs)
    /\ chain \in Seq(DOs)
    /\ expected \in Breaches \cup {"none", "unknown"}
    /\ edits \in 0..MaxEdits
    /\ phase \in Phases
    /\ cursor \in Nat
    /\ verdict \in Verdicts \cup {"pending"}

Accepted == phase = "done" /\ verdict = "none"

Issued == {ledger[i].hash : i \in 1..Len(ledger)}

\* A verifier that accepts a chain whose last hash the producer issued has
\* been given the producer's own records, all of them from the genesis record
\* on: nothing behind a known tip can be altered, dropped, reordered or
\* redated, whatever was rehashed on the way.
TipAnchorsHistory ==
    Accepted /\ chain # << >> /\ chain[Len(chain)].hash \in Issued
        => \E n \in 1..Len(ledger) : chain = SubSeq(ledger, 1, n)

\* Every record from i to j has a time.
Timed(c, i, j) == \A k \in i..j : c[k].timestamp # NoTime

\* The checks of neighbouring records in detectChainBreach order the whole of
\* an accepted chain: positions give sequence numbers, all records share one
\* mode, and time does not run back from one record to a later one, as long as
\* no record from the one to the other is without a time.
AcceptedIsOrdered ==
    Accepted =>
        \A i, j \in 1..Len(chain) : i < j =>
            /\ chain[j].chain_seq = chain[i].chain_seq + (j - i)
            /\ chain[i].mode = chain[j].mode
            /\ Timed(chain, i, j) => chain[i].timestamp <= chain[j].timestamp

\* Nothing on an accepted chain is dated before a record it follows.  This does
\* not hold: detectChainBreach compares neighbours, and a record without a time
\* is neither before nor after another, so the chain 1, none, 0 is accepted.
TimesNeverRunBack ==
    Accepted =>
        \A i, j \in 1..Len(chain) :
            i < j => ~ EarlierThan(chain[j].timestamp, chain[i].timestamp)

\* The vectors C01..C08: the untouched chain is accepted, and every chain that
\* buildTamperedChain makes is reported with the breach code it declares.
VectorsNamed ==
    phase = "done" /\ expected # "unknown" => verdict = expected

-----------------------------------------------------------------------------
(***************************************************************************)
(* What the scan implements: one judgement of the whole chain.             *)
(***************************************************************************)
Judgement == INSTANCE ChainJudgement
    WITH verdict <- IF phase = "done" THEN verdict ELSE "pending"

\* Every step of the scan is invisible except the one that ends it, and that
\* one gives the verdict the declarative reading of the checks gives.
ImplementsJudgement == Judgement!Spec

-----------------------------------------------------------------------------
(***************************************************************************)
(* The order in which the documents say breaches are reported.             *)
(***************************************************************************)
DocumentedOrder ==
    <<"hash_mismatch", "version_unsupported", "chain_genesis_mismatch",
      "previous_hash_dangling", "chain_seq_gap", "mode_mixed_chain",
      "time_regression">>

Links(c) == {<<c[i - 1], c[i]>> : i \in 2..Len(c)}

Holds(breach, c) ==
    CASE breach \in RecordBreaches ->
            \E i \in 1..Len(c) : RecordBreach(c[i]) = breach
      [] breach = "chain_genesis_mismatch" ->
            c # << >> /\ c[1].previous_hash # Null
      [] breach = "previous_hash_dangling" ->
            \E l \in Links(c) : l[2].previous_hash # l[1].hash
      [] breach = "chain_seq_gap" ->
            \E l \in Links(c) : l[2].chain_seq # l[1].chain_seq + 1
      [] breach = "mode_mixed_chain" ->
            \E l \in Links(c) : l[2].mode # l[1].mode
      [] breach = "time_regression" ->
            \E l \in Links(c) : EarlierThan(l[2].timestamp, l[1].timestamp)

\* docs/OPENOBA-DOBJ-RFC-002-EN.md section 8 and RUNNER_CONTRACT.en.md: a
\* breach is reported only when none that precedes it in the documented order
\* holds anywhere in the chain.
ReportedByPriority ==
    phase = "done" => \A p, q \in DOMAIN DocumentedOrder :
        p < q /\ verdict = DocumentedOrder[q] => ~ Holds(DocumentedOrder[p], chain)

-----------------------------------------------------------------------------
(***************************************************************************)
(* The inductive invariant behind the theorems of HashChainProofs.         *)
(***************************************************************************)
\* What a digest that was reached along unbroken links commits to.
History(c, n) == [k \in 1..n |-> Content(c[k])]

Anchored(c, i) ==
    /\ c[i].previous_hash = History(c, i - 1)
    /\ c[i].hash = History(c, i)

Ordered(c, i, j) ==
    /\ c[j].chain_seq = c[i].chain_seq + (j - i)
    /\ c[i].mode = c[j].mode
    /\ Timed(c, i, j) => c[i].timestamp <= c[j].timestamp

\* Every record the producer issued commits to the whole ledger up to it.
LedgerInv == \A i \in 1..Len(ledger) : Anchored(ledger, i)

RecordsSound(n) ==
    \A i \in 1..Len(chain) : i <= n => RecordBreach(chain[i]) = "none"

\* The part of the chain whose links the scan has followed.
Followed(n) ==
    /\ \A i \in 1..Len(chain) : i <= n => Anchored(chain, i)
    /\ \A i, j \in 1..Len(chain) :
          i < j /\ j <= n => Ordered(chain, i, j)
    /\ \A i \in 2..Len(chain) :
          i <= n => LinkBreach(chain[i - 1], chain[i]) = "none"

ScanInv ==
    /\ phase # "done" => verdict = "pending"
    /\ phase = "done" => verdict # "pending"
    /\ phase = "records" => cursor >= 1 /\ RecordsSound(cursor - 1)
    /\ phase \in {"genesis", "links"} \/ Accepted => RecordsSound(Len(chain))
    /\ phase = "links" => cursor >= 2 /\ Followed(cursor - 1)
    /\ Accepted => Followed(Len(chain))

IInv == TypeOK /\ LedgerInv /\ ScanInv

\* What buildNormalChain keeps of the records it made.
Genuine(d) ==
    /\ d.preimage_version = PREIMAGE_VERSION
    /\ d.shape = "v15"
    /\ d.mode = "hash"
    /\ d.timestamp # NoTime
    /\ d.hash = Digest(d)

ProducedInv ==
    /\ \A i \in 1..Len(ledger) : Genuine(ledger[i]) /\ ledger[i].chain_seq = i - 1
    /\ \A i \in 1..Len(ledger) : i # 1 => ledger[i - 1].timestamp <= ledger[i].timestamp

\* The verdict that the two loops come to on a chain.
SoundUpTo(c, n)  == \A i \in 1..Len(c) : i <= n => RecordBreach(c[i]) = "none"
LinkedUpTo(c, n) == \A i \in 2..Len(c) : i <= n => LinkBreach(c[i - 1], c[i]) = "none"
Rooted(c)        == c # << >> => c[1].previous_hash = Null

ScansTo(c, v) ==
    \/ /\ v # "none"
       /\ \E i \in 1..Len(c) : SoundUpTo(c, i - 1) /\ v = RecordBreach(c[i])
    \/ SoundUpTo(c, Len(c)) /\ ~Rooted(c) /\ v = "chain_genesis_mismatch"
    \/ /\ v # "none" /\ SoundUpTo(c, Len(c)) /\ Rooted(c)
       /\ \E i \in 2..Len(c) : LinkedUpTo(c, i - 1) /\ v = LinkBreach(c[i - 1], c[i])
    \/ SoundUpTo(c, Len(c)) /\ Rooted(c) /\ LinkedUpTo(c, Len(c)) /\ v = "none"

DeclaredInv ==
    /\ ProducedInv
    /\ phase = "produce" => expected = "none"
    /\ phase # "produce" /\ expected # "unknown" => ScansTo(chain, expected)
    /\ VectorsNamed
=============================================================================
