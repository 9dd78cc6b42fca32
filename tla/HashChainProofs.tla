-------------------------- MODULE HashChainProofs --------------------------
(***************************************************************************)
(* Proofs about HashChain, for every value of its constants.               *)
(***************************************************************************)
EXTENDS HashChain, SequenceTheorems, TLAPS

-----------------------------------------------------------------------------
(***************************************************************************)
(* Types.                                                                  *)
(***************************************************************************)

\* What enters the preimage of a record is a content.
LEMMA ContentType ==
    ASSUME NEW d \in DOs
    PROVE  Content(d) \in Contents
BY DEF Content, Contents, DOs

\* The digest of a record is a hash value.
LEMMA DigestType ==
    ASSUME NEW d \in DOs
    PROVE  Digest(d) \in Hashes
<1>1. d.previous_hash \in Seq(Contents \cup {Forged})
  BY DEF DOs, Hashes
<1>2. Content(d) \in Contents \cup {Forged}
  BY ContentType
<1> QED
  BY <1>1, <1>2 DEF Digest, Hashes

\* recomputeHash turns a record into a record.
LEMMA RecomputeHashType ==
    ASSUME NEW d \in DOs
    PROVE  RecomputeHash(d) \in DOs
BY DigestType DEF RecomputeHash, DOs

\* rechainFrom turns a chain into a chain of the same length.
LEMMA RechainFromType ==
    ASSUME NEW c \in Seq(DOs), NEW k \in 1..Len(c)
    PROVE  /\ RechainFrom(c, k) \in Seq(DOs)
           /\ Len(RechainFrom(c, k)) = Len(c)
<1> DEFINE rehashed(i) ==
              Digest(c[k]) \o [j \in 1..(i - k) |-> Content(c[k + j])]
           rec(i) == IF i < k THEN c[i]
                     ELSE IF i = k THEN RecomputeHash(c[k])
                     ELSE [c[i] EXCEPT !.previous_hash = rehashed(i - 1),
                                       !.hash = rehashed(i)]
<1>1. ASSUME NEW i \in k..Len(c)
      PROVE  rehashed(i) \in Hashes
  <2>1. [j \in 1..(i - k) |-> Content(c[k + j])] \in Seq(Contents \cup {Forged})
    <3>1. i - k \in Nat
      OBVIOUS
    <3>2. ASSUME NEW j \in 1..(i - k)
          PROVE  Content(c[k + j]) \in Contents \cup {Forged}
      <4>1. k + j \in 1..Len(c)
        OBVIOUS
      <4> QED
        BY <4>1, ContentType
    <3> QED
      BY <3>1, <3>2, SeqDef
  <2>2. Digest(c[k]) \in Seq(Contents \cup {Forged})
    BY DigestType DEF Hashes
  <2> QED
    BY <2>1, <2>2, ConcatProperties DEF Hashes
<1>2. ASSUME NEW i \in 1..Len(c)
      PROVE  rec(i) \in DOs
  <2>1. CASE i < k
    BY <2>1
  <2>2. CASE i = k
    BY <2>2, RecomputeHashType
  <2>3. CASE i > k
    <3>0. i \in k..Len(c) /\ (i - 1) \in k..Len(c)
      BY <2>3
    <3>1. rehashed(i - 1) \in Hashes /\ rehashed(i) \in Hashes
      <4> HIDE DEF rehashed
      <4> QED
        BY <1>1, <3>0
    <3>2. rec(i) = [c[i] EXCEPT !.previous_hash = rehashed(i - 1),
                                !.hash = rehashed(i)]
      BY <2>3
    <3> HIDE DEF rehashed, rec
    <3>3. c[i] \in DOs
      OBVIOUS
    <3> QED
      BY <3>1, <3>2, <3>3 DEF DOs
  <2> QED
    BY <2>1, <2>2, <2>3
<1>3. RechainFrom(c, k) = [i \in 1..Len(c) |-> rec(i)]
  BY DEF RechainFrom
<1> HIDE DEF rec
<1>4. [i \in 1..Len(c) |-> rec(i)] \in [1..Len(c) -> DOs]
  BY <1>2
<1> QED
  BY <1>3, <1>4, SeqDef, LenProperties

\* A record the generator builds is a record.
LEMMA BuildDOType ==
    ASSUME NEW seq \in Int, NEW prev \in Hashes, NEW time \in Times,
           NEW decision \in Decisions
    PROVE  BuildDO(seq, prev, time, decision) \in DOs
<1> DEFINE blank == [chain_seq |-> seq, timestamp |-> time, mode |-> "hash",
                     preimage_version |-> PREIMAGE_VERSION, shape |-> "v15",
                     decision |-> decision, previous_hash |-> prev,
                     hash |-> Null]
<1>1. Null \in Hashes
  BY DEF Null, Hashes
<1>2. blank \in DOs
  BY <1>1, DOAssumption DEF DOs, Modes, Shapes
<1> QED
  BY <1>2, RecomputeHashType DEF BuildDO

\* Any single field of a record may be overwritten with a value of its type.
LEMMA OverwritesType ==
    ASSUME NEW d \in DOs
    PROVE  Overwrites(d) \subseteq DOs
<1>1. Null \in Hashes /\ <<Forged>> \in Hashes
  BY DEF Null, Hashes
<1> QED
  BY <1>1 DEF Overwrites, DOs

\* Replacing a record of a chain gives a chain of the same length.
LEMMA ReplaceType ==
    ASSUME NEW c \in Seq(DOs), NEW k \in 1..Len(c), NEW d \in DOs
    PROVE  /\ [c EXCEPT ![k] = d] \in Seq(DOs)
           /\ Len([c EXCEPT ![k] = d]) = Len(c)
BY ExceptSeq

\* Removing a record of a chain gives a chain.
LEMMA DropType ==
    ASSUME NEW c \in Seq(DOs), NEW k \in 1..Len(c)
    PROVE  [i \in 1..(Len(c) - 1) |-> IF i < k THEN c[i] ELSE c[i + 1]] \in Seq(DOs)
<1>1. Len(c) - 1 \in Nat
  OBVIOUS
<1>2. \A i \in 1..(Len(c) - 1) : (IF i < k THEN c[i] ELSE c[i + 1]) \in DOs
  OBVIOUS
<1> QED
  BY <1>1, <1>2, SeqDef

\* The tampered chains of the vectors C02..C08 are chains.
LEMMA TamperedType ==
    ASSUME TypeOK, BuildTamperedChain
    PROVE  /\ chain' \in Seq(DOs)
           /\ expected' \in Breaches
           /\ UNCHANGED <<ledger, edits, phase, cursor, verdict>>
           /\ phase = "custody"
<1> USE DEF TypeOK, Breaches, RecordBreaches, LinkBreaches
<1>1. Len(ledger) = 3 /\ ledger \in Seq(DOs)
  BY DEF BuildTamperedChain
<1>2. ledger[1] \in DOs /\ ledger[2] \in DOs /\ ledger[3] \in DOs
  <2>1. \A i \in 1..3 : ledger[i] \in DOs
    BY <1>1, ElementOfSeq
  <2> QED
    BY <2>1
<1>3. <<Forged>> \in Hashes
  BY DEF Hashes
<1>4. ASSUME NEW d \in DOs, NEW i \in 1..3, NEW k \in 1..3
      PROVE  /\ [ledger EXCEPT ![i] = d] \in Seq(DOs)
             /\ RechainFrom([ledger EXCEPT ![i] = d], k) \in Seq(DOs)
  <2>1. /\ [ledger EXCEPT ![i] = d] \in Seq(DOs)
        /\ Len([ledger EXCEPT ![i] = d]) = 3
    BY <1>1, ReplaceType
  <2> QED
    BY <2>1, RechainFromType
<1>5. ASSUME NEW c \in Seq(DOs), NEW b \in Breaches, Tamper(c, b)
      PROVE  /\ chain' \in Seq(DOs)
             /\ expected' \in Breaches
             /\ UNCHANGED <<ledger, edits, phase, cursor, verdict>>
             /\ phase = "custody"
  BY <1>5 DEF Tamper
<1>0. 1 \in 1..3 /\ 2 \in 1..3 /\ 3 \in 1..3
  OBVIOUS
<1> HIDE DEF TypeOK
<1>6. CASE AlterDecision
  <2>1. PICK d \in Decisions :
              Tamper([ledger EXCEPT ![2].decision = d], "hash_mismatch")
    BY <1>6 DEF AlterDecision
  <2>2. [ledger[2] EXCEPT !.decision = d] \in DOs
    BY <1>2 DEF DOs
  <2>3. [ledger EXCEPT ![2] = [ledger[2] EXCEPT !.decision = d]] \in Seq(DOs)
    BY <2>2, <1>0, <1>4, Zenon
  <2> QED
    BY <2>1, <2>3, <1>5
<1>7. CASE RemoveMiddle
  <2> DEFINE relinked == [ledger[3] EXCEPT !.previous_hash = ledger[1].hash]
  <2>1. relinked \in DOs
    BY <1>2 DEF DOs
  <2>2. RecomputeHash(relinked) \in DOs
    BY <2>1, RecomputeHashType
  <2>3. <<ledger[1], RecomputeHash(relinked)>> \in Seq(DOs)
    BY <1>2, <2>2
  <2> QED
    BY <1>7, <2>3, <1>5 DEF RemoveMiddle
<1>8. CASE DanglePointer
  <2> DEFINE d == [ledger[2] EXCEPT !.previous_hash = <<Forged>>]
  <2>1. d \in DOs
    BY <1>2, <1>3 DEF DOs
  <2>2. RechainFrom([ledger EXCEPT ![2] = d], 2) \in Seq(DOs)
    <3> HIDE DEF d
    <3> QED
      BY <2>1, <1>0, <1>4, Zenon
  <2>3. Tamper(RechainFrom([ledger EXCEPT ![2] = d], 2), "previous_hash_dangling")
    BY <1>8 DEF DanglePointer
  <2> QED
    BY <2>2, <2>3, <1>5
<1>9. CASE RollBackClock
  <2>1. PICK t \in Times :
              Tamper(RechainFrom([ledger EXCEPT ![3].timestamp = t], 3),
                     "time_regression")
    BY <1>9 DEF RollBackClock
  <2> DEFINE d == [ledger[3] EXCEPT !.timestamp = t]
  <2>2. d \in DOs
    BY <1>2 DEF DOs
  <2>3. RechainFrom([ledger EXCEPT ![3] = d], 3) \in Seq(DOs)
    <3> HIDE DEF d
    <3> QED
      BY <2>2, <1>0, <1>4, Zenon
  <2>4. Tamper(RechainFrom([ledger EXCEPT ![3] = d], 3), "time_regression")
    BY <2>1
  <2> QED
    BY <2>3, <2>4, <1>5
<1>10. CASE RebuildGenesis
  <2> DEFINE d == [ledger[1] EXCEPT !.previous_hash = <<Forged>>]
  <2>1. d \in DOs
    BY <1>2, <1>3 DEF DOs
  <2>2. RechainFrom([ledger EXCEPT ![1] = d], 1) \in Seq(DOs)
    <3> HIDE DEF d
    <3> QED
      BY <2>1, <1>0, <1>4, Zenon
  <2>3. Tamper(RechainFrom([ledger EXCEPT ![1] = d], 1), "chain_genesis_mismatch")
    BY <1>10 DEF RebuildGenesis
  <2> QED
    BY <2>2, <2>3, <1>5
<1>11. CASE DowngradeVersion
  <2>1. PICK v \in Versions :
              Tamper(RechainFrom([ledger EXCEPT ![2].preimage_version = v], 2),
                     "version_unsupported")
    BY <1>11 DEF DowngradeVersion
  <2> DEFINE d == [ledger[2] EXCEPT !.preimage_version = v]
  <2>2. d \in DOs
    BY <1>2 DEF DOs
  <2>3. RechainFrom([ledger EXCEPT ![2] = d], 2) \in Seq(DOs)
    <3> HIDE DEF d
    <3> QED
      BY <2>2, <1>0, <1>4, Zenon
  <2>4. Tamper(RechainFrom([ledger EXCEPT ![2] = d], 2), "version_unsupported")
    BY <2>1
  <2> QED
    BY <2>3, <2>4, <1>5
<1>12. CASE MixModes
  <2> DEFINE d == [ledger[2] EXCEPT !.mode = "signature"]
  <2>1. d \in DOs
    BY <1>2 DEF DOs, Modes
  <2>2. RechainFrom([ledger EXCEPT ![2] = d], 2) \in Seq(DOs)
    <3> HIDE DEF d
    <3> QED
      BY <2>1, <1>0, <1>4, Zenon
  <2>3. Tamper(RechainFrom([ledger EXCEPT ![2] = d], 2), "mode_mixed_chain")
    BY <1>12 DEF MixModes
  <2> QED
    BY <2>2, <2>3, <1>5
<1> QED
  BY <1>6, <1>7, <1>8, <1>9, <1>10, <1>11, <1>12 DEF BuildTamperedChain

\* Whatever the holder of the copy does, it stays a chain.
LEMMA CustodyType ==
    ASSUME TypeOK, Custody
    PROVE  /\ chain' \in Seq(DOs)
           /\ expected' = "unknown"
           /\ edits' \in 0..MaxEdits
           /\ UNCHANGED <<ledger, phase, cursor, verdict>>
           /\ phase = "custody"
<1> USE DEF TypeOK
<1>1. PICK k \in 1..Len(chain) :
            Overwrite(k) \/ Drop(k) \/ Swap(k) \/ Rehash(k) \/ Rechain(k)
  BY DEF Custody
<1>2. ASSUME NEW c \in Seq(DOs), Edit(c)
      PROVE  /\ chain' \in Seq(DOs)
             /\ expected' = "unknown"
             /\ edits' \in 0..MaxEdits
             /\ UNCHANGED <<ledger, phase, cursor, verdict>>
             /\ phase = "custody"
  BY <1>2, ChainAssumption DEF Edit
<1>3. chain[k] \in DOs
  OBVIOUS
<1>4. CASE Overwrite(k)
  <2>1. PICK d \in Overwrites(chain[k]) :
              \/ Edit([chain EXCEPT ![k] = d])
              \/ Edit(RechainFrom([chain EXCEPT ![k] = d], k))
    BY <1>4 DEF Overwrite
  <2>2. /\ [chain EXCEPT ![k] = d] \in Seq(DOs)
        /\ Len([chain EXCEPT ![k] = d]) = Len(chain)
    BY <1>3, OverwritesType, ReplaceType
  <2>3. RechainFrom([chain EXCEPT ![k] = d], k) \in Seq(DOs)
    BY <2>2, RechainFromType
  <2> QED
    BY <2>1, <2>2, <2>3, <1>2
<1>5. CASE Drop(k)
  BY <1>5, <1>2, DropType DEF Drop
<1>6. CASE Swap(k)
  <2>1. k \in 1..Len(chain) /\ k + 1 \in 1..Len(chain)
    BY <1>6 DEF Swap
  <2>2. [chain EXCEPT ![k] = chain[k + 1], ![k + 1] = chain[k]] \in Seq(DOs)
    BY <2>1, ReplaceType
  <2> QED
    BY <1>6, <2>2, <1>2 DEF Swap
<1>7. CASE Rehash(k)
  <2>1. [chain EXCEPT ![k] = RecomputeHash(chain[k])] \in Seq(DOs)
    BY <1>3, RecomputeHashType, ReplaceType
  <2> QED
    BY <1>7, <2>1, <1>2 DEF Rehash
<1>8. CASE Rechain(k)
  BY <1>8, <1>2, RechainFromType DEF Rechain
<1> QED
  BY <1>1, <1>4, <1>5, <1>6, <1>7, <1>8


\* The next record of the ledger is one that buildDO emits.
LEMMA BuildRecordType ==
    ASSUME TypeOK, NEW t \in Times, NEW d \in Decisions, BuildRecord(t, d)
    PROVE  /\ ledger' \in Seq(DOs)
           /\ UNCHANGED <<chain, expected, edits, phase, cursor, verdict>>
<1>1. ledger \in Seq(DOs)
  BY DEF TypeOK
<1>2. LastHash(ledger) \in Hashes
  <2>1. CASE ledger = << >>
    BY <2>1 DEF LastHash, Null, Hashes
  <2>2. CASE ledger # << >>
    <3>1. Len(ledger) \in 1..Len(ledger)
      BY <1>1, <2>2
    <3>2. ledger[Len(ledger)] \in DOs
      BY <1>1, <3>1, ElementOfSeq
    <3> QED
      BY <2>2, <3>2 DEF LastHash, DOs
  <2> QED
    BY <2>1, <2>2
<1>3. BuildDO(Len(ledger), LastHash(ledger), t, d) \in DOs
  BY <1>1, <1>2, BuildDOType
<1> QED
  BY <1>1, <1>3 DEF BuildRecord

\* detectChainBreach returns a breach code, null, or throws.
LEMMA BreachType ==
    ASSUME NEW prev, NEW cur
    PROVE  /\ RecordBreach(cur) \in Verdicts
           /\ LinkBreach(prev, cur) \in Verdicts
BY DEF RecordBreach, LinkBreach, Verdicts, Breaches, RecordBreaches, LinkBreaches

LEMMA TypeInit == Init => TypeOK
BY ChainAssumption DEF Init, TypeOK, Breaches, RecordBreaches, LinkBreaches,
                       Phases, Verdicts

LEMMA TypeStep == TypeOK /\ [Next]_vars => TypeOK'
<1> SUFFICES ASSUME TypeOK, [Next]_vars
             PROVE  TypeOK'
  OBVIOUS
<1>1. ASSUME NEW t \in Times, NEW d \in Decisions, BuildRecord(t, d)
      PROVE  TypeOK'
  BY <1>1, BuildRecordType DEF TypeOK
<1>2. CASE Publish
  BY <1>2 DEF Publish, TypeOK, Phases
<1>3. CASE BuildTamperedChain
  BY <1>3, TamperedType DEF TypeOK
<1>4. CASE Custody
  BY <1>4, CustodyType DEF TypeOK
<1>5. CASE Submit
  BY <1>5 DEF Submit, TypeOK, Phases
<1>6. CASE CheckRecord
  BY <1>6, BreachType DEF CheckRecord, Report, TypeOK, Phases
<1>7. CASE CheckGenesis
  BY <1>7 DEF CheckGenesis, Report, TypeOK, Phases, Verdicts, Breaches
<1>8. CASE CheckLink
  BY <1>8, BreachType DEF CheckLink, Report, TypeOK, Phases, Verdicts
<1>9. CASE UNCHANGED vars
  BY <1>9 DEF vars, TypeOK
<1> QED
  BY <1>1, <1>2, <1>3, <1>4, <1>5, <1>6, <1>7, <1>8, <1>9
     DEF Next, Produce, DetectChainBreach

\* In every state of every behaviour the ledger and the copy are sequences of
\* Decision Objects and the verifier's state is one of detectChainBreach's.
THEOREM TypeCorrect == Spec => []TypeOK
BY TypeInit, TypeStep, PTL DEF Spec

-----------------------------------------------------------------------------
(***************************************************************************)
(* Digests along unbroken links.                                           *)
(***************************************************************************)

\* Before the first record there is nothing to commit to.
LEMMA HistoryZero == \A c : History(c, 0) = Null
BY DEF History, Null

\* A history is a hash value, as long as it is deep, and it shows the content
\* of every record it commits to.
LEMMA HistoryType ==
    ASSUME NEW c \in Seq(DOs), NEW n \in 0..Len(c)
    PROVE  /\ History(c, n) \in Seq(Contents)
           /\ Len(History(c, n)) = n
           /\ \A k \in 1..n : History(c, n)[k] = Content(c[k])
<1>1. \A k \in 1..n : Content(c[k]) \in Contents
  <2> TAKE k \in 1..n
  <2>1. k \in 1..Len(c)
    OBVIOUS
  <2> QED
    BY <2>1, ContentType, ElementOfSeq
<1>2. History(c, n) \in [1..n -> Contents]
  BY <1>1 DEF History
<1>3. n \in Nat
  OBVIOUS
<1> QED
  BY <1>2, <1>3, SeqDef, LenProperties DEF History

\* A record that is linked to a history and carries its own digest extends
\* that history by its content.
LEMMA HistoryExtend ==
    ASSUME NEW c \in Seq(DOs), NEW i \in 1..Len(c),
           c[i].previous_hash = History(c, i - 1),
           c[i].hash = Digest(c[i])
    PROVE  c[i].hash = History(c, i)
<1> DEFINE before == History(c, i - 1)
           x == Content(c[i])
<1>1. i - 1 \in 0..Len(c) /\ i \in 0..Len(c)
  OBVIOUS
<1>2. /\ before \in Seq(Contents) /\ Len(before) = i - 1
      /\ \A k \in 1..(i - 1) : before[k] = Content(c[k])
  BY <1>1, HistoryType
<1>3. x \in Contents
  BY ContentType, ElementOfSeq
<1>4. /\ History(c, i) \in Seq(Contents) /\ Len(History(c, i)) = i
      /\ \A k \in 1..i : History(c, i)[k] = Content(c[k])
  BY <1>1, HistoryType
<1>5. c[i].hash = Append(before, x)
  BY DEF Digest
<1> HIDE DEF before
<1>6. /\ Append(before, x) \in Seq(Contents)
      /\ Len(Append(before, x)) = i
      /\ \A k \in 1..i : Append(before, x)[k] = IF k = i THEN x ELSE before[k]
  <2> HIDE DEF x
  <2> QED
    BY <1>2, <1>3
<1>7. \A k \in 1..i : Append(before, x)[k] = History(c, i)[k]
  <2> TAKE k \in 1..i
  <2>1. CASE k = i
    BY <2>1, <1>4, <1>6
  <2>2. CASE k # i
    <3>1. k \in 1..(i - 1)
      BY <2>2
    <3> HIDE DEF x
    <3> QED
      BY <2>2, <3>1, <1>2, <1>4, <1>6
  <2> QED
    BY <2>1, <2>2
<1> QED
  <2> HIDE DEF x
  <2> QED
    BY <1>4, <1>5, <1>6, <1>7, SeqEqual

\* Chains that agree on their first n records have the same history there.
LEMMA HistoryAgree ==
    ASSUME NEW c, NEW d, NEW n \in Nat, \A k \in 1..n : c[k] = d[k]
    PROVE  History(c, n) = History(d, n)
BY DEF History

\* A record that passes verifyDO carries its own digest.
LEMMA SoundDigest ==
    ASSUME NEW d, RecordBreach(d) = "none"
    PROVE  d.hash = Digest(d)
<1>1. VerifyDO(d) = "passed"
  BY DEF RecordBreach
<1> QED
  BY <1>1 DEF VerifyDO

-----------------------------------------------------------------------------
(***************************************************************************)
(* The inductive invariant.                                                *)
(***************************************************************************)
LEMMA InvInit == Init => IInv
<1> SUFFICES ASSUME Init PROVE IInv
  OBVIOUS
<1>1. TypeOK
  BY TypeInit
<1>2. LedgerInv
  BY DEF Init, LedgerInv
<1>3. ScanInv
  BY DEF Init, ScanInv, Accepted
<1> QED
  BY <1>1, <1>2, <1>3 DEF IInv

\* Appending a record that buildDO links to the last one keeps every record of
\* the ledger committed to the whole ledger up to it.
LEMMA LedgerStep ==
    ASSUME IInv, NEW t \in Times, NEW d \in Decisions, BuildRecord(t, d)
    PROVE  LedgerInv'
<1> DEFINE n   == Len(ledger)
           rec == BuildDO(n, LastHash(ledger), t, d)
<1>1. ledger \in Seq(DOs) /\ LedgerInv /\ TypeOK
  BY DEF IInv, TypeOK
<1>2. ledger' = Append(ledger, rec) /\ ledger' \in Seq(DOs)
  BY <1>1, BuildRecordType DEF BuildRecord
<1>3. /\ n \in Nat
      /\ rec \in DOs
      /\ Len(ledger') = n + 1
      /\ ledger'[n + 1] = rec
      /\ \A i \in 1..n : ledger'[i] = ledger[i]
  <2>1. rec \in DOs
    <3>1. Len(ledger') = n + 1 /\ ledger'[n + 1] = rec
      <4> HIDE DEF rec
      <4> QED
        BY <1>1, <1>2
    <3> QED
      BY <1>1, <1>2, <3>1, ElementOfSeq
  <2> HIDE DEF rec
  <2> QED
    BY <1>1, <1>2, <2>1
<1>4. ASSUME NEW i \in 1..n
      PROVE  Anchored(ledger', i)
  <2>1. /\ History(ledger', i) = History(ledger, i)
        /\ History(ledger', i - 1) = History(ledger, i - 1)
    <3>1. i \in Nat /\ i - 1 \in Nat
      BY <1>3
    <3>2. /\ \A k \in 1..i : ledger'[k] = ledger[k]
          /\ \A k \in 1..(i - 1) : ledger'[k] = ledger[k]
      BY <1>3
    <3> QED
      BY <3>1, <3>2, HistoryAgree
  <2>2. Anchored(ledger, i) /\ ledger'[i] = ledger[i]
    BY <1>1, <1>3 DEF LedgerInv
  <2> QED
    BY <2>1, <2>2 DEF Anchored
<1>5. Anchored(ledger', n + 1)
  <2>1. rec.previous_hash = LastHash(ledger) /\ rec.hash = Digest(rec)
    BY DEF BuildDO, RecomputeHash, Digest, Content
  <2>2. LastHash(ledger) = History(ledger', n)
    <3>1. CASE n = 0
      BY <3>1, <1>1, HistoryZero DEF LastHash
    <3>2. CASE n # 0
      <4>1. n \in 1..n /\ ledger # << >>
        BY <1>1, <1>3, <3>2
      <4>2. Anchored(ledger', n) /\ ledger'[n] = ledger[n]
        BY <1>3, <1>4, <4>1
      <4> QED
        BY <4>1, <4>2 DEF LastHash, Anchored
    <3> QED
      BY <3>1, <3>2
  <2> HIDE DEF rec
  <2>3. /\ n + 1 \in 1..Len(ledger')
        /\ (n + 1) - 1 = n
        /\ ledger'[n + 1].previous_hash = History(ledger', (n + 1) - 1)
        /\ ledger'[n + 1].hash = Digest(ledger'[n + 1])
    BY <1>3, <2>1, <2>2
  <2> HIDE DEF n
  <2>4. ledger'[n + 1].hash = History(ledger', n + 1)
    BY <1>2, <2>3, HistoryExtend
  <2> QED
    BY <2>3, <2>4 DEF Anchored
<1> QED
  <2>1. \A i \in 1..(n + 1) : i \in 1..n \/ i = n + 1
    BY <1>3
  <2> HIDE DEF n
  <2> QED
    BY <1>3, <1>4, <1>5, <2>1 DEF LedgerInv


\* The first loop extends the sound records by one, or ends the scan with a
\* code other than "none".
LEMMA CheckRecordStep ==
    ASSUME IInv, CheckRecord
    PROVE  ScanInv'
<1> USE DEF IInv, ScanInv, Accepted, RecordsSound
<1>1. /\ phase = "records" /\ cursor >= 1 /\ verdict = "pending"
      /\ chain' = chain /\ cursor \in Nat
      /\ Len(chain) \in Nat
      /\ \A i \in 1..Len(chain) : i <= cursor - 1 => RecordBreach(chain[i]) = "none"
  BY DEF CheckRecord, TypeOK
<1>2. CASE cursor > Len(chain)
  <2>1. phase' = "genesis" /\ UNCHANGED <<cursor, verdict>>
    BY <1>2 DEF CheckRecord
  <2> QED
    BY <1>1, <1>2, <2>1
<1>3. CASE cursor <= Len(chain) /\ RecordBreach(chain[cursor]) = "none"
  <2>1. cursor' = cursor + 1 /\ UNCHANGED <<phase, verdict>>
    BY <1>1, <1>3 DEF CheckRecord
  <2> QED
    BY <1>1, <1>3, <2>1
<1>4. CASE cursor <= Len(chain) /\ RecordBreach(chain[cursor]) # "none"
  <2>1. phase' = "done" /\ verdict' = RecordBreach(chain[cursor])
    BY <1>1, <1>4 DEF CheckRecord, Report
  <2>2. verdict' # "pending"
    BY <2>1, BreachType DEF Verdicts, Breaches, RecordBreaches, LinkBreaches
  <2> QED
    BY <1>4, <2>1, <2>2
<1> QED
  BY <1>1, <1>2, <1>3, <1>4

\* A genesis record without a predecessor starts the followed part.
LEMMA CheckGenesisStep ==
    ASSUME IInv, CheckGenesis
    PROVE  ScanInv'
<1>1. /\ phase = "genesis" /\ verdict = "pending" /\ chain' = chain
      /\ RecordsSound(Len(chain)) /\ chain \in Seq(DOs) /\ Len(chain) \in Nat
  BY DEF IInv, ScanInv, CheckGenesis, TypeOK
<1>2. CASE chain # << >> /\ chain[1].previous_hash # Null
  BY <1>1, <1>2 DEF CheckGenesis, Report, ScanInv, Accepted
<1>3. CASE chain # << >> => chain[1].previous_hash = Null
  <2>1. phase' = "links" /\ cursor' = 2 /\ verdict' = verdict
    BY <1>1, <1>3 DEF CheckGenesis
  <2>2. Followed(1)
    <3>1. ASSUME NEW i \in 1..Len(chain), i <= 1
          PROVE  Anchored(chain, i)
      <4>1. i = 1 /\ chain # << >>
        BY <1>1, <3>1
      <4>2. chain[1] \in DOs /\ RecordBreach(chain[1]) = "none"
        BY <1>1, <4>1, <3>1, ElementOfSeq DEF RecordsSound
      <4>3. chain[1].previous_hash = History(chain, 1 - 1)
        BY <1>3, <4>1, HistoryZero
      <4>4. chain[1].hash = Digest(chain[1])
        BY <4>2, SoundDigest
      <4>5. chain[1].hash = History(chain, 1)
        BY <1>1, <3>1, <4>1, <4>3, <4>4, HistoryExtend
      <4> QED
        BY <4>1, <4>3, <4>5 DEF Anchored
    <3>2. \A i, j \in 1..Len(chain) : ~ (i < j /\ j <= 1)
      BY <1>1
    <3>3. \A i \in 2..Len(chain) : ~ (i <= 1)
      BY <1>1
    <3> QED
      BY <3>1, <3>2, <3>3 DEF Followed
  <2>3. Followed(1)' /\ RecordsSound(Len(chain))'
    BY <1>1, <2>2 DEF Followed, RecordsSound
  <2>4. 2 - 1 = 1 /\ 2 >= 1 /\ 2 >= 2
    OBVIOUS
  <2> QED
    BY <1>1, <2>1, <2>3, <2>4 DEF ScanInv, Accepted
<1> QED
  BY <1>2, <1>3

\* A link without a breach extends the followed part by one record.
LEMMA FollowedStep ==
    ASSUME chain \in Seq(DOs), NEW n \in 2..Len(chain),
           RecordsSound(Len(chain)), Followed(n - 1),
           LinkBreach(chain[n - 1], chain[n]) = "none"
    PROVE  Followed(n)
<1>1. /\ n \in 1..Len(chain) /\ n - 1 \in 1..Len(chain) /\ Len(chain) \in Nat
      /\ \A i \in 1..Len(chain) : i <= n => i <= n - 1 \/ i = n
      /\ \A i \in 2..Len(chain) : i <= n => i <= n - 1 \/ i = n
  OBVIOUS
<1>2. /\ chain[n].previous_hash = chain[n - 1].hash
      /\ chain[n].chain_seq = chain[n - 1].chain_seq + 1
      /\ chain[n].mode = chain[n - 1].mode
      /\ ~ EarlierThan(chain[n].timestamp, chain[n - 1].timestamp)
  BY DEF LinkBreach
<1>3. \A i \in 1..Len(chain) :
        chain[i].chain_seq \in Int /\ chain[i].timestamp \in Int \cup {NoTime}
  <2> TAKE i \in 1..Len(chain)
  <2>1. chain[i] \in DOs
    BY ElementOfSeq
  <2> QED
    BY <2>1, DOAssumption DEF DOs
<1>4. Anchored(chain, n)
  <2>1. chain[n].previous_hash = History(chain, n - 1)
    BY <1>1, <1>2 DEF Followed, Anchored
  <2>2. chain[n].hash = Digest(chain[n])
    BY <1>1, SoundDigest DEF RecordsSound
  <2>3. chain[n].hash = History(chain, n)
    BY <1>1, <2>1, <2>2, HistoryExtend
  <2> QED
    BY <2>1, <2>3 DEF Anchored
<1>5. ASSUME NEW i \in 1..Len(chain), i < n
      PROVE  Ordered(chain, i, n)
  <2>0. Timed(chain, i, n) =>
          /\ Timed(chain, i, n - 1)
          /\ chain[i].timestamp \in Int /\ chain[n].timestamp \in Int
          /\ chain[n - 1].timestamp \in Int
          /\ chain[n - 1].timestamp <= chain[n].timestamp
    <3>1. i \in i..n /\ n \in i..n /\ n - 1 \in i..n /\ \A k \in i..(n - 1) : k \in i..n
      BY <1>1, <1>5
    <3>2. SUFFICES ASSUME Timed(chain, i, n)
                   PROVE  /\ Timed(chain, i, n - 1)
                          /\ chain[i].timestamp \in Int /\ chain[n].timestamp \in Int
                          /\ chain[n - 1].timestamp \in Int
                          /\ chain[n - 1].timestamp <= chain[n].timestamp
      OBVIOUS
    <3>3. /\ Timed(chain, i, n - 1)
          /\ chain[i].timestamp # NoTime /\ chain[n].timestamp # NoTime
          /\ chain[n - 1].timestamp # NoTime
      BY <3>1, <3>2 DEF Timed
    <3>4. /\ chain[i].timestamp \in Int /\ chain[n].timestamp \in Int
          /\ chain[n - 1].timestamp \in Int
      BY <1>1, <1>3, <3>3
    <3>5. ~ (chain[n].timestamp < chain[n - 1].timestamp)
      BY <1>2, <3>3 DEF EarlierThan
    <3> QED
      BY <3>3, <3>4, <3>5
  <2>1. CASE i = n - 1
    <3>1. n - i = 1
      BY <2>1
    <3> QED
      BY <2>0, <2>1, <3>1, <1>1, <1>2, <1>3 DEF Ordered
  <2>2. CASE i < n - 1
    <3>1. Ordered(chain, i, n - 1)
      BY <1>1, <2>2 DEF Followed
    <3>2. chain[n].chain_seq = chain[i].chain_seq + (n - i)
      <4>1. chain[n - 1].chain_seq = chain[i].chain_seq + ((n - 1) - i)
        BY <3>1 DEF Ordered
      <4>2. chain[n - 1].chain_seq \in Int /\ chain[i].chain_seq \in Int
        BY <1>1, <1>3
      <4>3. n \in Int /\ i \in Int /\ chain[n].chain_seq = chain[n - 1].chain_seq + 1
        BY <1>1, <1>2
      <4> QED
        BY <4>1, <4>2, <4>3
    <3>3. chain[i].mode = chain[n].mode
      BY <3>1, <1>2 DEF Ordered
    <3>4. Timed(chain, i, n) => chain[i].timestamp <= chain[n].timestamp
      <4>1. Timed(chain, i, n) => chain[i].timestamp <= chain[n - 1].timestamp
        BY <2>0, <3>1 DEF Ordered
      <4> QED
        BY <2>0, <4>1
    <3> QED
      BY <3>2, <3>3, <3>4 DEF Ordered
  <2> QED
    BY <1>5, <2>1, <2>2
<1> QED
  <2>1. \A i \in 1..Len(chain) : i <= n => Anchored(chain, i)
    BY <1>1, <1>4 DEF Followed
  <2>2. \A i, j \in 1..Len(chain) :
            i < j /\ j <= n => Ordered(chain, i, j)
    BY <1>1, <1>5 DEF Followed
  <2>3. \A i \in 2..Len(chain) :
            i <= n => LinkBreach(chain[i - 1], chain[i]) = "none"
    BY <1>1 DEF Followed
  <2> QED
    BY <2>1, <2>2, <2>3 DEF Followed

LEMMA CheckLinkStep ==
    ASSUME IInv, CheckLink
    PROVE  ScanInv'
<1>1. /\ phase = "links" /\ verdict = "pending" /\ chain' = chain
      /\ cursor \in Nat /\ cursor >= 2 /\ Followed(cursor - 1)
      /\ RecordsSound(Len(chain)) /\ chain \in Seq(DOs) /\ Len(chain) \in Nat
  BY DEF IInv, ScanInv, CheckLink, TypeOK
<1>2. CASE cursor > Len(chain)
  <2>1. phase' = "done" /\ verdict' = "none"
    BY <1>2 DEF CheckLink, Report
  <2>2. Followed(Len(chain))
    <3>1. \A i \in 1..Len(chain) : i <= cursor - 1
      BY <1>1, <1>2
    <3> QED
      BY <1>1, <3>1 DEF Followed
  <2>3. Followed(Len(chain))' /\ RecordsSound(Len(chain))'
    BY <1>1, <2>2 DEF Followed, RecordsSound
  <2> QED
    BY <2>1, <2>3 DEF ScanInv, Accepted
<1>3. CASE cursor <= Len(chain)
  <2> DEFINE breach == LinkBreach(chain[cursor - 1], chain[cursor])
  <2>1. CASE breach = "none"
    <3>1. cursor' = cursor + 1 /\ UNCHANGED <<phase, verdict>>
      BY <1>1, <1>3, <2>1 DEF CheckLink
    <3>2. cursor \in 2..Len(chain)
      BY <1>1, <1>3
    <3>3. Followed(cursor)
      BY <1>1, <2>1, <3>2, FollowedStep
    <3>4. Followed(cursor' - 1) /\ cursor' >= 2
      BY <1>1, <3>1, <3>3
    <3>5. Followed(cursor - 1)' /\ RecordsSound(Len(chain))'
      BY <1>1, <3>4 DEF Followed, RecordsSound
    <3> QED
      BY <1>1, <3>1, <3>4, <3>5 DEF ScanInv, Accepted
  <2>2. CASE breach # "none"
    <3>1. phase' = "done" /\ verdict' = breach
      BY <1>1, <1>3, <2>2 DEF CheckLink, Report
    <3>2. breach # "pending"
      BY BreachType DEF Verdicts, Breaches, RecordBreaches, LinkBreaches
    <3> QED
      BY <2>2, <3>1, <3>2 DEF ScanInv, Accepted
  <2> QED
    BY <2>1, <2>2
<1> QED
  BY <1>1, <1>2, <1>3

\* No step of the producer or of the holder of the copy touches the scan.
LEMMA OutsideStep ==
    ASSUME IInv, phase \in {"produce", "custody"}, verdict' = verdict,
           phase' \in {"produce", "custody"}
    PROVE  ScanInv'
BY DEF IInv, ScanInv, Accepted

LEMMA InvStep == IInv /\ [Next]_vars => IInv'
<1> SUFFICES ASSUME IInv, [Next]_vars
             PROVE  LedgerInv' /\ ScanInv'
  BY TypeStep DEF IInv
<1>0. TypeOK /\ LedgerInv /\ ScanInv
  BY DEF IInv
<1>1. ASSUME NEW t \in Times, NEW d \in Decisions, BuildRecord(t, d)
      PROVE  LedgerInv' /\ ScanInv'
  <2>1. LedgerInv'
    BY <1>1, LedgerStep
  <2>2. ScanInv'
    BY <1>1, OutsideStep DEF BuildRecord
  <2> QED
    BY <2>1, <2>2
<1>2. CASE Publish
  <2>1. LedgerInv'
    BY <1>0, <1>2 DEF Publish, LedgerInv
  <2>2. ScanInv'
    BY <1>2, OutsideStep DEF Publish
  <2> QED
    BY <2>1, <2>2
<1>3. CASE BuildTamperedChain
  <2>1. /\ UNCHANGED <<ledger, edits, phase, cursor, verdict>>
        /\ phase = "custody"
    BY <1>0, <1>3, TamperedType
  <2>2. LedgerInv'
    BY <1>0, <2>1 DEF LedgerInv
  <2>3. ScanInv'
    BY <2>1, OutsideStep
  <2> QED
    BY <2>2, <2>3
<1>4. CASE Custody
  <2>1. UNCHANGED <<ledger, phase, cursor, verdict>> /\ phase = "custody"
    BY <1>0, <1>4, CustodyType
  <2>2. LedgerInv'
    BY <1>0, <2>1 DEF LedgerInv
  <2>3. ScanInv'
    BY <2>1, OutsideStep
  <2> QED
    BY <2>2, <2>3
<1>5. CASE Submit
  <2>1. LedgerInv'
    BY <1>0, <1>5 DEF Submit, LedgerInv
  <2>2. ScanInv'
    BY <1>0, <1>5 DEF Submit, ScanInv, Accepted, RecordsSound
  <2> QED
    BY <2>1, <2>2
<1>6. CASE CheckRecord
  BY <1>0, <1>6, CheckRecordStep DEF CheckRecord, LedgerInv
<1>7. CASE CheckGenesis
  BY <1>0, <1>7, CheckGenesisStep DEF CheckGenesis, LedgerInv
<1>8. CASE CheckLink
  BY <1>0, <1>8, CheckLinkStep DEF CheckLink, LedgerInv
<1>9. CASE UNCHANGED vars
  BY <1>0, <1>9 DEF vars, LedgerInv, ScanInv, Accepted, RecordsSound, Followed
<1> QED
  BY <1>1, <1>2, <1>3, <1>4, <1>5, <1>6, <1>7, <1>8, <1>9
     DEF Next, Produce, DetectChainBreach

\* The scan knows what it has checked, and the ledger commits to itself.
THEOREM Inductive == Spec => []IInv
BY InvInit, InvStep, PTL DEF Spec

-----------------------------------------------------------------------------
(***************************************************************************)
(* What an accepted chain is.                                              *)
(***************************************************************************)

\* Acceptance orders the whole chain, not only neighbours, though the scan
\* compares each record with the one before it only: the order of times carries
\* over a stretch in which no time is missing, and over no other.
THEOREM AcceptedOrder == Spec => []AcceptedIsOrdered
<1>1. IInv => AcceptedIsOrdered
  <2> SUFFICES ASSUME IInv, Accepted, NEW i \in 1..Len(chain),
                      NEW j \in 1..Len(chain), i < j
               PROVE  Ordered(chain, i, j)
    BY DEF AcceptedIsOrdered, Ordered
  <2>1. Followed(Len(chain)) /\ Len(chain) \in Nat
    BY DEF IInv, ScanInv, TypeOK
  <2>2. j <= Len(chain)
    BY <2>1
  <2> QED
    BY <2>1, <2>2 DEF Followed
<1> QED
  BY <1>1, Inductive, PTL

\* Two records whose stored hashes are histories of the same depth have, with
\* all records before them, the same contents.
LEMMA SameHistory ==
    ASSUME NEW c \in Seq(DOs), NEW d \in Seq(DOs),
           NEW n \in 1..Len(c), NEW m \in 1..Len(d),
           History(c, n) = History(d, m)
    PROVE  n = m /\ \A k \in 1..n : Content(c[k]) = Content(d[k])
<1>1. n \in 0..Len(c) /\ m \in 0..Len(d)
  OBVIOUS
<1>2. Len(History(c, n)) = n /\ \A k \in 1..n : History(c, n)[k] = Content(c[k])
  BY <1>1, HistoryType
<1>3. Len(History(d, m)) = m /\ \A k \in 1..m : History(d, m)[k] = Content(d[k])
  BY <1>1, HistoryType
<1> QED
  BY <1>2, <1>3

\* A record is its content and its two hashes.
LEMMA SameRecord ==
    ASSUME NEW a \in DOs, NEW b \in DOs, Content(a) = Content(b),
           a.previous_hash = b.previous_hash, a.hash = b.hash
    PROVE  a = b
<1>1. /\ a.chain_seq = b.chain_seq /\ a.timestamp = b.timestamp
      /\ a.mode = b.mode /\ a.preimage_version = b.preimage_version
      /\ a.shape = b.shape /\ a.decision = b.decision
  BY DEF Content
<1> QED
  BY <1>1 DEF DOs

\* Behind a tip hash the producer issued nothing can be changed: the accepted
\* chain is the ledger up to that record.
THEOREM TipAnchor == Spec => []TipAnchorsHistory
<1>1. IInv => TipAnchorsHistory
  <2> SUFFICES ASSUME IInv, Accepted, chain # << >>,
                      chain[Len(chain)].hash \in Issued
               PROVE  \E n \in 1..Len(ledger) : chain = SubSeq(ledger, 1, n)
    BY DEF TipAnchorsHistory
  <2> DEFINE n == Len(chain)
  <2>1. /\ chain \in Seq(DOs) /\ ledger \in Seq(DOs) /\ n \in Nat
        /\ LedgerInv /\ Followed(n) /\ n \in 1..n
    <3>1. chain \in Seq(DOs) /\ ledger \in Seq(DOs) /\ LedgerInv /\ Followed(n)
      BY DEF IInv, ScanInv, TypeOK
    <3> QED
      BY <3>1
  <2>2. PICK m \in 1..Len(ledger) : chain[n].hash = ledger[m].hash
    BY DEF Issued
  <2>3. \A i \in 1..n : Anchored(chain, i)
    BY <2>1 DEF Followed
  <2>4. \A i \in 1..Len(ledger) : Anchored(ledger, i)
    BY <2>1 DEF LedgerInv
  <2>5. History(chain, n) = History(ledger, m)
    BY <2>1, <2>2, <2>3, <2>4 DEF Anchored
  <2>6. n = m /\ \A k \in 1..n : Content(chain[k]) = Content(ledger[k])
    <3> HIDE DEF n
    <3>1. n \in 1..Len(chain)
      BY <2>1 DEF n
    <3> QED
      BY <2>1, <2>5, <3>1, SameHistory
  <2>7. \A i \in 0..n : History(chain, i) = History(ledger, i)
    BY <2>1, <2>6 DEF History
  <2>8. \A k \in 1..n : chain[k] = ledger[k]
    <3> TAKE k \in 1..n
    <3>1. k \in 1..Len(ledger) /\ k - 1 \in 0..n /\ k \in 0..n
      BY <2>1, <2>6
    <3>2. chain[k] \in DOs /\ ledger[k] \in DOs
      BY <2>1, <3>1, ElementOfSeq
    <3>3. Anchored(chain, k) /\ Anchored(ledger, k)
      BY <2>3, <2>4, <3>1
    <3> QED
      BY <2>6, <2>7, <3>1, <3>2, <3>3, SameRecord DEF Anchored
  <2>9. n \in 1..Len(ledger)
    BY <2>1, <2>6
  <2>10. chain = SubSeq(ledger, 1, n)
    <3>1. \A i \in 1..n : ledger[i] \in DOs
      BY <2>1, <2>9
    <3>2. /\ SubSeq(ledger, 1, n) \in Seq(DOs)
          /\ Len(SubSeq(ledger, 1, n)) = n
          /\ \A i \in 1..n : SubSeq(ledger, 1, n)[i] = ledger[i]
      <4> HIDE DEF n
      <4> QED
        BY <2>1, <3>1, SubSeqProperties
    <3> QED
      BY <2>1, <2>8, <3>2, SeqEqual
  <2> QED
    BY <2>9, <2>10
<1> QED
  BY <1>1, Inductive, PTL

-----------------------------------------------------------------------------
(***************************************************************************)
(* The scan implements one judgement of the whole chain.                   *)
(***************************************************************************)

\* The declarative reading of a record and of a link agrees with the scan's.
LEMMA RecordReading ==
    ASSUME NEW d
    PROVE  /\ Judgement!Sound(d) <=> RecordBreach(d) = "none"
           /\ ~ Judgement!Sound(d) => RecordBreach(d) = Judgement!RecordFaultCode(d)
BY DEF RecordBreach, VerifyDO, Digest, Content, Judgement!Sound,
       Judgement!RecordFaultCode, Judgement!VerifyDO, Judgement!Digest,
       Judgement!Content

LEMMA LinkReading ==
    ASSUME NEW prev \in DOs, NEW cur \in DOs
    PROVE  /\ Judgement!SoundLink(prev, cur) <=> LinkBreach(prev, cur) = "none"
           /\ LinkBreach(prev, cur) # "none" =>
                Judgement!FirstLinkFault(prev, cur, LinkBreach(prev, cur))
<1> DEFINE f(p) == Judgement!LinkFault(prev, cur, Judgement!LinkCodes[p])
           code(p) == Judgement!LinkCodes[p]
<1>1. /\ prev.chain_seq \in Int /\ cur.chain_seq \in Int
      /\ prev.mode \in Modes /\ cur.mode \in Modes
  BY DOAssumption DEF DOs
<1>2. /\ code(1) = "previous_hash_dangling" /\ code(2) = "chain_seq_gap"
      /\ code(3) = "mode_mixed_chain" /\ code(4) = "time_regression"
  BY DEF Judgement!LinkCodes
<1>3. {cur.mode, prev.mode} = Modes <=> cur.mode # prev.mode
  BY <1>1 DEF Modes
<1>4. /\ f(1) <=> cur.previous_hash # prev.hash
      /\ f(2) <=> cur.chain_seq # prev.chain_seq + 1
      /\ f(3) <=> cur.mode # prev.mode
      /\ f(4) <=> EarlierThan(cur.timestamp, prev.timestamp)
  <2>1. /\ f(1) <=> cur.previous_hash # prev.hash
        /\ f(3) <=> cur.mode # prev.mode
    BY <1>2, <1>3 DEF Judgement!LinkFault, Judgement!Modes, Modes
  <2>2. f(2) <=> cur.chain_seq - prev.chain_seq # 1
    BY <1>2 DEF Judgement!LinkFault
  <2>3. f(4) <=> EarlierThan(cur.timestamp, prev.timestamp)
    BY <1>2 DEF Judgement!LinkFault, Judgement!EarlierThan, EarlierThan
  <2> QED
    BY <1>1, <2>1, <2>2, <2>3
<1>5. Judgement!SoundLink(prev, cur) <=> \A p \in 1..4 : ~ f(p)
  BY DEF Judgement!SoundLink
<1>6. \A c : Judgement!FirstLinkFault(prev, cur, c) <=>
        \E p \in 1..4 : /\ c = code(p) /\ f(p)
                        /\ \A q \in 1..(p - 1) : ~ f(q)
  BY DEF Judgement!FirstLinkFault
<1> HIDE DEF f, code
<1>7. \A p \in 1..4 : p = 1 \/ p = 2 \/ p = 3 \/ p = 4
  OBVIOUS
<1>8. Judgement!SoundLink(prev, cur) <=> LinkBreach(prev, cur) = "none"
  BY <1>4, <1>5, <1>7 DEF LinkBreach
<1>9. ASSUME LinkBreach(prev, cur) # "none"
      PROVE  Judgement!FirstLinkFault(prev, cur, LinkBreach(prev, cur))
  <2>1. CASE f(1)
    <3>1. LinkBreach(prev, cur) = code(1)
      BY <1>2, <1>4, <2>1 DEF LinkBreach
    <3> QED
      BY <1>6, <2>1, <3>1
  <2>2. CASE ~ f(1) /\ f(2)
    <3>1. LinkBreach(prev, cur) = code(2)
      BY <1>2, <1>4, <2>2 DEF LinkBreach
    <3> QED
      BY <1>6, <2>2, <3>1
  <2>3. CASE ~ f(1) /\ ~ f(2) /\ f(3)
    <3>1. LinkBreach(prev, cur) = code(3)
      BY <1>2, <1>4, <2>3 DEF LinkBreach
    <3>2. \A q \in 1..(3 - 1) : q = 1 \/ q = 2
      OBVIOUS
    <3> QED
      BY <1>6, <2>3, <3>1, <3>2
  <2>4. CASE ~ f(1) /\ ~ f(2) /\ ~ f(3)
    <3>1. f(4) /\ LinkBreach(prev, cur) = code(4)
      BY <1>2, <1>4, <1>9, <2>4 DEF LinkBreach
    <3>2. \A q \in 1..(4 - 1) : q = 1 \/ q = 2 \/ q = 3
      OBVIOUS
    <3> QED
      BY <1>6, <2>4, <3>1, <3>2
  <2> QED
    BY <2>1, <2>2, <2>3, <2>4
<1> QED
  BY <1>8, <1>9

\* The step that ends the scan pronounces the judgement of the whole chain.
LEMMA ScanEnds ==
    ASSUME IInv, CheckRecord \/ CheckGenesis \/ CheckLink, phase' = "done"
    PROVE  /\ phase # "done"
           /\ chain' = chain
           /\ \/ /\ Judgement!AllRecordsSound /\ Judgement!GenesisSound
                 /\ Judgement!LinksSound(Len(chain))
                 /\ verdict' = "none"
              \/ Judgement!ChainFault(verdict')
<1>1. /\ chain \in Seq(DOs) /\ cursor \in Nat /\ Len(chain) \in Nat
      /\ \A i \in 1..Len(chain) : chain[i] \in DOs
  BY ElementOfSeq DEF IInv, TypeOK
<1>2. chain' = chain
  BY DEF CheckRecord, CheckGenesis, CheckLink
<1>3. \A n \in Nat : RecordsSound(n) =>
        \A i \in 1..Len(chain) : i <= n => Judgement!Sound(chain[i])
  BY RecordReading DEF RecordsSound
<1>4. RecordsSound(Len(chain)) => Judgement!AllRecordsSound
  BY <1>1, <1>3 DEF Judgement!AllRecordsSound
<1>5. ASSUME NEW n \in Nat, Followed(n)
      PROVE  \A i \in 2..Len(chain) :
               i <= n => Judgement!SoundLink(chain[i - 1], chain[i])
  <2> TAKE i \in 2..Len(chain)
  <2> HAVE i <= n
  <2>1. LinkBreach(chain[i - 1], chain[i]) = "none"
    BY <1>5 DEF Followed
  <2>2. i \in 1..Len(chain) /\ i - 1 \in 1..Len(chain)
    BY <1>1
  <2> QED
    BY <1>1, <2>1, <2>2, LinkReading
<1>6. CASE CheckRecord
  <2>1. /\ phase = "records" /\ cursor >= 1 /\ cursor <= Len(chain)
        /\ RecordBreach(chain[cursor]) # "none"
        /\ verdict' = RecordBreach(chain[cursor])
        /\ RecordsSound(cursor - 1)
    BY <1>1, <1>6 DEF CheckRecord, Report, IInv, ScanInv
  <2>2. cursor \in 1..Len(chain) /\ cursor - 1 \in Nat
    BY <1>1, <2>1
  <2>3. \A j \in 1..(cursor - 1) : Judgement!Sound(chain[j])
    BY <1>1, <1>3, <2>1, <2>2
  <2>4. /\ ~ Judgement!Sound(chain[cursor])
        /\ verdict' = Judgement!RecordFaultCode(chain[cursor])
    BY <2>1, RecordReading
  <2>5. Judgement!RecordFault(verdict')
    BY <2>2, <2>3, <2>4 DEF Judgement!RecordFault
  <2> QED
    BY <1>2, <2>1, <2>5 DEF Judgement!ChainFault
<1>7. CASE CheckGenesis
  <2>1. /\ phase = "genesis" /\ chain # << >> /\ chain[1].previous_hash # Null
        /\ verdict' = "chain_genesis_mismatch"
        /\ RecordsSound(Len(chain))
    BY <1>7 DEF CheckGenesis, Report, IInv, ScanInv
  <2>2. ~ Judgement!GenesisSound
    BY <2>1 DEF Judgement!GenesisSound, Null, Judgement!Null
  <2> QED
    BY <1>2, <1>4, <2>1, <2>2 DEF Judgement!ChainFault
<1>8. CASE CheckLink
  <2>1. /\ phase = "links" /\ cursor >= 2 /\ Followed(cursor - 1)
        /\ RecordsSound(Len(chain))
    BY <1>8 DEF CheckLink, IInv, ScanInv
  <2>2. /\ cursor - 1 \in Nat
        /\ chain # << >> => 1 \in 1..Len(chain) /\ 1 <= cursor - 1
    BY <1>1, <2>1, EmptySeq
  <2>3. Judgement!GenesisSound
    <3> SUFFICES ASSUME chain # << >> PROVE chain[1].previous_hash = << >>
      BY DEF Judgement!GenesisSound, Judgement!Null
    <3>1. chain[1].previous_hash = History(chain, 0)
      BY <2>1, <2>2 DEF Followed, Anchored
    <3> QED
      BY <3>1, HistoryZero DEF Null
  <2>4. \A i \in 2..Len(chain) :
          i <= cursor - 1 => Judgement!SoundLink(chain[i - 1], chain[i])
    BY <1>5, <2>1, <2>2
  <2>5. CASE cursor > Len(chain)
    <3>1. verdict' = "none"
      BY <1>8, <2>5 DEF CheckLink, Report
    <3>2. Judgement!LinksSound(Len(chain))
      BY <1>1, <2>4, <2>5 DEF Judgement!LinksSound
    <3> QED
      BY <1>2, <1>4, <2>1, <2>3, <3>1, <3>2
  <2>6. CASE cursor <= Len(chain)
    <3>1. /\ verdict' = LinkBreach(chain[cursor - 1], chain[cursor])
          /\ LinkBreach(chain[cursor - 1], chain[cursor]) # "none"
      BY <1>1, <1>8, <2>1, <2>6 DEF CheckLink, Report
    <3>2. /\ cursor \in 2..Len(chain) /\ cursor \in 1..Len(chain)
          /\ cursor - 1 \in 1..Len(chain)
      BY <1>1, <2>1, <2>6
    <3>3. Judgement!LinksSound(cursor - 1)
      BY <1>1, <2>4, <3>2 DEF Judgement!LinksSound
    <3>4. Judgement!FirstLinkFault(chain[cursor - 1], chain[cursor], verdict')
      BY <1>1, <3>1, <3>2, LinkReading
    <3>5. Judgement!ChainFault(verdict')
      BY <1>4, <2>1, <2>3, <3>2, <3>3, <3>4 DEF Judgement!ChainFault
    <3> QED
      BY <1>2, <2>1, <3>5
  <2> QED
    BY <1>1, <2>5, <2>6
<1> QED
  BY <1>6, <1>7, <1>8

\* The scan of detectChainBreach implements the one-shot judgement: it ends in
\* the verdict that the declarative reading of the checks gives the chain as it
\* was submitted, and the verdict is never revised.
THEOREM Refinement == Spec => ImplementsJudgement
<1>1. Init => Judgement!Init
  BY DEF Init, Judgement!Init
<1>2. IInv /\ [Next]_vars =>
        [Judgement!Next]_<<chain, IF phase = "done" THEN verdict ELSE "pending">>
  <2> SUFFICES ASSUME IInv, [Next]_vars
               PROVE  \/ Judgement!Next
                      \/ UNCHANGED <<chain, IF phase = "done" THEN verdict
                                                             ELSE "pending">>
    OBVIOUS
  <2>1. CASE UNCHANGED vars
    BY <2>1 DEF vars
  <2>2. CASE Produce \/ BuildTamperedChain \/ Custody \/ Submit
    <3>1. phase # "done" /\ phase' # "done"
      BY <2>2 DEF Produce, BuildRecord, Publish, BuildTamperedChain,
                  AlterDecision, RemoveMiddle, DanglePointer, RollBackClock,
                  RebuildGenesis, DowngradeVersion, MixModes, Tamper, Custody,
                  Overwrite, Drop, Swap, Rehash, Rechain, Edit, Submit
    <3> QED
      BY <3>1 DEF Judgement!Next, Judgement!Custody
  <2>3. CASE DetectChainBreach
    <3>1. CheckRecord \/ CheckGenesis \/ CheckLink
      BY <2>3 DEF DetectChainBreach
    <3>2. phase # "done"
      BY <3>1 DEF CheckRecord, CheckGenesis, CheckLink
    <3>3. CASE phase' # "done"
      BY <3>2, <3>3 DEF Judgement!Next, Judgement!Custody
    <3>4. CASE phase' = "done"
      <4>1. /\ chain' = chain
            /\ \/ /\ Judgement!AllRecordsSound /\ Judgement!GenesisSound
                  /\ Judgement!LinksSound(Len(chain))
                  /\ verdict' = "none"
               \/ Judgement!ChainFault(verdict')
        BY <3>1, <3>4, ScanEnds
      <4> QED
        BY <3>2, <3>4, <4>1 DEF Judgement!Next, Judgement!Judge
    <3> QED
      BY <3>3, <3>4
  <2> QED
    BY <2>1, <2>2, <2>3 DEF Next
<1> QED
  BY <1>1, <1>2, Inductive, PTL DEF Spec, ImplementsJudgement, Judgement!Spec

-----------------------------------------------------------------------------
(***************************************************************************)
(* The vectors C01..C08: what the scan comes to on what was declared.      *)
(***************************************************************************)

\* Two digests are equal only when the contents and the links are.
LEMMA DigestInjective ==
    ASSUME NEW a \in DOs, NEW b \in DOs, Digest(a) = Digest(b)
    PROVE  Content(a) = Content(b) /\ a.previous_hash = b.previous_hash
<1>1. /\ a.previous_hash \in Seq(Contents \cup {Forged})
      /\ b.previous_hash \in Seq(Contents \cup {Forged})
  BY DEF DOs, Hashes
<1>2. Content(a) \in Contents \cup {Forged} /\ Content(b) \in Contents \cup {Forged}
  BY ContentType
<1>3. Append(a.previous_hash, Content(a)) = Append(b.previous_hash, Content(b))
  BY DEF Digest
<1> DEFINE p == a.previous_hash  q == b.previous_hash  x == Content(a)  y == Content(b)
<1> HIDE DEF p, q, x, y
<1>4. p = q /\ x = y
  <2>1. /\ p \in Seq(Contents \cup {Forged}) /\ q \in Seq(Contents \cup {Forged})
        /\ x \in Contents \cup {Forged} /\ y \in Contents \cup {Forged}
        /\ Append(p, x) = Append(q, y)
    BY <1>1, <1>2, <1>3 DEF p, q, x, y
  <2> QED
    BY <2>1, AppendInjective
<1> QED
  BY <1>4 DEF p, q, x, y

\* A sequence that is one longer at its end is so behind another, too.
LEMMA ConcatStep ==
    ASSUME NEW S, NEW s \in Seq(S), NEW t \in Seq(S), NEW u \in Seq(S),
           Len(u) = Len(t) + 1, \A j \in 1..Len(t) : u[j] = t[j]
    PROVE  Append(s \o t, u[Len(u)]) = s \o u
<1> DEFINE n == Len(t)
           x == u[n + 1]
<1>1. n \in Nat /\ Len(u) = n + 1 /\ n + 1 \in 1..Len(u)
  OBVIOUS
<1>2. x \in S
  BY <1>1, ElementOfSeq
<1> HIDE DEF x
<1>3. /\ Append(t, x) \in Seq(S)
      /\ Len(Append(t, x)) = n + 1
      /\ \A i \in 1..n : Append(t, x)[i] = t[i]
      /\ Append(t, x)[n + 1] = x
  BY <1>2, AppendProperties
<1>4. \A i \in 1..(n + 1) : Append(t, x)[i] = u[i]
  <2> TAKE i \in 1..(n + 1)
  <2>1. i \in 1..n \/ i = n + 1
    BY <1>1
  <2> QED
    BY <2>1, <1>3 DEF x
<1>5. Append(t, x) = u
  BY <1>1, <1>3, <1>4, SeqEqual
<1>6. <<x>> \in Seq(S)
  BY <1>2
<1>7. Append(s \o t, x) = (s \o t) \o <<x>>
  BY <1>2, ConcatProperties, AppendIsConcat
<1>8. (s \o t) \o <<x>> = s \o (t \o <<x>>)
  BY <1>6, ConcatAssociative
<1>9. t \o <<x>> = Append(t, x)
  BY <1>2, AppendIsConcat
<1> QED
  BY <1>1, <1>5, <1>7, <1>8, <1>9 DEF x

\* rechainFrom changes no content, leaves what comes before alone, and links and
\* hashes everything behind.
LEMMA RechainLinks ==
    ASSUME NEW c \in Seq(DOs), NEW k \in 1..Len(c)
    PROVE  LET R == RechainFrom(c, k)
           IN  /\ \A i \in 1..Len(c) : i < k => R[i] = c[i]
               /\ R[k].previous_hash = c[k].previous_hash
               /\ \A i \in 1..Len(c) : Content(R[i]) = Content(c[i])
               /\ \A i \in 1..Len(c) : i >= k => R[i].hash = Digest(R[i])
               /\ \A i \in 1..Len(c) : i > k => R[i].previous_hash = R[i - 1].hash
<1> DEFINE rehashed(i) ==
              Digest(c[k]) \o [j \in 1..(i - k) |-> Content(c[k + j])]
           rec(i) == IF i < k THEN c[i]
                     ELSE IF i = k THEN RecomputeHash(c[k])
                     ELSE [c[i] EXCEPT !.previous_hash = rehashed(i - 1),
                                       !.hash = rehashed(i)]
           R == RechainFrom(c, k)
           S == Contents \cup {Forged}
<1>1. Digest(c[k]) \in Seq(S)
  BY DigestType, ElementOfSeq DEF Hashes
<1>2. \A i \in 1..Len(c) : c[i] \in DOs /\ Content(c[i]) \in Contents
  BY ElementOfSeq, ContentType
<1>3. rehashed(k) = Digest(c[k])
  <2>1. [j \in 1..(k - k) |-> Content(c[k + j])] = << >>
    OBVIOUS
  <2> QED
    BY <1>1, <2>1, ConcatEmptySeq
<1>4. ASSUME NEW i \in 1..Len(c), i > k
      PROVE  Append(rehashed(i - 1), Content(c[i])) = rehashed(i)
  <2> DEFINE t == [j \in 1..((i - 1) - k) |-> Content(c[k + j])]
             u == [j \in 1..(i - k) |-> Content(c[k + j])]
  <2>1. (i - 1) - k \in Nat /\ i - k \in Nat /\ i - k = ((i - 1) - k) + 1 /\ k + (i - k) = i
    BY <1>4
  <2>2. \A j \in 1..(i - k) : k + j \in 1..Len(c)
    BY <2>1
  <2>3. /\ t \in Seq(S) /\ Len(t) = (i - 1) - k
        /\ u \in Seq(S) /\ Len(u) = i - k
    BY <1>2, <2>1, <2>2, SeqDef, LenProperties
  <2>4. \A j \in 1..Len(t) : u[j] = t[j]
    BY <2>1, <2>3
  <2>5. u[Len(u)] = Content(c[i])
    BY <2>1, <2>3
  <2>6. rehashed(i - 1) = Digest(c[k]) \o t /\ rehashed(i) = Digest(c[k]) \o u
    OBVIOUS
  <2> HIDE DEF t, u, rehashed, S
  <2>7. Len(u) = Len(t) + 1
    BY <2>1, <2>3
  <2>8. Append(Digest(c[k]) \o t, u[Len(u)]) = Digest(c[k]) \o u
    BY <1>1, <2>3, <2>4, <2>7, ConcatStep
  <2> QED
    BY <2>5, <2>6, <2>8
<1>5. \A i \in 1..Len(c) : R[i] = rec(i)
  BY DEF RechainFrom
<1> HIDE DEF R, S
<1>51. ASSUME NEW i \in 1..Len(c), i > k
       PROVE  R[i] = [c[i] EXCEPT !.previous_hash = rehashed(i - 1), !.hash = rehashed(i)]
  <2>1. R[i] = rec(i)
    BY <1>5
  <2> HIDE DEF rehashed
  <2> QED
    BY <2>1, <1>51
<1>52. R[k] = [c[k] EXCEPT !.hash = Digest(c[k])]
  <2>1. R[k] = rec(k)
    BY <1>5
  <2> HIDE DEF rehashed
  <2> QED
    BY <2>1 DEF RecomputeHash
<1>53. \A i \in 1..Len(c) : i < k => R[i] = c[i]
  <2> HIDE DEF rehashed
  <2> QED
    BY <1>5
<1> HIDE DEF rehashed, rec
<1>6. ASSUME NEW i \in 1..Len(c), i > k
      PROVE  /\ R[i].previous_hash = rehashed(i - 1)
             /\ R[i].hash = rehashed(i)
             /\ Content(R[i]) = Content(c[i])
  <2>1. R[i] = [c[i] EXCEPT !.previous_hash = rehashed(i - 1), !.hash = rehashed(i)]
    BY <1>51, <1>6
  <2>2. c[i] \in DOs
    BY <1>2
  <2> QED
    BY <2>1, <2>2 DEF DOs, Content
<1>7. /\ R[k].previous_hash = c[k].previous_hash
      /\ R[k].hash = Digest(c[k])
      /\ Content(R[k]) = Content(c[k])
  <2>1. R[k] = [c[k] EXCEPT !.hash = Digest(c[k])]
    BY <1>52
  <2>2. c[k] \in DOs
    BY <1>2
  <2> QED
    BY <2>1, <2>2 DEF DOs, Content
<1>8. \A i \in 1..Len(c) : i < k => R[i] = c[i]
  BY <1>53
<1>9. ASSUME NEW i \in 1..Len(c)
      PROVE  Content(R[i]) = Content(c[i])
  BY <1>6, <1>7, <1>8
<1>10. ASSUME NEW i \in 1..Len(c), i >= k
       PROVE  R[i].hash = Digest(R[i])
  <2>1. CASE i = k
    BY <2>1, <1>7 DEF Digest
  <2>2. CASE i > k
    BY <2>2, <1>4, <1>6 DEF Digest
  <2> QED
    BY <1>10, <2>1, <2>2
<1>11. ASSUME NEW i \in 1..Len(c), i > k
       PROVE  R[i].previous_hash = R[i - 1].hash
  <2>1. R[i].previous_hash = rehashed(i - 1)
    BY <1>6, <1>11
  <2>2. CASE i - 1 = k
    BY <2>1, <2>2, <1>3, <1>7
  <2>3. CASE i - 1 # k
    <3>1. i - 1 \in 1..Len(c) /\ i - 1 > k
      BY <1>11, <2>3
    <3> QED
      BY <2>1, <3>1, <1>6
  <2> QED
    BY <2>2, <2>3
<1> QED
  BY <1>7, <1>8, <1>9, <1>10, <1>11 DEF R

LEMMA SameFields ==
    ASSUME NEW a, NEW b, Content(a) = Content(b)
    PROVE  /\ a.chain_seq = b.chain_seq /\ a.timestamp = b.timestamp /\ a.mode = b.mode
           /\ a.preimage_version = b.preimage_version /\ a.shape = b.shape
           /\ a.decision = b.decision
BY DEF Content

\* A record of the supported version with its own digest passes.
LEMMA PassesRecord ==
    ASSUME NEW d, d.preimage_version = PREIMAGE_VERSION, d.shape = "v15", d.hash = Digest(d)
    PROVE  RecordBreach(d) = "none"
BY DEF RecordBreach, VerifyDO

LEMMA GenuinePasses ==
    ASSUME NEW d, Genuine(d)
    PROVE  RecordBreach(d) = "none"
BY PassesRecord DEF Genuine

\* The ledger begins without a predecessor, every other record names the hash of
\* the one before it, and no hash in it is forged.
LEMMA LedgerLinks ==
    ASSUME IInv, ProducedInv, NEW i \in 1..Len(ledger)
    PROVE  /\ ledger[i] \in DOs
           /\ i = 1 => ledger[i].previous_hash = Null
           /\ i # 1 => ledger[i].previous_hash = ledger[i - 1].hash
           /\ ledger[i].hash # <<Forged>>
<1>1. ledger \in Seq(DOs) /\ ledger[i] \in DOs /\ Len(ledger) \in Nat
  BY ElementOfSeq DEF IInv, TypeOK
<1>2. Anchored(ledger, i)
  BY DEF IInv, LedgerInv
<1>3. i = 1 => ledger[i].previous_hash = Null
  BY <1>2, HistoryZero DEF Anchored
<1>4. ASSUME i # 1
      PROVE  ledger[i].previous_hash = ledger[i - 1].hash
  <2>1. i - 1 \in 1..Len(ledger)
    BY <1>1, <1>4
  <2>2. Anchored(ledger, i - 1)
    BY <2>1 DEF IInv, LedgerInv
  <2> QED
    BY <1>2, <2>2 DEF Anchored
<1>5. ledger[i].hash # <<Forged>>
  <2>1. /\ ledger[i].hash = History(ledger, i)
        /\ History(ledger, i)[1] = Content(ledger[1])
    <3>1. i \in 0..Len(ledger) /\ 1 \in 1..i
      BY <1>1
    <3> QED
      BY <1>1, <1>2, <3>1, HistoryType DEF Anchored
  <2>2. Content(ledger[1]) \in Contents
    <3>1. 1 \in 1..Len(ledger)
      BY <1>1
    <3> QED
      BY <1>1, <3>1, ContentType, ElementOfSeq
  <2>3. <<Forged>>[1] = Forged
    OBVIOUS
  <2> QED
    BY <2>1, <2>2, <2>3, ForgedAssumption
<1> QED
  BY <1>1, <1>3, <1>4, <1>5

\* The untouched ledger, of any length, is accepted (vector C01).
LEMMA LedgerAccepted ==
    ASSUME IInv, ProducedInv
    PROVE  ScansTo(ledger, "none")
<1>1. SoundUpTo(ledger, Len(ledger))
  BY GenuinePasses DEF ProducedInv, SoundUpTo
<1>2. Rooted(ledger)
  <2> SUFFICES ASSUME ledger # << >> PROVE ledger[1].previous_hash = Null
    BY DEF Rooted
  <2>1. 1 \in 1..Len(ledger)
    BY EmptySeq DEF IInv, TypeOK
  <2> QED
    BY <2>1, LedgerLinks
<1>3. ASSUME NEW i \in 2..Len(ledger)
      PROVE  LinkBreach(ledger[i - 1], ledger[i]) = "none"
  <2>1. /\ i \in 1..Len(ledger) /\ i - 1 \in 1..Len(ledger) /\ i # 1
        /\ (i - 1) - 1 = i - 2 /\ i - 1 = (i - 2) + 1
    BY DEF IInv, TypeOK
  <2>2. ledger[i].previous_hash = ledger[i - 1].hash
    BY <2>1, LedgerLinks
  <2>3. ledger[i].chain_seq = ledger[i - 1].chain_seq + 1
    BY <2>1 DEF ProducedInv
  <2>4. ledger[i].mode = ledger[i - 1].mode
    BY <2>1 DEF ProducedInv, Genuine
  <2>5. ~ EarlierThan(ledger[i].timestamp, ledger[i - 1].timestamp)
    <3>1. ledger[i] \in DOs /\ ledger[i - 1] \in DOs
      BY <2>1, LedgerLinks
    <3>2. ledger[i].timestamp \in Int /\ ledger[i - 1].timestamp \in Int
      BY <2>1, <3>1, DOAssumption DEF DOs, ProducedInv, Genuine
    <3>3. ledger[i - 1].timestamp <= ledger[i].timestamp
      BY <2>1 DEF ProducedInv
    <3> QED
      BY <3>2, <3>3 DEF EarlierThan
  <2> QED
    BY <2>2, <2>3, <2>4, <2>5 DEF LinkBreach
<1> QED
  BY <1>1, <1>2, <1>3 DEF ScansTo, LinkedUpTo

\* What the attacks that replace a record and rechain from there leave.
LEMMA Replaced ==
    ASSUME IInv, ProducedInv, Len(ledger) = 3, NEW k \in 1..3, NEW d \in DOs
    PROVE  LET R == RechainFrom([ledger EXCEPT ![k] = d], k)
           IN  /\ R \in Seq(DOs) /\ Len(R) = 3
               /\ \A i \in 1..3 : R[i] \in DOs
               /\ \A i \in 1..3 : i < k => R[i] = ledger[i]
               /\ R[k].previous_hash = d.previous_hash
               /\ Content(R[k]) = Content(d)
               /\ \A i \in 1..3 : i # k => Content(R[i]) = Content(ledger[i])
               /\ \A i \in 1..3 : R[i].hash = Digest(R[i])
               /\ \A i \in 1..3 : i > k => R[i].previous_hash = R[i - 1].hash
<1> DEFINE M == [ledger EXCEPT ![k] = d]
           R == RechainFrom(M, k)
<1>1. ledger \in Seq(DOs)
  BY DEF IInv, TypeOK
<1>2. /\ M \in Seq(DOs) /\ Len(M) = 3
      /\ \A i \in 1..3 : M[i] = IF i = k THEN d ELSE ledger[i]
  BY <1>1, ExceptSeq
<1> HIDE DEF M
<1>3. R \in Seq(DOs) /\ Len(R) = 3
  BY <1>2, RechainFromType
<1>4. /\ \A i \in 1..3 : i < k => R[i] = M[i]
      /\ R[k].previous_hash = M[k].previous_hash
      /\ \A i \in 1..3 : Content(R[i]) = Content(M[i])
      /\ \A i \in 1..3 : i >= k => R[i].hash = Digest(R[i])
      /\ \A i \in 1..3 : i > k => R[i].previous_hash = R[i - 1].hash
  <2>1. k \in 1..Len(M)
    BY <1>2
  <2>2. /\ \A i \in 1..Len(M) : i < k => R[i] = M[i]
        /\ R[k].previous_hash = M[k].previous_hash
        /\ \A i \in 1..Len(M) : Content(R[i]) = Content(M[i])
        /\ \A i \in 1..Len(M) : i >= k => R[i].hash = Digest(R[i])
        /\ \A i \in 1..Len(M) : i > k => R[i].previous_hash = R[i - 1].hash
    BY <1>2, <2>1, RechainLinks, Zenon
  <2>3. Len(M) = 3
    BY <1>2
  <2> HIDE DEF R
  <2> QED
    BY <2>2, <2>3
<1>5. \A i \in 1..3 : R[i] \in DOs
  BY <1>3, ElementOfSeq
<1> HIDE DEF R
<1>6. \A i \in 1..3 : i < k => R[i] = ledger[i]
  BY <1>2, <1>4
<1>7. ASSUME NEW i \in 1..3 PROVE R[i].hash = Digest(R[i])
  <2>1. CASE i < k
    <3>1. Genuine(ledger[i])
      BY DEF ProducedInv
    <3> QED
      BY <2>1, <3>1, <1>6 DEF Genuine
  <2> QED
    BY <2>1, <1>4
<1> QED
  BY <1>2, <1>3, <1>4, <1>5, <1>6, <1>7 DEF R, M

\* A chain whose records up to i pass, and whose record i does not.
LEMMA RecordNamed ==
    ASSUME NEW c, NEW i \in 1..Len(c), NEW v, v # "none", v = RecordBreach(c[i]),
           \A j \in 1..Len(c) : j <= i - 1 => RecordBreach(c[j]) = "none"
    PROVE  ScansTo(c, v)
BY DEF ScansTo, SoundUpTo

\* A chain whose records pass, and whose link at i is the first bad one.
LEMMA LinkNamed ==
    ASSUME NEW c, NEW i \in 2..Len(c), NEW v, v # "none",
           v = LinkBreach(c[i - 1], c[i]),
           \A j \in 1..Len(c) : RecordBreach(c[j]) = "none",
           c[1].previous_hash = Null,
           \A j \in 2..Len(c) : j <= i - 1 => LinkBreach(c[j - 1], c[j]) = "none"
    PROVE  ScansTo(c, v)
<1>1. SoundUpTo(c, Len(c)) /\ Rooted(c) /\ LinkedUpTo(c, i - 1)
  BY DEF SoundUpTo, Rooted, LinkedUpTo
<1> QED
  BY <1>1 DEF ScansTo

\* Every chain that buildTamperedChain makes shows the breach declared for it,
\* and nothing the scan would come to first.
LEMMA AttackNamed ==
    ASSUME IInv, ProducedInv, BuildTamperedChain
    PROVE  ScansTo(chain', expected')
<1>1. Len(ledger) = 3 /\ ledger \in Seq(DOs)
  BY DEF BuildTamperedChain, IInv, TypeOK
<1> DEFINE a == ledger[1]  b == ledger[2]  c == ledger[3]
<1>2. /\ a \in DOs /\ b \in DOs /\ c \in DOs
      /\ a.previous_hash = Null
      /\ b.previous_hash = a.hash /\ c.previous_hash = b.hash
      /\ a.hash # <<Forged>>
  <2>1. 1 \in 1..Len(ledger) /\ 2 \in 1..Len(ledger) /\ 3 \in 1..Len(ledger)
        /\ 2 - 1 = 1 /\ 3 - 1 = 2 /\ 2 # 1 /\ 3 # 1
    BY <1>1
  <2> QED
    BY <2>1, LedgerLinks
<1>3. /\ Genuine(a) /\ Genuine(b) /\ Genuine(c)
      /\ a.chain_seq = 0 /\ b.chain_seq = 1 /\ c.chain_seq = 2
      /\ a.timestamp <= b.timestamp /\ b.timestamp <= c.timestamp
  <2>1. 1 \in 1..Len(ledger) /\ 2 \in 1..Len(ledger) /\ 3 \in 1..Len(ledger)
        /\ 1 - 1 = 0 /\ 2 - 1 = 1 /\ 3 - 1 = 2 /\ 2 # 1 /\ 3 # 1
    BY <1>1
  <2> QED
    BY <2>1 DEF ProducedInv
<1>4. a.timestamp \in Int /\ b.timestamp \in Int /\ c.timestamp \in Int
  BY <1>2, <1>3, DOAssumption DEF DOs, Genuine
<1>5. ASSUME NEW k \in 1..3, NEW d \in DOs
      PROVE  LET R == RechainFrom([ledger EXCEPT ![k] = d], k)
             IN  /\ R \in Seq(DOs) /\ Len(R) = 3
                 /\ \A i \in 1..3 : R[i] \in DOs
                 /\ \A i \in 1..3 : i < k => R[i] = ledger[i]
                 /\ R[k].previous_hash = d.previous_hash
                 /\ Content(R[k]) = Content(d)
                 /\ \A i \in 1..3 : i # k => Content(R[i]) = Content(ledger[i])
                 /\ \A i \in 1..3 : R[i].hash = Digest(R[i])
                 /\ \A i \in 1..3 : i > k => R[i].previous_hash = R[i - 1].hash
  BY <1>1, Replaced
<1>6. 1 \in 1..3 /\ 2 \in 1..3 /\ 3 \in 1..3
  OBVIOUS
<1>7. <<Forged>> \in Hashes /\ <<Forged>> # Null
  BY DEF Hashes, Null
<1>8. /\ RecordBreach(a) = "none" /\ RecordBreach(b) = "none" /\ RecordBreach(c) = "none"
  BY <1>3, GenuinePasses
<1>9. CASE AlterDecision
  <2>1. PICK d \in Decisions :
              /\ d # b.decision
              /\ Tamper([ledger EXCEPT ![2].decision = d], "hash_mismatch")
    BY <1>9 DEF AlterDecision
  <2> DEFINE e == [b EXCEPT !.decision = d]
             T == [ledger EXCEPT ![2] = e]
  <2>2. chain' = T /\ expected' = "hash_mismatch"
    BY <2>1 DEF Tamper
  <2>3. /\ e \in DOs /\ e.hash = b.hash /\ e.previous_hash = b.previous_hash
        /\ e.preimage_version = b.preimage_version /\ e.shape = b.shape
        /\ e.decision = d
    BY <1>2 DEF DOs
  <2> HIDE DEF e
  <2>4. Len(T) = 3 /\ T[1] = a /\ T[2] = e
    BY <1>1, <1>6, <2>3, ExceptSeq
  <2>5. Content(e) # Content(b)
    BY <2>1, <2>3, SameFields
  <2>6. Digest(e) # Digest(b)
    BY <1>2, <2>3, <2>5, DigestInjective
  <2>7. RecordBreach(e) = "hash_mismatch"
    BY <1>3, <2>3, <2>6 DEF Genuine, RecordBreach, VerifyDO
  <2> HIDE DEF T
  <2>8. ScansTo(T, "hash_mismatch")
    <3>1. 2 \in 1..Len(T) /\ \A j \in 1..Len(T) : j <= 2 - 1 => j = 1
      BY <2>4
    <3>2. \A j \in 1..Len(T) : j <= 2 - 1 => RecordBreach(T[j]) = "none"
      BY <1>8, <2>4, <3>1
    <3> QED
      BY <2>4, <2>7, <3>1, <3>2, RecordNamed
  <2> QED
    BY <2>2, <2>8
<1>10. CASE RemoveMiddle
  <2> DEFINE relinked == [c EXCEPT !.previous_hash = a.hash]
             e == RecomputeHash(relinked)
             T == <<a, e>>
  <2>1. chain' = T /\ expected' = "chain_seq_gap"
    BY <1>10 DEF RemoveMiddle, Tamper
  <2>2. /\ relinked \in DOs /\ relinked.previous_hash = a.hash
        /\ Content(relinked) = Content(c)
    BY <1>2 DEF DOs, Content
  <2> HIDE DEF relinked
  <2>3. /\ e.hash = Digest(relinked) /\ e.previous_hash = a.hash
        /\ Content(e) = Content(c) /\ Digest(e) = Digest(relinked)
    BY <2>2 DEF RecomputeHash, DOs, Content, Digest
  <2> HIDE DEF e
  <2>4. RecordBreach(e) = "none"
    <3>1. e.preimage_version = PREIMAGE_VERSION /\ e.shape = "v15"
      BY <1>3, <2>3, SameFields DEF Genuine
    <3> QED
      BY <2>3, <3>1, PassesRecord
  <2>5. LinkBreach(a, e) = "chain_seq_gap"
    <3>1. e.chain_seq = 2
      BY <1>3, <2>3, SameFields
    <3>2. e.chain_seq # a.chain_seq + 1
      BY <1>3, <3>1
    <3> QED
      BY <2>3, <3>2 DEF LinkBreach
  <2>6. ScansTo(T, "chain_seq_gap")
    <3>1. Len(T) = 2 /\ T[1] = a /\ T[2] = e
      OBVIOUS
    <3> HIDE DEF T
    <3>2. 2 \in 2..Len(T) /\ 2 - 1 = 1 /\ \A j \in 1..Len(T) : j = 1 \/ j = 2
      BY <3>1
    <3>3. \A j \in 1..Len(T) : RecordBreach(T[j]) = "none"
      BY <1>8, <2>4, <3>1, <3>2
    <3>4. \A j \in 2..Len(T) : ~ (j <= 2 - 1)
      OBVIOUS
    <3> QED
      BY <1>2, <2>5, <3>1, <3>2, <3>3, <3>4, LinkNamed
  <2> QED
    BY <2>1, <2>6
<1>11. CASE DanglePointer
  <2> DEFINE d == [b EXCEPT !.previous_hash = <<Forged>>]
             R == RechainFrom([ledger EXCEPT ![2] = d], 2)
  <2>1. chain' = R /\ expected' = "previous_hash_dangling"
    BY <1>11 DEF DanglePointer, Tamper
  <2>2. d \in DOs /\ d.previous_hash = <<Forged>> /\ Content(d) = Content(b)
    BY <1>2, <1>7 DEF DOs, Content
  <2> HIDE DEF d
  <2>3. /\ Len(R) = 3 /\ R[1] = a /\ R[2].previous_hash = <<Forged>>
        /\ Content(R[2]) = Content(b) /\ Content(R[3]) = Content(c)
        /\ R[2].hash = Digest(R[2]) /\ R[3].hash = Digest(R[3])
    <3>1. /\ Len(R) = 3 /\ R[1] = a /\ R[2].previous_hash = d.previous_hash
          /\ Content(R[2]) = Content(d) /\ Content(R[3]) = Content(c)
          /\ R[2].hash = Digest(R[2]) /\ R[3].hash = Digest(R[3])
      <4>1. d \in DOs
        BY <2>2
      <4> QED
        BY <1>5, <1>6, <4>1
    <3> HIDE DEF R
    <3> QED
      BY <2>2, <3>1
  <2> HIDE DEF R
  <2>4. RecordBreach(R[2]) = "none" /\ RecordBreach(R[3]) = "none"
    BY <1>3, <2>3, SameFields, PassesRecord DEF Genuine
  <2>5. LinkBreach(R[1], R[2]) = "previous_hash_dangling"
    BY <1>2, <2>3 DEF LinkBreach
  <2>6. ScansTo(R, "previous_hash_dangling")
    <3>1. 2 \in 2..Len(R) /\ 2 - 1 = 1 /\ \A j \in 1..Len(R) : j = 1 \/ j = 2 \/ j = 3
      BY <2>3
    <3>2. \A j \in 1..Len(R) : RecordBreach(R[j]) = "none"
      BY <1>8, <2>3, <2>4, <3>1
    <3>3. \A j \in 2..Len(R) : ~ (j <= 2 - 1)
      OBVIOUS
    <3> QED
      BY <1>2, <2>3, <2>5, <3>1, <3>2, <3>3, LinkNamed
  <2> QED
    BY <2>1, <2>6
<1>12. CASE RollBackClock
  <2>1. PICK t \in Times :
              /\ EarlierThan(t, b.timestamp)
              /\ Tamper(RechainFrom([ledger EXCEPT ![3].timestamp = t], 3),
                        "time_regression")
    BY <1>12 DEF RollBackClock
  <2> DEFINE d == [c EXCEPT !.timestamp = t]
             R == RechainFrom([ledger EXCEPT ![3] = d], 3)
  <2>2. chain' = R /\ expected' = "time_regression"
    BY <2>1 DEF Tamper
  <2>3. /\ d \in DOs /\ d.previous_hash = c.previous_hash /\ d.timestamp = t
        /\ d.preimage_version = c.preimage_version /\ d.shape = c.shape
        /\ d.mode = c.mode /\ d.chain_seq = c.chain_seq
    BY <1>2 DEF DOs
  <2> HIDE DEF d
  <2>4. /\ Len(R) = 3 /\ R[1] = a /\ R[2] = b /\ R[3].previous_hash = d.previous_hash
        /\ Content(R[3]) = Content(d) /\ R[3].hash = Digest(R[3])
    BY <1>5, <1>6, <2>3
  <2> HIDE DEF R
  <2>5. /\ R[3].preimage_version = PREIMAGE_VERSION /\ R[3].shape = "v15"
        /\ R[3].mode = "hash" /\ R[3].chain_seq = 2 /\ R[3].timestamp = t
    BY <1>3, <2>3, <2>4, SameFields DEF Genuine
  <2>6. RecordBreach(R[3]) = "none"
    BY <2>4, <2>5, PassesRecord
  <2>7. LinkBreach(a, b) = "none"
    <3>1. b.chain_seq = a.chain_seq + 1 /\ b.mode = a.mode
          /\ ~ EarlierThan(b.timestamp, a.timestamp)
      BY <1>3, <1>4 DEF Genuine, EarlierThan
    <3> QED
      BY <1>2, <3>1 DEF LinkBreach
  <2>8. LinkBreach(R[2], R[3]) = "time_regression"
    <3>1. R[3].chain_seq = R[2].chain_seq + 1
          /\ EarlierThan(R[3].timestamp, R[2].timestamp)
      BY <1>3, <2>1, <2>4, <2>5
    <3>2. R[3].previous_hash = R[2].hash /\ R[3].mode = R[2].mode
      BY <1>2, <1>3, <2>3, <2>4, <2>5 DEF Genuine
    <3> QED
      BY <3>1, <3>2 DEF LinkBreach
  <2>9. ScansTo(R, "time_regression")
    <3>1. 3 \in 2..Len(R) /\ 3 - 1 = 2 /\ \A j \in 1..Len(R) : j = 1 \/ j = 2 \/ j = 3
      BY <2>4
    <3>2. \A j \in 1..Len(R) : RecordBreach(R[j]) = "none"
      BY <1>8, <2>4, <2>6, <3>1
    <3>3. \A j \in 2..Len(R) : j <= 3 - 1 => j = 2 /\ j - 1 = 1
      OBVIOUS
    <3>4. \A j \in 2..Len(R) : j <= 3 - 1 => LinkBreach(R[j - 1], R[j]) = "none"
      BY <2>4, <2>7, <3>3
    <3> QED
      BY <1>2, <2>4, <2>8, <3>1, <3>2, <3>4, LinkNamed
  <2> QED
    BY <2>2, <2>9
<1>13. CASE RebuildGenesis
  <2> DEFINE d == [a EXCEPT !.previous_hash = <<Forged>>]
             R == RechainFrom([ledger EXCEPT ![1] = d], 1)
  <2>1. chain' = R /\ expected' = "chain_genesis_mismatch"
    BY <1>13 DEF RebuildGenesis, Tamper
  <2>2. d \in DOs /\ d.previous_hash = <<Forged>> /\ Content(d) = Content(a)
    BY <1>2, <1>7 DEF DOs, Content
  <2> HIDE DEF d
  <2>3. /\ R \in Seq(DOs) /\ Len(R) = 3 /\ R[1].previous_hash = <<Forged>>
        /\ Content(R[1]) = Content(a)
        /\ Content(R[2]) = Content(b) /\ Content(R[3]) = Content(c)
        /\ R[1].hash = Digest(R[1]) /\ R[2].hash = Digest(R[2]) /\ R[3].hash = Digest(R[3])
    <3>1. /\ R \in Seq(DOs) /\ Len(R) = 3 /\ R[1].previous_hash = d.previous_hash
          /\ Content(R[1]) = Content(d)
          /\ Content(R[2]) = Content(b) /\ Content(R[3]) = Content(c)
          /\ R[1].hash = Digest(R[1]) /\ R[2].hash = Digest(R[2]) /\ R[3].hash = Digest(R[3])
      <4>1. d \in DOs
        BY <2>2
      <4> QED
        BY <1>5, <1>6, <4>1
    <3> HIDE DEF R
    <3> QED
      BY <2>2, <3>1
  <2> HIDE DEF R
  <2>4. /\ RecordBreach(R[1]) = "none" /\ RecordBreach(R[2]) = "none"
        /\ RecordBreach(R[3]) = "none"
    BY <1>3, <2>3, SameFields, PassesRecord DEF Genuine
  <2>5. SoundUpTo(R, Len(R))
    <3>1. \A j \in 1..Len(R) : j = 1 \/ j = 2 \/ j = 3
      BY <2>3
    <3> QED
      BY <2>4, <3>1 DEF SoundUpTo
  <2>6. ~ Rooted(R)
    BY <1>7, <2>3 DEF Rooted
  <2> QED
    BY <2>1, <2>5, <2>6 DEF ScansTo
<1>14. CASE DowngradeVersion
  <2>1. PICK v \in Versions \ {PREIMAGE_VERSION} :
              Tamper(RechainFrom([ledger EXCEPT ![2].preimage_version = v], 2),
                     "version_unsupported")
    BY <1>14 DEF DowngradeVersion
  <2> DEFINE d == [b EXCEPT !.preimage_version = v]
             R == RechainFrom([ledger EXCEPT ![2] = d], 2)
  <2>2. chain' = R /\ expected' = "version_unsupported"
    BY <2>1 DEF Tamper
  <2>3. d \in DOs /\ d.preimage_version = v /\ d.shape = b.shape
    BY <1>2 DEF DOs
  <2> HIDE DEF d
  <2>4. Len(R) = 3 /\ R[1] = a /\ Content(R[2]) = Content(d)
    BY <1>5, <1>6, <2>3
  <2> HIDE DEF R
  <2>5. R[2].preimage_version # PREIMAGE_VERSION /\ R[2].shape = "v15"
    BY <1>3, <2>1, <2>3, <2>4, SameFields DEF Genuine
  <2>6. RecordBreach(R[2]) = "version_unsupported"
    BY <2>5 DEF RecordBreach, VerifyDO
  <2>7. ScansTo(R, "version_unsupported")
    <3>1. 2 \in 1..Len(R) /\ \A j \in 1..Len(R) : j <= 2 - 1 => j = 1
      BY <2>4
    <3>2. \A j \in 1..Len(R) : j <= 2 - 1 => RecordBreach(R[j]) = "none"
      BY <1>8, <2>4, <3>1
    <3> QED
      BY <2>6, <3>1, <3>2, RecordNamed
  <2> QED
    BY <2>2, <2>7
<1>15. CASE MixModes
  <2> DEFINE d == [b EXCEPT !.mode = "signature"]
             R == RechainFrom([ledger EXCEPT ![2] = d], 2)
  <2>1. chain' = R /\ expected' = "mode_mixed_chain"
    BY <1>15 DEF MixModes, Tamper
  <2>2. /\ d \in DOs /\ d.previous_hash = b.previous_hash /\ d.mode = "signature"
        /\ d.preimage_version = b.preimage_version /\ d.shape = b.shape
        /\ d.chain_seq = b.chain_seq
    BY <1>2 DEF DOs, Modes
  <2> HIDE DEF d
  <2>3. /\ Len(R) = 3 /\ R[1] = a /\ R[2].previous_hash = d.previous_hash
        /\ Content(R[2]) = Content(d) /\ Content(R[3]) = Content(c)
        /\ R[2].hash = Digest(R[2]) /\ R[3].hash = Digest(R[3])
    BY <1>5, <1>6, <2>2
  <2> HIDE DEF R
  <2>4. /\ R[2].preimage_version = PREIMAGE_VERSION /\ R[2].shape = "v15"
        /\ R[2].mode = "signature" /\ R[2].chain_seq = 1
        /\ R[3].preimage_version = PREIMAGE_VERSION /\ R[3].shape = "v15"
    BY <1>3, <2>2, <2>3, SameFields DEF Genuine
  <2>5. RecordBreach(R[2]) = "none" /\ RecordBreach(R[3]) = "none"
    BY <2>3, <2>4, PassesRecord
  <2>6. LinkBreach(R[1], R[2]) = "mode_mixed_chain"
    <3>1. R[2].chain_seq = R[1].chain_seq + 1
      BY <1>3, <2>3, <2>4
    <3>2. R[2].previous_hash = R[1].hash /\ R[2].mode # R[1].mode
      BY <1>2, <1>3, <2>2, <2>3, <2>4 DEF Genuine
    <3> QED
      BY <3>1, <3>2 DEF LinkBreach
  <2>7. ScansTo(R, "mode_mixed_chain")
    <3>1. 2 \in 2..Len(R) /\ 2 - 1 = 1 /\ \A j \in 1..Len(R) : j = 1 \/ j = 2 \/ j = 3
      BY <2>3
    <3>2. \A j \in 1..Len(R) : RecordBreach(R[j]) = "none"
      BY <1>8, <2>3, <2>5, <3>1
    <3>3. \A j \in 2..Len(R) : ~ (j <= 2 - 1)
      OBVIOUS
    <3> QED
      BY <1>2, <2>3, <2>6, <3>1, <3>2, <3>3, LinkNamed
  <2> QED
    BY <2>1, <2>7
<1> QED
  BY <1>9, <1>10, <1>11, <1>12, <1>13, <1>14, <1>15 DEF BuildTamperedChain

\* The scan comes to one verdict only.
LEMMA ScanUnique ==
    ASSUME NEW c \in Seq(DOs), NEW v, NEW w, ScansTo(c, v), ScansTo(c, w)
    PROVE  v = w
<1>1. Len(c) \in Nat
  OBVIOUS
<1>2. ASSUME NEW x, NEW i \in 1..Len(c), x # "none", SoundUpTo(c, i - 1),
             x = RecordBreach(c[i]), NEW y, ScansTo(c, y)
      PROVE  y = x
  <2>1. ~ SoundUpTo(c, Len(c))
    BY <1>1, <1>2 DEF SoundUpTo
  <2>2. PICK j \in 1..Len(c) : SoundUpTo(c, j - 1) /\ y = RecordBreach(c[j]) /\ y # "none"
    BY <1>2, <2>1 DEF ScansTo
  <2>3. ~ (i < j) /\ ~ (j < i)
    BY <1>1, <1>2, <2>2 DEF SoundUpTo
  <2>4. i = j
    BY <1>1, <2>3
  <2> QED
    BY <1>2, <2>2, <2>4
<1>3. ASSUME NEW x, NEW i \in 2..Len(c), x # "none", SoundUpTo(c, Len(c)), Rooted(c),
             LinkedUpTo(c, i - 1), x = LinkBreach(c[i - 1], c[i]), NEW y, ScansTo(c, y)
      PROVE  y = x
  <2>1. ~ LinkedUpTo(c, Len(c))
    BY <1>1, <1>3 DEF LinkedUpTo
  <2>2. \A j \in 1..Len(c) : RecordBreach(c[j]) = "none"
    BY <1>1, <1>3 DEF SoundUpTo
  <2>3. PICK j \in 2..Len(c) : LinkedUpTo(c, j - 1) /\ y = LinkBreach(c[j - 1], c[j]) /\ y # "none"
    BY <1>3, <2>1, <2>2 DEF ScansTo
  <2>4. ~ (i < j) /\ ~ (j < i)
    BY <1>1, <1>3, <2>3 DEF LinkedUpTo
  <2>5. i = j
    BY <1>1, <2>4
  <2> QED
    BY <1>3, <2>3, <2>5
<1>4. CASE \E i \in 1..Len(c) : v # "none" /\ SoundUpTo(c, i - 1) /\ v = RecordBreach(c[i])
  BY <1>2, <1>4
<1>5. CASE \E i \in 1..Len(c) : w # "none" /\ SoundUpTo(c, i - 1) /\ w = RecordBreach(c[i])
  BY <1>2, <1>5
<1>6. CASE /\ v # "none" /\ SoundUpTo(c, Len(c)) /\ Rooted(c)
           /\ \E i \in 2..Len(c) : LinkedUpTo(c, i - 1) /\ v = LinkBreach(c[i - 1], c[i])
  BY <1>3, <1>6
<1>7. CASE /\ w # "none" /\ SoundUpTo(c, Len(c)) /\ Rooted(c)
           /\ \E i \in 2..Len(c) : LinkedUpTo(c, i - 1) /\ w = LinkBreach(c[i - 1], c[i])
  BY <1>3, <1>7
<1> QED
  BY <1>4, <1>5, <1>6, <1>7 DEF ScansTo

\* The step that ends the scan reports what the scan comes to.
LEMMA ScanReports ==
    ASSUME IInv, CheckRecord \/ CheckGenesis \/ CheckLink, phase' = "done"
    PROVE  ScansTo(chain, verdict')
<1>1. /\ chain \in Seq(DOs) /\ cursor \in Nat /\ Len(chain) \in Nat
  BY DEF IInv, TypeOK
<1>2. CASE CheckRecord
  <2>1. /\ phase = "records" /\ cursor >= 1 /\ cursor <= Len(chain)
        /\ RecordBreach(chain[cursor]) # "none"
        /\ verdict' = RecordBreach(chain[cursor])
        /\ RecordsSound(cursor - 1)
    BY <1>1, <1>2 DEF CheckRecord, Report, IInv, ScanInv
  <2>2. cursor \in 1..Len(chain)
    BY <1>1, <2>1
  <2> QED
    BY <2>1, <2>2 DEF RecordsSound, SoundUpTo, ScansTo
<1>3. CASE CheckGenesis
  <2>1. /\ phase = "genesis" /\ chain # << >> /\ chain[1].previous_hash # Null
        /\ verdict' = "chain_genesis_mismatch"
        /\ RecordsSound(Len(chain))
    BY <1>3 DEF CheckGenesis, Report, IInv, ScanInv
  <2> QED
    BY <2>1 DEF RecordsSound, SoundUpTo, Rooted, ScansTo
<1>4. CASE CheckLink
  <2>1. /\ phase = "links" /\ cursor >= 2 /\ Followed(cursor - 1)
        /\ RecordsSound(Len(chain))
    BY <1>4 DEF CheckLink, IInv, ScanInv
  <2>2. SoundUpTo(chain, Len(chain))
    BY <2>1 DEF RecordsSound, SoundUpTo
  <2>3. Rooted(chain)
    <3> SUFFICES ASSUME chain # << >> PROVE chain[1].previous_hash = Null
      BY DEF Rooted
    <3>1. 1 \in 1..Len(chain) /\ 1 <= cursor - 1
      BY <1>1, <2>1, EmptySeq
    <3>2. chain[1].previous_hash = History(chain, 1 - 1)
      BY <2>1, <3>1 DEF Followed, Anchored
    <3> QED
      BY <3>2, HistoryZero
  <2>4. LinkedUpTo(chain, cursor - 1)
    BY <2>1 DEF Followed, LinkedUpTo
  <2>5. CASE cursor > Len(chain)
    <3>1. verdict' = "none"
      BY <1>4, <2>5 DEF CheckLink, Report
    <3>2. LinkedUpTo(chain, Len(chain))
      BY <1>1, <2>4, <2>5 DEF LinkedUpTo
    <3> QED
      BY <2>2, <2>3, <3>1, <3>2 DEF ScansTo
  <2>6. CASE cursor <= Len(chain)
    <3>1. /\ verdict' = LinkBreach(chain[cursor - 1], chain[cursor])
          /\ LinkBreach(chain[cursor - 1], chain[cursor]) # "none"
      BY <1>1, <1>4, <2>1, <2>6 DEF CheckLink, Report
    <3>2. cursor \in 2..Len(chain)
      BY <1>1, <2>1, <2>6
    <3> QED
      BY <2>2, <2>3, <2>4, <3>1, <3>2 DEF ScansTo
  <2> QED
    BY <1>1, <2>5, <2>6
<1> QED
  BY <1>2, <1>3, <1>4

\* buildDO emits a genuine record with the sequence number it is given.
LEMMA BuildDOGenuine ==
    ASSUME NEW seq \in Int, NEW prev \in Hashes, NEW t \in Times, NEW x \in Decisions,
           t # NoTime
    PROVE  LET d == BuildDO(seq, prev, t, x)
           IN  Genuine(d) /\ d.chain_seq = seq /\ d.timestamp = t
BY DEF BuildDO, RecomputeHash, Genuine, Digest, Content

\* The producer appends genuine records, numbered from 0, with a clock that does
\* not run back.
LEMMA ProducedStep ==
    ASSUME IInv, ProducedInv, NEW t \in Times, NEW x \in Decisions, BuildRecord(t, x)
    PROVE  ProducedInv'
<1> DEFINE n == Len(ledger)
           d == BuildDO(n, LastHash(ledger), t, x)
<1>1. ledger \in Seq(DOs) /\ n \in Nat
  BY DEF IInv, TypeOK
<1>2. ledger' = Append(ledger, d) /\ t # NoTime /\ (n # 0 => t >= ledger[n].timestamp)
  BY <1>1, EmptySeq DEF BuildRecord
<1>3. LastHash(ledger) \in Hashes
  <2>1. CASE ledger = << >>
    BY <2>1 DEF LastHash, Null, Hashes
  <2>2. CASE ledger # << >>
    <3>1. n \in 1..n
      BY <1>1, <2>2, EmptySeq
    <3>2. ledger[n] \in DOs
      BY <1>1, <3>1, ElementOfSeq
    <3> QED
      BY <2>2, <3>2 DEF LastHash, DOs
  <2> QED
    BY <2>1, <2>2
<1>4. d \in DOs
  BY <1>1, <1>3, BuildDOType
<1>5. Genuine(d) /\ d.chain_seq = n /\ d.timestamp = t
  BY <1>1, <1>2, <1>3, BuildDOGenuine
<1> HIDE DEF d
<1>6. /\ Len(ledger') = n + 1
      /\ \A i \in 1..n : ledger'[i] = ledger[i]
      /\ ledger'[n + 1] = d
  BY <1>1, <1>2, <1>4, AppendProperties
<1> HIDE DEF n
<1>7. \A i \in 1..(n + 1) : i \in 1..n \/ i = n + 1
  BY <1>1
<1>8. ASSUME NEW i \in 1..(n + 1)
      PROVE  Genuine(ledger'[i]) /\ ledger'[i].chain_seq = i - 1
  <2>1. CASE i \in 1..n
    BY <1>6, <2>1 DEF ProducedInv, n
  <2>2. CASE i = n + 1
    BY <1>1, <1>5, <1>6, <2>2
  <2> QED
    BY <1>7, <2>1, <2>2
<1>9. ASSUME NEW i \in 1..(n + 1), i # 1
      PROVE  ledger'[i - 1].timestamp <= ledger'[i].timestamp
  <2>1. i - 1 \in 1..n
    BY <1>1, <1>9
  <2>2. CASE i \in 1..n
    BY <1>6, <1>9, <2>1, <2>2 DEF ProducedInv, n
  <2>3. CASE i = n + 1
    <3>1. n \in 1..n /\ i - 1 = n /\ n # 0
      BY <1>1, <2>1, <2>3
    <3>2. ledger[n] \in DOs
      BY <1>1, <3>1, ElementOfSeq DEF n
    <3>3. ledger[n].timestamp \in Int /\ t \in Int
      BY <1>2, <3>1, <3>2, DOAssumption DEF DOs, ProducedInv, Genuine, n
    <3>4. ledger[n].timestamp <= t
      BY <1>2, <3>1, <3>3
    <3> QED
      BY <1>5, <1>6, <2>3, <3>1, <3>4
  <2> QED
    BY <1>7, <2>2, <2>3
<1> QED
  BY <1>6, <1>8, <1>9 DEF ProducedInv

LEMMA DeclaredInit == Init => DeclaredInv
BY DEF Init, DeclaredInv, ProducedInv, VectorsNamed

\* A step that leaves the ledger, the copy and what it declares as they are, and
\* does not end the scan.
LEMMA DeclaredKept ==
    ASSUME DeclaredInv, UNCHANGED <<ledger, chain, expected, verdict>>,
           phase = phase' \/ (phase # "produce" /\ phase' \notin {"produce", "done"})
    PROVE  DeclaredInv'
BY DEF DeclaredInv, ProducedInv, VectorsNamed, ScansTo, SoundUpTo, LinkedUpTo, Rooted

LEMMA DeclaredStep == IInv /\ DeclaredInv /\ [Next]_vars => DeclaredInv'
<1> SUFFICES ASSUME IInv, DeclaredInv, [Next]_vars
             PROVE  DeclaredInv'
  OBVIOUS
<1>0. TypeOK /\ ProducedInv /\ chain \in Seq(DOs)
  BY DEF IInv, TypeOK, DeclaredInv
<1>1. ASSUME NEW t \in Times, NEW d \in Decisions, BuildRecord(t, d)
      PROVE  DeclaredInv'
  <2>1. /\ UNCHANGED <<chain, expected, phase, verdict>> /\ phase = "produce"
        /\ expected = "none"
    BY <1>1 DEF BuildRecord, DeclaredInv
  <2>2. ProducedInv'
    BY <1>0, <1>1, ProducedStep
  <2> QED
    BY <2>1, <2>2 DEF DeclaredInv, VectorsNamed
<1>2. CASE Publish
  <2>1. /\ UNCHANGED <<ledger, expected>> /\ phase' = "custody"
        /\ chain' = ledger /\ expected = "none"
    BY <1>2 DEF Publish, DeclaredInv
  <2>2. ScansTo(chain', expected')
    <3>1. ScansTo(ledger, "none")
      BY <1>0, LedgerAccepted
    <3> QED
      BY <2>1, <3>1
  <2>3. ProducedInv'
    BY <1>0, <2>1 DEF ProducedInv
  <2> QED
    BY <2>1, <2>2, <2>3 DEF DeclaredInv, VectorsNamed
<1>3. CASE BuildTamperedChain
  <2>1. UNCHANGED <<ledger, phase>> /\ phase = "custody"
    BY <1>0, <1>3, TamperedType
  <2>2. ScansTo(chain', expected')
    BY <1>0, <1>3, AttackNamed
  <2>3. ProducedInv'
    BY <1>0, <2>1 DEF ProducedInv
  <2> QED
    BY <2>1, <2>2, <2>3 DEF DeclaredInv, VectorsNamed
<1>4. CASE Custody
  <2>1. UNCHANGED <<ledger, phase>> /\ phase = "custody" /\ expected' = "unknown"
    BY <1>4 DEF Custody, Overwrite, Drop, Swap, Rehash, Rechain, Edit
  <2>2. ProducedInv'
    BY <1>0, <2>1 DEF ProducedInv
  <2> QED
    BY <2>1, <2>2 DEF DeclaredInv, VectorsNamed
<1>5. CASE Submit
  BY <1>5, DeclaredKept DEF Submit
<1>6. CASE CheckRecord \/ CheckGenesis \/ CheckLink
  <2>1. /\ UNCHANGED <<ledger, chain, expected>>
        /\ phase \in {"records", "genesis", "links"}
        /\ phase' \in {"records", "genesis", "links", "done"}
        /\ phase' # "done" => verdict' = verdict
    BY <1>6 DEF CheckRecord, CheckGenesis, CheckLink, Report
  <2>2. CASE phase' # "done"
    BY <2>1, <2>2, DeclaredKept
  <2>3. CASE phase' = "done"
    <3>1. ScansTo(chain, verdict')
      BY <1>6, <2>3, ScanReports
    <3>2. expected # "unknown" => ScansTo(chain, expected)
      BY <2>1 DEF DeclaredInv
    <3>3. expected # "unknown" => verdict' = expected
      BY <1>0, <3>1, <3>2, ScanUnique
    <3>4. ProducedInv'
      BY <1>0, <2>1 DEF ProducedInv
    <3>5. expected' # "unknown" => ScansTo(chain', expected')
      BY <2>1, <3>2
    <3>6. VectorsNamed'
      BY <2>1, <3>3 DEF VectorsNamed
    <3> QED
      BY <2>3, <3>4, <3>5, <3>6 DEF DeclaredInv
  <2> QED
    BY <2>2, <2>3
<1>7. CASE UNCHANGED vars
  BY <1>7, DeclaredKept DEF vars
<1> QED
  BY <1>1, <1>2, <1>3, <1>4, <1>5, <1>6, <1>7
     DEF Next, Produce, DetectChainBreach

\* The vectors C01..C08: whatever ledger of any length the producer built, its
\* untouched copy is accepted, and every chain that buildTamperedChain makes of
\* one of three records is reported with the breach code declared for it, as no
\* breach that detectChainBreach looks for first is caused on the way.
THEOREM Named == Spec => []VectorsNamed
<1>1. DeclaredInv => VectorsNamed
  BY DEF DeclaredInv
<1> QED
  BY <1>1, DeclaredInit, DeclaredStep, Inductive, PTL DEF Spec
=============================================================================
