------------------------- MODULE VectorSuiteProofs -------------------------
(***************************************************************************)
(* Proofs about VectorSuite, for vector sets of any size and number: the   *)
(* types, that the verifier passes exactly the pairs of vectors and        *)
(* answers that are sound (SuiteVerdict), and what follows from it.        *)
(***************************************************************************)
EXTENDS VectorSuite, SequenceTheorems, TLAPS

LEMMA SuiteType ==
    ASSUME NEW s \in Suites
    PROVE  /\ Len(s) \in Nat /\ DOMAIN s = 1..Len(s)
           /\ \A i \in 1..Len(s) :
                 s[i] \in Vectors /\ s[i].id \in Ids /\ Keys(s[i]) \subseteq Ids \X Nat
           /\ AllKeys(s) \subseteq Ids \X Nat
           /\ DOMAIN Answers(s) \subseteq Ids \X Nat
<1>1. s \in Seq(Vectors)
  BY SuiteAssumption
<1>2. Len(s) \in Nat /\ DOMAIN s = 1..Len(s)
  BY <1>1, LenProperties
<1>3. ASSUME NEW i \in 1..Len(s)
      PROVE  s[i] \in Vectors /\ s[i].id \in Ids /\ Keys(s[i]) \subseteq Ids \X Nat
  <2>1. s[i] \in Vectors
    BY <1>1, ElementOfSeq
  <2>2. s[i].id \in Ids /\ s[i].dos \in Seq(DOs)
    BY <2>1 DEF Vectors
  <2>3. DOMAIN s[i].dos = 1..Len(s[i].dos) /\ Len(s[i].dos) \in Nat
    BY <2>2, LenProperties
  <2> QED
    BY <2>1, <2>2, <2>3 DEF Keys
<1>4. AllKeys(s) \subseteq Ids \X Nat
  BY <1>2, <1>3 DEF AllKeys
<1> QED
  BY <1>2, <1>3, <1>4 DEF Answers

\* The vectors that were read, before and after.
LEMMA DataType ==
    ASSUME data \in Suites \cup {<< >>, Torn}, data # Torn
    PROVE  /\ Len(data) \in Nat /\ DOMAIN data = 1..Len(data)
           /\ \A i \in 1..Len(data) :
                 /\ data[i] \in Vectors /\ data[i].id \in Ids
                 /\ Keys(data[i]) \subseteq Ids \X Nat
<1>1. CASE data \in Suites
  BY <1>1, SuiteType
<1>2. CASE data = << >>
  BY <1>2
<1> QED
  BY <1>1, <1>2

LEMMA OracleType ==
    ASSUME NEW a \in Oracles
    PROVE  a # Absent /\ a # Torn /\ DOMAIN a \subseteq Ids \X Nat
              /\ a = [k \in DOMAIN a |-> a[k]]
<1>1. PICK s \in Suites : a = Answers(s)
  BY DEF Oracles
<1>2. a = [k \in DOMAIN a |-> a[k]]
  BY <1>1 DEF Answers
<1> QED
  BY <1>1, <1>2, SuiteType, FileAssumption

(***************************************************************************)
(* The breaches of a record.  The first in the order of the tests is the   *)
(* most severe.                                                            *)
(***************************************************************************)
LEMMA CodesDiffer ==
    /\ \A p, q \in 1..6 : Codes[p] = Codes[q] => p = q
    /\ Verdict!Codes = Codes /\ Verdict!Breaches = Breaches
    /\ \A code, d : Verdict!Holds(code, d) <=> Holds(code, d)
<1>1. \A p, q \in 1..6 : Codes[p] = Codes[q] => p = q
  BY DEF Codes
<1>2. Verdict!Codes = Codes
  BY DEF Codes, Verdict!Codes
<1>3. Verdict!Breaches = Breaches
  BY <1>2 DEF Breaches, Verdict!Breaches
<1>4. \A code, d : Verdict!Holds(code, d) <=> Holds(code, d)
  BY DEF Holds, Verdict!Holds
<1> QED
  BY <1>1, <1>2, <1>3, <1>4

LEMMA SeverityOf == ASSUME NEW p \in 1..6 PROVE Verdict!Severity(Codes[p]) = p
<1>1. \A q \in 1..6 : Codes[q] = Codes[p] <=> q = p
  BY CodesDiffer
<1>2. (CHOOSE q \in 1..6 : Codes[q] = Codes[p]) = p
  BY <1>1
<1> QED
  BY <1>2, CodesDiffer DEF Verdict!Severity

LEMMA FirstFound ==
    ASSUME NEW d, CollectDOBreaches(d) # {}
    PROVE  \E p \in 1..6 : /\ DetectDOBreach(d) = Codes[p] /\ Holds(Codes[p], d)
                           /\ \A q \in 1..(p - 1) : ~ Holds(Codes[q], d)
<1> DEFINE H(p) == Holds(Codes[p], d)
<1>1. \E p \in 1..6 : H(p)
  BY DEF CollectDOBreaches, Breaches
<1>2. DetectDOBreach(d) =
          Codes[CHOOSE p \in 1..6 : H(p) /\ \A q \in 1..(p - 1) : ~ H(q)]
  BY DEF DetectDOBreach
<1> HIDE DEF H
<1>3. \E p \in 1..6 : H(p) /\ \A q \in 1..(p - 1) : ~ H(q)
  <2>1. H(1) \/ H(2) \/ H(3) \/ H(4) \/ H(5) \/ H(6)
    BY <1>1
  <2> QED
    BY <2>1
<1>4. PICK p \in 1..6 : /\ H(p) /\ \A q \in 1..(p - 1) : ~ H(q)
                       /\ p = CHOOSE r \in 1..6 : H(r) /\ \A q \in 1..(r - 1) : ~ H(q)
  BY <1>3
<1> QED
  BY <1>2, <1>4 DEF H

\* A breach vector passes exactly when it names the most severe breach and
\* declares all the others.
LEMMA BreachSound ==
    ASSUME NEW v \in Vectors
    PROVE  v.dos[1].passed /\ ReportsBreach(v) <=> Verdict!SoundBreach(v)
<1> DEFINE d == v.dos[1].record
           hits == CollectDOBreaches(d)
           also == v.also_present
           b == v.breach
<1>1. also \subseteq Breaches
  BY DEF Vectors
<1>2. \A code : code \in hits <=> code \in Breaches /\ Holds(code, d)
  BY DEF CollectDOBreaches
<1>3. \A code \in Breaches : \E p \in 1..6 : code = Codes[p] /\ Verdict!Severity(code) = p
  BY SeverityOf DEF Breaches
<1>4. ReportsBreach(v) <=> hits # {} /\ DetectDOBreach(d) = b /\ also = hits \ {b}
  BY DEF ReportsBreach
<1>5. Verdict!SoundBreach(v) <=>
          /\ v.dos[1].passed /\ hits = {b} \cup also
          /\ \A code \in also : Verdict!Severity(b) < Verdict!Severity(code)
  BY CodesDiffer DEF Verdict!SoundBreach, CollectDOBreaches
<1>6. hits # {} => \E p \in 1..6 : /\ DetectDOBreach(d) = Codes[p] /\ Codes[p] \in hits
                                   /\ Verdict!Severity(Codes[p]) = p
                                   /\ \A q \in 1..(p - 1) : Codes[q] \notin hits
  BY <1>2, FirstFound, SeverityOf DEF Breaches
<1> HIDE DEF hits, also, b, d
<1>7. ASSUME hits # {}, DetectDOBreach(d) = b, also = hits \ {b}
      PROVE  /\ hits = {b} \cup also
             /\ \A code \in also : Verdict!Severity(b) < Verdict!Severity(code)
  <2>1. PICK p \in 1..6 : /\ b = Codes[p] /\ b \in hits /\ Verdict!Severity(b) = p
                         /\ \A q \in 1..(p - 1) : Codes[q] \notin hits
    BY <1>6, <1>7
  <2>2. ASSUME NEW code \in also PROVE p < Verdict!Severity(code)
    <3>1. PICK q \in 1..6 : code = Codes[q] /\ Verdict!Severity(code) = q
      BY <1>1, <1>3
    <3>2. Codes[q] \in hits /\ Codes[q] # Codes[p]
      BY <1>7, <2>1, <3>1
    <3>3. q \notin 1..(p - 1) /\ q # p
      BY <2>1, <3>2
    <3> QED
      BY <3>1, <3>3
  <2> QED
    BY <1>7, <2>1, <2>2
<1>8. ASSUME hits = {b} \cup also,
             \A code \in also : Verdict!Severity(b) < Verdict!Severity(code)
      PROVE  hits # {} /\ DetectDOBreach(d) = b /\ also = hits \ {b}
  <2>1. PICK p \in 1..6 : /\ DetectDOBreach(d) = Codes[p] /\ Codes[p] \in hits
                         /\ Verdict!Severity(Codes[p]) = p
                         /\ \A q \in 1..(p - 1) : Codes[q] \notin hits
    BY <1>6, <1>8
  <2>2. PICK r \in 1..6 : b = Codes[r] /\ Verdict!Severity(b) = r
    BY <1>2, <1>3, <1>8
  <2>3. Codes[r] \in hits
    BY <1>8, <2>2
  <2>4. r \notin 1..(p - 1)
    BY <2>1, <2>3
  <2>5. Codes[p] \in also => r < p
    BY <1>8, <2>1, <2>2
  <2>6. Codes[p] = b
    BY <1>8, <2>1, <2>4, <2>5
  <2>7. b \notin also
    BY <1>8, <2>2
  <2> QED
    BY <1>8, <2>1, <2>6, <2>7
<1> QED
  BY <1>4, <1>5, <1>7, <1>8 DEF d

\* The vector loop and the abstract verdict agree on every vector.
LEMMA PassesSound ==
    ASSUME NEW v \in Vectors
    PROVE  Passes(v) <=> Verdict!SoundVector(v)
<1>1. v.kind \in {"match", "canary", "breach", "pair", "chain"}
  BY DEF Vectors
<1> QED
  BY <1>1, BreachSound DEF Passes, Verdict!SoundVector

LEMMA InvInit == Init => IInv
<1> SUFFICES ASSUME Init PROVE IInv
  OBVIOUS
<1> USE DEF Init
<1>1. \A s \in Suites : Answers(s) \in Oracles
  BY DEF Oracles
<1>2. Torn # << >> /\ Absent # Torn
  BY FileAssumption
<1>3. TypeOK
  BY <1>1, <1>2, SuiteAssumption DEF TypeOK
<1>4. ScanInv
  BY DEF ScanInv
<1>5. PassedInv
  BY DEF PassedInv
<1> QED
  BY <1>3, <1>4, <1>5 DEF IInv

\* What the verifier has read and counted, which other programs leave alone.
LEMMA SameVerifier ==
    ASSUME UNCHANGED verifierVars, ScanInv, PassedInv
    PROVE  ScanInv' /\ PassedInv'
<1>1. UNCHANGED <<ver, data, answersData, cursor, failures, errors, readKeys>>
  BY DEF verifierVars
<1>2. ScanInv'
  BY <1>1 DEF ScanInv, Scanned, Crossed, Finished, Asked, Answered, Unsupported, Parsed
<1>3. PassedInv'
  BY <1>1 DEF PassedInv, Verdict!Sound
<1> QED
  BY <1>2, <1>3

LEMMA GenerateStep == ASSUME IInv, EditSource \/ Generate PROVE IInv'
<1>1. UNCHANGED verifierVars /\ UNCHANGED <<conf, report>>
  BY DEF EditSource, Generate, Build, WriteVectors, OpenAnswers, WriteAnswers, Crash
<1>2. TypeOK /\ ScanInv /\ PassedInv
  BY DEF IInv
<1>3. /\ source' \in Suites /\ edits' \in 0..MaxEdits
      /\ vectors' \in Suites \cup {Torn} /\ answers' \in Oracles \cup {Absent, Torn}
      /\ built' \in Suites
      /\ gen' \in {"idle", "writing vectors", "wrote vectors", "writing answers"}
  <2>1. Answers(built) \in Oracles
    BY <1>2 DEF TypeOK, Oracles
  <2>2. CASE EditSource
    <3>1. /\ edits < MaxEdits /\ edits' = edits + 1 /\ source' \in Suites
          /\ UNCHANGED <<vectors, answers, built, gen>>
      BY <2>2 DEF EditSource, files, generatorVars
    <3>2. edits' \in 0..MaxEdits
      <4>1. MaxEdits \in Nat
        BY SuiteAssumption
      <4>2. edits \in 0..MaxEdits
        BY <1>2 DEF TypeOK
      <4> QED
        BY <3>1, <4>1, <4>2
    <3> QED
      BY <1>2, <3>1, <3>2 DEF TypeOK
  <2>3. CASE Build
    BY <1>2, <2>3 DEF TypeOK, Build
  <2>4. CASE WriteVectors
    BY <1>2, <2>4 DEF TypeOK, WriteVectors
  <2>5. CASE OpenAnswers
    BY <1>2, <2>5 DEF TypeOK, OpenAnswers
  <2>6. CASE WriteAnswers
    BY <1>2, <2>1, <2>6 DEF TypeOK, WriteAnswers
  <2>7. CASE Crash
    BY <1>2, <2>7 DEF TypeOK, Crash, files
  <2> QED
    BY <2>2, <2>3, <2>4, <2>5, <2>6, <2>7 DEF Generate
<1>4. TypeOK'
  BY <1>1, <1>2, <1>3 DEF TypeOK, verifierVars, Oracles, Answers
<1> QED
  BY <1>1, <1>2, <1>4, SameVerifier DEF IInv

(***************************************************************************)
(* The steps of the verifier leave what the others hold as it is.          *)
(***************************************************************************)
LEMMA VerifierType ==
    ASSUME TypeOK, UNCHANGED <<source, edits, files, report, generatorVars>>,
           conf' \in {"idle", "verifying", "writing"},
           ver' \in {"idle", "vectors", "check", "cross", "exit", "passed", "failed"},
           data' \in Suites \cup {<< >>, Torn},
           answersData' \in Oracles \cup {Absent, Torn},
           cursor' \in 1..(IF data' = Torn THEN 1 ELSE Len(data') + 1),
           readKeys' \subseteq (IF answersData' \in {Absent, Torn} THEN {}
                                ELSE DOMAIN answersData'),
           failures' \cup errors' \subseteq Ids \X Nat
    PROVE  TypeOK'
<1>1. Oracles' = Oracles
  BY DEF Oracles, Answers
<1> QED
  BY <1>1 DEF TypeOK, files, generatorVars

LEMMA StartStep ==
    ASSUME IInv, ReadAnswers, conf' \in {"idle", "verifying", "writing"}
    PROVE  IInv'
<1>1. TypeOK
  BY DEF IInv
<1>2. /\ ver' = "vectors" /\ answersData' = answers /\ cursor' = 1
      /\ failures' = {} /\ errors' = {} /\ readKeys' = {} /\ data' = data
      /\ UNCHANGED <<source, edits, files, report, generatorVars>>
  BY DEF ReadAnswers
<1>3. cursor' \in 1..(IF data' = Torn THEN 1 ELSE Len(data') + 1)
  <2>1. data # Torn => Len(data) \in Nat
    BY <1>1, DataType DEF TypeOK
  <2> QED
    BY <1>2, <2>1
<1>4. /\ data' \in Suites \cup {<< >>, Torn} /\ answersData' \in Oracles \cup {Absent, Torn}
      /\ failures' \cup errors' \subseteq Ids \X Nat
      /\ readKeys' \subseteq (IF answersData' \in {Absent, Torn} THEN {}
                              ELSE DOMAIN answersData')
  BY <1>1, <1>2 DEF TypeOK
<1>5. TypeOK'
  BY <1>1, <1>2, <1>3, <1>4, VerifierType
<1>6. ScanInv' /\ PassedInv'
  BY <1>2 DEF ScanInv, PassedInv
<1> QED
  BY <1>5, <1>6 DEF IInv

LEMMA ConformanceStep == ASSUME IInv, Conformance PROVE IInv'
<1>1. TypeOK /\ ScanInv /\ PassedInv
  BY DEF IInv
<1>2. CASE Conform
  <2>1. ReadAnswers /\ conf' \in {"idle", "verifying", "writing"}
    BY <1>2 DEF Conform
  <2> QED
    BY <2>1, StartStep
<1>3. CASE ReadVersion \/ WriteReport
  <2>1. /\ UNCHANGED <<source, edits, vectors, answers, gen, built>> /\ UNCHANGED verifierVars
        /\ conf' \in {"idle", "verifying", "writing"}
        /\ report' \in {"committed", "literal", "measured"}
    BY <1>1, <1>3 DEF ReadVersion, WriteReport, TypeOK, files, generatorVars
  <2>2. TypeOK'
    <3>1. UNCHANGED <<ver, data, answersData, cursor, failures, errors, readKeys>>
      BY <2>1 DEF verifierVars
    <3>2. Oracles' = Oracles
      BY DEF Oracles, Answers
    <3>3. /\ data' \in Suites \cup {<< >>, Torn} /\ answersData' \in Oracles \cup {Absent, Torn}
          /\ cursor' \in 1..(IF data' = Torn THEN 1 ELSE Len(data') + 1)
      BY <1>1, <3>1 DEF TypeOK
    <3>4. /\ readKeys' \subseteq (IF answersData' \in {Absent, Torn} THEN {}
                                ELSE DOMAIN answersData')
          /\ failures' \cup errors' \subseteq Ids \X Nat
      BY <1>1, <3>1 DEF TypeOK
    <3> QED
      BY <1>1, <2>1, <3>1, <3>2, <3>3, <3>4 DEF TypeOK
  <2> QED
    BY <1>1, <2>1, <2>2, SameVerifier DEF IInv
<1> QED
  BY <1>2, <1>3 DEF Conformance

LEMMA ReadStep == ASSUME IInv, ReadVectors \/ Unparsable PROVE IInv'
<1>1. TypeOK /\ ScanInv
  BY DEF IInv
<1>2. /\ UNCHANGED <<answersData, cursor, failures, errors, readKeys>>
      /\ UNCHANGED <<source, edits, files, report, generatorVars, conf>>
  BY DEF ReadVectors, Unparsable, Others
<1>3. conf' \in {"idle", "verifying", "writing"} /\ answersData' \in Oracles \cup {Absent, Torn}
      /\ readKeys' \subseteq (IF answersData' \in {Absent, Torn} THEN {}
                              ELSE DOMAIN answersData')
      /\ failures' \cup errors' \subseteq Ids \X Nat
  BY <1>1, <1>2 DEF TypeOK
<1>4. CASE ReadVectors
  <2>1. ver = "vectors" /\ answersData # Torn /\ ver' = "check" /\ data' = vectors
    BY <1>4 DEF ReadVectors
  <2>2. data' \in Suites \cup {<< >>, Torn} /\ (data' # Torn => Len(data') \in Nat)
    BY <1>1, <2>1, SuiteType DEF TypeOK
  <2>3. cursor' = 1
    BY <1>1, <1>2, <2>1 DEF ScanInv
  <2>4. cursor' \in 1..(IF data' = Torn THEN 1 ELSE Len(data') + 1)
    BY <2>2, <2>3
  <2>5. TypeOK'
    BY <1>1, <1>2, <1>3, <2>1, <2>2, <2>4, VerifierType
  <2>6. Scanned(cursor - 1)'
    <3>1. \A i \in 1..(cursor' - 1) : FALSE
      BY <2>3
    <3>2. failures' = {} /\ errors' = {}
      BY <1>1, <1>2, <2>1 DEF ScanInv
    <3> QED
      BY <3>1, <3>2 DEF Scanned
  <2>7. ScanInv' /\ PassedInv'
    BY <1>1, <1>2, <2>1, <2>6 DEF ScanInv, PassedInv
  <2> QED
    BY <2>5, <2>7 DEF IInv
<1>5. CASE Unparsable
  <2>1. ver' = "failed" /\ data' = data
    BY <1>5 DEF Unparsable
  <2>2. data' \in Suites \cup {<< >>, Torn}
        /\ cursor' \in 1..(IF data' = Torn THEN 1 ELSE Len(data') + 1)
    BY <1>1, <1>2, <2>1 DEF TypeOK
  <2>3. TypeOK'
    BY <1>1, <1>2, <1>3, <2>1, <2>2, VerifierType
  <2>4. ScanInv' /\ PassedInv'
    BY <2>1 DEF ScanInv, PassedInv
  <2> QED
    BY <2>3, <2>4 DEF IInv
<1> QED
  BY <1>4, <1>5

LEMMA VectorStep == ASSUME IInv, CheckVector PROVE IInv'
<1>1. TypeOK /\ ScanInv
  BY DEF IInv
<1> DEFINE v == data[cursor]
<1> DEFINE missed == IF Passes(v) THEN {} ELSE {<<v.id, 0>>}
<1>2. /\ ver = "check" /\ data # Torn /\ cursor <= Len(data) /\ cursor' = cursor + 1
      /\ failures' = failures \cup missed
      /\ errors' = errors \cup (IF Named(v) THEN missed ELSE {})
      /\ UNCHANGED <<ver, data, answersData, readKeys>>
      /\ UNCHANGED <<source, edits, files, report, generatorVars, conf>>
  BY DEF CheckVector, Others
<1>3. /\ Len(data) \in Nat /\ \A i \in 1..Len(data) : data[i].id \in Ids
      /\ cursor \in 1..(Len(data) + 1)
  BY <1>1, <1>2, DataType DEF TypeOK
<1>4. cursor \in 1..Len(data)
  BY <1>2, <1>3
<1>5. missed \subseteq Ids \X Nat
  BY <1>3, <1>4
<1>6. failures' \cup errors' \subseteq Ids \X Nat
  <2> HIDE DEF missed
  <2> QED
    BY <1>1, <1>2, <1>5 DEF TypeOK
<1> HIDE DEF missed, v
<1>7. cursor' \in 1..(IF data' = Torn THEN 1 ELSE Len(data') + 1)
  BY <1>2, <1>3
<1>8. /\ conf' \in {"idle", "verifying", "writing"} /\ answersData' \in Oracles \cup {Absent, Torn}
      /\ ver' \in {"idle", "vectors", "check", "cross", "exit", "passed", "failed"}
      /\ data' \in Suites \cup {<< >>, Torn}
      /\ readKeys' \subseteq (IF answersData' \in {Absent, Torn} THEN {}
                              ELSE DOMAIN answersData')
  BY <1>1, <1>2 DEF TypeOK
<1>9. TypeOK'
  BY <1>1, <1>2, <1>6, <1>7, <1>8, VerifierType
<1>10. missed = {} <=> Passes(v)
  BY DEF missed
<1>11. Scanned(cursor - 1)'
  <2>1. cursor' - 1 = cursor
    BY <1>2, <1>4
  <2>2. (failures = {} <=> \A i \in 1..(cursor - 1) : Passes(data[i])) /\ errors \subseteq failures
    BY <1>1, <1>2 DEF ScanInv, Scanned
  <2>3. \A i : i \in 1..cursor <=> i \in 1..(cursor - 1) \/ i = cursor
    BY <1>4
  <2>4. (\A i \in 1..cursor : Passes(data[i])) <=>
            (\A i \in 1..(cursor - 1) : Passes(data[i])) /\ Passes(v)
    BY <2>3 DEF v
  <2>5. failures' = {} <=> \A i \in 1..cursor : Passes(data[i])
    BY <1>2, <1>10, <2>2, <2>4
  <2>6. errors' \subseteq failures'
    BY <1>2, <2>2
  <2> QED
    BY <1>2, <2>1, <2>5, <2>6 DEF Scanned
<1>12. ScanInv' /\ PassedInv'
  BY <1>1, <1>2, <1>11 DEF ScanInv, PassedInv
<1> QED
  BY <1>9, <1>12 DEF IInv

LEMMA StepSixStep == ASSUME IInv, Step6 PROVE IInv'
<1>1. TypeOK /\ ScanInv
  BY DEF IInv
<1>2. /\ ver = "check" /\ data # Torn /\ cursor > Len(data)
      /\ answersData # Absent /\ ver' = "cross" /\ cursor' = 1
      /\ UNCHANGED <<data, answersData, failures, errors, readKeys>>
      /\ UNCHANGED <<source, edits, files, report, generatorVars, conf>>
  BY DEF Step6, Others
<1>3. Len(data) \in Nat
  BY <1>1, <1>2, DataType DEF TypeOK
<1>4. cursor' \in 1..(IF data' = Torn THEN 1 ELSE Len(data') + 1)
  BY <1>2, <1>3
<1>5. /\ conf' \in {"idle", "verifying", "writing"} /\ answersData' \in Oracles \cup {Absent, Torn}
      /\ data' \in Suites \cup {<< >>, Torn} /\ failures' \cup errors' \subseteq Ids \X Nat
      /\ readKeys' \subseteq (IF answersData' \in {Absent, Torn} THEN {}
                              ELSE DOMAIN answersData')
  BY <1>1, <1>2 DEF TypeOK
<1>6. TypeOK'
  BY <1>1, <1>2, <1>4, <1>5, VerifierType
<1>7. readKeys = {} /\ answersData # Torn
  BY <1>1, <1>2 DEF ScanInv
<1>8. cursor - 1 = Len(data)
  <2>1. cursor \in 1..(Len(data) + 1)
    BY <1>1, <1>2 DEF TypeOK
  <2> QED
    BY <1>2, <1>3, <2>1
<1>9. (failures = {} <=> \A i \in 1..Len(data) : Passes(data[i])) /\ errors \subseteq failures
  BY <1>1, <1>2, <1>8 DEF ScanInv, Scanned
<1>10. Crossed(cursor - 1)'
  <2>1. \A i \in 1..(cursor' - 1) : FALSE
    BY <1>2
  <2>2. Asked(cursor - 1)' = {}
    BY <2>1 DEF Asked
  <2>3. Answered(cursor - 1)'
    BY <2>2 DEF Answered
  <2> QED
    BY <1>2, <1>7, <1>9, <2>2, <2>3 DEF Crossed
<1>11. ScanInv' /\ PassedInv'
  BY <1>2, <1>7, <1>10 DEF ScanInv, PassedInv, Parsed
<1> QED
  BY <1>6, <1>11 DEF IInv

\* One more vector has its answers looked up.
LEMMA CrossStep == ASSUME IInv, CrossCheck PROVE IInv'
<1>1. TypeOK /\ ScanInv
  BY DEF IInv
<1> DEFINE own     == Keys(data[cursor])
           gated   == {k \in own : ~ DOOf(data, k).supported}
           asked   == own \ gated
           found   == asked \cap DOMAIN answersData
           drifted == {k \in found : answersData[k] # DOOf(data, k).bytes}
           missing == asked \ found
<1>2. /\ ver = "cross" /\ cursor <= Len(data) /\ cursor' = cursor + 1
      /\ readKeys' = readKeys \cup found
      /\ failures' = failures \cup drifted \cup missing
      /\ errors' = errors \cup drifted \cup missing \cup (gated \cap DOMAIN answersData)
      /\ UNCHANGED <<ver, data, answersData>>
      /\ UNCHANGED <<source, edits, files, report, generatorVars, conf>>
  BY DEF CrossCheck, Others, AddReadKeys
<1>3. data # Torn /\ answersData # Torn /\ answersData # Absent /\ Crossed(cursor - 1)
  BY <1>1, <1>2 DEF ScanInv, Parsed
<1>4. /\ Len(data) \in Nat /\ cursor \in 1..Len(data)
      /\ \A i \in 1..Len(data) : Keys(data[i]) \subseteq Ids \X Nat
  <2>1. /\ Len(data) \in Nat
        /\ \A i \in 1..Len(data) : Keys(data[i]) \subseteq Ids \X Nat
    BY <1>1, <1>3, DataType DEF TypeOK
  <2>2. cursor \in 1..(Len(data) + 1)
    BY <1>1, <1>3 DEF TypeOK
  <2>3. cursor <= Len(data)
    BY <1>2
  <2>4. cursor \in 1..Len(data)
    BY <2>1, <2>2, <2>3
  <2> QED
    BY <2>1, <2>4
<1>5. own \subseteq Ids \X Nat
  BY <1>4
<1>6. failures' \cup errors' \subseteq Ids \X Nat
  <2>1. /\ gated \subseteq own /\ asked \subseteq own /\ found \subseteq asked
        /\ drifted \subseteq found /\ missing \subseteq asked
    OBVIOUS
  <2> HIDE DEF own, gated, asked, found, drifted, missing
  <2> QED
    BY <1>1, <1>2, <1>5, <2>1 DEF TypeOK
<1>7. /\ answersData' \in Oracles \cup {Absent, Torn}
      /\ conf' \in {"idle", "verifying", "writing"} /\ data' \in Suites \cup {<< >>, Torn}
      /\ cursor' \in 1..(IF data' = Torn THEN 1 ELSE Len(data') + 1)
      /\ ver' = "cross"
  <2> HIDE DEF own, gated, asked, found, drifted, missing
  <2>1. cursor' \in 1..(Len(data) + 1)
    BY <1>2, <1>4
  <2>2. data' # Torn /\ Len(data') = Len(data)
    BY <1>2, <1>3
  <2>3. answersData' \in Oracles \cup {Absent, Torn} /\ data' \in Suites \cup {<< >>, Torn}
    BY <1>1, <1>2 DEF TypeOK
  <2>4. conf' \in {"idle", "verifying", "writing"} /\ ver' = "cross"
    BY <1>1, <1>2 DEF TypeOK
  <2> QED
    BY <2>1, <2>2, <2>3, <2>4
<1>8. readKeys' \subseteq (IF answersData' \in {Absent, Torn} THEN {}
                           ELSE DOMAIN answersData')
  <2>1. found \subseteq DOMAIN answersData
    OBVIOUS
  <2> HIDE DEF own, gated, asked, found, drifted, missing
  <2> QED
    BY <1>1, <1>2, <1>3, <2>1 DEF TypeOK
<1>9. TypeOK'
  <2> HIDE DEF own, gated, asked, found, drifted, missing
  <2> QED
    BY <1>1, <1>2, <1>6, <1>7, <1>8, VerifierType
<1>10. Asked(cursor) = Asked(cursor - 1) \cup asked
  <2>1. \A i : i \in 1..cursor <=> i \in 1..(cursor - 1) \/ i = cursor
    BY <1>4
  <2>2. asked = {k \in Keys(data[cursor]) : DOOf(data, k).supported}
    OBVIOUS
  <2> HIDE DEF asked
  <2> QED
    BY <2>1, <2>2 DEF Asked
<1>11. /\ found = asked \cap DOMAIN answersData
       /\ drifted \cup missing = {} <=>
             \A k \in asked : k \in DOMAIN answersData /\ answersData[k] = DOOf(data, k).bytes
  <2> HIDE DEF asked
  <2> QED
    OBVIOUS
<1>12. gated \cap DOMAIN answersData \subseteq Unsupported
  <2>1. own \subseteq AllKeys(data)
    <3>1. DOMAIN data = 1..Len(data)
      BY <1>1, <1>3, DataType DEF TypeOK
    <3> QED
      BY <1>4, <3>1 DEF AllKeys
  <2> HIDE DEF own
  <2> QED
    BY <2>1 DEF Unsupported
<1> HIDE DEF own, gated, asked, found, drifted, missing
<1>13. Answered(cursor) <=> Answered(cursor - 1) /\ drifted \cup missing = {}
  BY <1>10, <1>11 DEF Answered
<1>14. Crossed(cursor - 1)'
  <2>1. cursor' - 1 = cursor
    BY <1>2, <1>4
  <2>2. Asked(cursor - 1)' = Asked(cursor) /\ (Answered(cursor - 1)' <=> Answered(cursor))
    BY <1>2, <2>1 DEF Asked, Answered
  <2>3. Unsupported' = Unsupported
    BY <1>2 DEF Unsupported
  <2>4. /\ readKeys = Asked(cursor - 1) \cap DOMAIN answersData
        /\ failures = {} <=> (\A i \in 1..Len(data) : Passes(data[i])) /\ Answered(cursor - 1)
        /\ errors \subseteq failures \cup Unsupported
    BY <1>3 DEF Crossed
  <2>5. readKeys' = Asked(cursor) \cap DOMAIN answersData
    BY <1>2, <1>10, <1>11, <2>4
  <2>6. failures' = {} <=> failures = {} /\ drifted \cup missing = {}
    BY <1>2
  <2>7. failures' = {} <=> (\A i \in 1..Len(data) : Passes(data[i])) /\ Answered(cursor)
    BY <1>13, <2>4, <2>6
  <2>8. errors' \subseteq failures' \cup Unsupported
    BY <1>2, <1>12, <2>4
  <2> QED
    BY <1>2, <2>2, <2>3, <2>5, <2>7, <2>8 DEF Crossed
<1>15. ScanInv' /\ PassedInv'
  BY <1>2, <1>3, <1>14 DEF ScanInv, PassedInv, Parsed
<1> QED
  BY <1>9, <1>15 DEF IInv

LEMMA DeadStep == ASSUME IInv, CheckDeadKeys PROVE IInv'
<1>1. TypeOK /\ ScanInv
  BY DEF IInv
<1>2. /\ ver = "cross" /\ cursor = Len(data) + 1 /\ ver' = "exit"
      /\ failures' = failures \cup DeadKeys /\ errors' = errors \cup DeadKeys
      /\ UNCHANGED <<data, answersData, cursor, readKeys>>
      /\ UNCHANGED <<source, edits, files, report, generatorVars, conf>>
  BY DEF CheckDeadKeys, Others
<1>3. data # Torn /\ answersData # Torn /\ answersData # Absent /\ Crossed(cursor - 1)
  BY <1>1, <1>2 DEF ScanInv, Parsed
<1>4. answersData \in Oracles /\ Len(data) \in Nat
  BY <1>1, <1>3, DataType DEF TypeOK
<1>5. DeadKeys \subseteq Ids \X Nat
  BY <1>4, OracleType DEF DeadKeys
<1>6. /\ failures' \cup errors' \subseteq Ids \X Nat
      /\ answersData' \in Oracles \cup {Absent, Torn}
      /\ conf' \in {"idle", "verifying", "writing"} /\ data' \in Suites \cup {<< >>, Torn}
      /\ cursor' \in 1..(IF data' = Torn THEN 1 ELSE Len(data') + 1)
      /\ readKeys' \subseteq (IF answersData' \in {Absent, Torn} THEN {}
                              ELSE DOMAIN answersData')
  BY <1>1, <1>2, <1>5 DEF TypeOK
<1>7. TypeOK'
  BY <1>1, <1>2, <1>6, VerifierType
<1>8. cursor - 1 = Len(data)
  BY <1>2, <1>4
<1>9. /\ readKeys = Asked(Len(data)) \cap DOMAIN answersData
      /\ failures = {} <=> (\A i \in 1..Len(data) : Passes(data[i])) /\ Answered(Len(data))
      /\ errors \subseteq failures \cup Unsupported
  BY <1>3, <1>8 DEF Crossed
<1>10. DeadKeys = {} <=> DOMAIN answersData \subseteq Asked(Len(data))
  BY <1>9 DEF DeadKeys
<1>11. failures' = {} <=> failures = {} /\ DeadKeys = {}
  BY <1>2
<1>12. errors' \subseteq failures' \cup Unsupported
  BY <1>2, <1>9
<1>13. Finished'
  <2>1. /\ Asked(Len(data))' = Asked(Len(data)) /\ Unsupported' = Unsupported
        /\ Answered(Len(data))' <=> Answered(Len(data))
    BY <1>2 DEF Asked, Answered, Unsupported
  <2> QED
    BY <1>2, <1>9, <1>10, <1>11, <1>12, <2>1 DEF Finished
<1>14. ScanInv' /\ PassedInv'
  BY <1>2, <1>3, <1>13 DEF ScanInv, PassedInv, Parsed
<1> QED
  BY <1>7, <1>14 DEF IInv

\* The answers are those of the vectors exactly when each record that is
\* supported has its own, and no other key is there.
LEMMA OracleIs ==
    ASSUME TypeOK, Parsed, answersData # Absent
    PROVE  answersData = Verdict!OracleOf(data) <=>
               Answered(Len(data)) /\ DOMAIN answersData \subseteq Asked(Len(data))
<1>1. answersData \in Oracles
  BY DEF TypeOK, Parsed
<1>2. answersData = [k \in DOMAIN answersData |-> answersData[k]]
  BY <1>1, OracleType
<1>3. Asked(Len(data)) = {k \in AllKeys(data) : DOOf(data, k).supported}
  BY DataType DEF TypeOK, Parsed, Asked, AllKeys
<1>4. Verdict!OracleOf(data) = [k \in Asked(Len(data)) |-> DOOf(data, k).bytes]
  BY <1>3 DEF Verdict!OracleOf, Verdict!AllKeys, Verdict!Keys, Verdict!DOOf,
              AllKeys, Keys, DOOf
<1> QED
  BY <1>2, <1>4 DEF Answered

\* The verdict: nothing is counted or named exactly when what was read is
\* sound.
LEMMA ExitVerdict ==
    ASSUME TypeOK, ScanInv, Exit
    PROVE  ver' = IF Verdict!Sound THEN "passed" ELSE "failed"
<1> DEFINE AllPass == \A i \in 1..Len(data) : Passes(data[i])
<1>1. /\ \/ ver = "exit"
         \/ ver = "check" /\ data # Torn /\ cursor > Len(data) /\ answersData = Absent
      /\ ver' = IF failures = {} /\ errors = {} THEN "passed" ELSE "failed"
  BY DEF Exit
<1>2. data # Torn /\ answersData # Torn
  BY <1>1 DEF ScanInv, Parsed
<1>3. /\ Len(data) \in Nat /\ DOMAIN data = 1..Len(data)
      /\ \A i \in 1..Len(data) : data[i] \in Vectors
  BY <1>2, DataType DEF TypeOK
<1>4. AllPass <=> \A i \in DOMAIN data : Verdict!SoundVector(data[i])
  BY <1>3, PassesSound
<1>5. Verdict!Sound <=> AllPass /\ (answersData # Absent => answersData = Verdict!OracleOf(data))
  BY <1>2, <1>4 DEF Verdict!Sound
<1> HIDE DEF AllPass
<1>6. CASE ver = "exit"
  <2>1. answersData # Absent /\ Parsed /\ Finished
    BY <1>6 DEF ScanInv
  <2>2. /\ failures = {} <=> /\ AllPass /\ Answered(Len(data))
                            /\ DOMAIN answersData \subseteq Asked(Len(data))
        /\ errors \subseteq failures \cup Unsupported
    BY <2>1 DEF Finished, AllPass
  <2>3. Unsupported \cap Asked(Len(data)) = {} /\ Unsupported \subseteq DOMAIN answersData
    BY DEF Unsupported, Asked
  <2>4. failures = {} => errors = {}
    BY <2>2, <2>3
  <2>5. failures = {} <=> Verdict!Sound
    BY <1>5, <2>1, <2>2, OracleIs
  <2> QED
    BY <1>1, <2>4, <2>5
<1>7. CASE ver = "check" /\ cursor > Len(data) /\ answersData = Absent
  <2>1. cursor - 1 = Len(data)
    <3>1. cursor \in 1..(Len(data) + 1)
      BY <1>2 DEF TypeOK
    <3> QED
      BY <1>3, <1>7, <3>1
  <2>2. (failures = {} <=> AllPass) /\ errors \subseteq failures
    BY <1>2, <1>7, <2>1 DEF ScanInv, Scanned, AllPass
  <2> QED
    BY <1>1, <1>5, <1>7, <2>2
<1> QED
  BY <1>1, <1>6, <1>7

LEMMA ExitStep == ASSUME IInv, Exit PROVE IInv'
<1>1. TypeOK /\ ScanInv
  BY DEF IInv
<1>2. /\ ver' = IF failures = {} /\ errors = {} THEN "passed" ELSE "failed"
      /\ UNCHANGED <<data, answersData, cursor, failures, errors, readKeys>>
      /\ UNCHANGED <<source, edits, files, report, generatorVars, conf>>
  BY DEF Exit, Others
<1>3. /\ failures' \cup errors' \subseteq Ids \X Nat
      /\ answersData' \in Oracles \cup {Absent, Torn}
      /\ conf' \in {"idle", "verifying", "writing"} /\ data' \in Suites \cup {<< >>, Torn}
      /\ cursor' \in 1..(IF data' = Torn THEN 1 ELSE Len(data') + 1)
      /\ readKeys' \subseteq (IF answersData' \in {Absent, Torn} THEN {}
                              ELSE DOMAIN answersData')
  BY <1>1, <1>2 DEF TypeOK
<1>4. TypeOK'
  BY <1>1, <1>2, <1>3, VerifierType
<1>5. ScanInv'
  BY <1>2 DEF ScanInv
<1>6. Verdict!Sound' <=> Verdict!Sound
  BY <1>2 DEF Verdict!Sound
<1>7. PassedInv'
  BY <1>1, <1>6, ExitVerdict DEF PassedInv
<1> QED
  BY <1>4, <1>5, <1>7 DEF IInv

LEMMA InvStep == IInv /\ [Next]_vars => IInv'
<1> SUFFICES ASSUME IInv, [Next]_vars PROVE IInv'
  OBVIOUS
<1>1. CASE EditSource \/ Generate
  BY <1>1, GenerateStep
<1>2. CASE Verify
  <2>1. CASE Start
    <3>1. ReadAnswers /\ conf' \in {"idle", "verifying", "writing"}
      BY <2>1 DEF Start, IInv, TypeOK
    <3> QED
      BY <3>1, StartStep
  <2> QED
    BY <1>2, <2>1, ReadStep, VectorStep, StepSixStep, CrossStep, DeadStep, ExitStep DEF Verify
<1>3. CASE Conformance
  BY <1>3, ConformanceStep
<1>4. CASE UNCHANGED vars
  <2>1. TypeOK /\ ScanInv /\ PassedInv
    BY DEF IInv
  <2>2. UNCHANGED verifierVars
    BY <1>4 DEF vars
  <2>3. TypeOK'
    <3>1. /\ UNCHANGED <<source, edits, files, report, generatorVars>>
          /\ UNCHANGED <<conf, ver, data, answersData, cursor, readKeys, failures, errors>>
      BY <1>4 DEF vars, verifierVars
    <3>2. /\ answersData' \in Oracles \cup {Absent, Torn} /\ data' \in Suites \cup {<< >>, Torn}
          /\ cursor' \in 1..(IF data' = Torn THEN 1 ELSE Len(data') + 1)
          /\ readKeys' \subseteq (IF answersData' \in {Absent, Torn} THEN {}
                                   ELSE DOMAIN answersData')
          /\ failures' \cup errors' \subseteq Ids \X Nat
      BY <2>1, <3>1 DEF TypeOK
    <3>3. /\ conf' \in {"idle", "verifying", "writing"}
          /\ ver' \in {"idle", "vectors", "check", "cross", "exit", "passed", "failed"}
      BY <2>1, <3>1 DEF TypeOK
    <3> QED
      BY <2>1, <3>1, <3>2, <3>3, VerifierType
  <2> QED
    BY <2>1, <2>2, <2>3, SameVerifier DEF IInv
<1> QED
  BY <1>1, <1>2, <1>3, <1>4 DEF Next

\* The invariant holds in every reachable state.
THEOREM Inductive == Spec => []IInv
  BY InvInit, InvStep, PTL DEF Spec

(***************************************************************************)
(* The theorems.                                                           *)
(***************************************************************************)
\* Every variable keeps to its type, for vector sets of any size and number
\* (VectorSuite, TypeOK).
THEOREM TypeCorrect == Spec => []TypeOK
<1>1. IInv => TypeOK
  BY DEF IInv
<1> QED
  BY <1>1, Inductive, PTL

\* However the generator, its crashes and the verifier overlap, verify-v1.5.js
\* exits 0 only for answers that are those of the vectors it read.
THEOREM OneGeneration == Spec => []NoMixedGenerations
<1>1. PassedInv => NoMixedGenerations
  BY DEF PassedInv, NoMixedGenerations, Answers, AllKeys, Keys, DOOf, Verdict!Sound,
         Verdict!OracleOf, Verdict!AllKeys, Verdict!Keys, Verdict!DOOf
<1>2. IInv => NoMixedGenerations
  BY <1>1 DEF IInv
<1> QED
  BY <1>2, Inductive, PTL

\* verify-v1.5.js exits 0 only when no vector about content_unresolvable hides
\* a breach: the tests of collectDOBreaches are ordered by severity and the
\* others that hold must be declared.
THEOREM NoMasking == Spec => []WarningNeverMasks
<1>1. ASSUME IInv, ver = "passed", NEW i \in DOMAIN data, data[i].kind = "breach",
             data[i].breach = "content_unresolvable",
             NEW code \in Breaches \ {"content_unresolvable"},
             Holds(code, data[i].dos[1].record)
      PROVE  FALSE
  <2>1. Verdict!Sound /\ TypeOK
    BY <1>1 DEF IInv, PassedInv
  <2>2. Verdict!SoundBreach(data[i])
    BY <1>1, <2>1 DEF Verdict!Sound, Verdict!SoundVector
  <2>3. /\ code \in data[i].also_present
        /\ Verdict!Severity("content_unresolvable") < Verdict!Severity(code)
    BY <1>1, <2>2, CodesDiffer DEF Verdict!SoundBreach
  <2>4. Verdict!Severity("content_unresolvable") = 6
    <3>1. Codes[6] = "content_unresolvable"
      BY DEF Codes
    <3> QED
      BY <3>1, SeverityOf
  <2>5. Verdict!Severity(code) \in 1..6
    BY SeverityOf DEF Breaches
  <2> QED
    BY <2>3, <2>4, <2>5
<1>2. IInv => WarningNeverMasks
  BY <1>1 DEF WarningNeverMasks
<1> QED
  BY <1>2, Inductive, PTL

(***************************************************************************)
(* The verifier implements SuiteVerdict: reading the files is its reading, *)
(* the exit is its judgement, and all else is a stutter.                   *)
(***************************************************************************)
LEMMA VerdictInit == Init => Verdict!Init
  BY DEF Init, Verdict!Init

LEMMA VerdictStep == IInv /\ [Next]_vars => [Verdict!Next]_Verdict!vars
<1> SUFFICES ASSUME IInv, [Next]_vars PROVE [Verdict!Next]_Verdict!vars
  OBVIOUS
<1> DEFINE judged == IF ver \in {"passed", "failed"} THEN ver ELSE "none"
<1>1. TypeOK /\ ScanInv
  BY DEF IInv
<1>2. CASE UNCHANGED verifierVars
  BY <1>2 DEF verifierVars, Verdict!vars
<1>3. CASE ReadAnswers
  BY <1>3 DEF ReadAnswers, Verdict!Next, Verdict!Read
<1>4. CASE ReadVectors
  BY <1>4 DEF ReadVectors, Verdict!Next, Verdict!Read
<1>5. CASE Unparsable
  <2>1. ~ Verdict!Sound
    BY <1>5 DEF Unparsable, Verdict!Sound
  <2> QED
    BY <1>5, <2>1 DEF Unparsable, Verdict!Next, Verdict!Judge
<1>6. CASE CheckVector \/ Step6 \/ CrossCheck \/ CheckDeadKeys
  BY <1>6 DEF CheckVector, Step6, CrossCheck, CheckDeadKeys, Verdict!vars
<1>7. CASE Exit
  <2>1. ver' = IF Verdict!Sound THEN "passed" ELSE "failed"
    BY <1>1, <1>7, ExitVerdict
  <2> QED
    BY <1>7, <2>1 DEF Exit, Verdict!Next, Verdict!Judge
<1> QED
  BY <1>2, <1>3, <1>4, <1>5, <1>6, <1>7
     DEF Next, Verify, Start, Conformance, Conform, ReadVersion, WriteReport, Generate,
         EditSource, Build, WriteVectors, OpenAnswers, WriteAnswers, Crash, vars

\* The two loops of main, the set of used answers and the two tallies pass
\* exactly the pairs of vectors and answers that are sound, whatever else
\* writes the files meanwhile.
THEOREM Implements == Spec => ImplementsSuiteVerdict
  BY VerdictInit, VerdictStep, Inductive, PTL DEF Spec, ImplementsSuiteVerdict, Verdict!Spec
=============================================================================
