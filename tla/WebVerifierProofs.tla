-------------------------- MODULE WebVerifierProofs --------------------------
(***************************************************************************)
(* Proofs about WebVerifier, for all records and files and any number of   *)
(* verifications in flight: the types, and that what the panel of single   *)
(* records says is true of the record it says it of.                       *)
(***************************************************************************)
EXTENDS WebVerifier, FiniteSetTheorems, FunctionTheorems, TLAPS

LEMMA InvInit == Init => IInv
<1> SUFFICES ASSUME Init PROVE IInv
  OBVIOUS
<1>1. IsFiniteSet({})
  BY FS_EmptySet
<1> QED
  BY <1>1, WebAssumption DEF Init, IInv, Numbered

\* A verification that is started gets a number of its own.
LEMMA Started ==
    ASSUME NEW jobs, NEW n \in Nat, Numbered(jobs, n), NEW job, job.n = n
    PROVE  Numbered(jobs, n + 1) /\ Numbered(jobs \cup {job}, n + 1)
<1>1. IsFiniteSet(jobs \cup {job})
  BY FS_AddElement DEF Numbered
<1> QED
  BY <1>1 DEF Numbered

LEMMA Over ==
    ASSUME NEW jobs, NEW n, Numbered(jobs, n), NEW job
    PROVE  Numbered(jobs \ {job}, n)
<1>1. IsFiniteSet(jobs \ {job})
  BY FS_RemoveElement DEF Numbered
<1> QED
  BY <1>1 DEF Numbered

LEMMA InvStep == IInv /\ [Next]_vars => IInv'
<1> SUFFICES ASSUME IInv, [Next]_vars PROVE IInv'
  OBVIOUS
<1> DEFINE Shown == IF result.of \in DOTexts THEN result.shows = VerifyDO(result.of)
                    ELSE result.shows \notin {"match", "hash_mismatch"}
<1>0. /\ Numbered(digesting, starts) /\ Numbered(reading, starts) /\ starts \in Nat /\ Shown
      /\ \A a \in digesting, b \in reading : a.n # b.n
      /\ \A job \in digesting : job.n < starts /\ job.n \in Nat
      /\ \A job \in reading : job.n < starts /\ job.n \in Nat
  BY WebAssumption DEF IInv, Numbered
<1>1. CASE Paste
  <2>1. Numbered(digesting', starts') /\ Numbered(reading', starts')
    BY <1>0, <1>1 DEF Paste, Numbered
  <2> QED
    BY <1>1, <2>1 DEF Paste, IInv, VerifyDO, Compared, WebPreimage
<1>2. CASE VerifySingle
  <2> DEFINE new == [n |-> starts, do |-> input]
  <2>1. /\ starts' = starts + 1 /\ starts' \in 0..MaxStarts
        /\ UNCHANGED <<input, reading>>
    <3>1. starts < MaxStarts /\ starts' = starts + 1 /\ UNCHANGED <<input, reading>>
      BY <1>2 DEF VerifySingle
    <3> QED
      BY <1>0, <3>1, WebAssumption
  <2>2. Numbered(digesting', starts') \/ digesting' # digesting
    BY <1>0, <2>1 DEF Numbered
  <2>3. Numbered(reading', starts')
    BY <1>0, <2>1 DEF Numbered
  <2>4. CASE digesting' = digesting /\ Shown'
    BY <1>0, <2>1, <2>2, <2>3, <2>4 DEF IInv
  <2>5. CASE /\ input \in DOTexts /\ digesting' = digesting \cup {new}
             /\ result' = result
    <3>1. new.n = starts /\ new.do = input
      OBVIOUS
    <3>2. Numbered(digesting \cup {new}, starts')
      BY <1>0, <2>1, <3>1, Started
    <3>3. Numbered(digesting', starts')
      BY <2>5, <3>2, <2>1 DEF Numbered
    <3>4. \A a \in digesting', b \in reading' : a.n # b.n
      BY <1>0, <2>1, <2>5, <3>1
    <3>5. \A job \in digesting' : job.do \in DOTexts
      BY <2>5, <3>1 DEF IInv
    <3>6. Shown'
      BY <1>0, <2>5 DEF VerifyDO, Compared, WebPreimage
    <3> QED
      BY <2>1, <2>3, <3>3, <3>4, <3>5, <3>6 DEF IInv
  <2>6. CASE input \in {Empty, Garbage}
    <3>1. /\ digesting' = digesting
          /\ \/ result' = [shows |-> "please enter", of |-> Empty]
             \/ result' = [shows |-> "failure", of |-> Garbage]
      BY <1>2, <2>6 DEF VerifySingle, Show
    <3>2. result'.of \notin DOTexts /\ result'.shows \notin {"match", "hash_mismatch"}
      <4>1. CASE result' = [shows |-> "please enter", of |-> Empty]
        BY <4>1, WebAssumption
      <4>2. CASE result' = [shows |-> "failure", of |-> Garbage]
        BY <4>2, WebAssumption
      <4> QED
        BY <3>1, <4>1, <4>2
    <3> QED
      BY <2>4, <3>1, <3>2
  <2>7. CASE input \in DOTexts /\ input.gate # "open"
    <3>1. digesting' = digesting /\ result' = [shows |-> VerifyDO(input), of |-> input]
      BY <1>2, <2>7, WebAssumption DEF VerifySingle, Show
    <3> QED
      BY <2>4, <2>7, <3>1 DEF VerifyDO, Compared, WebPreimage
  <2>8. CASE input \in DOTexts /\ input.gate = "open"
    BY <1>2, <2>5, <2>8, WebAssumption DEF VerifySingle
  <2> QED
    BY <2>6, <2>7, <2>8 DEF IInv
<1>3. CASE PickFile
  <2>1. /\ starts' = starts + 1 /\ starts' \in 0..MaxStarts
        /\ UNCHANGED <<input, digesting, result>>
    BY <1>3, WebAssumption DEF PickFile, IInv
  <2>2. \E job : job.n = starts /\ reading' = reading \cup {job}
    BY <1>3 DEF PickFile
  <2>3. PICK job : job.n = starts /\ reading' = reading \cup {job}
    BY <2>2
  <2>4. Numbered(reading \cup {job}, starts + 1)
    BY <1>0, <2>3, Started
  <2>5. Numbered(reading', starts') /\ Numbered(digesting', starts')
    BY <1>0, <2>1, <2>3, <2>4 DEF Numbered
  <2>6. \A a \in digesting', b \in reading' : a.n # b.n
    BY <1>0, <2>1, <2>3
  <2>7. Shown'
    BY <1>0, <2>1 DEF VerifyDO, Compared, WebPreimage
  <2> QED
    BY <2>1, <2>5, <2>6, <2>7 DEF IInv
<1>4. ASSUME NEW job \in digesting, DigestArrives(job) PROVE IInv'
  <2>1. /\ digesting' = digesting \ {job}
        /\ result' = [shows |-> VerifyDO(job.do), of |-> job.do]
        /\ UNCHANGED <<input, reading, starts>>
    BY <1>4 DEF DigestArrives, Show
  <2>2. Numbered(digesting \ {job}, starts') /\ Numbered(reading', starts')
    BY <1>0, <2>1, Over DEF Numbered
  <2>3. Numbered(digesting', starts')
    BY <2>1, <2>2 DEF Numbered
  <2>4. Shown'
    BY <2>1 DEF IInv, VerifyDO, Compared, WebPreimage
  <2> QED
    BY <1>0, <2>1, <2>2, <2>3, <2>4 DEF IInv
<1>5. ASSUME NEW job \in reading, FileVerified(job) PROVE IInv'
  <2>1. reading' = reading \ {job} /\ UNCHANGED <<input, digesting, result, starts>>
    BY <1>5 DEF FileVerified
  <2>2. Numbered(reading \ {job}, starts') /\ Numbered(digesting', starts')
    BY <1>0, <2>1, Over DEF Numbered
  <2>3. Numbered(reading', starts')
    BY <2>1, <2>2 DEF Numbered
  <2>4. Shown'
    BY <1>0, <2>1 DEF VerifyDO, Compared, WebPreimage
  <2> QED
    BY <1>0, <2>1, <2>2, <2>3, <2>4 DEF IInv
<1>6. CASE UNCHANGED vars
  <2>1. Numbered(digesting', starts') /\ Numbered(reading', starts') /\ Shown'
    BY <1>0, <1>6 DEF vars, Numbered, VerifyDO, Compared, WebPreimage
  <2> QED
    BY <1>6, <2>1 DEF vars, IInv
<1> QED
  BY <1>1, <1>2, <1>3, <1>4, <1>5, <1>6 DEF Next

\* The verifications under way stay numbered apart, and the panel of single
\* records shows the verdict of the record it names.
THEOREM Inductive == Spec => []IInv
<1> QED
  BY InvInit, InvStep, PTL DEF Spec

-----------------------------------------------------------------------------
\* Numbers that differ count what they number.
LEMMA NumbersCount ==
    ASSUME NEW jobs, IsFiniteSet(jobs),
           \A a, b \in jobs : a.n = b.n => a = b
    PROVE  Cardinality({job.n : job \in jobs}) = Cardinality(jobs)
<1> DEFINE numbers == {job.n : job \in jobs}
<1> DEFINE number  == [job \in jobs |-> job.n]
<1>1. number \in Bijection(jobs, numbers)
  BY DEF Bijection, Injection, Surjection, IsInjective
<1>2. ExistsBijection(jobs, numbers)
  BY <1>1 DEF ExistsBijection
<1> QED
  BY <1>2, FS_Bijection

\* A digest is awaited for records only, and each verification is its own.
THEOREM TypeCorrect == Spec => []TypeOK
<1>1. ASSUME IInv PROVE TypeOK
  <2>1. /\ IsFiniteSet(digesting) /\ IsFiniteSet(reading)
        /\ digesting \cap reading = {}
    BY <1>1 DEF IInv, Numbered
  <2>2. /\ IsFiniteSet(digesting \cup reading)
        /\ Cardinality(digesting \cup reading) =
             Cardinality(digesting) + Cardinality(reading) - Cardinality(digesting \cap reading)
    BY <2>1, FS_Union
  <2>3. Cardinality(digesting \cap reading) = 0
    BY <2>1, FS_EmptySet
  <2>4. Cardinality(digesting) \in Nat /\ Cardinality(reading) \in Nat
    BY <2>1, FS_CardinalityType
  <2>5. Cardinality({job.n : job \in digesting \cup reading}) = Cardinality(digesting \cup reading)
    <3>1. \A a, b \in digesting \cup reading : a.n = b.n => a = b
      BY <1>1 DEF IInv, Numbered
    <3> QED
      BY <2>2, <3>1, NumbersCount
  <2> QED
    BY <1>1, <2>2, <2>3, <2>4, <2>5 DEF IInv, TypeOK
<1> QED
  BY <1>1, Inductive, PTL

\* A match or a mismatch that is shown is one of the record it is shown with,
\* whatever was pasted while its digest was computed.
THEOREM ShownIsTrue == Spec => []VerdictIsOfOneRecord
<1>1. ASSUME IInv PROVE VerdictIsOfOneRecord
  BY <1>1, WebAssumption DEF IInv, VerdictIsOfOneRecord, VerifyDO, Compared, WebPreimage
<1> QED
  BY <1>1, Inductive, PTL

\* The page and the Node verifier agree on every record without a signature.
THEOREM Parity == Spec => []HashModeParity
<1>1. ASSUME IInv PROVE HashModeParity
  BY <1>1 DEF IInv, HashModeParity, VerifyDO, Compared, WebPreimage, NodePreimage
<1> QED
  BY <1>1, Inductive, PTL
=============================================================================
