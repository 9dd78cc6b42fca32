----------------------------- MODULE WebVerifier -----------------------------
(***************************************************************************)
(* web/verify.html: a record that is pasted, or the vectors of a file that *)
(* is picked, are verified in the page.  Digests and file contents arrive  *)
(* later, in any order, and what they are compared with was read before;   *)
(* each verification writes its result into one of two panels.             *)
(*                                                                         *)
(* A pasted text is Empty, Garbage or a record [gate, body, signature,     *)
(* hash].  The gate is "open" or what ends verifyDO before the digest:     *)
(* "oversize", "legacy", "version" and "unsafe" with an error, "surrogate" *)
(* with an exception.  The digest of a preimage is the preimage.           *)
(***************************************************************************)
EXTENDS Naturals, Sequences, FiniteSets

CONSTANTS
    Empty, Garbage,  \* texts that are no record
    None,            \* no signature; nothing shown
    DOTexts,         \* the records that may be pasted
    VectorTexts,     \* what a file may hold: Garbage, or a sequence of records
    Unreadable,      \* a file whose reading fails
    MaxStarts        \* bound on verifications started in either panel

ASSUME WebAssumption ==
    /\ Empty \notin DOTexts /\ Garbage \notin DOTexts
    /\ \A do \in DOTexts : do.gate \notin {"match", "hash_mismatch"}
    /\ MaxStarts \in Nat

VARIABLES
    input,       \* the text in the field
    digesting,   \* verifications of one record whose digest is under way
    result,      \* the panel of single records: [shows, of]
    reading,     \* the picked files that are being read or verified
    vectorPanel, \* the panel of vector files
    starts       \* how many verifications were started

vars == <<input, digesting, result, reading, vectorPanel, starts>>

-----------------------------------------------------------------------------
\* What is hashed: the record without audit.hash.
WebPreimage(do) == <<do.body, do.signature>>

\* What scripts/verify-v1.5.js hashes.
NodePreimage(do) == <<do.body, None>>

Compared(do, preimage) ==
    IF do.gate # "open" THEN do.gate
    ELSE IF do.hash = preimage THEN "match" ELSE "hash_mismatch"

\* Mutant: whatever has a hash is hashed.
VerifyDOUngated(do) == IF do.hash = WebPreimage(do) THEN "match" ELSE "hash_mismatch"

VerifyDO(do) == Compared(do, WebPreimage(do))

\* A sequence of records is all right when each of them matches.
AllMatch(dos) == \A i \in DOMAIN dos : VerifyDO(dos[i]) = "match"

Throws(dos) == \E i \in DOMAIN dos : VerifyDO(dos[i]) = "surrogate"

-----------------------------------------------------------------------------
Init ==
    /\ input = Empty
    /\ digesting = {}
    /\ result = [shows |-> "blank", of |-> Empty]
    /\ reading = {}
    /\ vectorPanel = "blank"
    /\ starts = 0

Paste ==
    /\ input' \in ({Empty, Garbage} \cup DOTexts) \ {input}
    /\ UNCHANGED <<digesting, result, reading, vectorPanel, starts>>

Show(what, text) == result' = [shows |-> what, of |-> text]

\* Up to the first await that waits: all that needs no digest is shown at once.
VerifySingle ==
    /\ starts < MaxStarts
    /\ starts' = starts + 1
    /\ IF input = Empty THEN Show("please enter", Empty) /\ UNCHANGED digesting
       ELSE IF input = Garbage THEN Show("failure", Garbage) /\ UNCHANGED digesting
       ELSE IF input.gate # "open" THEN Show(VerifyDO(input), input) /\ UNCHANGED digesting
       ELSE /\ digesting' = digesting \cup {[n |-> starts, do |-> input]}
            /\ UNCHANGED result
    /\ UNCHANGED <<input, reading, vectorPanel>>

\* Mutant: the stored hash is taken from the field when the digest is there.
DigestArrivesReread(job) ==
    /\ LET now == IF input \in DOTexts THEN [job.do EXCEPT !.hash = input.hash] ELSE job.do
       IN  Show(Compared(now, WebPreimage(job.do)), job.do)
    /\ digesting' = digesting \ {job}
    /\ UNCHANGED <<input, reading, vectorPanel, starts>>

\* Mutant: an answer that comes after an edit is left lying.
DigestArrivesIfCurrent(job) ==
    /\ job.do = input
    /\ Show(VerifyDO(job.do), job.do)
    /\ digesting' = digesting \ {job}
    /\ UNCHANGED <<input, reading, vectorPanel, starts>>

DigestArrives(job) ==
    /\ Show(VerifyDO(job.do), job.do)
    /\ digesting' = digesting \ {job}
    /\ UNCHANGED <<input, reading, vectorPanel, starts>>

-----------------------------------------------------------------------------
\* Mutant: two verifications in flight are not told apart.
PickFileUncounted ==
    /\ starts < MaxStarts
    /\ starts' = starts
    /\ \E f \in VectorTexts \cup {Unreadable} : reading' = reading \cup {[n |-> starts, file |-> f]}
    /\ vectorPanel' = "reading"
    /\ UNCHANGED <<input, digesting, result>>

PickFile ==
    /\ starts < MaxStarts
    /\ starts' = starts + 1
    /\ \E f \in VectorTexts \cup {Unreadable} : reading' = reading \cup {[n |-> starts, file |-> f]}
    /\ vectorPanel' = "reading"
    /\ UNCHANGED <<input, digesting, result>>

\* Mutant: a failure to read or parse is shown nowhere.
FileOutcomeUncaught(file) ==
    IF file \in {Unreadable, Garbage} THEN vectorPanel
    ELSE IF AllMatch(file) THEN "all passed" ELSE "failures"

FileOutcome(file) ==
    IF file \in {Unreadable, Garbage} THEN "failure"
    ELSE IF Throws(file) THEN "failure"
    ELSE IF AllMatch(file) THEN "all passed" ELSE "failures"

\* The awaits between the records of one file change nothing the page shows.
FileVerified(job) ==
    /\ vectorPanel' = FileOutcome(job.file)
    /\ reading' = reading \ {job}
    /\ UNCHANGED <<input, digesting, result, starts>>

Next ==
    \/ Paste \/ VerifySingle \/ PickFile
    \/ \E job \in digesting : DigestArrives(job)
    \/ \E job \in reading : FileVerified(job)

\* What the browser was asked for arrives; what the user does next is open.
Fairness ==
    \A n \in 0..(MaxStarts - 1) :
        /\ WF_vars(\E job \in digesting : job.n = n /\ DigestArrives(job))
        /\ WF_vars(\E job \in reading : job.n = n /\ FileVerified(job))

Spec == Init /\ [][Next]_vars /\ Fairness

-----------------------------------------------------------------------------
\* A digest is awaited only for records, and each verification is its own.
TypeOK ==
    /\ input \in {Empty, Garbage} \cup DOTexts
    /\ starts \in 0..MaxStarts
    /\ Cardinality({job.n : job \in digesting \cup reading})
           = Cardinality(digesting) + Cardinality(reading)

\* However the field is edited while a digest is under way, a match that is
\* shown is one of the record it was computed from, and so is a mismatch
\* (verify.html:154-175).
VerdictIsOfOneRecord ==
    /\ result.shows = "match" => result.of.hash = WebPreimage(result.of)
    /\ result.shows = "hash_mismatch" => result.of.hash # WebPreimage(result.of)

\* The page and scripts/verify-v1.5.js say the same of every record in hash
\* mode (test/web-verifier-parity.test.js; verify.html:97-113).
HashModeParity ==
    result.of \in DOTexts /\ result.of.signature = None =>
        (result.shows = "match" <=> Compared(result.of, NodePreimage(result.of)) = "match")

\* A picked file does not leave the panel reading (verify.html:193-228).
ReadingEnds == vectorPanel = "reading" ~> vectorPanel # "reading"

\* Every verification of a record that waits for a digest is answered, however
\* the field is edited meanwhile (verify.html:154-175).
AnswersArrive ==
    \A n \in 0..(MaxStarts - 1) :
        (\E job \in digesting : job.n = n) ~> (\A job \in digesting : job.n # n)

-----------------------------------------------------------------------------
\* What RUNNER_CONTRACT.en.md:18 and :34 ask of every verifier: signature and
\* signing_key_id are deleted before hashing.
SignatureDeleted ==
    result.of \in DOTexts /\ result.of.gate = "open" =>
        (result.shows = "match" <=> Compared(result.of, NodePreimage(result.of)) = "match")

-----------------------------------------------------------------------------
(***************************************************************************)
(* The inductive invariant behind the theorems of WebVerifierProofs: the   *)
(* verifications under way are numbered apart, each of a record; a panel   *)
(* that names a record shows the verdict of verifyDO on it.                *)
(***************************************************************************)
Numbered(jobs, bound) ==
    /\ IsFiniteSet(jobs)
    /\ \A job \in jobs : job.n \in Nat /\ job.n < bound
    /\ \A a, b \in jobs : a.n = b.n => a = b

IInv ==
    /\ input \in {Empty, Garbage} \cup DOTexts
    /\ starts \in 0..MaxStarts
    /\ Numbered(digesting, starts) /\ Numbered(reading, starts)
    /\ \A a \in digesting, b \in reading : a.n # b.n
    /\ \A job \in digesting : job.do \in DOTexts
    /\ IF result.of \in DOTexts THEN result.shows = VerifyDO(result.of)
       ELSE result.shows \notin {"match", "hash_mismatch"}
=============================================================================
