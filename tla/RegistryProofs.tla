--------------------------- MODULE RegistryProofs ---------------------------
(***************************************************************************)
(* Proofs about Registry, for every set of files, keys, answers and        *)
(* vector sets and any number of commits: the types, and that the          *)
(* recording job implements an atomic recording (AtomicRegistry).  Then    *)
(* about the two programs that edit one text file (RegistryPrograms), for  *)
(* every layer, every set of rows and every interleaving: exit 0 lists all *)
(* submissions, and the text between the tables is never touched.          *)
(***************************************************************************)
EXTENDS RegistryPrograms, SequenceTheorems, TLAPS

\* Rows are the submissions they stand for.
LEMMA DerivedType ==
    ASSUME NEW tree \in Trees
    PROVE  Derived(tree) \in Tables
BY DEF Derived, Trees, Tables

LEMMA EmptyType == EmptyTable \in Tables
BY DEF EmptyTable, Tables

LEMMA TypeInit == Init => TypeOK
<1> SUFFICES ASSUME Init PROVE TypeOK
  OBVIOUS
<1>1. head \in Trees
  BY EmptyType, RegistryAssumption DEF Init, Trees
<1>2. prs \in [Files -> PRs \cup {None}]
  BY DEF Init, EmptyTable
<1> QED
  BY <1>1, <1>2, RegistryAssumption DEF Init, TypeOK, Authors

LEMMA TypeStep == TypeOK /\ [Next]_vars => TypeOK'
<1> SUFFICES ASSUME TypeOK, [Next]_vars PROVE TypeOK'
  OBVIOUS
<1> USE DEF TypeOK
<1>1. ASSUME NEW f \in Files, NEW sub \in Offers, OpenPR(f, sub) PROVE TypeOK'
  <2>1. [submission |-> sub, status |-> "open"] \in PRs
    BY RegistryAssumption DEF PRs
  <2> QED
    BY <1>1, <2>1 DEF OpenPR
<1>2. ASSUME NEW f \in Files, CheckPR(f) PROVE TypeOK'
  <2>1. prs[f] \in PRs
    BY <1>2 DEF CheckPR
  <2>2. \A s \in {"passed", "failed"} : [prs[f] EXCEPT !.status = s] \in PRs
    BY <2>1 DEF PRs
  <2>3. \E s \in {"passed", "failed"} : prs' = [prs EXCEPT ![f].status = s]
    BY <1>2 DEF CheckPR
  <2>4. prs' \in [Files -> PRs \cup {None}]
    BY <2>2, <2>3
  <2> QED
    BY <1>2, <2>4 DEF CheckPR
<1>3. ASSUME NEW f \in Files, MergePR(f) PROVE TypeOK'
  <2>1. prs[f] \in PRs
    BY <1>3 DEF MergePR
  <2>2. prs[f].submission \in Submissions
    BY <2>1 DEF PRs
  <2>3. head' \in Trees
    BY <1>3, <2>2 DEF MergePR, Trees, Tables
  <2>4. sha' \in Nat
    BY <1>3 DEF MergePR
  <2>5. waiting' \in Events
    BY <1>3, <2>3, <2>4 DEF MergePR, Trigger, Events
  <2> QED
    BY <1>3, <2>3, <2>4, <2>5 DEF MergePR, Authors
<1>4. CASE MaintainerPush
  <2>1. head' \in Trees
    BY <1>4, RegistryAssumption DEF MaintainerPush, Trees
  <2> QED
    BY <1>4, <2>1 DEF MaintainerPush, Authors
<1>5. CASE StartJob
  <2>1. waiting \in Events
    BY <1>5 DEF StartJob
  <2>2. job' \in Jobs
    BY <1>5, <2>1 DEF StartJob, Events, Jobs, Trees
  <2> QED
    BY <1>5, <2>2 DEF StartJob
<1>6. CASE Regenerate
  <2>1. job \in Jobs
    BY <1>6 DEF Regenerate
  <2>2. Derived(job.tree) \in Tables
    BY <2>1, DerivedType DEF Jobs
  <2>3. job' \in Jobs \cup {None}
    BY <1>6, <2>1, <2>2 DEF Regenerate, Jobs
  <2> QED
    BY <1>6, <2>3 DEF Regenerate
<1>7. CASE Push
  <2>1. job \in Jobs
    BY <1>7 DEF Push
  <2>2. [job.tree EXCEPT !.registry = job.registry] \in Trees
    BY <2>1 DEF Jobs, Trees
  <2> QED
    BY <1>7, <2>2 DEF Push, Authors
<1>8. CASE Abort
  BY <1>8, RegistryAssumption DEF Abort
<1>9. CASE UNCHANGED vars
  BY <1>9 DEF vars
<1> QED
  BY <1>1, <1>2, <1>3, <1>4, <1>5, <1>6, <1>7, <1>8, <1>9
     DEF Next, Contribute, Record

\* Every variable keeps its type, whatever is offered, merged and recorded.
THEOREM TypeCorrect == Spec => []TypeOK
<1> QED
  BY TypeInit, TypeStep, PTL DEF Spec

-----------------------------------------------------------------------------
(***************************************************************************)
(* What waits or runs knows the tip of main, or is outdated for good.      *)
(***************************************************************************)
LEMMA InvInit == Init => IInv
BY TypeInit DEF Init, IInv

\* A new commit outdates whatever was waiting or running.
LEMMA Outdated ==
    ASSUME sha \in Nat, sha' = sha + 1,
           NEW event, event.sha \in Nat, event.sha <= sha
    PROVE  event.sha <= sha' /\ event.sha # sha'
OBVIOUS

LEMMA InvStep == IInv /\ [Next]_vars => IInv'
<1> SUFFICES ASSUME IInv, [Next]_vars PROVE IInv'
  OBVIOUS
<1>1. TypeOK /\ TypeOK'
  BY TypeStep DEF IInv
<1>2. /\ sha \in Nat
      /\ waiting # None => waiting \in Events /\ waiting.sha \in Nat
      /\ job # None => job \in Jobs /\ job.sha \in Nat
  BY <1>1 DEF TypeOK, Events, Jobs
<1>3. CASE UNCHANGED <<head, sha, waiting, job>>
  BY <1>1, <1>3 DEF IInv, OnTip, Derived
<1>4. ASSUME NEW f \in Files, MergePR(f) PROVE IInv'
  <2>1. waiting' # None => OnTip(waiting)'
    BY <1>2, <1>4 DEF MergePR, Trigger, OnTip
  <2>2. job' # None => OnTip(job)'
    BY <1>2, <1>4, Outdated DEF MergePR, IInv, OnTip
  <2> QED
    BY <1>1, <1>4, <2>1, <2>2 DEF IInv, MergePR, Derived
<1>5. CASE MaintainerPush
  <2>1. waiting' # None => OnTip(waiting)'
    BY <1>2, <1>5, Outdated DEF MaintainerPush, IInv, OnTip
  <2>2. job' # None => OnTip(job)'
    BY <1>2, <1>5, Outdated DEF MaintainerPush, IInv, OnTip
  <2> QED
    BY <1>1, <1>5, <2>1, <2>2 DEF IInv, MaintainerPush, Derived
<1>6. CASE StartJob
  <2>1. OnTip(job)'
    BY <1>6 DEF StartJob, IInv, OnTip
  <2>2. job'.stage = "checkout"
    BY <1>6 DEF StartJob
  <2> QED
    BY <1>1, <1>6, <2>1, <2>2 DEF IInv, StartJob
<1>7. CASE Regenerate
  <2>1. waiting' # None => OnTip(waiting)'
    BY <1>7 DEF Regenerate, IInv, OnTip
  <2>2. job' # None => /\ job'.sha = job.sha /\ job'.tree = job.tree
                       /\ job'.registry = Derived(job.tree)
    BY <1>2, <1>7 DEF Regenerate, Jobs
  <2>3. job' # None => OnTip(job)'
    BY <1>7, <2>2 DEF Regenerate, IInv, OnTip
  <2>4. job' # None => job'.registry = Derived(job.tree)'
    BY <2>2 DEF Derived
  <2> QED
    BY <1>1, <2>1, <2>3, <2>4 DEF IInv
<1>8. CASE Push
  <2>1. waiting' = waiting /\ job' = None
    BY <1>8 DEF Push
  <2>2. CASE job.sha = sha
    <3>1. sha' = sha + 1
      BY <1>8, <2>2 DEF Push
    <3>2. waiting' # None => OnTip(waiting)'
      BY <1>2, <2>1, <3>1, Outdated DEF IInv, OnTip
    <3> QED
      BY <1>1, <2>1, <3>2 DEF IInv
  <2>3. CASE job.sha # sha
    BY <1>1, <1>8, <2>3 DEF Push, IInv, OnTip
  <2> QED
    BY <2>2, <2>3
<1>9. CASE Abort
  BY <1>1, <1>9 DEF Abort, IInv, OnTip
<1> QED
  BY <1>3, <1>4, <1>5, <1>6, <1>7, <1>8, <1>9
     DEF Next, Contribute, Record, OpenPR, CheckPR, vars

\* A waiting event or a running job has the tree of the tip of main exactly as
\* long as it has its commit, and a job that is about to push holds the
\* registry its own tree determines.
THEOREM Inductive == Spec => []IInv
<1> QED
  BY InvInit, InvStep, PTL DEF Spec

-----------------------------------------------------------------------------
(***************************************************************************)
(* The job implements the atomic recording.                                *)
(***************************************************************************)
LEMMA SameDerived == \A tree : Atomic!Derived(tree) = Derived(tree)
BY DEF Atomic!Derived, Derived, Atomic!Recordable, Recordable,
       Atomic!CrossVerify, CrossVerify, Atomic!Agrees, Agrees,
       Atomic!DeadKeys, DeadKeys

\* A push that lands is an atomic recording.
LEMMA PushRecords ==
    ASSUME IInv, Push
    PROVE  Atomic!Record \/ head' = head
<1>1. job \in Jobs /\ OnTip(job) /\ job.registry = Derived(job.tree)
  BY DEF Push, IInv, TypeOK
<1>2. CASE job.sha = sha
  <2>1. head' = [head EXCEPT !.registry = Derived(head)]
    BY <1>1, <1>2 DEF Push, OnTip
  <2> QED
    BY <2>1, SameDerived DEF Atomic!Record
<1>3. CASE job.sha # sha
  BY <1>3 DEF Push
<1> QED
  BY <1>2, <1>3

\* Whatever happens to main while the recording job checks out, derives and
\* pushes, its effect is that of recording in one step: no merged submission
\* and no vector set is undone, and the registry that lands is the one its
\* tree determines.
THEOREM Refinement == Spec => ImplementsAtomicRegistry
<1>1. Init => Atomic!Init
  BY RegistryAssumption DEF Init, Atomic!Init, EmptyTable, Atomic!EmptyTable,
       References, Atomic!References, Layers, Atomic!Layers, Answers,
       Atomic!Answers
<1>2. Trees = Atomic!Trees
  BY DEF Trees, Atomic!Trees, Tables, Atomic!Tables, References,
       Atomic!References, Layers, Atomic!Layers, Answers, Atomic!Answers,
       Submissions, Atomic!Submissions
<1>3. IInv /\ [Next]_vars => [Atomic!Next]_head
  <2> SUFFICES ASSUME IInv, [Next]_vars, head' # head PROVE Atomic!Next
    OBVIOUS
  <2>1. head \in Trees /\ head' \in Trees
    BY TypeStep DEF IInv, TypeOK
  <2>2. ASSUME NEW f \in Files, MergePR(f) PROVE Atomic!Next
    <3>1. head'.registry = head.registry
      BY <2>1, <2>2 DEF MergePR, Trees
    <3> QED
      BY <1>2, <2>1, <3>1 DEF Atomic!Next, Atomic!Contribute
  <2>3. CASE MaintainerPush
    <3>1. head'.registry = head.registry
      BY <2>1, <2>3 DEF MaintainerPush, Trees
    <3> QED
      BY <1>2, <2>1, <3>1 DEF Atomic!Next, Atomic!Contribute
  <2>4. CASE Push
    BY <2>4, PushRecords DEF Atomic!Next
  <2> QED
    BY <2>2, <2>3, <2>4 DEF Next, Contribute, Record, OpenPR, CheckPR,
                            StartJob, Regenerate, Abort, vars
<1> QED
  BY <1>1, <1>3, Inductive, PTL DEF Spec, ImplementsAtomicRegistry, Atomic!Spec

(***************************************************************************)
(* The files.  A document, a file that lost pieces of it and one that was  *)
(* cut off have their pieces at nine places, and in the same order.        *)
(***************************************************************************)
Open(layer) == IF layer = "audit" THEN 2 ELSE 6

Fits(piece, place) ==
    \/ place = 1 /\ piece = Texts!Piece("text", "a")
    \/ place = 5 /\ piece = Texts!Piece("text", "b")
    \/ place = 9 /\ piece = Texts!Piece("text", "c")
    \/ \E l \in Layers :
           \/ place = Open(l) /\ piece = Texts!Piece("begin", l)
           \/ place = Open(l) + 1 /\ \E t \in Rows : piece = Texts!Piece("rows", t)
           \/ place = Open(l) + 2 /\ piece = Texts!Piece("end", l)

Framed(content, at) ==
    /\ content \in Seq(Texts!Pieces)
    /\ at \in [1..Len(content) -> 1..9]
    /\ \A i \in 1..Len(content) : Fits(content[i], at[i])
    /\ \A i, j \in 1..Len(content) : i < j => at[i] < at[j]

Contents == {content \in Seq(Texts!Pieces) : \E at : Framed(content, at)}

\* A marker has one place, between its markers stand rows or nothing.
LEMMA FitsMarker ==
    ASSUME NEW piece, NEW place, Fits(piece, place), NEW l \in Layers
    PROVE  /\ piece = Texts!Piece("begin", l) => place = Open(l)
           /\ piece = Texts!Piece("end", l) => place = Open(l) + 2
           /\ place = Open(l) + 1 => piece.kind = "rows"
           /\ piece \in Texts!Pieces
BY DEF Fits, Open, Layers, Texts!Piece, Texts!Pieces, Texts!Layers

LEMMA FitsRows ==
    ASSUME NEW t \in Rows, NEW l \in Layers
    PROVE  /\ Fits(Texts!Piece("rows", t), Open(l) + 1)
           /\ Texts!Piece("rows", t) \in Texts!Pieces
BY DEF Fits, Open, Layers, Texts!Piece, Texts!Pieces, Texts!Layers

LEMMA PlaceOf ==
    ASSUME NEW content, NEW at, Framed(content, at), NEW l \in Layers,
           NEW kind \in {"begin", "end"}, NEW i \in 1..Len(content),
           content[i] = Texts!Piece(kind, l)
    PROVE  Texts!IndexOf(content, Texts!Piece(kind, l)) = i
<1> DEFINE p == Texts!Piece(kind, l)
           P == Texts!Places(content, p)
<1>1. DOMAIN content = 1..Len(content) /\ Len(content) \in Nat
  BY LenProperties DEF Framed
<1>2. \A j \in 1..Len(content) :
          content[j] = p => at[j] = IF kind = "begin" THEN Open(l) ELSE Open(l) + 2
  BY FitsMarker DEF Framed
<1>3. \A j \in 1..Len(content) : content[j] = p => j = i
  BY <1>2, <1>1 DEF Framed, Open
<1>4. P = {i}
  BY <1>1, <1>3 DEF Texts!Places
<1>5. P # {} /\ (CHOOSE j \in P : \A k \in P : j <= k) = i
  BY <1>4
<1> QED
  BY <1>5 DEF Texts!IndexOf

LEMMA IndexFound ==
    ASSUME NEW content, NEW at, Framed(content, at), NEW l \in Layers,
           NEW kind \in {"begin", "end"},
           Texts!IndexOf(content, Texts!Piece(kind, l)) # 0
    PROVE  /\ Texts!IndexOf(content, Texts!Piece(kind, l)) \in 1..Len(content)
           /\ content[Texts!IndexOf(content, Texts!Piece(kind, l))] = Texts!Piece(kind, l)
<1>1. DOMAIN content = 1..Len(content)
  BY LenProperties DEF Framed
<1>2. PICK i \in 1..Len(content) : content[i] = Texts!Piece(kind, l)
  BY <1>1 DEF Texts!IndexOf, Texts!Places
<1> QED
  BY <1>2, PlaceOf

\* The markers of a layer stand next to each other, or about one table.
LEMMA Frame ==
    ASSUME NEW content, NEW at, Framed(content, at), NEW l \in Layers,
           Texts!HasMarkers(content, l),
           NEW b, b = Texts!IndexOf(content, Texts!Piece("begin", l)),
           NEW e, e = Texts!IndexOf(content, Texts!Piece("end", l))
    PROVE  /\ b \in 1..Len(content) /\ e \in 1..Len(content)
           /\ content[b] = Texts!Piece("begin", l) /\ content[e] = Texts!Piece("end", l)
           /\ at[b] = Open(l) /\ at[e] = Open(l) + 2
           /\ e = b + 1 \/ e = b + 2
           /\ \A i \in 1..Len(content) : b < i /\ i < e =>
                  content[i].kind = "rows" /\ at[i] = Open(l) + 1
<1>1. /\ b \in 1..Len(content) /\ e \in 1..Len(content)
      /\ content[b] = Texts!Piece("begin", l) /\ content[e] = Texts!Piece("end", l)
  BY IndexFound DEF Texts!HasMarkers
<1>2. at[b] = Open(l) /\ at[e] = Open(l) + 2
  BY <1>1, FitsMarker DEF Framed
<1>3. Len(content) \in Nat /\ Open(l) \in 1..6
  BY LenProperties DEF Framed, Open
<1>4. \A i \in 1..Len(content) : at[i] \in 1..9
  BY DEF Framed
<1>5. \A i, j \in 1..Len(content) : i < j => at[i] < at[j]
  BY DEF Framed
<1>6. b < e
  BY <1>1, <1>2, <1>3, <1>5
<1>7. \A i \in 1..Len(content) : b < i /\ i < e => at[i] = Open(l) + 1
  <2>1. SUFFICES ASSUME NEW i \in 1..Len(content), b < i, i < e PROVE at[i] = Open(l) + 1
    OBVIOUS
  <2>2. at[b] < at[i] /\ at[i] < at[e]
    BY <1>1, <1>5, <2>1
  <2>3. at[i] \in 1..9
    BY <1>4
  <2> QED
    BY <1>2, <1>3, <2>2, <2>3
<1>8. e <= b + 2
  <2>1. SUFFICES ASSUME e > b + 2 PROVE FALSE
    BY <1>1, <1>3
  <2>2. b + 1 \in 1..Len(content) /\ b + 2 \in 1..Len(content)
    BY <1>1, <1>3, <2>1
  <2>3. at[b + 1] = Open(l) + 1 /\ at[b + 2] = Open(l) + 1
    BY <1>1, <1>3, <1>7, <2>1, <2>2
  <2> QED
    BY <1>1, <1>3, <1>5, <2>2, <2>3
<1>9. \A i \in 1..Len(content) : at[i] = Open(l) + 1 => content[i].kind = "rows"
  BY FitsMarker DEF Framed
<1> QED
  BY <1>1, <1>2, <1>3, <1>6, <1>7, <1>8, <1>9

Only(t) == <<Texts!Piece("rows", t)>>

LEMMA ListedIs ==
    ASSUME NEW content, NEW at, Framed(content, at), NEW l \in Layers,
           NEW b \in 1..Len(content), content[b] = Texts!Piece("begin", l),
           NEW e \in 1..Len(content), content[e] = Texts!Piece("end", l), NEW t
    PROVE  Texts!Listed(content, l) = Only(t)
               <=> e = b + 2 /\ content[b + 1] = Texts!Piece("rows", t)
<1> DEFINE row == Texts!Piece("rows", t)
<1> HIDE DEF row
<1>1. /\ Texts!IndexOf(content, Texts!Piece("begin", l)) = b
      /\ Texts!IndexOf(content, Texts!Piece("end", l)) = e
  BY PlaceOf
<1>2. Texts!Listed(content, l) = SubSeq(content, b + 1, e - 1)
  BY <1>1 DEF Texts!Listed
<1>3. Len(content) \in Nat /\ \A i \in 1..Len(content) : content[i] \in Texts!Pieces
  BY LenProperties, ElementOfSeq DEF Framed
<1> DEFINE s == SubSeq(content, b + 1, e - 1)
<1>4. /\ s \in Seq(Texts!Pieces)
      /\ Len(s) = IF b + 1 <= e - 1 THEN e - 1 - (b + 1) + 1 ELSE 0
      /\ \A i \in 1..(e - 1 - (b + 1) + 1) : s[i] = content[b + 1 + i - 1]
  <2>1. \A i \in (b + 1)..(e - 1) : content[i] \in Texts!Pieces
    BY <1>3
  <2>2. b + 1 \in Int /\ e - 1 \in Int
    OBVIOUS
  <2> HIDE DEF s
  <2> QED
    BY <2>1, <2>2, SubSeqProperties DEF s
<1> HIDE DEF s
<1>5. ASSUME s = <<row>> PROVE e = b + 2 /\ content[b + 1] = row
  <2>1. Len(s) = 1 /\ s[1] = row
    BY <1>5
  <2>2. e = b + 2
    <3>1. Len(s) = IF b + 1 <= e - 1 THEN e - 1 - (b + 1) + 1 ELSE 0
      BY <1>4
    <3>2. b \in Int /\ e \in Int
      OBVIOUS
    <3>3. b + 1 <= e - 1
      <4>1. Len(s) = 1
        BY <2>1
      <4>2. SUFFICES ASSUME ~(b + 1 <= e - 1) PROVE FALSE
        OBVIOUS
      <4>3. Len(s) = 0
        BY <4>2, <3>1
      <4> QED
        BY <4>1, <4>3
    <3>4. e - 1 - (b + 1) + 1 = 1
      BY <2>1, <3>1, <3>3
    <3> QED
      BY <3>2, <3>4
  <2>3. s[1] = content[b + 1 + 1 - 1] /\ b + 1 + 1 - 1 = b + 1
    BY <2>2, <1>3, <1>4
  <2> QED
    BY <2>1, <2>2, <2>3
<1>6. ASSUME e = b + 2, content[b + 1] = row PROVE s = <<row>>
  <2>1. Len(s) = 1 /\ s[1] = row
    BY <1>6, <1>4
  <2>2. s = [i \in 1..Len(s) |-> s[i]]
    BY <1>4
  <2> QED
    BY <2>1, <1>4, <2>2
<1> QED
  BY <1>2, <1>5, <1>6 DEF s, row, Only

\* What a program writes: the content up to the begin marker, the table, and
\* the content from the end marker on.
LEMMA SplicedIs ==
    ASSUME NEW content, NEW at, Framed(content, at), NEW l \in Layers, NEW t \in Rows,
           NEW b \in 1..Len(content), content[b] = Texts!Piece("begin", l),
           NEW e \in 1..Len(content), content[e] = Texts!Piece("end", l)
    PROVE  /\ Texts!Spliced(content, l, t) \in Seq(Texts!Pieces)
           /\ Len(Texts!Spliced(content, l, t)) = b + 1 + (Len(content) - e + 1)
           /\ \A i \in 1..b : Texts!Spliced(content, l, t)[i] = content[i]
           /\ Texts!Spliced(content, l, t)[b + 1] = Texts!Piece("rows", t)
           /\ \A i \in (b + 2)..(b + 1 + (Len(content) - e + 1)) :
                  Texts!Spliced(content, l, t)[i] = content[i - b - 2 + e]
<1> DEFINE P == Texts!Pieces
           n == Len(content)
           s1 == SubSeq(content, 1, b)
           s2 == <<Texts!Piece("rows", t)>>
           s3 == SubSeq(content, e, n)
<1>1. /\ Texts!IndexOf(content, Texts!Piece("begin", l)) = b
      /\ Texts!IndexOf(content, Texts!Piece("end", l)) = e
  BY PlaceOf
<1>2. Texts!Spliced(content, l, t) = s1 \o s2 \o s3
  BY <1>1 DEF Texts!Spliced
<1>3. n \in Nat /\ \A i \in 1..n : content[i] \in P
  BY LenProperties, ElementOfSeq DEF Framed
<1> HIDE DEF n
<1>4. 1 \in Int /\ b \in Int /\ e \in Int /\ n \in Int /\ 1 <= b /\ b <= n /\ 1 <= e /\ e <= n
  BY <1>3 DEF n
<1>5. /\ s1 \in Seq(P) /\ Len(s1) = b
      /\ \A i \in 1..b : s1[i] = content[i]
  <2>1. \A i \in 1..b : content[i] \in P
    BY <1>3, <1>4
  <2>2. /\ s1 \in Seq(P)
        /\ Len(s1) = IF 1 <= b THEN b - 1 + 1 ELSE 0
        /\ \A i \in 1..(b - 1 + 1) : s1[i] = content[1 + i - 1]
    <3> HIDE DEF P
    <3> QED
      BY <1>4, <2>1, SubSeqProperties
  <2> HIDE DEF s1
  <2>3. b - 1 + 1 = b /\ \A i \in 1..b : 1 + i - 1 = i
    BY <1>4
  <2> QED
    BY <1>4, <2>2, <2>3
<1>6. /\ s3 \in Seq(P) /\ Len(s3) = n - e + 1
      /\ \A i \in 1..(n - e + 1) : s3[i] = content[e + i - 1]
  <2>1. \A i \in e..n : content[i] \in P
    BY <1>3, <1>4
  <2>2. /\ s3 \in Seq(P)
        /\ Len(s3) = IF e <= n THEN n - e + 1 ELSE 0
        /\ \A i \in 1..(n - e + 1) : s3[i] = content[e + i - 1]
    <3> HIDE DEF P
    <3> QED
      BY <1>4, <2>1, SubSeqProperties
  <2> HIDE DEF s3
  <2> QED
    BY <1>4, <2>2
<1>7. s2 \in Seq(P) /\ Len(s2) = 1 /\ s2[1] = Texts!Piece("rows", t)
  BY FitsRows
<1> HIDE DEF s1, s2, s3, P
<1> DEFINE s4 == s1 \o s2
           m == b + 1
<1>8. /\ s4 \in Seq(P) /\ Len(s4) = m
      /\ \A i \in 1..b : s4[i] = content[i]
      /\ s4[m] = Texts!Piece("rows", t)
  <2>1. /\ s4 \in Seq(P) /\ Len(s4) = Len(s1) + Len(s2)
        /\ \A i \in 1..(Len(s1) + Len(s2)) :
               s4[i] = IF i <= Len(s1) THEN s1[i] ELSE s2[i - Len(s1)]
    BY <1>5, <1>7, ConcatProperties
  <2>2. /\ s4 \in Seq(P) /\ Len(s4) = m
        /\ \A i \in 1..m : s4[i] = IF i <= b THEN s1[i] ELSE s2[i - b]
    BY <1>5, <1>7, <2>1
  <2> HIDE DEF s4
  <2>3. m - b = 1 /\ m \in 1..m /\ ~ (m <= b)
    BY <1>4
  <2>4. s4[m] = s2[1]
    BY <2>2, <2>3
  <2>5. ASSUME NEW i \in 1..b PROVE s4[i] = s1[i]
    <3>1. i \in 1..m /\ i <= b
      BY <1>4
    <3> QED
      BY <2>2, <3>1
  <2> QED
    BY <1>5, <1>7, <2>2, <2>4, <2>5
<1> HIDE DEF s4
<1>9. /\ s4 \o s3 \in Seq(P) /\ Len(s4 \o s3) = m + (n - e + 1)
      /\ \A i \in 1..(m + (n - e + 1)) :
             (s4 \o s3)[i] = IF i <= m THEN s4[i] ELSE s3[i - m]
  <2>1. s4 \in Seq(P) /\ Len(s4) = m
    BY <1>8
  <2>2. /\ s4 \o s3 \in Seq(P) /\ Len(s4 \o s3) = Len(s4) + Len(s3)
        /\ \A i \in 1..(Len(s4) + Len(s3)) :
               (s4 \o s3)[i] = IF i <= Len(s4) THEN s4[i] ELSE s3[i - Len(s4)]
    BY <1>6, <2>1, ConcatProperties
  <2> QED
    BY <1>6, <2>1, <2>2
<1>10. \A i \in 1..b : (s4 \o s3)[i] = content[i]
  <2>1. \A i \in 1..b : i \in 1..(m + (n - e + 1)) /\ i <= m
    BY <1>4
  <2>2. \A i \in 1..b : s4[i] = content[i]
    BY <1>8
  <2> QED
    BY <1>9, <2>1, <2>2
<1>11. (s4 \o s3)[b + 1] = Texts!Piece("rows", t)
  <2>1. m \in 1..(m + (n - e + 1)) /\ m <= m
    BY <1>4
  <2>2. s4[m] = Texts!Piece("rows", t)
    BY <1>8
  <2> QED
    BY <1>9, <2>1, <2>2
<1>12. \A i \in (b + 2)..(m + (n - e + 1)) : (s4 \o s3)[i] = content[i - b - 2 + e]
  <2>1. SUFFICES ASSUME NEW i \in (b + 2)..(m + (n - e + 1))
                 PROVE  (s4 \o s3)[i] = content[i - b - 2 + e]
    OBVIOUS
  <2>2. i \in 1..(m + (n - e + 1)) /\ ~ (i <= m) /\ i - m \in 1..(n - e + 1)
    BY <1>4
  <2>3. (s4 \o s3)[i] = s3[i - m]
    BY <1>9, <2>2
  <2>4. e + (i - m) - 1 = i - b - 2 + e
    BY <1>4
  <2> QED
    BY <1>6, <2>2, <2>3, <2>4
<1> QED
  BY <1>2, <1>9, <1>10, <1>11, <1>12 DEF s4, n, P

LEMMA SplicedFramed ==
    ASSUME NEW content, NEW at, Framed(content, at), NEW l \in Layers, NEW t \in Rows,
           Texts!HasMarkers(content, l)
    PROVE  \E new : Framed(Texts!Spliced(content, l, t), new)
<1> DEFINE b == Texts!IndexOf(content, Texts!Piece("begin", l))
           e == Texts!IndexOf(content, Texts!Piece("end", l))
           n == Len(content)
           s == Texts!Spliced(content, l, t)
           new == [i \in 1..Len(s) |-> IF i <= b THEN at[i]
                                       ELSE IF i = b + 1 THEN Open(l) + 1 ELSE at[i - b - 2 + e]]
<1>1. /\ b \in 1..n /\ e \in 1..n
      /\ content[b] = Texts!Piece("begin", l) /\ content[e] = Texts!Piece("end", l)
      /\ at[b] = Open(l) /\ at[e] = Open(l) + 2
      /\ e = b + 1 \/ e = b + 2
  BY Frame
<1>2. /\ n \in Nat /\ at \in [1..n -> 1..9]
      /\ \A i \in 1..n : Fits(content[i], at[i])
      /\ \A i, j \in 1..n : i < j => at[i] < at[j]
  BY LenProperties DEF Framed
<1> HIDE DEF b, e
<1>3. /\ s \in Seq(Texts!Pieces) /\ Len(s) = b + 1 + (n - e + 1)
      /\ \A i \in 1..b : s[i] = content[i]
      /\ s[b + 1] = Texts!Piece("rows", t)
      /\ \A i \in (b + 2)..(b + 1 + (n - e + 1)) : s[i] = content[i - b - 2 + e]
  BY <1>1, SplicedIs
<1> HIDE DEF n, s
<1>4. \A i \in 1..Len(s) :
          \/ i \in 1..b /\ i \in 1..n
          \/ i = b + 1
          \/ i \in (b + 2)..(b + 1 + (n - e + 1)) /\ i - b - 2 + e \in 1..n /\ e <= i - b - 2 + e
  <2>1. SUFFICES ASSUME NEW i \in 1..(b + 1 + (n - e + 1))
                 PROVE  \/ i <= b \/ i = b + 1
                        \/ /\ b + 2 <= i /\ 1 <= i - b - 2 + e /\ i - b - 2 + e <= n
                           /\ e <= i - b - 2 + e
    BY <1>1, <1>2, <1>3
  <2> QED
    BY <1>1, <1>2
<1>5. Open(l) + 1 \in 1..9
  BY DEF Open
<1>6. \A i \in 1..Len(s) :
          new[i] = IF i <= b THEN at[i] ELSE IF i = b + 1 THEN Open(l) + 1 ELSE at[i - b - 2 + e]
  OBVIOUS
<1>7. new \in [1..Len(s) -> 1..9]
  <2>1. \A i \in 1..Len(s) :
            (IF i <= b THEN at[i] ELSE IF i = b + 1 THEN Open(l) + 1 ELSE at[i - b - 2 + e]) \in 1..9
    BY <1>1, <1>2, <1>4, <1>5
  <2> QED
    BY <2>1
<1> HIDE DEF new
<1>8. ASSUME NEW i \in 1..Len(s) PROVE Fits(s[i], new[i])
  <2>1. CASE i \in 1..b /\ i \in 1..n
    <3>1. i <= b
      BY <1>1, <1>2, <2>1
    <3>2. new[i] = at[i] /\ s[i] = content[i]
      BY <1>3, <1>6, <2>1, <3>1
    <3> QED
      BY <1>2, <2>1, <3>2
  <2>2. CASE i = b + 1
    <3>1. new[i] = Open(l) + 1
      BY <1>1, <1>6, <2>2
    <3> QED
      BY <1>3, <2>2, <3>1, FitsRows
  <2>3. CASE i \in (b + 2)..(b + 1 + (n - e + 1)) /\ i - b - 2 + e \in 1..n
    <3>1. new[i] = at[i - b - 2 + e]
      BY <1>1, <1>6, <2>3
    <3>2. s[i] = content[i - b - 2 + e]
      BY <1>3, <2>3
    <3> QED
      BY <1>2, <2>3, <3>1, <3>2
  <2> QED
    BY <1>4, <2>1, <2>2, <2>3
<1>9. ASSUME NEW i \in 1..Len(s), NEW j \in 1..Len(s), i < j PROVE new[i] < new[j]
  <2>1. Open(l) \in Nat /\ \A k \in 1..n : at[k] \in 1..9
    BY <1>2 DEF Open
  <2>2. \A k \in 1..n : k <= b => at[k] <= Open(l)
    <3>1. ASSUME NEW k \in 1..n, k <= b PROVE at[k] <= Open(l)
      <4>1. k < b => at[k] < at[b]
        BY <1>1, <1>2
      <4>2. k = b \/ k < b
        BY <1>1, <1>2, <3>1
      <4>3. at[k] \in 1..9 /\ at[b] = Open(l)
        BY <1>1, <2>1
      <4> QED
        BY <2>1, <4>1, <4>2, <4>3
    <3> QED
      BY <3>1
  <2>3. \A k \in 1..n : k >= e => at[k] >= Open(l) + 2
    <3>1. ASSUME NEW k \in 1..n, k >= e PROVE at[k] >= Open(l) + 2
      <4>1. e < k => at[e] < at[k]
        BY <1>1, <1>2
      <4>2. k = e \/ e < k
        BY <1>1, <1>2, <3>1
      <4>3. at[k] \in 1..9 /\ at[e] = Open(l) + 2
        BY <1>1, <2>1
      <4> QED
        BY <2>1, <4>1, <4>2, <4>3
    <3> QED
      BY <3>1
  <2>4. CASE j \in 1..b
    <3>1. i \in 1..n /\ j \in 1..n /\ i <= b /\ j <= b
      BY <1>1, <1>2, <1>9, <2>4
    <3>2. new[i] = at[i] /\ new[j] = at[j]
      BY <1>6, <3>1
    <3> QED
      BY <1>2, <1>9, <3>1, <3>2
  <2>5. CASE j = b + 1
    <3>1. i \in 1..n /\ i <= b
      BY <1>1, <1>2, <1>9, <2>5
    <3>2. new[i] = at[i] /\ new[j] = Open(l) + 1
      BY <1>1, <1>6, <2>5, <3>1
    <3>3. at[i] \in 1..9 /\ at[i] <= Open(l)
      BY <2>1, <2>2, <3>1
    <3> QED
      BY <2>1, <3>2, <3>3
  <2>6. CASE j \in (b + 2)..(b + 1 + (n - e + 1)) /\ j - b - 2 + e \in 1..n /\ e <= j - b - 2 + e
    <3>1. new[j] = at[j - b - 2 + e] /\ at[j - b - 2 + e] \in 1..9 /\ at[j - b - 2 + e] >= Open(l) + 2
      BY <1>1, <1>6, <2>1, <2>3, <2>6
    <3>2. CASE i \in 1..b /\ i \in 1..n
      <4>1. new[i] = at[i] /\ at[i] \in 1..9 /\ at[i] <= Open(l)
        BY <1>6, <2>1, <2>2, <3>2
      <4> QED
        <5>1. at[i] < at[j - b - 2 + e]
          BY <2>1, <3>1, <4>1, SMTT(30)
        <5> QED
          BY <3>1, <4>1, <5>1
    <3>3. CASE i = b + 1
      <4>1. new[i] = Open(l) + 1
        BY <1>1, <1>6, <3>3
      <4> QED
        BY <2>1, <3>1, <4>1
    <3>4. CASE i \in (b + 2)..(b + 1 + (n - e + 1)) /\ i - b - 2 + e \in 1..n
      <4>1. new[i] = at[i - b - 2 + e]
        BY <1>1, <1>6, <3>4
      <4>2. i - b - 2 + e < j - b - 2 + e
        BY <1>1, <1>9, <2>6, <3>4
      <4> QED
        BY <1>2, <2>6, <3>1, <3>4, <4>1, <4>2
    <3> QED
      BY <1>4, <3>2, <3>3, <3>4
  <2> QED
    BY <1>4, <2>4, <2>5, <2>6
<1>10. Framed(s, new)
  BY <1>3, <1>7, <1>8, <1>9 DEF Framed
<1> QED
  BY <1>10 DEF s

\* The layer of the program lists its table, and only it.
LEMMA SplicedLists ==
    ASSUME NEW content, NEW at, Framed(content, at), NEW l \in Layers, NEW t \in Rows,
           Texts!HasMarkers(content, l)
    PROVE  /\ Texts!HasMarkers(Texts!Spliced(content, l, t), l)
           /\ Texts!Listed(Texts!Spliced(content, l, t), l) = Only(t)
<1> DEFINE b == Texts!IndexOf(content, Texts!Piece("begin", l))
           e == Texts!IndexOf(content, Texts!Piece("end", l))
           n == Len(content)
           s == Texts!Spliced(content, l, t)
<1>1. /\ b \in 1..n /\ e \in 1..n
      /\ content[b] = Texts!Piece("begin", l) /\ content[e] = Texts!Piece("end", l)
  BY Frame
<1>2. n \in Nat
  BY LenProperties DEF Framed
<1> HIDE DEF b, e
<1>3. /\ Len(s) = b + 1 + (n - e + 1)
      /\ \A i \in 1..b : s[i] = content[i]
      /\ s[b + 1] = Texts!Piece("rows", t)
      /\ \A i \in (b + 2)..(b + 1 + (n - e + 1)) : s[i] = content[i - b - 2 + e]
  BY <1>1, SplicedIs
<1>4. PICK new : Framed(s, new)
  BY SplicedFramed
<1> HIDE DEF n, s
<1>5. /\ b \in 1..Len(s) /\ b + 2 \in 1..Len(s)
      /\ b \in 1..b /\ b + 2 \in (b + 2)..(b + 1 + (n - e + 1)) /\ b + 2 - b - 2 + e = e
  <2>1. b \in 1..n /\ e \in 1..n /\ n \in Nat /\ Len(s) = b + 1 + (n - e + 1)
    BY <1>1, <1>2, <1>3
  <2>2. b + 1 + (n - e + 1) >= b + 2
    BY <2>1
  <2>3. b \in 1..Len(s) /\ b + 2 \in 1..Len(s)
    BY <2>1, <2>2
  <2> QED
    BY <2>1, <2>2, <2>3
<1>6. s[b] = Texts!Piece("begin", l) /\ s[b + 2] = Texts!Piece("end", l)
  BY <1>1, <1>3, <1>5
<1>7. /\ Texts!IndexOf(s, Texts!Piece("begin", l)) = b
      /\ Texts!IndexOf(s, Texts!Piece("end", l)) = b + 2
  BY <1>4, <1>5, <1>6, PlaceOf
<1>8. Texts!HasMarkers(s, l)
  BY <1>1, <1>7 DEF Texts!HasMarkers
<1>9. Texts!Listed(s, l) = Only(t)
  <2> DEFINE z == b + 2
  <2>1. z = b + 2 /\ z \in 1..Len(s) /\ s[z] = Texts!Piece("end", l)
    BY <1>5, <1>6
  <2> HIDE DEF z
  <2>2. b \in 1..Len(s) /\ s[b] = Texts!Piece("begin", l)
    BY <1>5, <1>6
  <2>3. Texts!Listed(s, l) = Only(t) <=> z = b + 2 /\ s[b + 1] = Texts!Piece("rows", t)
    BY <1>4, <2>1, <2>2, ListedIs
  <2> QED
    BY <1>3, <2>1, <2>3
<1> QED
  BY <1>8, <1>9 DEF s

\* The table of the other layer stays what it was.
LEMMA SplicedSpares ==
    ASSUME NEW content, NEW at, Framed(content, at), NEW l \in Layers, NEW t \in Rows,
           Texts!HasMarkers(content, l),
           NEW k \in Layers, k # l, NEW u,
           Texts!HasMarkers(content, k), Texts!Listed(content, k) = Only(u)
    PROVE  /\ Texts!HasMarkers(Texts!Spliced(content, l, t), k)
           /\ Texts!Listed(Texts!Spliced(content, l, t), k) = Only(u)
<1> DEFINE b == Texts!IndexOf(content, Texts!Piece("begin", l))
           e == Texts!IndexOf(content, Texts!Piece("end", l))
           c == Texts!IndexOf(content, Texts!Piece("begin", k))
           d == Texts!IndexOf(content, Texts!Piece("end", k))
           n == Len(content)
           s == Texts!Spliced(content, l, t)
<1>1. /\ b \in 1..n /\ e \in 1..n
      /\ content[b] = Texts!Piece("begin", l) /\ content[e] = Texts!Piece("end", l)
      /\ at[b] = Open(l) /\ at[e] = Open(l) + 2
      /\ e = b + 1 \/ e = b + 2
  BY Frame
<1>2. /\ c \in 1..n /\ d \in 1..n
      /\ content[c] = Texts!Piece("begin", k) /\ content[d] = Texts!Piece("end", k)
      /\ at[c] = Open(k) /\ at[d] = Open(k) + 2
  BY Frame
<1>3. /\ n \in Nat /\ at \in [1..n -> 1..9]
      /\ \A i, j \in 1..n : i < j => at[i] < at[j]
  BY LenProperties DEF Framed
<1> HIDE DEF b, e, c, d
<1>4. /\ Len(s) = b + 1 + (n - e + 1)
      /\ \A i \in 1..b : s[i] = content[i]
      /\ \A i \in (b + 2)..(b + 1 + (n - e + 1)) : s[i] = content[i - b - 2 + e]
  <2>1. n = Len(content) /\ s = Texts!Spliced(content, l, t)
    OBVIOUS
  <2> HIDE DEF n, s
  <2>2. /\ Len(Texts!Spliced(content, l, t)) = b + 1 + (Len(content) - e + 1)
        /\ \A i \in 1..b : Texts!Spliced(content, l, t)[i] = content[i]
        /\ \A i \in (b + 2)..(b + 1 + (Len(content) - e + 1)) :
               Texts!Spliced(content, l, t)[i] = content[i - b - 2 + e]
    <3>1. /\ b \in 1..Len(content) /\ content[b] = Texts!Piece("begin", l)
          /\ e \in 1..Len(content) /\ content[e] = Texts!Piece("end", l)
      BY <1>1, <2>1
    <3> QED
      BY <3>1, SplicedIs, ZenonT(30)
  <2> QED
    BY <2>1, <2>2, SMTT(30)
<1>5. PICK new : Framed(s, new)
  BY SplicedFramed
<1>6. d = c + 2 /\ content[c + 1] = Texts!Piece("rows", u)
  BY <1>2, ListedIs
<1> HIDE DEF n, s
<1>7. d < b \/ e < c
  <2>1. CASE l = "audit"
    <3>1. at[e] = 4 /\ at[c] = 6
      BY <1>1, <1>2, <2>1 DEF Open, Layers
    <3>2. ~ (at[c] < at[e]) /\ at[c] # at[e]
      BY <3>1
    <3>3. ~ (c < e) /\ c # e
      BY <1>1, <1>2, <1>3, <3>2
    <3> QED
      BY <1>1, <1>2, <1>3, <3>3
  <2>2. CASE l = "expression"
    <3>1. at[d] = 4 /\ at[b] = 6
      BY <1>1, <1>2, <2>2 DEF Open, Layers
    <3>2. ~ (at[b] < at[d]) /\ at[b] # at[d]
      BY <3>1
    <3>3. ~ (b < d) /\ b # d
      BY <1>1, <1>2, <1>3, <3>2
    <3> QED
      BY <1>1, <1>2, <1>3, <3>3
  <2> QED
    BY <2>1, <2>2 DEF Layers
\* Where the begin marker is now.
<1> DEFINE p == IF d < b THEN c ELSE c - e + b + 2
           q == p + 2
<1>8. /\ p \in 1..Len(s) /\ q \in 1..Len(s) /\ q = p + 2
      /\ s[p] = content[c] /\ s[p + 1] = content[c + 1] /\ s[q] = content[d]
  <2>1. CASE d < b
    <3>1. /\ p = c /\ p \in 1..Len(s) /\ q \in 1..Len(s)
          /\ c \in 1..b /\ c + 1 \in 1..b /\ c + 2 \in 1..b
      BY <1>1, <1>2, <1>3, <1>4, <1>6, <2>1
    <3> QED
      BY <1>4, <1>6, <3>1
  <2>2. CASE ~ (d < b)
    <3>1. p = c - e + b + 2
      BY <2>2
    <3> HIDE DEF p
    <3>2. /\ p \in (b + 2)..(b + 1 + (n - e + 1)) /\ p - b - 2 + e = c
          /\ p + 1 \in (b + 2)..(b + 1 + (n - e + 1)) /\ p + 1 - b - 2 + e = c + 1
          /\ p + 2 \in (b + 2)..(b + 1 + (n - e + 1)) /\ p + 2 - b - 2 + e = d
          /\ p >= 1
      BY <1>1, <1>2, <1>3, <1>6, <1>7, <2>2, <3>1
    <3>3. s[p] = content[c] /\ s[p + 1] = content[c + 1] /\ s[p + 2] = content[d]
      <4> DEFINE v == p + 1
                 w == p + 2
      <4>1. /\ p \in (b + 2)..(b + 1 + (n - e + 1)) /\ p - b - 2 + e = c
            /\ v \in (b + 2)..(b + 1 + (n - e + 1)) /\ v - b - 2 + e = c + 1
            /\ w \in (b + 2)..(b + 1 + (n - e + 1)) /\ w - b - 2 + e = d
        BY <1>1, <1>2, <1>3, <3>2
      <4>2. \A i \in (b + 2)..(b + 1 + (n - e + 1)) : s[i] = content[i - b - 2 + e]
        BY <1>4
      <4> HIDE DEF v, w
      <4>3. s[p] = content[c] /\ s[v] = content[c + 1] /\ s[w] = content[d]
        BY <4>1, <4>2
      <4> QED
        BY <4>3 DEF v, w
    <3>4. p \in 1..Len(s) /\ p + 2 \in 1..Len(s)
      BY <1>1, <1>3, <1>4, <3>2
    <3> QED
      BY <3>3, <3>4
  <2> QED
    BY <2>1, <2>2
<1> HIDE DEF p, q
<1>9. s[p] = Texts!Piece("begin", k) /\ s[q] = Texts!Piece("end", k)
  BY <1>2, <1>8
<1>10. /\ Texts!IndexOf(s, Texts!Piece("begin", k)) = p
       /\ Texts!IndexOf(s, Texts!Piece("end", k)) = q
  BY <1>5, <1>8, <1>9, PlaceOf
<1>11. Texts!HasMarkers(s, k)
  <2>1. p # 0 /\ q # 0
    BY <1>8
  <2> QED
    BY <1>10, <2>1 DEF Texts!HasMarkers
<1>12. Texts!Listed(s, k) = Only(u)
  <2>1. p \in 1..Len(s) /\ q \in 1..Len(s)
    BY <1>8
  <2>2. Texts!Listed(s, k) = Only(u) <=> q = p + 2 /\ s[p + 1] = Texts!Piece("rows", u)
    BY <1>5, <1>9, <2>1, ListedIs
  <2> QED
    BY <1>6, <1>8, <2>2
<1> QED
  BY <1>11, <1>12 DEF s

\* Of the text and the markers, nothing.
LEMMA KeptIs ==
    ASSUME NEW content \in Seq(Texts!Pieces), NEW x
    PROVE  /\ Absent \notin Seq(Texts!Pieces) => content # Absent
           /\ x \in Texts!Kept(content) <=>
                  \E i \in 1..Len(content) : \E j \in 1..Len(content) :
                      /\ content[i].kind # "rows" /\ content[j].kind # "rows"
                      /\ i <= j /\ x = <<content[i], content[j]>>
<1>1. content # Absent
  BY FilesAssumption
<1>2. DOMAIN content = 1..Len(content)
  BY LenProperties
<1> DEFINE others == {i \in DOMAIN content : content[i].kind # "rows"}
<1>3. Texts!Kept(content) =
          {<<content[p[1]], content[p[2]]>> : p \in {p \in others \X others : p[1] <= p[2]}}
  BY <1>1 DEF Texts!Kept
<1>4. ASSUME x \in Texts!Kept(content)
      PROVE  \E i \in 1..Len(content) : \E j \in 1..Len(content) :
                 /\ content[i].kind # "rows" /\ content[j].kind # "rows"
                 /\ i <= j /\ x = <<content[i], content[j]>>
  <2>1. PICK p \in others \X others : p[1] <= p[2] /\ x = <<content[p[1]], content[p[2]]>>
    BY <1>3, <1>4
  <2>2. p[1] \in others /\ p[2] \in others
    OBVIOUS
  <2> QED
    BY <1>2, <2>1, <2>2
<1>5. ASSUME NEW i \in 1..Len(content), NEW j \in 1..Len(content),
             content[i].kind # "rows", content[j].kind # "rows",
             i <= j, x = <<content[i], content[j]>>
      PROVE  x \in Texts!Kept(content)
  <2>1. <<i, j>> \in {p \in others \X others : p[1] <= p[2]}
    BY <1>2, <1>5
  <2>2. x = <<content[<<i, j>>[1]], content[<<i, j>>[2]]>>
    BY <1>5
  <2> QED
    BY <1>3, <2>1, <2>2
<1> QED
  BY <1>1, <1>4, <1>5

LEMMA SplicedKeeps ==
    ASSUME NEW content, NEW at, Framed(content, at), NEW l \in Layers, NEW t \in Rows,
           Texts!HasMarkers(content, l)
    PROVE  Texts!Kept(Texts!Spliced(content, l, t)) = Texts!Kept(content)
<1> DEFINE b == Texts!IndexOf(content, Texts!Piece("begin", l))
           e == Texts!IndexOf(content, Texts!Piece("end", l))
           n == Len(content)
           s == Texts!Spliced(content, l, t)
           m == b + 1 + (n - e + 1)
<1>1. /\ b \in 1..n /\ e \in 1..n
      /\ content[b] = Texts!Piece("begin", l) /\ content[e] = Texts!Piece("end", l)
      /\ e = b + 1 \/ e = b + 2
      /\ \A i \in 1..n : b < i /\ i < e => content[i].kind = "rows"
  BY Frame
<1>2. n \in Nat
  BY LenProperties DEF Framed
<1> HIDE DEF b, e
<1>3. /\ s \in Seq(Texts!Pieces) /\ Len(s) = m
      /\ \A i \in 1..b : s[i] = content[i]
      /\ s[b + 1] = Texts!Piece("rows", t)
      /\ \A i \in (b + 2)..m : s[i] = content[i - b - 2 + e]
  BY <1>1, SplicedIs
<1>4. content \in Seq(Texts!Pieces)
  BY DEF Framed
<1> HIDE DEF n, s
<1>5. Texts!Piece("rows", t).kind = "rows"
  BY DEF Texts!Piece
\* Where a piece of the content is in what is written, and back.
<1> DEFINE To(i) == IF i <= b THEN i ELSE i - e + b + 2
           Back(i) == IF i <= b THEN i ELSE i - b - 2 + e
<1>6. ASSUME NEW i \in 1..n, content[i].kind # "rows"
      PROVE  To(i) \in 1..m /\ s[To(i)] = content[i]
  <2>1. CASE i <= b
    <3>1. To(i) = i /\ i \in 1..b /\ i \in 1..m
      BY <1>1, <1>2, <2>1
    <3> HIDE DEF To
    <3> QED
      BY <1>3, <3>1
  <2>2. CASE e <= i
    <3>1. /\ To(i) = i - e + b + 2 /\ To(i) \in (b + 2)..m /\ To(i) \in 1..m
          /\ To(i) - b - 2 + e = i
      BY <1>1, <1>2, <2>2
    <3> HIDE DEF To
    <3> QED
      BY <1>3, <3>1
  <2> QED
    BY <1>1, <1>6, <2>1, <2>2
<1>7. ASSUME NEW i \in 1..m, s[i].kind # "rows"
      PROVE  Back(i) \in 1..n /\ content[Back(i)] = s[i]
  <2>1. CASE i <= b
    <3>1. Back(i) = i /\ i \in 1..b /\ i \in 1..n
      BY <1>1, <1>2, <2>1
    <3> HIDE DEF Back
    <3> QED
      BY <1>3, <3>1
  <2>2. CASE i = b + 1
    BY <1>3, <1>5, <1>7, <2>2
  <2>3. CASE b + 2 <= i
    <3>1. /\ Back(i) = i - b - 2 + e /\ i \in (b + 2)..m /\ Back(i) \in 1..n
      BY <1>1, <1>2, <2>3
    <3> HIDE DEF Back
    <3> QED
      BY <1>3, <3>1
  <2>4. i <= b \/ i = b + 1 \/ b + 2 <= i
    BY <1>1, <1>2
  <2> HIDE DEF Back
  <2> QED
    BY <2>1, <2>2, <2>3, <2>4
<1>8. /\ \A i, j \in 1..n : i <= j /\ (i <= b \/ e <= i) /\ (j <= b \/ e <= j) => To(i) <= To(j)
      /\ \A i, j \in 1..m : i <= j /\ i # b + 1 /\ j # b + 1 => Back(i) <= Back(j)
  BY <1>1, <1>2
<1> HIDE DEF To, Back
<1>9. ASSUME NEW x, x \in Texts!Kept(content) PROVE x \in Texts!Kept(s)
  <2>1. PICK i \in 1..n : \E j \in 1..n :
            /\ content[i].kind # "rows" /\ content[j].kind # "rows"
            /\ i <= j /\ x = <<content[i], content[j]>>
    BY <1>4, <1>9, KeptIs DEF n
  <2>2. PICK j \in 1..n :
            /\ content[i].kind # "rows" /\ content[j].kind # "rows"
            /\ i <= j /\ x = <<content[i], content[j]>>
    BY <2>1
  <2>3. /\ To(i) \in 1..m /\ s[To(i)] = content[i]
        /\ To(j) \in 1..m /\ s[To(j)] = content[j]
    BY <1>6, <2>2
  <2>4. (i <= b \/ e <= i) /\ (j <= b \/ e <= j)
    BY <1>1, <2>2
  <2>5. To(i) <= To(j)
    BY <1>8, <2>2, <2>4
  <2> QED
    BY <1>3, <2>2, <2>3, <2>5, KeptIs
<1>10. ASSUME NEW x, x \in Texts!Kept(s) PROVE x \in Texts!Kept(content)
  <2>1. PICK i \in 1..m : \E j \in 1..m :
            /\ s[i].kind # "rows" /\ s[j].kind # "rows"
            /\ i <= j /\ x = <<s[i], s[j]>>
    BY <1>3, <1>10, KeptIs
  <2>2. PICK j \in 1..m :
            /\ s[i].kind # "rows" /\ s[j].kind # "rows"
            /\ i <= j /\ x = <<s[i], s[j]>>
    BY <2>1
  <2>3. /\ Back(i) \in 1..n /\ content[Back(i)] = s[i]
        /\ Back(j) \in 1..n /\ content[Back(j)] = s[j]
    BY <1>7, <2>2
  <2>4. i # b + 1 /\ j # b + 1
    BY <1>3, <1>5, <2>2
  <2>5. Back(i) <= Back(j)
    BY <1>8, <2>2, <2>4
  <2> QED
    BY <1>4, <2>2, <2>3, <2>5, KeptIs DEF n
<1>11. Texts!Kept(s) = Texts!Kept(content)
  BY <1>4, <1>9, <1>10
<1> QED
  BY <1>11 DEF s

LEMMA Written ==
    ASSUME NEW content \in Contents, NEW l \in Layers, NEW t \in Rows,
           Texts!HasMarkers(content, l)
    PROVE  /\ Texts!Spliced(content, l, t) \in Contents
           /\ Texts!HasMarkers(Texts!Spliced(content, l, t), l)
           /\ Texts!Listed(Texts!Spliced(content, l, t), l) = Only(t)
           /\ Texts!Kept(Texts!Spliced(content, l, t)) = Texts!Kept(content)
           /\ \A k \in Layers : \A u :
                  k # l /\ Texts!HasMarkers(content, k) /\ Texts!Listed(content, k) = Only(u)
                  => /\ Texts!HasMarkers(Texts!Spliced(content, l, t), k)
                     /\ Texts!Listed(Texts!Spliced(content, l, t), k) = Only(u)
<1>1. PICK at : Framed(content, at)
  BY DEF Contents
<1>2. PICK new : Framed(Texts!Spliced(content, l, t), new)
  BY <1>1, SplicedFramed
<1>3. Texts!Spliced(content, l, t) \in Contents
  BY <1>2 DEF Framed, Contents
<1>4. /\ Texts!HasMarkers(Texts!Spliced(content, l, t), l)
      /\ Texts!Listed(Texts!Spliced(content, l, t), l) = Only(t)
  BY <1>1, SplicedLists
<1>5. Texts!Kept(Texts!Spliced(content, l, t)) = Texts!Kept(content)
  BY <1>1, SplicedKeeps
<1>6. ASSUME NEW k \in Layers, NEW u, k # l, Texts!HasMarkers(content, k),
             Texts!Listed(content, k) = Only(u)
      PROVE  /\ Texts!HasMarkers(Texts!Spliced(content, l, t), k)
             /\ Texts!Listed(Texts!Spliced(content, l, t), k) = Only(u)
  BY <1>1, <1>6, SplicedSpares
<1> QED
  BY <1>3, <1>4, <1>5, <1>6

\* A piece less, or a beginning only.
LEMMA Begun ==
    ASSUME NEW content \in Contents, NEW n \in 0..Len(content)
    PROVE  SubSeq(content, 1, n) \in Contents
<1>1. PICK at : Framed(content, at)
  BY DEF Contents
<1>2. /\ Len(content) \in Nat /\ \A i \in 1..Len(content) : content[i] \in Texts!Pieces
  BY <1>1, LenProperties, ElementOfSeq DEF Framed
<1> DEFINE s == SubSeq(content, 1, n)
           P == Texts!Pieces
<1>3. /\ s \in Seq(P) /\ Len(s) = IF 1 <= n THEN n - 1 + 1 ELSE 0
      /\ \A i \in 1..(n - 1 + 1) : s[i] = content[1 + i - 1]
  <2>1. \A i \in 1..n : content[i] \in P
    BY <1>2
  <2>2. 1 \in Int /\ n \in Int
    BY <1>2
  <2> HIDE DEF P
  <2> QED
    BY <2>1, <2>2, SubSeqProperties
<1> HIDE DEF s, P
<1>4. n \in Nat /\ n <= Len(content)
  BY <1>2
<1>5. Len(s) = n
  BY <1>3, <1>4
<1>6. \A i \in 1..n : s[i] = content[i]
  <2>1. n - 1 + 1 = n /\ \A i \in 1..n : 1 + i - 1 = i
    BY <1>4
  <2> QED
    BY <1>3, <2>1
<1> DEFINE new == [i \in 1..n |-> at[i]]
<1>7. \A i \in 1..n : i \in 1..Len(content) /\ new[i] = at[i]
  BY <1>2, <1>4
<1>8. new \in [1..n -> 1..9]
  BY <1>1, <1>7 DEF Framed
<1> HIDE DEF new
<1>9. Framed(s, new)
  BY <1>1, <1>3, <1>5, <1>6, <1>7, <1>8 DEF Framed, P
<1> QED
  BY <1>9 DEF Framed, Contents, s

LEMMA Lost ==
    ASSUME NEW content \in Contents, NEW k \in 1..Len(content)
    PROVE  SubSeq(content, 1, k - 1) \o SubSeq(content, k + 1, Len(content)) \in Contents
<1>1. PICK at : Framed(content, at)
  BY DEF Contents
<1> DEFINE n == Len(content)
           P == Texts!Pieces
           s1 == SubSeq(content, 1, k - 1)
           s2 == SubSeq(content, k + 1, n)
           s == s1 \o s2
<1>2. /\ n \in Nat /\ \A i \in 1..n : content[i] \in P
  BY <1>1, LenProperties, ElementOfSeq DEF Framed
<1> HIDE DEF n
<1>3. k \in Int /\ 1 <= k /\ k <= n
  BY <1>2 DEF n
<1>4. /\ s1 \in Seq(P) /\ Len(s1) = IF 1 <= k - 1 THEN k - 1 - 1 + 1 ELSE 0
      /\ \A i \in 1..(k - 1 - 1 + 1) : s1[i] = content[1 + i - 1]
  <2>1. \A i \in 1..(k - 1) : content[i] \in P
    BY <1>2, <1>3
  <2>2. 1 \in Int /\ k - 1 \in Int
    BY <1>3
  <2> HIDE DEF P
  <2> QED
    BY <2>1, <2>2, SubSeqProperties
<1>5. /\ s2 \in Seq(P) /\ Len(s2) = IF k + 1 <= n THEN n - (k + 1) + 1 ELSE 0
      /\ \A i \in 1..(n - (k + 1) + 1) : s2[i] = content[k + 1 + i - 1]
  <2>1. \A i \in (k + 1)..n : content[i] \in P
    BY <1>2, <1>3
  <2>2. k + 1 \in Int /\ n \in Int
    BY <1>2, <1>3
  <2> HIDE DEF P
  <2> QED
    BY <2>1, <2>2, SubSeqProperties
<1> HIDE DEF s1, s2, P
<1>6. Len(s1) = k - 1 /\ \A i \in 1..(k - 1) : s1[i] = content[i]
  <2>1. k - 1 - 1 + 1 = k - 1 /\ \A i \in 1..(k - 1) : 1 + i - 1 = i
    BY <1>3
  <2> QED
    BY <1>3, <1>4, <2>1
<1>7. Len(s2) = n - k /\ \A i \in 1..(n - k) : s2[i] = content[k + i]
  <2>1. n - (k + 1) + 1 = n - k /\ \A i \in 1..(n - k) : k + 1 + i - 1 = k + i
    BY <1>2, <1>3
  <2>2. k + 1 <= n \/ n - k = 0
    BY <1>2, <1>3
  <2> QED
    BY <1>2, <1>3, <1>5, <2>1, <2>2
<1>8. /\ s \in Seq(P) /\ Len(s) = Len(s1) + Len(s2)
      /\ \A i \in 1..(Len(s1) + Len(s2)) : s[i] = IF i <= Len(s1) THEN s1[i] ELSE s2[i - Len(s1)]
  BY <1>4, <1>5, ConcatProperties
<1> HIDE DEF s
<1>9. Len(s1) + Len(s2) = n - 1
  BY <1>2, <1>3, <1>6, <1>7
\* Where a piece was.
<1> DEFINE From(i) == IF i < k THEN i ELSE i + 1
<1>10. ASSUME NEW i \in 1..(n - 1) PROVE From(i) \in 1..n /\ s[i] = content[From(i)]
  <2>1. s[i] = IF i <= k - 1 THEN s1[i] ELSE s2[i - (k - 1)]
    BY <1>6, <1>8, <1>9
  <2>2. CASE i < k
    <3>1. i <= k - 1 /\ i \in 1..(k - 1) /\ i \in 1..n
      BY <1>2, <1>3, <2>2
    <3> QED
      BY <1>6, <2>1, <2>2, <3>1
  <2>3. CASE ~ (i < k)
    <3>1. /\ ~ (i <= k - 1) /\ i - (k - 1) \in 1..(n - k) /\ k + (i - (k - 1)) = i + 1
          /\ i + 1 \in 1..n
      BY <1>2, <1>3, <2>3
    <3>2. s2[i - (k - 1)] = content[k + (i - (k - 1))]
      BY <1>7, <3>1
    <3> QED
      BY <2>1, <2>3, <3>1, <3>2
  <2> QED
    BY <2>2, <2>3
<1>11. \A i, j \in 1..(n - 1) : i < j => From(i) < From(j)
  BY <1>2, <1>3
<1> HIDE DEF From
<1> DEFINE new == [i \in 1..(n - 1) |-> at[From(i)]]
<1>12. \A i \in 1..(n - 1) : new[i] = at[From(i)]
  OBVIOUS
<1>13. new \in [1..(n - 1) -> 1..9]
  BY <1>1, <1>10 DEF Framed, n
<1> HIDE DEF new
<1>14. \A i \in 1..(n - 1) : Fits(s[i], new[i])
  BY <1>1, <1>10, <1>12 DEF Framed, n
<1>15. \A i, j \in 1..(n - 1) : i < j => new[i] < new[j]
  BY <1>1, <1>10, <1>11, <1>12 DEF Framed, n
<1>16. Framed(s, new)
  BY <1>8, <1>9, <1>13, <1>14, <1>15 DEF Framed, P
<1> QED
  BY <1>16 DEF Framed, Contents, s, s1, s2, n

LEMMA Whole ==
    ASSUME NEW tables \in [Layers -> Rows]
    PROVE  Texts!Document(tables) \in Contents
<1> DEFINE d == Texts!Document(tables)
           at == [i \in 1..9 |-> i]
<1>1. tables["audit"] \in Rows /\ tables["expression"] \in Rows
  BY DEF Layers
<1>2. d \in Seq(Texts!Pieces) /\ Len(d) = 9
  BY <1>1 DEF Texts!Document, Texts!Piece, Texts!Pieces, Texts!Layers
<1>3. \A i \in 1..9 : Fits(d[i], i)
  BY <1>1 DEF Texts!Document, Fits, Open, Layers
<1>4. Framed(d, at)
  BY <1>2, <1>3 DEF Framed
<1> QED
  BY <1>2, <1>4 DEF Contents

-----------------------------------------------------------------------------
(***************************************************************************)
(* What the steps of the programs and of the job leave behind.             *)
(***************************************************************************)
FilesType ==
    /\ main \in [1..2 -> Contents \cup {Absent}]
    /\ work \in [1..2 -> Contents \cup {Absent}]
    /\ rows \in [Layers -> Rows]
    /\ run \in Texts!Runs \cup {None}
    /\ step \in {"none", "checkout", "audit", "between", "expression", "commit"}
    /\ last.layer \in Layers

UpToDate(f, l) ==
    work[f] # Absent =>
        Texts!HasMarkers(work[f], l) /\ Texts!Listed(work[f], l) = Only(rows[l])

SameText(f) ==
    /\ work[f] = Absent <=> main[f] = Absent
    /\ Texts!Kept(work[f]) = Texts!Kept(main[f])

RunInv ==
    /\ run.rows = rows[run.layer]
    /\ step \in {"none", run.layer}
    /\ run.file = 2 => UpToDate(1, run.layer)
    /\ run.stage = "write" => /\ run.content = work[run.file]
                              /\ work[run.file] # Absent
                              /\ Texts!HasMarkers(work[run.file], run.layer)

JobInv ==
    /\ step # "none" => \A f \in 1..2 : SameText(f)
    /\ step \in {"between", "expression", "commit"} => \A f \in 1..2 : UpToDate(f, "audit")
    /\ step = "commit" => \A f \in 1..2 : UpToDate(f, "expression")

FilesInv ==
    /\ FilesType
    /\ run = None => step \in {"none", "checkout", "between", "commit"}
    /\ run # None => RunInv
    /\ run = None /\ step # "checkout" /\ last.exit = "ok" =>
           \A f \in 1..2 : UpToDate(f, last.layer)
    /\ JobInv

LEMMA ContentsNotAbsent == Absent \notin Contents
BY FilesAssumption DEF Contents

LEMMA SameLayers == Texts!Layers = Layers
BY DEF Texts!Layers, Layers

LEMMA FilesInit == Texts!Init => FilesInv
<1> SUFFICES ASSUME Texts!Init PROVE FilesInv
  OBVIOUS
<1>1. PICK t \in Rows : main = [f \in 1..2 |-> Texts!Document([l \in Texts!Layers |-> t])]
  BY DEF Texts!Init
<1>2. Texts!Document([l \in Texts!Layers |-> t]) \in Contents
  BY Whole, SameLayers
<1>3. main \in [1..2 -> Contents \cup {Absent}]
  BY <1>1, <1>2
<1>4. /\ work = main /\ rows \in [Layers -> Rows] /\ run = None /\ step = "none"
      /\ last = [layer |-> "audit", exit |-> "none"]
  BY SameLayers DEF Texts!Init
<1>5. last.layer \in Layers /\ last.exit = "none"
  BY <1>4 DEF Layers
<1>6. FilesType
  BY <1>3, <1>4, <1>5 DEF FilesType
<1> QED
  BY <1>4, <1>5, <1>6 DEF FilesInv, JobInv

\* The end of a program, whatever it wrote with its last step.
LEMMA EndedKeeps ==
    ASSUME FilesInv, run # None, NEW exit, Texts!Ended(exit),
           main' = main, rows' = rows,
           work' \in [1..2 -> Contents \cup {Absent}],
           exit = "ok" =>
               /\ \A f \in 1..2 : \A l : l = run.layer => UpToDate(f, l)'
               /\ step # "none" => \A f \in 1..2 : SameText(f)'
               /\ step = "expression" => \A f \in 1..2 : UpToDate(f, "audit")'
    PROVE  FilesInv'
<1>1. /\ run' = None /\ last' = [layer |-> run.layer, exit |-> exit]
      /\ step' = IF step = "none" \/ exit # "ok" THEN "none"
                 ELSE IF step = "audit" THEN "between" ELSE "commit"
  BY DEF Texts!Ended
<1>2. RunInv /\ run \in Texts!Runs
  BY DEF FilesInv, FilesType
<1>3. run.layer \in Layers
  BY <1>2, SameLayers DEF Texts!Runs
<1>4. last'.layer = run.layer /\ last'.exit = exit
  BY <1>1
<1>5. FilesType'
  BY <1>1, <1>3, <1>4 DEF FilesInv, FilesType
<1>6. step \in {"none", run.layer} /\ run.layer \in {"audit", "expression"}
  BY <1>2, <1>3 DEF RunInv, Layers
<1>7. exit = "ok" => \A f \in 1..2 : UpToDate(f, last.layer)'
  <2>1. \A f : UpToDate(f, last.layer)' <=> \A l : l = last'.layer => UpToDate(f, l)'
    BY DEF UpToDate
  <2> QED
    BY <1>4, <2>1
<1>8. JobInv'
  <2>1. CASE step = "none" \/ exit # "ok"
    BY <1>1, <2>1 DEF JobInv
  <2>2. CASE exit = "ok" /\ step = "audit"
    <3>1. run.layer = "audit" /\ step' = "between"
      BY <1>1, <1>6, <2>2
    <3>2. /\ \A f \in 1..2 : SameText(f)'
          /\ \A f \in 1..2 : UpToDate(f, "audit")'
      BY <2>2, <3>1
    <3> QED
      BY <3>1, <3>2 DEF JobInv
  <2>3. CASE exit = "ok" /\ step = "expression"
    <3>1. run.layer = "expression" /\ step' = "commit"
      BY <1>1, <1>6, <2>3
    <3>2. /\ \A f \in 1..2 : SameText(f)'
          /\ \A f \in 1..2 : UpToDate(f, "audit")'
          /\ \A f \in 1..2 : UpToDate(f, "expression")'
      BY <2>3, <3>1
    <3> QED
      BY <3>1, <3>2 DEF JobInv
  <2> QED
    BY <1>6, <2>1, <2>2, <2>3
<1>9. step' \in {"none", "checkout", "between", "commit"}
  BY <1>1
<1> QED
  BY <1>1, <1>4, <1>5, <1>7, <1>8, <1>9 DEF FilesInv

\* A write of the file that was read, with nothing in between.
LEMMA WriteKeeps ==
    ASSUME FilesInv, run # None, run.stage = "write", main' = main, rows' = rows,
           work' = [work EXCEPT ![run.file] = Texts!Spliced(run.content, run.layer, run.rows)]
    PROVE  /\ work' \in [1..2 -> Contents \cup {Absent}]
           /\ \A f, l : f = run.file /\ l = run.layer => UpToDate(f, l)'
           /\ \A f \in 1..2 : f # run.file => work'[f] = work[f]
           /\ \A f \in 1..2 : SameText(f) => SameText(f)'
           /\ run.layer = "expression" => \A f \in 1..2 : UpToDate(f, "audit") => UpToDate(f, "audit")'
<1> DEFINE c == work[run.file]
           s == Texts!Spliced(c, run.layer, run.rows)
<1>1. /\ RunInv /\ run \in Texts!Runs /\ work \in [1..2 -> Contents \cup {Absent}]
      /\ rows \in [Layers -> Rows]
  BY DEF FilesInv, FilesType
<1>2. run.layer \in Layers /\ run.file \in 1..2
  BY <1>1, SameLayers DEF Texts!Runs
<1>3. run.rows = rows[run.layer] /\ run.rows \in Rows
  BY <1>1, <1>2 DEF RunInv
<1>4. /\ run.content = c /\ c # Absent /\ c \in Contents
      /\ Texts!HasMarkers(c, run.layer)
  BY <1>1, <1>2 DEF RunInv
<1>5. /\ s \in Contents /\ Texts!HasMarkers(s, run.layer)
      /\ Texts!Listed(s, run.layer) = Only(run.rows)
      /\ Texts!Kept(s) = Texts!Kept(c)
      /\ \A k \in Layers : \A u :
             k # run.layer /\ Texts!HasMarkers(c, k) /\ Texts!Listed(c, k) = Only(u)
             => Texts!HasMarkers(s, k) /\ Texts!Listed(s, k) = Only(u)
  BY <1>2, <1>3, <1>4, Written
<1> HIDE DEF s, c
<1>6. work' = [work EXCEPT ![run.file] = s]
  BY <1>4 DEF s
<1>7. /\ work'[run.file] = s
      /\ \A f \in 1..2 : f # run.file => work'[f] = work[f]
      /\ work' \in [1..2 -> Contents \cup {Absent}]
  BY <1>1, <1>2, <1>5, <1>6
<1>8. s # Absent
  BY <1>5, ContentsNotAbsent
<1>9. ASSUME NEW f, NEW l, f = run.file, l = run.layer PROVE UpToDate(f, l)'
  BY <1>3, <1>5, <1>7, <1>9 DEF UpToDate
<1>10. ASSUME NEW f \in 1..2, SameText(f) PROVE SameText(f)'
  <2>1. CASE f = run.file
    <3>1. main[f] # Absent /\ Texts!Kept(c) = Texts!Kept(main[f])
      BY <1>4, <1>10, <2>1 DEF SameText, c
    <3> QED
      BY <1>5, <1>7, <1>8, <2>1, <3>1 DEF SameText
  <2>2. CASE f # run.file
    BY <1>7, <1>10, <2>2 DEF SameText
  <2> QED
    BY <2>1, <2>2
<1>11. ASSUME run.layer = "expression", NEW f \in 1..2, UpToDate(f, "audit")
       PROVE  UpToDate(f, "audit")'
  <2>1. CASE f = run.file
    <3>1. Texts!HasMarkers(c, "audit") /\ Texts!Listed(c, "audit") = Only(rows["audit"])
      BY <1>4, <1>11, <2>1 DEF UpToDate, c
    <3>2. Texts!HasMarkers(s, "audit") /\ Texts!Listed(s, "audit") = Only(rows["audit"])
      BY <1>5, <1>11, <3>1 DEF Layers
    <3> QED
      BY <1>7, <2>1, <3>2 DEF UpToDate
  <2>2. CASE f # run.file
    BY <1>7, <1>11, <2>2 DEF UpToDate
  <2> QED
    BY <2>1, <2>2
<1> QED
  BY <1>7, <1>9, <1>10, <1>11

LEMMA RunKeeps ==
    ASSUME FilesInv, run # None, Texts!Program
    PROVE  FilesInv'
<1>1. /\ FilesType /\ RunInv /\ JobInv /\ run \in Texts!Runs
  BY DEF FilesInv, FilesType
<1>2. run.layer \in Layers /\ run.file \in {1, 2} /\ run.stage \in {"read", "write"}
  BY <1>1, SameLayers DEF Texts!Runs
<1>3. step \in {"none", run.layer} /\ run.layer \in {"audit", "expression"}
  BY <1>1, <1>2 DEF RunInv, Layers
<1>4. /\ step # "none" => \A f \in 1..2 : SameText(f)
      /\ step = "expression" => \A f \in 1..2 : UpToDate(f, "audit")
  BY <1>1 DEF JobInv
\* Nothing but the run has changed.
<1>5. ASSUME main' = main, work' = work, rows' = rows, step' = step, last' = last,
             run' \in Texts!Runs, RunInv'
      PROVE  FilesInv'
  <2>1. FilesType'
    BY <1>1, <1>5 DEF FilesType
  <2>2. JobInv'
    BY <1>1, <1>5 DEF JobInv, SameText, UpToDate
  <2>3. run' # None
    BY <1>5, FilesAssumption
  <2> QED
    BY <1>5, <2>1, <2>2, <2>3 DEF FilesInv
\* Nothing but the run, which turns to the second file, or is over.
<1>6. ASSUME main' = main, rows' = rows, Texts!NextFile,
             work' \in [1..2 -> Contents \cup {Absent}],
             \A f, l : f = run.file /\ l = run.layer => UpToDate(f, l)',
             \A f \in 1..2 : f # run.file => work'[f] = work[f],
             step # "none" => \A f \in 1..2 : SameText(f)',
             step = "expression" => \A f \in 1..2 : UpToDate(f, "audit")'
      PROVE  FilesInv'
  <2>1. CASE run.file = 2
    <3>1. ASSUME NEW l, l = run.layer PROVE UpToDate(1, l)'
      <4>1. UpToDate(1, l)
        BY <1>1, <2>1, <3>1 DEF RunInv
      <4> QED
        BY <1>6, <2>1, <4>1 DEF UpToDate
    <3>2. ASSUME NEW l, l = run.layer PROVE UpToDate(2, l)'
      BY <1>6, <2>1, <3>2
    <3>3. \A f \in 1..2 : \A l : l = run.layer => UpToDate(f, l)'
      BY <3>1, <3>2
    <3>4. Texts!Ended("ok")
      BY <1>6, <2>1 DEF Texts!NextFile
    <3> QED
      BY <1>6, <3>3, <3>4, EndedKeeps
  <2>2. CASE run.file # 2
    <3>1. run.file = 1
      BY <1>2, <2>2
    <3>2. run' = [run EXCEPT !.file = 2, !.stage = "read"] /\ last' = last /\ step' = step
      BY <1>6, <2>2 DEF Texts!NextFile
    <3>3. run' \in Texts!Runs
      BY <1>1, <3>2 DEF Texts!Runs
    <3>4. run'.rows = run.rows /\ run'.layer = run.layer /\ run'.stage = "read"
      BY <1>1, <3>2 DEF Texts!Runs
    <3>5. UpToDate(1, run.layer)'
      <4>1. \A l : l = run.layer => UpToDate(1, l)'
        BY <1>6, <3>1
      <4> QED
        BY <3>4, <4>1 DEF UpToDate
    <3>6. RunInv'
      BY <1>1, <1>6, <3>2, <3>4, <3>5 DEF RunInv
    <3>7. FilesType'
      BY <1>1, <1>6, <3>2, <3>3 DEF FilesType
    <3>8. JobInv'
      BY <1>3, <1>6, <3>2 DEF JobInv
    <3>9. run' # None
      BY <3>3, FilesAssumption
    <3> QED
      BY <3>6, <3>7, <3>8, <3>9 DEF FilesInv
  <2> QED
    BY <2>1, <2>2
<1>7. CASE Texts!ReadMissing
  <2>1. /\ work[run.file] = Absent
        /\ main' = main /\ work' = work /\ rows' = rows
    BY <1>7 DEF Texts!ReadMissing
  <2>2. /\ \A f, l : f = run.file /\ l = run.layer => UpToDate(f, l)'
        /\ \A f \in 1..2 : f # run.file => work'[f] = work[f]
        /\ work' \in [1..2 -> Contents \cup {Absent}]
    BY <1>1, <2>1 DEF UpToDate, FilesType
  <2>3. /\ \A f : SameText(f) => SameText(f)'
        /\ \A f : UpToDate(f, "audit") => UpToDate(f, "audit")'
    BY <2>1 DEF SameText, UpToDate
  <2>4. CASE run.layer = "expression"
    <3>1. Texts!NextFile
      BY <1>7, <2>4 DEF Texts!ReadMissing
    <3> QED
      BY <1>4, <1>6, <2>1, <2>2, <2>3, <3>1
  <2>5. CASE run.layer # "expression"
    <3>1. Texts!Ended("thrown")
      BY <1>7, <2>5 DEF Texts!ReadMissing
    <3> QED
      BY <2>1, <2>2, <3>1, EndedKeeps
  <2> QED
    BY <2>4, <2>5
<1>8. CASE Texts!ReadUnmarked
  <2>1. main' = main /\ work' = work /\ rows' = rows /\ Texts!Ended("failed")
    BY <1>8 DEF Texts!ReadUnmarked
  <2>2. work' \in [1..2 -> Contents \cup {Absent}]
    BY <1>1, <2>1 DEF FilesType
  <2> QED
    BY <2>1, <2>2, EndedKeeps
<1>9. CASE Texts!ReadFile
  <2>1. /\ work[run.file] # Absent /\ Texts!HasMarkers(work[run.file], run.layer)
        /\ run' = [run EXCEPT !.stage = "write", !.content = work[run.file]]
        /\ main' = main /\ work' = work /\ rows' = rows /\ step' = step /\ last' = last
    BY <1>9 DEF Texts!ReadFile
  <2>2. work[run.file] \in Seq(Texts!Pieces)
    BY <1>1, <1>2, <2>1 DEF FilesType, Contents
  <2>3. run' \in Texts!Runs
    BY <1>1, <2>1, <2>2 DEF Texts!Runs
  <2>4. /\ run'.rows = run.rows /\ run'.layer = run.layer /\ run'.file = run.file
        /\ run'.content = work[run.file]
    BY <1>1, <2>1 DEF Texts!Runs
  <2>5. RunInv'
    BY <1>1, <2>1, <2>4 DEF RunInv, UpToDate
  <2> QED
    BY <1>5, <2>1, <2>3, <2>5
<1>10. CASE Texts!WriteFile
  <2>1. /\ run.stage = "write" /\ main' = main /\ rows' = rows /\ Texts!NextFile
        /\ work' = [work EXCEPT ![run.file] = Texts!Spliced(run.content, run.layer, run.rows)]
    BY <1>10 DEF Texts!WriteFile
  <2>2. /\ work' \in [1..2 -> Contents \cup {Absent}]
        /\ \A f, l : f = run.file /\ l = run.layer => UpToDate(f, l)'
        /\ \A f \in 1..2 : f # run.file => work'[f] = work[f]
        /\ \A f \in 1..2 : SameText(f) => SameText(f)'
        /\ run.layer = "expression" => \A f \in 1..2 : UpToDate(f, "audit") => UpToDate(f, "audit")'
    BY <2>1, WriteKeeps
  <2>3. /\ step # "none" => \A f \in 1..2 : SameText(f)'
        /\ step = "expression" => \A f \in 1..2 : UpToDate(f, "audit")'
    BY <1>3, <1>4, <2>2
  <2> QED
    BY <1>6, <2>1, <2>2, <2>3
<1> QED
  BY <1>7, <1>8, <1>9, <1>10 DEF Texts!Program

LEMMA BeginKeeps ==
    ASSUME FilesInv, NEW l \in Layers, run = None, Texts!Begin(l),
           main' = main, work' = work, rows' = rows, last' = last,
           step' \in {"none", l},
           step' # "none" => \A f \in 1..2 : SameText(f),
           step' = "expression" => \A f \in 1..2 : UpToDate(f, "audit")
    PROVE  FilesInv'
<1>1. FilesType
  BY DEF FilesInv
<1>2. run' = [layer |-> l, rows |-> rows[l], file |-> 1, stage |-> "read", content |-> <<>>]
  BY DEF Texts!Begin
<1>3. /\ run' \in Texts!Runs /\ run'.layer = l /\ run'.rows = rows[l]
      /\ run'.file = 1 /\ run'.stage = "read"
  BY <1>1, <1>2, SameLayers DEF FilesType, Texts!Runs
<1>4. run' # None
  BY <1>3, FilesAssumption
<1>5. RunInv'
  BY <1>3 DEF RunInv
<1>6. FilesType'
  BY <1>1, <1>3 DEF FilesType, Layers
<1>7. JobInv'
  BY DEF JobInv, SameText, UpToDate, Layers
<1> QED
  BY <1>4, <1>5, <1>6, <1>7 DEF FilesInv

LEMMA CrashKeeps == ASSUME FilesInv, Texts!Crash PROVE FilesInv'
<1>1. FilesType /\ run # None
  BY DEF FilesInv, Texts!Crash
<1>2. run \in Texts!Runs /\ RunInv
  BY <1>1 DEF FilesType, FilesInv
<1>3. main' = main /\ rows' = rows /\ Texts!Ended("crashed")
  BY DEF Texts!Crash
<1>4. work' \in [1..2 -> Contents \cup {Absent}]
  <2>1. CASE run.stage = "write"
    <3> DEFINE new == Texts!Spliced(run.content, run.layer, run.rows)
    <3>1. PICK n \in 0..(Len(new) - 1) : work' = [work EXCEPT ![run.file] = SubSeq(new, 1, n)]
      BY <2>1 DEF Texts!Crash
    <3>2. run.layer \in Layers /\ run.rows \in Rows /\ run.file \in 1..2
      BY <1>2, SameLayers DEF Texts!Runs
    <3>3. run.content \in Contents /\ Texts!HasMarkers(run.content, run.layer)
      BY <1>1, <1>2, <2>1, <3>2 DEF RunInv, FilesType
    <3>4. new \in Contents
      BY <3>2, <3>3, Written
    <3> HIDE DEF new
    <3>5. Len(new) \in Nat
      BY <3>4, LenProperties DEF Contents
    <3>6. SubSeq(new, 1, n) \in Contents
      BY <3>4, <3>5, Begun
    <3> QED
      BY <1>1, <3>1, <3>2, <3>6 DEF FilesType
  <2>2. CASE run.stage # "write"
    BY <1>1, <2>2 DEF Texts!Crash, FilesType
  <2> QED
    BY <2>1, <2>2
<1> QED
  BY <1>1, <1>3, <1>4, EndedKeeps

LEMMA FilesStep == FilesInv /\ [Texts!Next]_filesVars => FilesInv'
<1> SUFFICES ASSUME FilesInv, [Texts!Next]_filesVars PROVE FilesInv'
  OBVIOUS
<1>1. FilesType /\ JobInv
  BY DEF FilesInv
<1>2. ASSUME NEW l \in Texts!Layers, Texts!Start(l) PROVE FilesInv'
  <2>1. /\ run = None /\ Texts!Begin(l) /\ step' = "none"
        /\ main' = main /\ work' = work /\ rows' = rows /\ last' = last
    BY <1>2 DEF Texts!Start, Texts!Idle
  <2> QED
    BY <2>1, SameLayers, BeginKeeps
<1>3. CASE Texts!Program
  <2>1. run # None
    BY <1>3 DEF Texts!Program, Texts!ReadMissing, Texts!ReadUnmarked, Texts!ReadFile, Texts!WriteFile
  <2> QED
    BY <1>3, <2>1, RunKeeps
<1>4. CASE Texts!Crash
  BY <1>4, CrashKeeps
<1>5. CASE Texts!CheckOut
  <2>1. /\ run = None /\ run' = run /\ work' = main /\ main' = main
        /\ rows' \in [Layers -> Rows] /\ step' = "checkout" /\ last' = last
    BY <1>5, SameLayers DEF Texts!CheckOut, Texts!Idle
  <2>2. FilesType'
    BY <1>1, <2>1 DEF FilesType
  <2>3. JobInv'
    BY <2>1 DEF JobInv, SameText
  <2> QED
    BY <2>1, <2>2, <2>3 DEF FilesInv
<1>6. CASE Texts!RunNext
  <2>1. /\ run = None /\ main' = main /\ work' = work /\ rows' = rows /\ last' = last
    BY <1>6 DEF Texts!RunNext, Texts!Idle
  <2>2. CASE step = "checkout" /\ Texts!Begin("audit") /\ step' = "audit"
    BY <1>1, <2>1, <2>2, BeginKeeps DEF Layers, JobInv
  <2>3. CASE step = "between" /\ Texts!Begin("expression") /\ step' = "expression"
    BY <1>1, <2>1, <2>3, BeginKeeps DEF Layers, JobInv
  <2> QED
    BY <1>6, <2>2, <2>3 DEF Texts!RunNext
<1>7. CASE Texts!CommitBoth
  <2>1. /\ step = "commit" /\ step' = "none"
        /\ work' = work /\ rows' = rows /\ run' = run /\ last' = last
    BY <1>7 DEF Texts!CommitBoth
  <2>2. run = None
    BY <2>1 DEF FilesInv, RunInv, FilesType, Texts!Runs, Texts!Layers
  <2>3. FilesType'
    BY <1>1, <1>7, <2>1 DEF FilesType, Texts!CommitBoth
  <2> QED
    BY <2>1, <2>2, <2>3 DEF FilesInv, JobInv, UpToDate
<1>8. CASE Texts!Edit
  <2>1. /\ run = None /\ step = "none" /\ work' = work /\ rows' = rows /\ run' = run
        /\ step' = step /\ last' = last
    BY <1>8 DEF Texts!Edit, Texts!Idle
  <2>2. PICK f \in 1..2 :
            /\ main[f] # Absent
            /\ \/ \E i \in DOMAIN main[f] :
                     main' = [main EXCEPT ![f] = SubSeq(@, 1, i - 1) \o SubSeq(@, i + 1, Len(@))]
               \/ main' = [main EXCEPT ![f] = Absent]
    BY <1>8 DEF Texts!Edit
  <2>3. main[f] \in Contents /\ DOMAIN main[f] = 1..Len(main[f])
    BY <1>1, <2>2, LenProperties DEF FilesType, Contents
  <2>4. main' \in [1..2 -> Contents \cup {Absent}]
    <3>1. ASSUME NEW i \in DOMAIN main[f],
                 main' = [main EXCEPT ![f] = SubSeq(@, 1, i - 1) \o SubSeq(@, i + 1, Len(@))]
          PROVE  main' \in [1..2 -> Contents \cup {Absent}]
      <4>1. SubSeq(main[f], 1, i - 1) \o SubSeq(main[f], i + 1, Len(main[f])) \in Contents
        BY <2>3, Lost
      <4> QED
        BY <1>1, <3>1, <4>1 DEF FilesType
    <3>2. ASSUME main' = [main EXCEPT ![f] = Absent]
          PROVE  main' \in [1..2 -> Contents \cup {Absent}]
      BY <1>1, <3>2 DEF FilesType
    <3> QED
      BY <2>2, <3>1, <3>2
  <2>5. FilesType'
    BY <1>1, <2>1, <2>4 DEF FilesType
  <2> QED
    BY <2>1, <2>5 DEF FilesInv, JobInv, UpToDate
<1>9. CASE UNCHANGED filesVars
  <2>1. /\ main' = main /\ work' = work /\ rows' = rows /\ run' = run
        /\ step' = step /\ last' = last
    BY <1>9 DEF filesVars
  <2>2. FilesType'
    BY <1>1, <2>1 DEF FilesType
  <2>3. JobInv'
    BY <1>1, <2>1 DEF JobInv, SameText, UpToDate
  <2>4. RunInv => RunInv'
    BY <2>1 DEF RunInv, UpToDate
  <2>5. (\A f \in 1..2 : UpToDate(f, last.layer)) => (\A f \in 1..2 : UpToDate(f, last.layer))'
    BY <2>1 DEF UpToDate
  <2> QED
    BY <2>1, <2>2, <2>3, <2>4, <2>5 DEF FilesInv
<1> QED
  BY <1>2, <1>3, <1>4, <1>5, <1>6, <1>7, <1>8, <1>9 DEF Texts!Next, Texts!Job

\* The registry programs and the job, at every step and whatever fails before.
LEMMA ProgramsKeep == FilesInv /\ [ProgramsNext]_programVars => FilesInv'
<1> SUFFICES ASSUME FilesInv, [ProgramsNext]_programVars PROVE FilesInv'
  OBVIOUS
<1>1. [Texts!Next]_filesVars
  BY DEF ProgramsNext, programVars, filesVars
<1> QED
  BY <1>1, FilesStep

LEMMA FilesAlways == ProgramsSpec => []FilesInv
<1>1. ProgramsInit => FilesInv
  BY FilesInit DEF ProgramsInit
<1> QED
  BY <1>1, ProgramsKeep, PTL DEF ProgramsSpec

THEOREM ExitZero == ProgramsSpec => []ExitZeroListsAll
<1>1. FilesInv => ExitZeroListsAll
  BY DEF FilesInv, FilesType, ExitZeroListsAll, Texts!ExitZeroListsAll, Texts!Idle, UpToDate, Only
<1> QED
  BY <1>1, FilesAlways, PTL

THEOREM KeepsText == ProgramsSpec => RecordingKeepsText
<1>1. ASSUME FilesInv, [ProgramsNext]_programVars, pusher' = "bot", main' # main
      PROVE  \A f \in 1..2 :
                 /\ (main'[f] = Absent) = (main[f] = Absent)
                 /\ Texts!Kept(main'[f]) = Texts!Kept(main[f])
                 /\ main'[f] # Absent => \A l \in Texts!Layers :
                       Texts!Listed(main'[f], l) = <<Texts!Piece("rows", rows[l])>>
  <2>1. [Texts!Next]_filesVars
    BY <1>1 DEF ProgramsNext, programVars, filesVars
  <2>2. Texts!CommitBoth
    BY <1>1, <2>1
       DEF filesVars, Texts!Next, Texts!Start, Texts!Program, Texts!ReadMissing,
           Texts!ReadUnmarked, Texts!ReadFile, Texts!WriteFile, Texts!Crash, Texts!Job,
           Texts!CheckOut, Texts!RunNext, Texts!Edit
  <2>3. step = "commit" /\ main' = work
    BY <1>1, <2>2 DEF Texts!CommitBoth
  <2>4. /\ \A f \in 1..2 : SameText(f) /\ UpToDate(f, "audit") /\ UpToDate(f, "expression")
    BY <1>1, <2>3 DEF FilesInv, JobInv
  <2> QED
    BY <2>3, <2>4 DEF SameText, UpToDate, Only, Texts!Layers
<1> QED
  BY <1>1, FilesAlways, PTL DEF ProgramsSpec, RecordingKeepsText, Texts!RecordingKeepsText, Texts!vars
=============================================================================
