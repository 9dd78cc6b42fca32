--------------------------- MODULE ResolutionProofs ---------------------------
(***************************************************************************)
(* Proofs about Resolution, for rule lists of any length: the types, the   *)
(* count of evaluated rules, that the scan with its fold implements the    *)
(* relation between rules and decision that ResolutionRule states, and     *)
(* what one more rule or another order may change; and about the programs  *)
(* of ResolutionPrograms that rely on a resolution.                        *)
(***************************************************************************)
EXTENDS ResolutionPrograms, FiniteSetTheorems, SequenceTheorems,
        WellFoundedInduction, TLAPS

(***************************************************************************)
(* The order of the scan is a strict total order.                          *)
(***************************************************************************)
\* Lexicographic order, written out.
Before(a, b) ==
    \/ a[1] < b[1]
    \/ a[1] = b[1] /\ a[2] < b[2]
    \/ a[1] = b[1] /\ a[2] = b[2] /\ a[3] < b[3]
    \/ a[1] = b[1] /\ a[2] = b[2] /\ a[3] = b[3] /\ a[4] < b[4]
    \/ a[1] = b[1] /\ a[2] = b[2] /\ a[3] = b[3] /\ a[4] = b[4] /\ a[5] < b[5]

LEMMA StrengthType == \A o \in DOMAIN strength : strength[o] \in 0..3
BY DEF strength

LEMMA PlaceType ==
    ASSUME NEW rs \in Seq(Rules), NEW i \in 1..Len(rs)
    PROVE  /\ rs[i] \in Rules
           /\ \A k \in 1..5 : Place(rs, i)[k] \in Int
           /\ Place(rs, i)[1] = IF rs[i].when = "true" THEN 1 ELSE 0
           /\ Place(rs, i)[2] = rs[i].ring
           /\ Place(rs, i)[5] = i
<1>1. rs[i] \in Rules
  BY ElementOfSeq
<1>2. rs[i].ring \in Int /\ rs[i].priority \in Int /\ rs[i].override \in DOMAIN strength
  BY <1>1 DEF Rules
<1>3. - strength[rs[i].override] \in Int
  BY <1>2, StrengthType
<1>4. \A k \in 1..5 : k = 1 \/ k = 2 \/ k = 3 \/ k = 4 \/ k = 5
  OBVIOUS
<1> QED
  BY <1>1, <1>2, <1>3, <1>4 DEF Place

LEMMA AheadIsBefore ==
    ASSUME NEW rs, NEW i, NEW j
    PROVE  Ahead(rs, i, j) <=> Before(Place(rs, i), Place(rs, j))
<1> DEFINE a == Place(rs, i)
<1> DEFINE b == Place(rs, j)
<1> HIDE DEF a, b
<1>1. (\E k \in 1..5 : a[k] < b[k] /\ \A l \in 1..(k - 1) : a[l] = b[l]) <=> Before(a, b)
  <2>1. ASSUME NEW k \in 1..5, a[k] < b[k], \A l \in 1..(k - 1) : a[l] = b[l]
        PROVE  Before(a, b)
    <3>1. CASE k = 1
      BY <2>1, <3>1 DEF Before
    <3>2. CASE k = 2
      BY <2>1, <3>2 DEF Before
    <3>3. CASE k = 3
      BY <2>1, <3>3 DEF Before
    <3>4. CASE k = 4
      BY <2>1, <3>4 DEF Before
    <3>5. CASE k = 5
      BY <2>1, <3>5 DEF Before
    <3> QED
      BY <3>1, <3>2, <3>3, <3>4, <3>5
  <2>2. ASSUME Before(a, b)
        PROVE  \E k \in 1..5 : a[k] < b[k] /\ \A l \in 1..(k - 1) : a[l] = b[l]
    <3>1. CASE a[1] < b[1]
      <4>1. 1 \in 1..5 /\ \A l \in 1..(1 - 1) : a[l] = b[l]
        OBVIOUS
      <4> QED
        BY <3>1, <4>1
    <3>2. CASE a[1] = b[1] /\ a[2] < b[2]
      <4>1. 2 \in 1..5 /\ \A l \in 1..(2 - 1) : l = 1
        OBVIOUS
      <4> QED
        BY <3>2, <4>1
    <3>3. CASE a[1] = b[1] /\ a[2] = b[2] /\ a[3] < b[3]
      <4>1. 3 \in 1..5 /\ \A l \in 1..(3 - 1) : l = 1 \/ l = 2
        OBVIOUS
      <4> QED
        BY <3>3, <4>1
    <3>4. CASE a[1] = b[1] /\ a[2] = b[2] /\ a[3] = b[3] /\ a[4] < b[4]
      <4>1. 4 \in 1..5 /\ \A l \in 1..(4 - 1) : l = 1 \/ l = 2 \/ l = 3
        OBVIOUS
      <4> QED
        BY <3>4, <4>1
    <3>5. CASE a[1] = b[1] /\ a[2] = b[2] /\ a[3] = b[3] /\ a[4] = b[4] /\ a[5] < b[5]
      <4>1. 5 \in 1..5 /\ \A l \in 1..(5 - 1) : l = 1 \/ l = 2 \/ l = 3 \/ l = 4
        OBVIOUS
      <4> QED
        BY <3>5, <4>1
    <3> QED
      BY <2>2, <3>1, <3>2, <3>3, <3>4, <3>5 DEF Before
  <2> QED
    BY <2>1, <2>2
<1> QED
  BY <1>1 DEF Ahead, a, b

\* Of two rules exactly one is ahead; ahead among the explicit rules, or among
\* the catch-alls, is never in an outer ring; and explicit rules come first.
LEMMA Order ==
    ASSUME NEW rs \in Seq(Rules), NEW i \in 1..Len(rs), NEW j \in 1..Len(rs)
    PROVE  /\ ~ Ahead(rs, i, i)
           /\ ~ (Ahead(rs, i, j) /\ Ahead(rs, j, i))
           /\ i # j => Ahead(rs, i, j) \/ Ahead(rs, j, i)
           /\ Ahead(rs, i, j) /\ (rs[i].when = "true" <=> rs[j].when = "true")
                => rs[i].ring <= rs[j].ring
           /\ rs[i].when # "true" /\ rs[j].when = "true" => Ahead(rs, i, j)
<1> DEFINE a == Place(rs, i)
<1> DEFINE b == Place(rs, j)
<1>1. \A m \in 1..5 : /\ ~ (a[m] < a[m])
                      /\ ~ (a[m] < b[m] /\ b[m] < a[m])
                      /\ ~ (a[m] < b[m] /\ a[m] = b[m])
                      /\ ~ (b[m] < a[m] /\ a[m] = b[m])
                      /\ a[m] < b[m] \/ b[m] < a[m] \/ a[m] = b[m]
  <2>1. \A m \in 1..5 : a[m] \in Int
    BY PlaceType
  <2>2. \A m \in 1..5 : b[m] \in Int
    BY PlaceType
  <2>3. ASSUME NEW x \in Int, NEW y \in Int
        PROVE  /\ ~ (x < x) /\ ~ (x < y /\ y < x) /\ ~ (x < y /\ x = y)
               /\ ~ (y < x /\ x = y) /\ (x < y \/ y < x \/ x = y)
    OBVIOUS
  <2> HIDE DEF a, b
  <2> QED
    BY <2>1, <2>2, <2>3, Zenon
<1>2. a[5] = i /\ b[5] = j /\ a[2] = rs[i].ring /\ b[2] = rs[j].ring
  BY PlaceType
<1>3. /\ a[1] = IF rs[i].when = "true" THEN 1 ELSE 0
      /\ b[1] = IF rs[j].when = "true" THEN 1 ELSE 0
  BY PlaceType
<1>4. /\ Ahead(rs, i, j) <=> Before(a, b)
      /\ Ahead(rs, j, i) <=> Before(b, a)
      /\ Ahead(rs, i, i) <=> Before(a, a)
  BY AheadIsBefore
<1> HIDE DEF a, b
<1>5. 1 \in 1..5 /\ 2 \in 1..5 /\ 3 \in 1..5 /\ 4 \in 1..5 /\ 5 \in 1..5
  OBVIOUS
<1>6. ~ Before(a, a)
  BY <1>1, <1>5, Zenon DEF Before
<1>7. ~ (Before(a, b) /\ Before(b, a))
  BY <1>1, <1>5, Zenon DEF Before
<1>8. Before(a, b) \/ Before(b, a) \/ a[5] = b[5]
  BY <1>1, <1>5, Zenon DEF Before
<1>9. Before(a, b) => a[1] < b[1] \/ (a[1] = b[1] /\ (a[2] < b[2] \/ a[2] = b[2]))
  BY Zenon DEF Before
<1>10. Before(a, b) /\ (rs[i].when = "true" <=> rs[j].when = "true")
         => rs[i].ring <= rs[j].ring
  <2> SUFFICES ASSUME Before(a, b), rs[i].when = "true" <=> rs[j].when = "true"
               PROVE  rs[i].ring <= rs[j].ring
    OBVIOUS
  <2>1. rs[i].ring \in Int /\ rs[j].ring \in Int
    <3>1. rs[i] \in Rules /\ rs[j] \in Rules
      BY ElementOfSeq
    <3> QED
      BY <3>1 DEF Rules
  <2>2. a[1] = b[1]
    BY <1>3
  <2>3. ~ (a[1] < b[1])
    BY <1>1, <1>5, <2>2, Zenon
  <2>4. rs[i].ring < rs[j].ring \/ rs[i].ring = rs[j].ring
    BY <1>2, <1>9, <2>3
  <2> QED
    BY <2>1, <2>4
<1>11. rs[i].when # "true" /\ rs[j].when = "true" => Before(a, b)
  BY <1>3 DEF Before
<1> QED
  BY <1>2, <1>4, <1>6, <1>7, <1>8, <1>10, <1>11

-----------------------------------------------------------------------------
(***************************************************************************)
(* The fold: reduce with a strict comparison finds the first of the least. *)
(***************************************************************************)
LEMMA LeastNat ==
    ASSUME NEW S \in SUBSET Nat, S # {}
    PROVE  \E m \in S : \A k \in S : m <= k
<1> DEFINE R == {ss \in Nat \X Nat : ss[1] < ss[2]}
<1>1. IsWellFoundedOn(R, Nat)
  BY NatLessThanWellFounded DEF OpToRel
<1>2. PICK m \in S : \A k \in S : ~ (<<k, m>> \in R)
  <2> HIDE DEF R
  <2> QED
    BY <1>1, WFMin
<1>3. ASSUME NEW k \in S, k < m PROVE FALSE
  <2>1. <<k, m>> \in Nat \X Nat /\ <<k, m>>[1] < <<k, m>>[2]
    BY <1>3
  <2>2. <<k, m>> \in R
    BY <2>1
  <2> QED
    BY <1>2, <2>2
<1> QED
  BY <1>3

LEMMA Least ==
    ASSUME NEW n \in Nat, NEW S \in SUBSET (1..n), S # {},
           NEW rank, \A p \in S : rank[p] \in Nat
    PROVE  /\ FirstLeast(S, rank) \in S
           /\ \A q \in S : LET p == FirstLeast(S, rank) IN
                rank[p] < rank[q] \/ (rank[p] = rank[q] /\ p <= q)
<1> DEFINE Ranks == {rank[p] : p \in S}
<1>1. PICK r \in Ranks : \A s \in Ranks : r <= s
  <2>1. Ranks \in SUBSET Nat
    OBVIOUS
  <2>2. PICK p \in S : TRUE
    OBVIOUS
  <2>3. rank[p] \in Ranks
    OBVIOUS
  <2> HIDE DEF Ranks
  <2> QED
    BY <2>1, <2>3, LeastNat
<1> DEFINE T == {p \in S : rank[p] = r}
<1>2. PICK t \in T : \A u \in T : t <= u
  <2>1. T \in SUBSET Nat
    <3>1. \A p \in S : p \in Nat
      OBVIOUS
    <3> QED
      BY <3>1
  <2>2. T # {}
    BY <1>1
  <2> HIDE DEF T
  <2> QED
    BY <2>1, <2>2, LeastNat
<1>3. t \in S /\ \A q \in S : rank[t] < rank[q] \/ (rank[t] = rank[q] /\ t <= q)
  <2>1. t \in S /\ rank[t] = r
    BY <1>2
  <2>2. ASSUME NEW q \in S PROVE rank[t] < rank[q] \/ (rank[t] = rank[q] /\ t <= q)
    <3>1. r <= rank[q] /\ rank[q] \in Nat /\ r \in Nat
      BY <1>1
    <3>2. rank[q] = r => t <= q
      BY <1>2
    <3> QED
      BY <2>1, <3>1, <3>2
  <2> QED
    BY <2>1, <2>2
<1> QED
  BY <1>3 DEF FirstLeast

-----------------------------------------------------------------------------
(***************************************************************************)
(* The scan.                                                               *)
(***************************************************************************)
LEMMA SameOrder ==
    /\ \A i, j : Rule!Ahead(rules, i, j) = Ahead(rules, i, j)
    /\ \A o, r : Rule!Covers(o, r) = Covers(o, r)
    /\ Rule!RESTRICTIVE = RESTRICTIVE /\ Rule!decStrength = decStrength
<1>1. Rule!strength = strength /\ Rule!RESTRICTIVE = RESTRICTIVE /\ Rule!decStrength = decStrength
  BY DEF Rule!strength, strength, Rule!RESTRICTIVE, RESTRICTIVE, Rule!decStrength, decStrength
<1>2. \A i : Rule!Place(rules, i) = Place(rules, i)
  BY <1>1 DEF Rule!Place, Place
<1> QED
  BY <1>1, <1>2 DEF Rule!Ahead, Ahead, Rule!Covers, Covers

\* The rule whose turn it is was not stopped.
LEMMA TurnReached ==
    ASSUME TypeOK, ScanInv, NEW i \in todo, Visit(i)
    PROVE  Rule!Reached(i)
<1> SUFFICES ASSUME NEW j \in 1..Len(rules), Rule!Halts(j), Ahead(rules, j, i)
             PROVE  FALSE
  BY SameOrder DEF Rule!Reached, Rule!Indices
<1>1. i \in 1..Len(rules) /\ rules \in Seq(Rules)
  BY DEF TypeOK
<1>2. j \notin todo
  <2>1. j # i
    BY <1>1, Order
  <2> QED
    BY <1>1, <2>1, Order DEF Visit
<1> QED
  BY <1>2 DEF ScanInv, Visited

\* A catch-all whose turn it is holds unless an explicit rule was hit.
LEMMA TurnOfCatchAll ==
    ASSUME TypeOK, ScanInv, NEW i \in todo, Visit(i), rules[i].when = "true"
    PROVE  anyExplicitMatched <=> ~ Rule!Holds(i)
<1>1. i \in 1..Len(rules) /\ rules \in Seq(Rules) /\ todo \subseteq 1..Len(rules)
  BY DEF TypeOK
<1>2. ASSUME NEW j \in todo PROVE rules[j].when # "match"
  <2> SUFFICES ASSUME rules[j].when = "match" PROVE FALSE
    OBVIOUS
  <2>1. j # i /\ j \in 1..Len(rules)
    BY <1>1
  <2>2. Ahead(rules, j, i)
    BY <1>1, <2>1, Order
  <2>3. Ahead(rules, i, j)
    BY <2>1 DEF Visit
  <2> QED
    BY <1>1, <2>1, <2>2, <2>3, Order
<1>3. anyExplicitMatched <=> \E j \in 1..Len(rules) : rules[j].when = "match"
  BY <1>1, <1>2 DEF ScanInv, Visited
<1> QED
  BY <1>3 DEF Rule!Holds, Rule!Indices

LEMMA TypeInit == Init => IInv
<1> SUFFICES ASSUME Init PROVE IInv
  OBVIOUS
<1>1. rules \in Seq(Rules) /\ Len(rules) \in Nat
  BY RulebooksAssumption, LenProperties DEF Init
<1>2. hits = << >> /\ << >> \in Seq(1..Len(rules)) /\ Len(hits) = 0
  BY EmptySeq DEF Init
<1>3. TypeOK
  <2>1. hits \in Seq(1..Len(rules)) /\ todo = 1..Len(rules)
    BY <1>2 DEF Init
  <2>2. totalEvaluated \in 0..Len(rules)
    BY <1>1 DEF Init
  <2>3. anyExplicitMatched \in BOOLEAN
    BY DEF Init
  <2> QED
    BY <1>1, <2>1, <2>2, <2>3 DEF Init, TypeOK
<1>4. Visited = {}
  BY DEF Init, Visited
<1>5. ScanInv
  BY <1>2, <1>4 DEF ScanInv, Init
<1>6. Cardinality(todo) = Len(rules)
  <2>1. 1 \in Int /\ Len(rules) \in Int
    BY <1>1
  <2>2. Cardinality(1..Len(rules)) = IF 1 > Len(rules) THEN 0 ELSE Len(rules) - 1 + 1
    BY <2>1, FS_Interval
  <2> QED
    BY <1>1, <2>2 DEF Init
<1>7. {i \in Visited : Counted(i)} = {}
  BY <1>4
<1>8. CountInv
  <2>1. Cardinality({}) = 0
    BY FS_EmptySet
  <2>2. totalEvaluated = 0
    BY DEF Init
  <2>3. Cardinality({i \in Visited : Counted(i)}) = 0
    BY <1>7, <2>1
  <2>4. totalEvaluated + Cardinality(todo) <= Len(rules)
    BY <1>1, <1>6, <2>2
  <2> QED
    BY <2>2, <2>3, <2>4 DEF CountInv
<1> QED
  BY <1>3, <1>5, <1>8 DEF IInv, EvaluatedCount, Init

\* What ResolutionRule says of a rule depends on the rules only.
LEMMA Steady ==
    ASSUME rules' = rules
    PROVE  /\ \A i : Rule!Holds(i)' <=> Rule!Holds(i)
           /\ \A i : Rule!Halts(i)' <=> Rule!Halts(i)
           /\ \A i : Rule!Reached(i)' <=> Rule!Reached(i)
           /\ \A i : Counted(i)' <=> Counted(i)
<1>1. \A i : Rule!Holds(i)' <=> Rule!Holds(i)
  BY DEF Rule!Holds, Rule!Indices
<1>2. \A i : Rule!Halts(i)' <=> Rule!Halts(i)
  BY <1>1 DEF Rule!Halts
<1>3. \A i, j : Rule!Ahead(rules, i, j)' <=> Rule!Ahead(rules, i, j)
  BY DEF Rule!Ahead, Rule!Place
<1>4. \A i : Rule!Reached(i)' <=> Rule!Reached(i)
  BY <1>2, <1>3 DEF Rule!Reached, Rule!Indices
<1> QED
  BY <1>1, <1>2, <1>4 DEF Counted

\* A turn takes the foremost rule out of what is left.
LEMMA Advance ==
    ASSUME TypeOK, ScanInv, NEW i \in todo, Visit(i),
           rules' = rules, todo' = todo \ {i}
    PROVE  /\ Visited' = Visited \cup {i} /\ i \notin Visited
           /\ \A a \in Visited', b \in todo' : Ahead(rules, a, b)
           /\ Cardinality(todo) \in Nat
           /\ Cardinality(todo') = Cardinality(todo) - 1
<1>1. i \in 1..Len(rules) /\ todo \subseteq 1..Len(rules) /\ Len(rules) \in Nat
  BY LenProperties DEF TypeOK
<1>2. Visited' = Visited \cup {i} /\ i \notin Visited
  BY <1>1 DEF Visited
<1>3. \A a \in Visited', b \in todo' : Ahead(rules, a, b)
  BY <1>2 DEF ScanInv, Visit
<1>4. IsFiniteSet(1..Len(rules))
  BY <1>1, FS_Interval
<1>5. IsFiniteSet(todo)
  BY <1>1, <1>4, FS_Subset
<1>6. Cardinality(todo) \in Nat
  BY <1>5, FS_CardinalityType
<1>7. Cardinality(todo \ {i}) = Cardinality(todo) - 1
  BY <1>5, FS_RemoveElement
<1> QED
  BY <1>2, <1>3, <1>6, <1>7

LEMMA CountAdvance ==
    ASSUME TypeOK, ScanInv, NEW i \in todo, Visit(i),
           rules' = rules, todo' = todo \ {i}
    PROVE  /\ Cardinality({x \in Visited : Counted(x)}) \in Nat
           /\ Cardinality({x \in Visited : Counted(x)}') =
                Cardinality({x \in Visited : Counted(x)}) + IF Counted(i) THEN 1 ELSE 0
<1> DEFINE C == {x \in Visited : Counted(x)}
<1>1. Len(rules) \in Nat /\ Visited \subseteq 1..Len(rules)
  BY LenProperties DEF TypeOK, Visited
<1>2. IsFiniteSet(1..Len(rules))
  BY <1>1, FS_Interval
<1>3. C \in SUBSET (1..Len(rules))
  BY <1>1
<1>4. IsFiniteSet(C)
  BY <1>2, <1>3, FS_Subset
<1>5. Cardinality(C) \in Nat
  BY <1>4, FS_CardinalityType
<1>6. Visited' = Visited \cup {i} /\ i \notin Visited
  BY Advance
<1>7. CASE Counted(i)
  <2>1. C' = C \cup {i}
    BY <1>6, <1>7, Steady
  <2>2. i \notin C
    BY <1>6
  <2> HIDE DEF C
  <2>3. Cardinality(C \cup {i}) = Cardinality(C) + 1
    BY <1>4, <2>2, FS_AddElement
  <2>4. Cardinality(C') = Cardinality(C) + 1
    BY <2>1, <2>3
  <2> QED
    BY <1>5, <1>7, <2>4 DEF C
<1>8. CASE ~ Counted(i)
  <2>1. C' = C
    BY <1>6, <1>8, Steady
  <2> HIDE DEF C
  <2>2. Cardinality(C') = Cardinality(C) + 0
    BY <1>5, <2>1
  <2> QED
    BY <1>5, <1>8, <2>2 DEF C
<1> QED
  BY <1>7, <1>8

LEMMA FiniteTodo ==
    ASSUME Len(rules) \in Nat, todo \subseteq 1..Len(rules)
    PROVE  Cardinality(todo) \in Nat /\ (Cardinality(todo) = 0 <=> todo = {})
<1>1. IsFiniteSet(1..Len(rules))
  BY FS_Interval
<1>2. IsFiniteSet(todo)
  BY <1>1, FS_Subset
<1> QED
  BY <1>2, FS_CardinalityType, FS_EmptySet

\* A turn that hits nothing.
LEMMA Passed ==
    ASSUME IInv, decision = "pending", NEW i \in todo, Visit(i),
           rules[i].when \in {"true", "nomatch"}, ~ Rule!Holds(i),
           todo' = todo \ {i}, UNCHANGED <<rules, hits, anyExplicitMatched, decision>>,
           totalEvaluated' = totalEvaluated + IF Counted(i) THEN 1 ELSE 0
    PROVE  IInv'
<1>1. TypeOK /\ ScanInv /\ CountInv
  BY DEF IInv
<1>2. /\ Visited' = Visited \cup {i} /\ i \notin Visited
      /\ \A a \in Visited', b \in todo' : Ahead(rules, a, b)
      /\ Cardinality(todo) \in Nat
      /\ Cardinality(todo') = Cardinality(todo) - 1
  BY <1>1, Advance
<1>3. ScanInv'
  <2>1. \A a \in Visited', b \in todo' : Ahead(rules', a, b)
    BY <1>2
  <2>2. ~ Rule!Halts(i) /\ \A x \in Visited : ~ Rule!Halts(x)
    BY <1>1 DEF Rule!Halts, ScanInv
  <2>3. \A x \in Visited' : ~ Rule!Halts(x)'
    BY <1>2, <2>2, Steady
  <2>4. \A x \in Visited' : rules'[x].when = "unsupported" => ~ Rule!Reached(x)'
    BY <1>1, <1>2, Steady DEF ScanInv
  <2>5. \A p \in 1..Len(hits') : hits'[p] \in Visited'
    BY <1>1, <1>2 DEF ScanInv
  <2>6. \A x \in Visited' :
          (\E p \in 1..Len(hits') : hits'[p] = x) <=> Rule!Holds(x)' /\ Rule!Reached(x)'
    BY <1>1, <1>2, Steady DEF ScanInv
  <2>7. \A p, q \in 1..Len(hits') : p < q => Ahead(rules', hits'[p], hits'[q])
    BY <1>1 DEF ScanInv
  <2>8. anyExplicitMatched' <=> \E x \in Visited' : rules'[x].when = "match"
    BY <1>1, <1>2 DEF ScanInv
  <2> QED
    BY <2>1, <2>3, <2>4, <2>5, <2>6, <2>7, <2>8 DEF ScanInv
<1>4. Len(rules) \in Nat /\ totalEvaluated \in Nat
  BY <1>1, LenProperties DEF TypeOK
<1>5. /\ totalEvaluated' \in 0..Len(rules)
      /\ totalEvaluated' + Cardinality(todo') <= Len(rules)
  <2>1. totalEvaluated + Cardinality(todo) <= Len(rules)
    BY <1>1 DEF CountInv
  <2>2. totalEvaluated' = totalEvaluated \/ totalEvaluated' = totalEvaluated + 1
    BY <1>4
  <2>3. Cardinality(todo) # 0
    BY <1>1, <1>4, FiniteTodo DEF TypeOK
  <2> QED
    BY <1>2, <1>4, <2>1, <2>2, <2>3
<1>6. TypeOK'
  BY <1>1, <1>5 DEF TypeOK
<1>7. CountInv'
  BY <1>1, <1>5, CountAdvance DEF CountInv
<1> QED
  BY <1>3, <1>6, <1>7 DEF IInv, EvaluatedCount

\* A turn that hits.
LEMMA Struck ==
    ASSUME IInv, decision = "pending", NEW i \in todo, Hit(i)
    PROVE  IInv'
<1>1. TypeOK /\ ScanInv /\ CountInv
  BY DEF IInv
<1>2. /\ Visit(i) /\ ~ Inert(i) /\ rules[i].when \in {"match", "true"}
      /\ hits' = Append(hits, i) /\ UNCHANGED <<rules, decision>>
      /\ totalEvaluated' = totalEvaluated + 1
      /\ todo' = IF rules[i].then = "EMERGENCY_HALT" THEN {} ELSE todo \ {i}
  BY DEF Hit
<1>3. i \in 1..Len(rules) /\ todo \subseteq 1..Len(rules) /\ Len(rules) \in Nat
  BY <1>1, LenProperties DEF TypeOK
<1>4. Rule!Holds(i)
  <2>1. CASE rules[i].when = "match"
    BY <2>1 DEF Rule!Holds
  <2>2. CASE rules[i].when = "true"
    BY <1>1, <1>2, <2>2, TurnOfCatchAll DEF Inert
  <2> QED
    BY <1>2, <2>1, <2>2
<1>5. Rule!Reached(i)
  BY <1>1, <1>2, TurnReached
<1>6. /\ hits' \in Seq(1..Len(rules)) /\ Len(hits) \in Nat /\ Len(hits') = Len(hits) + 1
      /\ \A p \in 1..Len(hits) : hits'[p] = hits[p]
      /\ hits'[Len(hits) + 1] = i
  BY <1>1, <1>2, <1>3, AppendProperties, LenProperties DEF TypeOK
<1>7. /\ i \notin Visited /\ Cardinality(todo) \in Nat
      /\ \A b \in todo \ {i} : Ahead(rules, i, b)
      /\ \A a \in Visited, b \in todo : Ahead(rules, a, b)
  <2>1. Cardinality(todo) \in Nat
    BY <1>3, FiniteTodo
  <2> QED
    BY <1>1, <1>2, <2>1 DEF ScanInv, Visit, Visited
<1>8. \A p, q \in 1..Len(hits') : p < q => Ahead(rules', hits'[p], hits'[q])
  <2> SUFFICES ASSUME NEW p \in 1..Len(hits'), NEW q \in 1..Len(hits'), p < q
               PROVE  Ahead(rules, hits'[p], hits'[q])
    BY <1>2
  <2>1. p \in 1..Len(hits) /\ hits'[p] = hits[p]
    BY <1>6
  <2>2. CASE q \in 1..Len(hits)
    BY <1>1, <1>6, <2>1, <2>2 DEF ScanInv
  <2>3. CASE q = Len(hits) + 1
    <3>1. hits[p] \in Visited
      BY <1>1, <2>1 DEF ScanInv
    <3>2. hits'[q] = i
      <4>1. hits'[Len(hits) + 1] = i
        BY <1>6
      <4> QED
        BY <2>3, <4>1
    <3>3. Ahead(rules, hits[p], i)
      BY <1>7, <3>1
    <3> QED
      BY <2>1, <3>2, <3>3
  <2> QED
    BY <1>6, <2>2, <2>3
<1>9. \A x : (\E p \in 1..Len(hits') : hits'[p] = x)
              <=> (x = i \/ \E p \in 1..Len(hits) : hits[p] = x)
  <2>1. \A p \in 1..Len(hits') : p \in 1..Len(hits) \/ p = Len(hits) + 1
    BY <1>6
  <2>2. \A p \in 1..Len(hits) : p \in 1..Len(hits')
    BY <1>6
  <2>3. Len(hits) + 1 \in 1..Len(hits')
    BY <1>6
  <2> QED
    BY <1>6, <2>1, <2>2, <2>3
<1>10. \A x \in Visited : ~ Rule!Halts(x)
  BY <1>1 DEF ScanInv
<1>11. totalEvaluated' \in 0..Len(rules)
  <2>1. Cardinality(todo) # 0
    BY <1>3, FiniteTodo
  <2> QED
    BY <1>1, <1>2, <1>3, <1>7, <2>1 DEF CountInv, TypeOK
<1>12. TypeOK'
  <2>1. todo' \subseteq 1..Len(rules)
    BY <1>2, <1>3
  <2>2. anyExplicitMatched' \in BOOLEAN
    BY DEF Hit
  <2> QED
    BY <1>1, <1>2, <1>6, <1>11, <2>1, <2>2 DEF TypeOK
<1>13. CASE rules[i].then = "EMERGENCY_HALT"
  <2>1. todo' = {} /\ Visited' = 1..Len(rules) /\ Rule!Halts(i)
    BY <1>2, <1>4, <1>13 DEF Visited, Rule!Halts
  <2>2. \A x \in todo \ {i} : ~ Rule!Reached(x)
    BY <1>3, <1>7, <2>1, SameOrder DEF Rule!Reached, Rule!Indices
  <2>3. \A x \in 1..Len(rules) : x \in Visited \/ x = i \/ x \in todo \ {i}
    BY DEF Visited
  <2>4. ScanInv'
    <3>1. \A x \in Visited' : rules'[x].when = "unsupported" => ~ Rule!Reached(x)'
      BY <1>1, <1>2, <2>1, <2>2, <2>3, Steady DEF ScanInv
    <3>2. \A p \in 1..Len(hits') : hits'[p] \in Visited'
      BY <1>6, <2>1, ElementOfSeq
    <3>3. \A x \in Visited' :
            (\E p \in 1..Len(hits') : hits'[p] = x) <=> Rule!Holds(x)' /\ Rule!Reached(x)'
      <4>1. \A x \in todo \ {i} : ~ \E p \in 1..Len(hits) : hits[p] = x
        BY <1>1 DEF ScanInv, Visited
      <4> QED
        BY <1>1, <1>2, <1>4, <1>5, <1>9, <2>1, <2>2, <2>3, <4>1, Steady DEF ScanInv
    <3> QED
      BY <1>8, <2>1, <3>1, <3>2, <3>3 DEF ScanInv
  <2>5. CountInv'
    <3>1. Cardinality(todo') = 0
      BY <2>1, FS_EmptySet
    <3>2. totalEvaluated' + Cardinality(todo') <= Len(rules)
      BY <1>3, <1>11, <3>1
    <3> QED
      BY <1>2, <1>3, <1>13, <3>2 DEF CountInv
  <2> QED
    BY <1>2, <1>12, <2>4, <2>5 DEF IInv, EvaluatedCount
<1>14. CASE rules[i].then # "EMERGENCY_HALT"
  <2>1. todo' = todo \ {i} /\ ~ Rule!Halts(i)
    BY <1>2, <1>14 DEF Rule!Halts
  <2>2. /\ Visited' = Visited \cup {i}
        /\ \A a \in Visited', b \in todo' : Ahead(rules, a, b)
        /\ Cardinality(todo') = Cardinality(todo) - 1
    BY <1>1, <1>2, <2>1, Advance
  <2>3. ScanInv'
    <3>1. \A x \in Visited' : ~ Rule!Halts(x)'
      BY <1>2, <1>10, <2>1, <2>2, Steady
    <3>2. \A x \in Visited' : rules'[x].when = "unsupported" => ~ Rule!Reached(x)'
      BY <1>1, <1>2, <2>2, Steady DEF ScanInv
    <3>3. \A p \in 1..Len(hits') : hits'[p] \in Visited'
      BY <1>1, <1>6, <1>9, <2>2 DEF ScanInv
    <3>4. \A x \in Visited' :
            (\E p \in 1..Len(hits') : hits'[p] = x) <=> Rule!Holds(x)' /\ Rule!Reached(x)'
      BY <1>1, <1>2, <1>4, <1>5, <1>9, <2>2, Steady DEF ScanInv
    <3>5. anyExplicitMatched' <=> \E x \in Visited' : rules'[x].when = "match"
      <4>1. anyExplicitMatched' <=> anyExplicitMatched \/ rules[i].when # "true"
        BY DEF Hit
      <4>2. anyExplicitMatched <=> \E x \in Visited : rules[x].when = "match"
        BY <1>1 DEF ScanInv
      <4> QED
        BY <1>2, <2>2, <4>1, <4>2
    <3>6. \A a \in Visited', b \in todo' : Ahead(rules', a, b)
      BY <1>2, <2>2
    <3> QED
      BY <1>8, <3>1, <3>2, <3>3, <3>4, <3>5, <3>6 DEF ScanInv
  <2>4. CountInv'
    <3>1. Counted(i)
      BY <1>4 DEF Counted
    <3>2. totalEvaluated' + Cardinality(todo') <= Len(rules)
      BY <1>1, <1>2, <1>3, <1>7, <2>2 DEF CountInv, TypeOK
    <3> QED
      BY <1>1, <1>2, <2>1, <3>1, <3>2, CountAdvance DEF CountInv
  <2> QED
    BY <1>2, <1>12, <2>3, <2>4 DEF IInv, EvaluatedCount
<1> QED
  BY <1>13, <1>14

-----------------------------------------------------------------------------
(***************************************************************************)
(* The fold finds what ResolutionRule allows.                              *)
(***************************************************************************)
LEMMA StrengthOfDecision == \A d \in DOMAIN decStrength : decStrength[d] \in Nat
BY DEF decStrength

\* When nothing is left to visit, the hits are those of ResolutionRule.
LEMMA HitsComplete ==
    ASSUME TypeOK, ScanInv, todo = {}
    PROVE  /\ \A p \in 1..Len(hits) : hits[p] \in Rule!Hits /\ rules[hits[p]] \in Rules
           /\ \A x \in Rule!Hits : \E p \in 1..Len(hits) : hits[p] = x
           /\ ~ Rule!Refused
<1>1. Visited = 1..Len(rules)
  BY DEF Visited
<1>2. \A p \in 1..Len(hits) : hits[p] \in 1..Len(rules)
  BY <1>1 DEF ScanInv
<1>3. \A p \in 1..Len(hits) : hits[p] \in Rule!Hits
  BY <1>1, <1>2 DEF ScanInv, Rule!Hits, Rule!Indices
<1>4. \A p \in 1..Len(hits) : rules[hits[p]] \in Rules
  BY <1>2, ElementOfSeq DEF TypeOK
<1>5. \A x \in Rule!Hits : \E p \in 1..Len(hits) : hits[p] = x
  BY <1>1 DEF ScanInv, Rule!Hits, Rule!Indices
<1>6. ~ Rule!Refused
  BY <1>1 DEF ScanInv, Rule!Refused, Rule!Indices
<1> QED
  BY <1>3, <1>4, <1>5, <1>6

\* Positions in the list of hits follow the order of the scan, and so do rings.
LEMMA HitOrder ==
    ASSUME TypeOK, ScanInv, todo = {},
           NEW p \in 1..Len(hits), NEW q \in 1..Len(hits), p < q
    PROVE  /\ Rule!Ahead(rules, hits[p], hits[q])
           /\ rules[hits[p]].ring <= rules[hits[q]].ring
<1>1. Ahead(rules, hits[p], hits[q])
  BY DEF ScanInv
<1>2. hits[p] \in 1..Len(rules) /\ hits[q] \in 1..Len(rules) /\ rules \in Seq(Rules)
  BY DEF ScanInv, Visited, TypeOK
<1>3. Rule!Holds(hits[p]) /\ Rule!Holds(hits[q])
  BY HitsComplete DEF Rule!Hits
<1>4. rules[hits[p]].when = "true" <=> rules[hits[q]].when = "true"
  BY <1>2, <1>3 DEF Rule!Holds, Rule!Indices
<1> QED
  BY <1>1, <1>2, <1>4, Order, SameOrder

LEMMA FoldDecides ==
    ASSUME IInv, decision = "pending", todo = {}
    PROVE  Decide \in Rule!Outcomes /\ Decide \in Decisions \cup {"none"}
<1>1. TypeOK /\ ScanInv
  BY DEF IInv
<1>2. /\ \A p \in 1..Len(hits) : hits[p] \in Rule!Hits /\ rules[hits[p]] \in Rules
      /\ \A x \in Rule!Hits : \E p \in 1..Len(hits) : hits[p] = x
      /\ ~ Rule!Refused
  BY <1>1, HitsComplete
<1>3. Len(hits) \in Nat
  BY <1>1, LenProperties DEF TypeOK
<1>4. \A p \in 1..Len(hits) : p \in Uncovered <=> hits[p] \in Rule!Uncovered
  BY <1>2, SameOrder DEF Uncovered, Rule!Uncovered
<1>5. \A p \in 1..Len(hits) : p \in NonRestrictive <=> hits[p] \in Rule!Permissive
  BY <1>2, SameOrder DEF NonRestrictive, Rule!Permissive
<1>6. /\ Uncovered \in SUBSET (1..Len(hits)) /\ NonRestrictive \in SUBSET (1..Len(hits))
      /\ Rule!Uncovered \subseteq Rule!Hits /\ Rule!Permissive \subseteq Rule!Hits
  BY DEF Uncovered, NonRestrictive, Rule!Uncovered, Rule!Permissive
<1>7. \A p \in 1..Len(hits) : rules[hits[p]].then \in Decisions /\ rules[hits[p]].ring \in Nat
  BY <1>2 DEF Rules
<1>8. CASE Uncovered # {}
  <2> DEFINE rank == [p \in Uncovered |-> rules[hits[p]].ring]
  <2> DEFINE f == FirstLeast(Uncovered, rank)
  <2>1. \A p \in Uncovered : rank[p] = rules[hits[p]].ring /\ rank[p] \in Nat
    BY <1>6, <1>7
  <2> HIDE DEF rank
  <2>2. f \in Uncovered /\ \A q \in Uncovered :
            rank[f] < rank[q] \/ (rank[f] = rank[q] /\ f <= q)
    BY <1>3, <1>6, <1>8, <2>1, Least
  <2> HIDE DEF f
  <2>3. \A q \in Uncovered : f <= q
    <3> SUFFICES ASSUME NEW q \in Uncovered, q < f PROVE FALSE
      BY <1>3, <1>6, <2>2
    <3>1. rank[q] <= rank[f]
      BY <1>1, <1>6, <2>1, <2>2, HitOrder
    <3> QED
      BY <1>3, <1>6, <2>1, <2>2, <3>1
  <2>4. hits[f] \in Rule!FirstOf(Rule!Uncovered)
    <3>1. hits[f] \in Rule!Uncovered
      BY <1>4, <1>6, <2>2
    <3>2. ASSUME NEW j \in Rule!Uncovered \ {hits[f]} PROVE Rule!Ahead(rules, hits[f], j)
      <4>1. PICK q \in 1..Len(hits) : hits[q] = j
        BY <1>2, <1>6
      <4>2. q \in Uncovered /\ q # f
        BY <1>4, <4>1
      <4>3. f < q
        BY <1>3, <1>6, <2>2, <2>3, <4>2
      <4> QED
        BY <1>1, <1>6, <2>2, <4>1, <4>3, HitOrder
    <3> QED
      BY <3>1, <3>2 DEF Rule!FirstOf
  <2>5. Decide = rules[hits[f]].then
    BY <1>8 DEF Decide, f, rank
  <2>6. Rule!Uncovered # {}
    BY <1>4, <1>6, <2>2
  <2>7. Decide \in Rule!Outcomes
    BY <1>2, <2>4, <2>5, <2>6 DEF Rule!Outcomes
  <2> QED
    BY <1>6, <1>7, <2>2, <2>5, <2>7
<1>9. CASE Uncovered = {} /\ NonRestrictive # {}
  <2> DEFINE rank == [p \in NonRestrictive |-> decStrength[rules[hits[p]].then]]
  <2> DEFINE f == FirstLeast(NonRestrictive, rank)
  <2>1. \A p \in NonRestrictive :
            rank[p] = decStrength[rules[hits[p]].then] /\ rank[p] \in Nat
    BY StrengthOfDecision DEF NonRestrictive
  <2> HIDE DEF rank
  <2>2. f \in NonRestrictive /\ \A q \in NonRestrictive :
            rank[f] < rank[q] \/ (rank[f] = rank[q] /\ f <= q)
    BY <1>3, <1>6, <1>9, <2>1, Least
  <2> HIDE DEF f
  <2>3. hits[f] \in Rule!Strongest(Rule!Permissive)
    <3>1. hits[f] \in Rule!Permissive
      BY <1>5, <1>6, <2>2
    <3>2. ASSUME NEW j \in Rule!Permissive
          PROVE  Rule!decStrength[rules[hits[f]].then] <= Rule!decStrength[rules[j].then]
      <4>1. PICK q \in 1..Len(hits) : hits[q] = j
        BY <1>2, <1>6
      <4>2. q \in NonRestrictive
        BY <1>5, <4>1
      <4>3. rank[f] <= rank[q]
        BY <2>1, <2>2, <4>2
      <4> QED
        BY <2>1, <2>2, <4>1, <4>2, <4>3, SameOrder
    <3> QED
      BY <3>1, <3>2 DEF Rule!Strongest
  <2>4. ASSUME NEW j \in Rule!Strongest(Rule!Permissive) \ {hits[f]}
        PROVE  Rule!Ahead(rules, hits[f], j)
    <3>1. j \in Rule!Permissive
      BY DEF Rule!Strongest
    <3>2. PICK q \in 1..Len(hits) : hits[q] = j
      BY <1>2, <1>6, <3>1
    <3>3. q \in NonRestrictive /\ q # f
      BY <1>5, <3>1, <3>2
    <3>4. hits[f] \in Rule!Permissive
      BY <1>5, <1>6, <2>2
    <3>5. rank[q] <= rank[f]
      BY <2>1, <2>2, <3>2, <3>3, <3>4, SameOrder DEF Rule!Strongest
    <3>6. f < q
      BY <1>3, <1>6, <2>1, <2>2, <3>3, <3>5
    <3> QED
      BY <1>1, <1>6, <2>2, <3>2, <3>6, HitOrder
  <2>5. Decide = rules[hits[f]].then
    BY <1>9 DEF Decide, f, rank
  <2>6. Rule!Uncovered = {} /\ Rule!Permissive # {}
    BY <1>2, <1>4, <1>5, <1>6, <1>9, <2>2
  <2>7. hits[f] \in Rule!FirstOf(Rule!Strongest(Rule!Permissive))
    BY <2>3, <2>4 DEF Rule!FirstOf
  <2>8. Decide \in Rule!Outcomes
    BY <1>2, <2>5, <2>6, <2>7 DEF Rule!Outcomes
  <2> QED
    BY <1>6, <1>7, <2>2, <2>5, <2>8
<1>10. CASE Uncovered = {} /\ NonRestrictive = {}
  <2>1. Rule!Uncovered = {} /\ Rule!Permissive = {}
    BY <1>2, <1>4, <1>5, <1>6, <1>10
  <2>2. Decide = "none"
    BY <1>10 DEF Decide
  <2> QED
    BY <1>2, <2>1, <2>2 DEF Rule!Outcomes
<1> QED
  BY <1>8, <1>9, <1>10

\* When every rule was visited and none halts, what was counted are the
\* explicit rules, and the catch-alls if no explicit rule matched.
LEMMA FinalCount ==
    ASSUME IInv, decision = "pending", todo = {},
           \A i \in 1..Len(rules) : rules[i].then # "EMERGENCY_HALT"
    PROVE  totalEvaluated =
             IF \E i \in {k \in 1..Len(rules) : rules[k].when # "true"} : rules[i].when = "match"
             THEN Cardinality({k \in 1..Len(rules) : rules[k].when # "true"})
             ELSE Len(rules)
<1>1. Len(rules) \in Nat /\ Visited = 1..Len(rules)
  BY LenProperties DEF IInv, TypeOK, Visited
<1>2. totalEvaluated = Cardinality({k \in Visited : Counted(k)})
  BY DEF IInv, CountInv
<1>3. CASE \E i \in 1..Len(rules) : rules[i].when = "match"
  <2>1. {k \in Visited : Counted(k)} = {k \in 1..Len(rules) : rules[k].when # "true"}
    BY <1>1, <1>3 DEF Counted, Rule!Holds, Rule!Indices
  <2> QED
    BY <1>2, <1>3, <2>1
<1>4. CASE ~ \E i \in 1..Len(rules) : rules[i].when = "match"
  <2>1. {k \in Visited : Counted(k)} = 1..Len(rules)
    BY <1>1, <1>4 DEF Counted, Rule!Holds, Rule!Indices
  <2>2. Cardinality(1..Len(rules)) = IF 1 > Len(rules) THEN 0 ELSE Len(rules) - 1 + 1
    BY <1>1, FS_Interval
  <2>3. Cardinality(1..Len(rules)) = Len(rules)
    BY <1>1, <2>2
  <2> QED
    BY <1>2, <1>4, <2>1, <2>3
<1> QED
  BY <1>3, <1>4

LEMMA InvStep == IInv /\ [Next]_vars => IInv'
<1> SUFFICES ASSUME IInv, [Next]_vars PROVE IInv'
  OBVIOUS
<1>1. ASSUME NEW i \in todo, SkipCatchAll(i) PROVE IInv'
  <2>1. /\ decision = "pending" /\ Visit(i) /\ rules[i].when = "true" /\ anyExplicitMatched
        /\ todo' = todo \ {i} /\ totalEvaluated' = totalEvaluated
        /\ UNCHANGED <<rules, hits, anyExplicitMatched, decision>>
    BY <1>1 DEF SkipCatchAll, Visit, Inert
  <2>2. ~ Rule!Holds(i)
    BY <2>1, TurnOfCatchAll DEF IInv
  <2>3. ~ Counted(i)
    BY <2>1, <2>2 DEF Counted
  <2>4. totalEvaluated' = totalEvaluated + IF Counted(i) THEN 1 ELSE 0
    BY <2>1, <2>3 DEF IInv, TypeOK
  <2> QED
    BY <2>1, <2>2, <2>4, Passed
<1>2. ASSUME NEW i \in todo, Refuse(i) PROVE IInv'
  <2>1. /\ decision = "pending" /\ decision' = "throws" /\ totalEvaluated' = totalEvaluated + 1
        /\ UNCHANGED <<rules, todo, hits, anyExplicitMatched>>
    BY <1>2 DEF Refuse, Visit
  <2>2. totalEvaluated' \in 0..Len(rules)
    <3>1. Len(rules) \in Nat /\ totalEvaluated \in Nat
      BY LenProperties DEF IInv, TypeOK
    <3>2. Cardinality(todo) \in Nat /\ Cardinality(todo) # 0
      BY <3>1, FiniteTodo DEF IInv, TypeOK
    <3>3. totalEvaluated + Cardinality(todo) <= Len(rules)
      BY <2>1 DEF IInv, CountInv
    <3> QED
      BY <2>1, <3>1, <3>2, <3>3
  <2>3. TypeOK'
    BY <2>1, <2>2 DEF IInv, TypeOK, Outcomes
  <2> QED
    BY <2>1, <2>3 DEF IInv, EvaluatedCount
<1>3. ASSUME NEW i \in todo, Miss(i) PROVE IInv'
  <2>1. /\ decision = "pending" /\ Visit(i) /\ rules[i].when = "nomatch"
        /\ todo' = todo \ {i} /\ totalEvaluated' = totalEvaluated + 1
        /\ UNCHANGED <<rules, hits, anyExplicitMatched, decision>>
    BY <1>3 DEF Miss, Visit
  <2>2. ~ Rule!Holds(i) /\ Counted(i)
    BY <2>1 DEF Rule!Holds, Counted
  <2> QED
    BY <2>1, <2>2, Passed
<1>4. ASSUME NEW i \in todo, Hit(i) PROVE IInv'
  <2>1. decision = "pending"
    BY <1>4 DEF Hit, Visit
  <2> QED
    BY <1>4, <2>1, Struck
<1>5. CASE Fold
  <2>1. /\ decision = "pending" /\ todo = {} /\ decision' = Decide
        /\ UNCHANGED <<rules, todo, hits, anyExplicitMatched, totalEvaluated>>
    BY <1>5 DEF Fold
  <2>2. Decide \in Decisions \cup {"none"}
    BY <2>1, FoldDecides
  <2>3. decision' # "pending"
    BY <2>1, <2>2 DEF Decisions, RESTRICTIVE, decStrength
  <2>4. TypeOK'
    BY <2>1, <2>2 DEF IInv, TypeOK, Outcomes
  <2>5. EvaluatedCount'
    BY <2>1, FinalCount DEF EvaluatedCount
  <2> QED
    BY <2>3, <2>4, <2>5 DEF IInv
<1>6. CASE UNCHANGED vars
  <2>1. UNCHANGED <<rules, todo, hits, anyExplicitMatched, totalEvaluated, decision>>
    BY <1>6 DEF vars
  <2>2. Visited' = Visited
    BY <2>1 DEF Visited
  <2>3. ScanInv => ScanInv'
    BY <2>1, <2>2, Steady DEF ScanInv
  <2>4. {i \in Visited : Counted(i)}' = {i \in Visited : Counted(i)}
    BY <2>1, <2>2, Steady
  <2>5. CountInv => CountInv'
    BY <2>1, <2>4 DEF CountInv
  <2>6. TypeOK' /\ EvaluatedCount'
    BY <2>1 DEF IInv, TypeOK, EvaluatedCount
  <2> QED
    BY <2>1, <2>3, <2>5, <2>6 DEF IInv
<1> QED
  BY <1>1, <1>2, <1>3, <1>4, <1>5, <1>6 DEF Next

\* What the scan visited lies ahead of the rest, the hits are the visited rules
\* that hold and that no rule stops, and every evaluation is counted once.
THEOREM Inductive == Spec => []IInv
<1> QED
  BY TypeInit, InvStep, PTL DEF Spec

\* Every variable keeps its type, for rule lists of any length.
THEOREM TypeCorrect == Spec => []TypeOK
<1>1. IInv => TypeOK
  BY DEF IInv
<1> QED
  BY <1>1, Inductive, PTL

\* total_evaluated of the result is determined by the rules alone: the explicit
\* rules, and the catch-alls exactly when no explicit rule matched.
THEOREM CountedOnce == Spec => []EvaluatedCount
<1>1. IInv => EvaluatedCount
  BY DEF IInv
<1> QED
  BY <1>1, Inductive, PTL

\* The scan with its early exits and the fold with its two reductions come to a
\* decision that the relation of ResolutionRule allows.
THEOREM Refinement == Spec => ImplementsRule
<1>1. Init => Rule!Init
  BY RulebooksAssumption DEF Init, Rule!Init, Rules, Rule!Rules, Decisions, Rule!Decisions,
     RESTRICTIVE, Rule!RESTRICTIVE, decStrength, Rule!decStrength, strength, Rule!strength
<1>2. ASSUME IInv, [Next]_vars PROVE [Rule!Next]_<<rules, decision>>
  <2>1. ASSUME NEW i \in todo, Refuse(i) PROVE Rule!Next
    <3>1. /\ decision = "pending" /\ decision' = "throws" /\ rules' = rules
          /\ Visit(i) /\ rules[i].when = "unsupported"
      BY <2>1 DEF Refuse, Visit
    <3>2. Rule!Reached(i) /\ i \in 1..Len(rules)
      BY <1>2, <3>1, TurnReached DEF IInv, TypeOK
    <3>3. Rule!Refused
      BY <3>1, <3>2 DEF Rule!Refused, Rule!Indices
    <3> QED
      BY <3>1, <3>3 DEF Rule!Next, Rule!Resolve, Rule!Outcomes
  <2>2. ASSUME NEW i \in todo, SkipCatchAll(i) \/ Miss(i) \/ Hit(i)
        PROVE  UNCHANGED <<rules, decision>>
    BY <2>2 DEF SkipCatchAll, Miss, Hit
  <2>3. CASE Fold
    BY <1>2, <2>3, FoldDecides DEF Fold, Rule!Next, Rule!Resolve
  <2>4. CASE UNCHANGED vars
    BY <2>4 DEF vars
  <2> QED
    BY <1>2, <2>1, <2>2, <2>3, <2>4 DEF Next
<1> QED
  BY <1>1, <1>2, Inductive, PTL DEF Spec, ImplementsRule, Rule!Spec

-----------------------------------------------------------------------------
(***************************************************************************)
(* What one more rule, or another order of the rules, may change.          *)
(***************************************************************************)
\* A decision once made is one that ResolutionRule allows.
DecidedInv == decision # "pending" => decision \in Rule!Outcomes

LEMMA OutcomesSteady ==
    ASSUME rules' = rules
    PROVE  Rule!Outcomes' = Rule!Outcomes
<1>1. Rule!Hits' = Rule!Hits
  BY Steady DEF Rule!Hits, Rule!Indices
<1>2. Rule!Refused' = Rule!Refused
  BY Steady DEF Rule!Refused, Rule!Indices
<1>3. Rule!Uncovered' = Rule!Uncovered
  BY <1>1 DEF Rule!Uncovered
<1>4. Rule!Permissive' = Rule!Permissive
  BY <1>1 DEF Rule!Permissive
<1>5. \A S : Rule!FirstOf(S)' = Rule!FirstOf(S)
  BY DEF Rule!FirstOf, Rule!Ahead, Rule!Place
<1>6. \A S : Rule!Strongest(S)' = Rule!Strongest(S)
  BY DEF Rule!Strongest
<1> QED
  BY <1>2, <1>3, <1>4, <1>5, <1>6 DEF Rule!Outcomes

LEMMA DecidedStep == IInv /\ DecidedInv /\ [Next]_vars => DecidedInv'
<1> SUFFICES ASSUME IInv, DecidedInv, [Next]_vars PROVE DecidedInv'
  OBVIOUS
<1>1. rules' = rules
  BY DEF Next, SkipCatchAll, Refuse, Miss, Hit, Fold, vars
<1>2. ASSUME NEW i \in todo, Refuse(i) PROVE decision' \in Rule!Outcomes
  <2>1. decision = "pending" /\ decision' = "throws" /\ Visit(i) /\ rules[i].when = "unsupported"
    BY <1>2 DEF Refuse, Visit
  <2>2. Rule!Reached(i) /\ i \in 1..Len(rules)
    BY <2>1, TurnReached DEF IInv, TypeOK
  <2>3. Rule!Refused
    BY <2>1, <2>2 DEF Rule!Refused, Rule!Indices
  <2> QED
    BY <2>1, <2>3 DEF Rule!Outcomes
<1>3. ASSUME Fold PROVE decision' \in Rule!Outcomes
  BY <1>3, FoldDecides DEF Fold
<1>4. ASSUME NEW i \in todo, SkipCatchAll(i) \/ Miss(i) \/ Hit(i) PROVE decision' = decision
  BY <1>4 DEF SkipCatchAll, Miss, Hit
<1>5. decision' \in Rule!Outcomes \/ decision' = decision
  BY <1>2, <1>3, <1>4 DEF Next, vars
<1> QED
  BY <1>1, <1>5, OutcomesSteady DEF DecidedInv

LEMMA DecisionAllowed == Spec => []DecidedInv
<1>1. Init => DecidedInv
  BY DEF Init, DecidedInv
<1> QED
  BY <1>1, DecidedStep, Inductive, PTL DEF Spec

\* A restriction is decided only when some rule restricts without being covered.
LEMMA RestrictedBy ==
    ASSUME TypeOK, DecidedInv, decision \in RESTRICTIVE
    PROVE  ~ Rule!Refused /\ Rule!Uncovered # {}
<1>1. decision # "pending" /\ decision # "throws" /\ decision # "none"
      /\ decision \notin DOMAIN decStrength
  BY DEF RESTRICTIVE, decStrength
<1>2. \A i \in Rule!FirstOf(Rule!Strongest(Rule!Permissive)) :
          rules[i].then \in DOMAIN decStrength
  BY SameOrder DEF Rule!FirstOf, Rule!Strongest, Rule!Permissive
<1> QED
  BY <1>1, <1>2 DEF DecidedInv, Rule!Outcomes

-----------------------------------------------------------------------------
LEMMA TightenedOrder ==
    ASSUME NEW r
    PROVE  /\ \A rs, i, j : Tightened(r)!Ahead(rs, i, j) = Ahead(rs, i, j)
           /\ \A o, x : Tightened(r)!Covers(o, x) = Covers(o, x)
           /\ Tightened(r)!RESTRICTIVE = RESTRICTIVE
<1>1. Tightened(r)!strength = strength /\ Tightened(r)!RESTRICTIVE = RESTRICTIVE
  BY DEF Tightened!strength, strength, Tightened!RESTRICTIVE, RESTRICTIVE
<1>2. \A rs, i : Tightened(r)!Place(rs, i) = Place(rs, i)
  BY <1>1 DEF Tightened!Place, Place
<1> QED
  BY <1>1, <1>2 DEF Tightened!Ahead, Ahead, Tightened!Covers, Covers

\* A rule put behind all others leaves the order of these as it was.
LEMMA AppendKeepsOrder ==
    ASSUME NEW rs \in Seq(Rules), NEW r \in Rules
    PROVE  LET more == Append(rs, r) IN
           /\ more \in Seq(Rules) /\ Len(more) = Len(rs) + 1 /\ Len(rs) \in Nat
           /\ more[Len(rs) + 1] = r
           /\ \A i \in 1..Len(rs) : more[i] = rs[i]
           /\ \A i, j \in 1..Len(rs) : Ahead(more, i, j) <=> Ahead(rs, i, j)
<1> DEFINE more == Append(rs, r)
<1>1. /\ more \in Seq(Rules) /\ Len(more) = Len(rs) + 1 /\ Len(rs) \in Nat
      /\ more[Len(rs) + 1] = r
      /\ \A i \in 1..Len(rs) : more[i] = rs[i]
  BY AppendProperties, LenProperties
<1>2. \A i \in 1..Len(rs) : Place(more, i) = Place(rs, i)
  BY <1>1 DEF Place
<1>3. \A i, j \in 1..Len(rs) : Ahead(more, i, j) <=> Ahead(rs, i, j)
  BY <1>2 DEF Ahead
<1> QED
  BY <1>1, <1>3

LEMMA TightenedRestricts ==
    ASSUME TypeOK, DecidedInv, decision \in RESTRICTIVE, NEW r \in Restrictions
    PROVE  Tightened(r)!Outcomes \subseteq RESTRICTIVE
<1> DEFINE more == Append(rules, r)
<1> DEFINE n == Len(rules)
<1>1. ~ Rule!Refused /\ Rule!Uncovered # {}
  BY RestrictedBy
<1>2. /\ r \in Rules /\ r.when = "match" /\ r.then \in RESTRICTIVE
      /\ r.then # "EMERGENCY_HALT" /\ r.then # "ALLOW"
  BY DEF Restrictions, Rules, RESTRICTIVE, Decisions, strength
<1>3. /\ rules \in Seq(Rules)
      /\ more \in Seq(Rules) /\ Len(more) = n + 1 /\ n \in Nat
      /\ more[n + 1] = r
      /\ \A i \in 1..n : more[i] = rules[i]
      /\ \A i, j \in 1..n : Ahead(more, i, j) <=> Ahead(rules, i, j)
  BY <1>2, AppendKeepsOrder DEF TypeOK
<1> HIDE DEF more
<1>4. Tightened(r)!Indices = 1..(n + 1)
  BY <1>3 DEF Tightened!Indices, more
<1>5. \A i : Tightened(r)!Holds(i) <=>
          \/ more[i].when = "match"
          \/ more[i].when = "true" /\ \A j \in 1..(n + 1) : more[j].when # "match"
  BY <1>4 DEF Tightened!Holds, more
<1>6. \A i : Tightened(r)!Halts(i) <=> Tightened(r)!Holds(i) /\ more[i].then = "EMERGENCY_HALT"
  BY DEF Tightened!Halts, more
<1>7. \A i : Tightened(r)!Reached(i) <=>
          \A j \in 1..(n + 1) : Tightened(r)!Halts(j) => ~ Ahead(more, j, i)
  BY <1>4, TightenedOrder DEF Tightened!Reached, more
<1>8. n + 1 \in 1..(n + 1) /\ \A i \in 1..(n + 1) : i \in 1..n \/ i = n + 1
  BY <1>3
<1> HIDE DEF n
\* Catch-alls have become inert; an explicit rule holds as it did.
<1>9. \A i \in 1..(n + 1) : Tightened(r)!Holds(i) <=> more[i].when = "match"
  BY <1>2, <1>3, <1>5, <1>8
<1>10. ~ Tightened(r)!Halts(n + 1)
  BY <1>2, <1>3, <1>6
<1>11. \A i \in 1..n : Tightened(r)!Halts(i) => Rule!Halts(i)
  BY <1>3, <1>6, <1>8, <1>9 DEF Rule!Halts, Rule!Holds
<1>12. Rule!Indices = 1..n
  BY DEF Rule!Indices, n
<1>13. \A i \in 1..n : Rule!Reached(i) => Tightened(r)!Reached(i)
  BY <1>3, <1>7, <1>8, <1>10, <1>11, <1>12, SameOrder DEF Rule!Reached
<1>14. ~ Tightened(r)!Refused
  <2> SUFFICES ASSUME NEW i \in 1..(n + 1), more[i].when = "unsupported", Tightened(r)!Reached(i)
               PROVE  FALSE
    BY <1>4 DEF Tightened!Refused, more
  <2>1. i \in 1..n /\ rules[i].when = "unsupported"
    BY <1>2, <1>3, <1>8
  <2>2. ASSUME NEW j \in 1..n, Rule!Halts(j), Ahead(rules, j, i) PROVE FALSE
    <3>1. rules[j].when # "true"
      BY <1>3, <2>1, <2>2, Order DEF n
    <3>2. Tightened(r)!Halts(j)
      BY <1>3, <1>6, <1>8, <1>9, <2>2, <3>1 DEF Rule!Halts, Rule!Holds
    <3>3. Ahead(more, j, i)
      BY <1>3, <2>1, <2>2
    <3>4. j \in 1..(n + 1)
      BY <1>3
    <3> QED
      BY <1>7, <3>2, <3>3, <3>4
  <2>3. Rule!Reached(i)
    BY <1>12, <2>2, SameOrder DEF Rule!Reached
  <2> QED
    BY <1>1, <1>12, <2>1, <2>3 DEF Rule!Refused
<1>15. Tightened(r)!Hits = {i \in 1..(n + 1) : Tightened(r)!Holds(i) /\ Tightened(r)!Reached(i)}
  BY <1>4 DEF Tightened!Hits
<1>16. \A i : i \in Tightened(r)!Uncovered <=>
          /\ i \in Tightened(r)!Hits
          /\ more[i].then \in RESTRICTIVE
          /\ \A o \in Tightened(r)!Hits : ~ Covers(more[o], more[i])
  <2>1. /\ \A o, x : Tightened(r)!Covers(o, x) = Covers(o, x)
        /\ Tightened(r)!RESTRICTIVE = RESTRICTIVE
    BY TightenedOrder
  <2> QED
    BY <2>1 DEF Tightened!Uncovered, more
<1>17. \A x : ~ Covers(r, x)
  BY <1>2 DEF Covers
<1>18. Tightened(r)!Uncovered # {}
  <2>1. CASE \E m \in 1..n : rules[m].when = "match"
    <3>1. \A i \in 1..n : Rule!Holds(i) <=> rules[i].when = "match"
      BY <1>12, <2>1 DEF Rule!Holds
    <3>2. \A i \in 1..n : Rule!Halts(i) <=> Tightened(r)!Halts(i)
      BY <1>3, <1>6, <1>8, <1>9, <3>1 DEF Rule!Halts
    <3>3. \A i \in 1..n : Rule!Reached(i) <=> Tightened(r)!Reached(i)
      BY <1>3, <1>7, <1>8, <1>10, <1>12, <3>2, SameOrder DEF Rule!Reached
    <3>4. \A i \in 1..n : i \in Rule!Hits <=> i \in Tightened(r)!Hits
      BY <1>3, <1>8, <1>9, <1>12, <1>15, <3>1, <3>3 DEF Rule!Hits
    <3>5. PICK u \in Rule!Uncovered : TRUE
      BY <1>1
    <3>6. u \in Rule!Hits /\ u \in 1..n /\ rules[u].then \in RESTRICTIVE
          /\ \A o \in Rule!Hits : ~ Covers(rules[o], rules[u])
      BY <1>12, SameOrder DEF Rule!Uncovered, Rule!Hits
    <3>7. \A o \in Tightened(r)!Hits : ~ Covers(more[o], more[u])
      BY <1>3, <1>8, <1>15, <1>17, <3>4, <3>6
    <3> QED
      BY <1>3, <1>16, <3>4, <3>6, <3>7
  <2>2. CASE ~ \E m \in 1..n : rules[m].when = "match"
    <3>1. \A i \in 1..(n + 1) : Tightened(r)!Holds(i) <=> i = n + 1
      BY <1>2, <1>3, <1>8, <1>9, <2>2
    <3>2. Tightened(r)!Reached(n + 1)
      BY <1>6, <1>7, <1>10, <3>1
    <3>3. n + 1 \in Tightened(r)!Hits /\ \A o \in Tightened(r)!Hits : o = n + 1
      BY <1>8, <1>15, <3>1, <3>2
    <3> QED
      BY <1>2, <1>3, <1>16, <1>17, <3>3
  <2> QED
    BY <2>1, <2>2
<1>19. Tightened(r)!Outcomes =
          {more[i].then : i \in Tightened(r)!FirstOf(Tightened(r)!Uncovered)}
  BY <1>14, <1>18 DEF Tightened!Outcomes, more
<1>20. Tightened(r)!FirstOf(Tightened(r)!Uncovered) \subseteq Tightened(r)!Uncovered
  BY DEF Tightened!FirstOf
<1> QED
  BY <1>16, <1>19, <1>20

\* One more restrictive rule that matches never loosens a restriction, for rule
\* lists of any length and wherever ring and override put the rule.
THEOREM TighteningSafe == Spec => []TighteningNeverLoosens
<1>1. TypeOK /\ DecidedInv => TighteningNeverLoosens
  BY TightenedRestricts DEF TighteningNeverLoosens
<1> QED
  BY <1>1, TypeCorrect, DecisionAllowed, PTL

-----------------------------------------------------------------------------
LEMMA PermutedOrder ==
    ASSUME NEW p
    PROVE  /\ \A o, x : Permuted(p)!Covers(o, x) = Covers(o, x)
           /\ Permuted(p)!RESTRICTIVE = RESTRICTIVE
<1>1. Permuted(p)!strength = strength /\ Permuted(p)!RESTRICTIVE = RESTRICTIVE
  BY DEF Permuted!strength, strength, Permuted!RESTRICTIVE, RESTRICTIVE
<1> QED
  BY <1>1 DEF Permuted!Covers, Covers

\* A numbering that repeats no rule leaves none out.
LEMMA OrderCovers ==
    ASSUME NEW n \in Nat, NEW p \in [1..n -> 1..n],
           \A i, j \in 1..n : i # j => p[i] # p[j]
    PROVE  \A k \in 1..n : \E i \in 1..n : p[i] = k
<1>1. IsFiniteSet(1..n)
  BY FS_Interval
<1>2. p \in Injection(1..n, 1..n)
  BY DEF Injection, IsInjective
<1>3. p \in Surjection(1..n, 1..n)
  BY <1>1, <1>2, FS_Injection
<1> QED
  BY <1>3 DEF Surjection

LEMMA SequenceOf ==
    ASSUME NEW n \in Nat, NEW S, NEW q \in [1..n -> S]
    PROVE  q \in Seq(S) /\ Len(q) = n
OBVIOUS

\* What the list in another order has at a position.
LEMMA Relisted ==
    ASSUME TypeOK, NEW p \in Orders
    PROVE  LET n    == Len(rules)
               list == [i \in 1..n |-> rules[p[i]]]
           IN  /\ n \in Nat /\ rules \in Seq(Rules)
               /\ list \in Seq(Rules) /\ Len(list) = n
               /\ \A i \in 1..n : p[i] \in 1..n /\ list[i] = rules[p[i]]
               /\ \A i, j \in 1..n : i # j => p[i] # p[j]
               /\ \A k \in 1..n : \E i \in 1..n : p[i] = k
               /\ Permuted(p)!Indices = 1..n /\ Rule!Indices = 1..n
<1> DEFINE n == Len(rules)
<1> DEFINE list == [i \in 1..n |-> rules[p[i]]]
<1>1. n \in Nat /\ p \in [1..n -> 1..n] /\ \A i, j \in 1..n : i # j => p[i] # p[j]
  BY LenProperties DEF TypeOK, Orders
<1>2. \A i \in 1..n : rules[i] \in Rules
  BY ElementOfSeq DEF TypeOK
<1>3. \A i \in 1..n : p[i] \in 1..n /\ list[i] = rules[p[i]]
  BY <1>1
<1>4. list \in [1..n -> Rules]
  BY <1>2, <1>3
<1>5. \A k \in 1..n : \E i \in 1..n : p[i] = k
  BY <1>1, OrderCovers
<1> HIDE DEF list
<1>6. list \in Seq(Rules) /\ Len(list) = n
  BY <1>1, <1>4, SequenceOf
<1>7. Permuted(p)!Indices = 1..n /\ Rule!Indices = 1..n
  BY <1>6 DEF Permuted!Indices, Rule!Indices, list
<1> QED
  BY <1>1, <1>3, <1>5, <1>6, <1>7 DEF list, TypeOK

LEMMA PermutedHolds ==
    ASSUME TypeOK, NEW p \in Orders, NEW i \in 1..Len(rules)
    PROVE  Permuted(p)!Holds(i) <=> Rule!Holds(p[i])
<1> DEFINE n == Len(rules)
<1> DEFINE list == [k \in 1..n |-> rules[p[k]]]
<1>1. /\ \A k \in 1..n : p[k] \in 1..n /\ list[k] = rules[p[k]]
      /\ \A k \in 1..n : \E j \in 1..n : p[j] = k
      /\ Permuted(p)!Indices = 1..n /\ Rule!Indices = 1..n
  BY Relisted
<1> HIDE DEF list
<1>2. Permuted(p)!Holds(i) <=>
          \/ list[i].when = "match"
          \/ list[i].when = "true" /\ \A j \in 1..n : list[j].when # "match"
  BY <1>1 DEF Permuted!Holds, list
<1> HIDE DEF n
<1>3. ASSUME \A j \in 1..n : list[j].when # "match", NEW k \in 1..n
      PROVE  rules[k].when # "match"
  <2>1. PICK j \in 1..n : p[j] = k
    BY <1>1
  <2> QED
    BY <1>1, <1>3, <2>1
<1>4. ASSUME \A k \in 1..n : rules[k].when # "match", NEW j \in 1..n
      PROVE  list[j].when # "match"
  <2>1. p[j] \in 1..n /\ list[j] = rules[p[j]]
    BY <1>1
  <2> QED
    BY <1>4, <2>1
<1> QED
  BY <1>1, <1>2, <1>3, <1>4 DEF Rule!Holds, n

LEMMA PermutedRestricts ==
    ASSUME TypeOK, DecidedInv, decision \in RESTRICTIVE, NEW p \in Orders,
           \A i \in 1..Len(rules) : rules[i].then # "EMERGENCY_HALT"
    PROVE  Permuted(p)!Outcomes \subseteq RESTRICTIVE
<1> DEFINE n == Len(rules)
<1> DEFINE list == [i \in 1..n |-> rules[p[i]]]
<1>1. ~ Rule!Refused /\ Rule!Uncovered # {}
  BY RestrictedBy
<1>2. n \in Nat /\ p \in [1..n -> 1..n] /\ \A i, j \in 1..n : i # j => p[i] # p[j]
  BY LenProperties DEF TypeOK, Orders
<1>3. \A i \in 1..n : rules[i] \in Rules
  BY ElementOfSeq DEF TypeOK
<1>4. \A i \in 1..n : p[i] \in 1..n /\ list[i] = rules[p[i]]
  BY <1>2
<1>5. list \in [1..n -> Rules]
  BY <1>3, <1>4
<1>6. \A k \in 1..n : \E i \in 1..n : p[i] = k
  BY <1>2, OrderCovers
<1> HIDE DEF list
<1>7. Len(list) = n
  BY <1>2, <1>5, SequenceOf
<1>8. Permuted(p)!Indices = 1..n
  BY <1>7 DEF Permuted!Indices, list
<1>10. \A i \in 1..n : ~ Permuted(p)!Halts(i)
  BY <1>4 DEF Permuted!Halts, list
<1>11. Rule!Indices = 1..n
  BY DEF Rule!Indices
<1> HIDE DEF n
<1>12. \A i \in 1..n : Permuted(p)!Holds(i) <=> Rule!Holds(p[i])
  BY PermutedHolds DEF n
<1>13. \A i \in 1..n : Permuted(p)!Reached(i)
  BY <1>8, <1>10 DEF Permuted!Reached
<1>14. \A i \in 1..n : Rule!Reached(i)
  BY <1>11 DEF Rule!Reached, Rule!Halts, n
<1>15. ~ Permuted(p)!Refused
  <2>1. \A i \in 1..n : list[i].when # "unsupported"
    BY <1>1, <1>4, <1>11, <1>14 DEF Rule!Refused
  <2> QED
    BY <1>8, <2>1 DEF Permuted!Refused, list, n
<1>16. \A i : i \in Permuted(p)!Hits <=> i \in 1..n /\ Permuted(p)!Holds(i)
  BY <1>8, <1>13 DEF Permuted!Hits
<1>17. \A i : i \in Rule!Hits <=> i \in 1..n /\ Rule!Holds(i)
  BY <1>11, <1>14 DEF Rule!Hits
<1>18. \A i : i \in Permuted(p)!Uncovered <=>
          /\ i \in Permuted(p)!Hits
          /\ list[i].then \in RESTRICTIVE
          /\ \A o \in Permuted(p)!Hits : ~ Covers(list[o], list[i])
  <2>1. /\ \A o, x : Permuted(p)!Covers(o, x) = Covers(o, x)
        /\ Permuted(p)!RESTRICTIVE = RESTRICTIVE
    BY PermutedOrder
  <2> QED
    BY <2>1 DEF Permuted!Uncovered, list, n
<1>19. Permuted(p)!Uncovered # {}
  <2>1. PICK u \in Rule!Uncovered : TRUE
    BY <1>1
  <2>2. u \in Rule!Hits /\ u \in 1..n /\ rules[u].then \in RESTRICTIVE
        /\ \A o \in Rule!Hits : ~ Covers(rules[o], rules[u])
    BY <1>11, SameOrder DEF Rule!Uncovered, Rule!Hits
  <2>3. PICK v \in 1..n : p[v] = u
    BY <1>6, <2>2
  <2>4. v \in Permuted(p)!Hits
    BY <1>12, <1>16, <1>17, <2>2, <2>3
  <2>5. \A o \in Permuted(p)!Hits : ~ Covers(list[o], list[v])
    BY <1>4, <1>12, <1>16, <1>17, <2>2, <2>3
  <2> QED
    BY <1>4, <1>18, <2>2, <2>3, <2>4, <2>5
<1>20. Permuted(p)!Outcomes =
          {list[i].then : i \in Permuted(p)!FirstOf(Permuted(p)!Uncovered)}
  BY <1>15, <1>19 DEF Permuted!Outcomes, list, n
<1>21. Permuted(p)!FirstOf(Permuted(p)!Uncovered) \subseteq Permuted(p)!Uncovered
  BY DEF Permuted!FirstOf
<1> QED
  BY <1>18, <1>20, <1>21

\* Unless a rule halts the scan, no order of the same rules loosens a
\* restriction that one order came to.
THEOREM ListingSafe == Spec => []ListingNeverLoosens
<1>1. TypeOK /\ DecidedInv => ListingNeverLoosens
  BY PermutedRestricts DEF ListingNeverLoosens
<1> QED
  BY <1>1, TypeCorrect, DecisionAllowed, PTL

-----------------------------------------------------------------------------
(***************************************************************************)
(* When the order of the list does not matter.                             *)
(***************************************************************************)
\* No two rules have the same place but for their position in the list.
NoTies ==
    \A i, j \in 1..Len(rules) : i # j =>
        \E k \in 1..4 : Place(rules, i)[k] # Place(rules, j)[k]

LEMMA PermutedAhead ==
    ASSUME TypeOK, NoTies, NEW p \in Orders
    PROVE  \A i, j \in 1..Len(rules) :
               Permuted(p)!Ahead([k \in 1..Len(rules) |-> rules[p[k]]], i, j)
                   <=> Ahead(rules, p[i], p[j])
<1> DEFINE n == Len(rules)
<1> DEFINE list == [k \in 1..n |-> rules[p[k]]]
<1>1. /\ \A k \in 1..n : p[k] \in 1..n /\ list[k] = rules[p[k]]
      /\ \A i, j \in 1..n : i # j => p[i] # p[j]
      /\ list \in Seq(Rules) /\ rules \in Seq(Rules) /\ Len(list) = n
  BY Relisted
<1> HIDE DEF list
<1>2. \A i, j : Permuted(p)!Ahead(list, i, j) <=> Ahead(list, i, j)
  <2>1. Permuted(p)!strength = strength
    BY DEF Permuted!strength, strength
  <2>2. \A i : Permuted(p)!Place(list, i) = Place(list, i)
    BY <2>1 DEF Permuted!Place, Place
  <2> QED
    BY <2>2 DEF Permuted!Ahead, Ahead
<1>3. ASSUME NEW i \in 1..n, NEW j \in 1..n
      PROVE  Ahead(list, i, j) <=> Ahead(rules, p[i], p[j])
  <2> DEFINE a == Place(list, i)
  <2> DEFINE b == Place(list, j)
  <2> DEFINE c == Place(rules, p[i])
  <2> DEFINE d == Place(rules, p[j])
  <2>1. CASE i = j
    BY <1>1, <2>1, Order
  <2>2. CASE i # j
    <3>1. /\ a[1] = c[1] /\ a[2] = c[2] /\ a[3] = c[3] /\ a[4] = c[4]
          /\ b[1] = d[1] /\ b[2] = d[2] /\ b[3] = d[3] /\ b[4] = d[4]
      BY <1>1 DEF Place
    <3>2. \E k \in 1..4 : c[k] # d[k]
      BY <1>1, <2>2 DEF NoTies
    <3>3. Ahead(list, i, j) <=> Before(a, b)
      BY AheadIsBefore
    <3>4. Ahead(rules, p[i], p[j]) <=> Before(c, d)
      BY AheadIsBefore
    <3> HIDE DEF a, b, c, d
    <3>5. c[1] # d[1] \/ c[2] # d[2] \/ c[3] # d[3] \/ c[4] # d[4]
      <4>1. \A k \in 1..4 : k = 1 \/ k = 2 \/ k = 3 \/ k = 4
        OBVIOUS
      <4> QED
        BY <3>2, <4>1
    <3>6. Before(a, b) <=> Before(c, d)
      BY <3>1, <3>5 DEF Before
    <3> QED
      BY <3>3, <3>4, <3>6
  <2> QED
    BY <2>1, <2>2
<1> QED
  BY <1>2, <1>3 DEF list

LEMMA PermutedOutcomes ==
    ASSUME TypeOK, NoTies, NEW p \in Orders
    PROVE  Permuted(p)!Outcomes = Rule!Outcomes
<1> DEFINE n == Len(rules)
<1> DEFINE list == [i \in 1..n |-> rules[p[i]]]
<1>1. /\ \A i \in 1..n : p[i] \in 1..n /\ list[i] = rules[p[i]]
      /\ \A i, j \in 1..n : i # j => p[i] # p[j]
      /\ \A k \in 1..n : \E i \in 1..n : p[i] = k
      /\ Permuted(p)!Indices = 1..n /\ Rule!Indices = 1..n
  BY Relisted
<1>2. \A i \in 1..n : Permuted(p)!Holds(i) <=> Rule!Holds(p[i])
  BY PermutedHolds
<1>3. \A i, j \in 1..n : Permuted(p)!Ahead(list, i, j) <=> Rule!Ahead(rules, p[i], p[j])
  BY PermutedAhead, SameOrder
<1>4. /\ \A o, x : Permuted(p)!Covers(o, x) = Rule!Covers(o, x)
      /\ Permuted(p)!RESTRICTIVE = Rule!RESTRICTIVE
      /\ Permuted(p)!decStrength = Rule!decStrength
  BY PermutedOrder, SameOrder DEF Permuted!decStrength, decStrength
<1> HIDE DEF list
<1>5. \A i \in 1..n : Permuted(p)!Halts(i) <=> Rule!Halts(p[i])
  BY <1>1, <1>2 DEF Permuted!Halts, Rule!Halts, list
<1>6. \A i \in 1..n : Permuted(p)!Reached(i) <=> Rule!Reached(p[i])
  <2>1. \A i : Permuted(p)!Reached(i) <=>
            \A j \in 1..n : Permuted(p)!Halts(j) => ~ Permuted(p)!Ahead(list, j, i)
    BY <1>1 DEF Permuted!Reached, list
  <2>2. \A i : Rule!Reached(i) <=> \A j \in 1..n : Rule!Halts(j) => ~ Rule!Ahead(rules, j, i)
    BY <1>1 DEF Rule!Reached
  <2> HIDE DEF n
  <2>3. ASSUME NEW i \in 1..n, Permuted(p)!Reached(i), NEW k \in 1..n, Rule!Halts(k)
        PROVE  ~ Rule!Ahead(rules, k, p[i])
    <3>1. PICK j \in 1..n : p[j] = k
      BY <1>1
    <3> QED
      BY <1>3, <1>5, <2>1, <2>3, <3>1
  <2>4. ASSUME NEW i \in 1..n, Rule!Reached(p[i]), NEW j \in 1..n, Permuted(p)!Halts(j)
        PROVE  ~ Permuted(p)!Ahead(list, j, i)
    BY <1>1, <1>3, <1>5, <2>2, <2>4
  <2> QED
    BY <2>1, <2>2, <2>3, <2>4
<1>7. /\ Permuted(p)!Hits \subseteq 1..n /\ Rule!Hits \subseteq 1..n
      /\ \A i \in 1..n : i \in Permuted(p)!Hits <=> p[i] \in Rule!Hits
  BY <1>1, <1>2, <1>6 DEF Permuted!Hits, Rule!Hits
<1>8. Permuted(p)!Refused <=> Rule!Refused
  <2>1. Permuted(p)!Refused <=>
            \E i \in 1..n : list[i].when = "unsupported" /\ Permuted(p)!Reached(i)
    BY <1>1 DEF Permuted!Refused, list
  <2>2. Rule!Refused <=> \E i \in 1..n : rules[i].when = "unsupported" /\ Rule!Reached(i)
    BY <1>1 DEF Rule!Refused
  <2> HIDE DEF n
  <2>3. ASSUME NEW k \in 1..n, rules[k].when = "unsupported", Rule!Reached(k)
        PROVE  \E i \in 1..n : list[i].when = "unsupported" /\ Permuted(p)!Reached(i)
    <3>1. PICK i \in 1..n : p[i] = k
      BY <1>1
    <3> QED
      BY <1>1, <1>6, <2>3, <3>1
  <2>4. ASSUME NEW i \in 1..n, list[i].when = "unsupported", Permuted(p)!Reached(i)
        PROVE  \E k \in 1..n : rules[k].when = "unsupported" /\ Rule!Reached(k)
    BY <1>1, <1>6, <2>4
  <2> QED
    BY <2>1, <2>2, <2>3, <2>4
<1>9. /\ Permuted(p)!Uncovered \subseteq 1..n /\ Rule!Uncovered \subseteq 1..n
      /\ \A i \in 1..n : i \in Permuted(p)!Uncovered <=> p[i] \in Rule!Uncovered
  <2>1. \A i : i \in Permuted(p)!Uncovered <=>
            /\ i \in Permuted(p)!Hits
            /\ list[i].then \in Rule!RESTRICTIVE
            /\ \A o \in Permuted(p)!Hits : ~ Rule!Covers(list[o], list[i])
    BY <1>4 DEF Permuted!Uncovered, list
  <2>2. \A i : i \in Rule!Uncovered <=>
            /\ i \in Rule!Hits
            /\ rules[i].then \in Rule!RESTRICTIVE
            /\ \A o \in Rule!Hits : ~ Rule!Covers(rules[o], rules[i])
    BY DEF Rule!Uncovered
  <2> HIDE DEF n
  <2>3. ASSUME NEW i \in 1..n
        PROVE  (\A o \in Permuted(p)!Hits : ~ Rule!Covers(list[o], list[i])) <=>
                   \A o \in Rule!Hits : ~ Rule!Covers(rules[o], rules[p[i]])
    <3>1. ASSUME \A o \in Permuted(p)!Hits : ~ Rule!Covers(list[o], list[i]), NEW o \in Rule!Hits
          PROVE  ~ Rule!Covers(rules[o], rules[p[i]])
      <4>1. PICK j \in 1..n : p[j] = o
        BY <1>1, <1>7
      <4> QED
        BY <1>1, <1>7, <3>1, <4>1
    <3>2. ASSUME \A o \in Rule!Hits : ~ Rule!Covers(rules[o], rules[p[i]]),
                 NEW o \in Permuted(p)!Hits
          PROVE  ~ Rule!Covers(list[o], list[i])
      BY <1>1, <1>7, <3>2
    <3> QED
      BY <3>1, <3>2
  <2>4. \A i \in 1..n : i \in Permuted(p)!Uncovered <=> p[i] \in Rule!Uncovered
    BY <1>1, <1>7, <2>1, <2>2, <2>3
  <2> QED
    BY <1>7, <2>1, <2>2, <2>4
<1>10. /\ Permuted(p)!Permissive \subseteq 1..n /\ Rule!Permissive \subseteq 1..n
       /\ \A i \in 1..n : i \in Permuted(p)!Permissive <=> p[i] \in Rule!Permissive
  BY <1>1, <1>4, <1>7 DEF Permuted!Permissive, Rule!Permissive, list
<1>11. ASSUME NEW A \in SUBSET (1..n), NEW B \in SUBSET (1..n),
              \A i \in 1..n : i \in A <=> p[i] \in B
       PROVE  /\ Permuted(p)!FirstOf(A) \in SUBSET (1..n) /\ Rule!FirstOf(B) \in SUBSET (1..n)
              /\ \A i \in 1..n : i \in Permuted(p)!FirstOf(A) <=> p[i] \in Rule!FirstOf(B)
  <2>1. \A i : i \in Permuted(p)!FirstOf(A) <=>
            i \in A /\ \A j \in A \ {i} : Permuted(p)!Ahead(list, i, j)
    BY DEF Permuted!FirstOf, list
  <2>2. \A i : i \in Rule!FirstOf(B) <=>
            i \in B /\ \A j \in B \ {i} : Rule!Ahead(rules, i, j)
    BY DEF Rule!FirstOf
  <2> HIDE DEF n
  <2>3. ASSUME NEW i \in 1..n
        PROVE  i \in Permuted(p)!FirstOf(A) <=> p[i] \in Rule!FirstOf(B)
    <3>1. ASSUME \A j \in A \ {i} : Permuted(p)!Ahead(list, i, j), NEW k \in B \ {p[i]}
          PROVE  Rule!Ahead(rules, p[i], k)
      <4>1. PICK j \in 1..n : p[j] = k
        BY <1>1
      <4> QED
        BY <1>3, <1>11, <3>1, <4>1
    <3>2. ASSUME \A k \in B \ {p[i]} : Rule!Ahead(rules, p[i], k), NEW j \in A \ {i}
          PROVE  Permuted(p)!Ahead(list, i, j)
      <4>1. p[j] \in B \ {p[i]}
        BY <1>1, <1>11
      <4> QED
        BY <1>3, <3>2, <4>1
    <3> QED
      BY <1>11, <2>1, <2>2, <3>1, <3>2
  <2> QED
    BY <2>1, <2>2, <2>3
<1>12. ASSUME NEW A \in SUBSET (1..n), NEW B \in SUBSET (1..n),
              \A i \in 1..n : i \in A <=> p[i] \in B
       PROVE  {list[i].then : i \in A} = {rules[i].then : i \in B}
  <2> HIDE DEF n
  <2>1. ASSUME NEW k \in B PROVE \E i \in A : list[i].then = rules[k].then
    BY <1>1, <1>12
  <2>2. ASSUME NEW i \in A PROVE \E k \in B : rules[k].then = list[i].then
    BY <1>1, <1>12
  <2> QED
    BY <2>1, <2>2
<1>13. (Permuted(p)!Uncovered = {}) <=> (Rule!Uncovered = {})
  <2> HIDE DEF n
  <2> QED
    BY <1>1, <1>9
<1>14. (Permuted(p)!Permissive = {}) <=> (Rule!Permissive = {})
  <2> HIDE DEF n
  <2> QED
    BY <1>1, <1>10
<1>15. {list[i].then : i \in Permuted(p)!FirstOf(Permuted(p)!Uncovered)}
           = {rules[i].then : i \in Rule!FirstOf(Rule!Uncovered)}
  BY <1>9, <1>11, <1>12
<1> DEFINE A == Permuted(p)!Strongest(Permuted(p)!Permissive)
<1> DEFINE B == Rule!Strongest(Rule!Permissive)
<1>16. A \in SUBSET (1..n) /\ B \in SUBSET (1..n) /\ \A i \in 1..n : i \in A <=> p[i] \in B
  <2>1. \A i : i \in A <=>
            /\ i \in Permuted(p)!Permissive
            /\ \A j \in Permuted(p)!Permissive :
                   Rule!decStrength[list[i].then] <= Rule!decStrength[list[j].then]
    BY <1>4 DEF Permuted!Strongest, list
  <2>2. \A i : i \in B <=>
            /\ i \in Rule!Permissive
            /\ \A j \in Rule!Permissive :
                   Rule!decStrength[rules[i].then] <= Rule!decStrength[rules[j].then]
    BY DEF Rule!Strongest
  <2> HIDE DEF n, A, B
  <2>3. ASSUME NEW i \in 1..n
        PROVE  (\A j \in Permuted(p)!Permissive :
                    Rule!decStrength[list[i].then] <= Rule!decStrength[list[j].then]) <=>
               \A j \in Rule!Permissive :
                    Rule!decStrength[rules[p[i]].then] <= Rule!decStrength[rules[j].then]
    <3>1. ASSUME \A j \in Permuted(p)!Permissive :
                     Rule!decStrength[list[i].then] <= Rule!decStrength[list[j].then],
                 NEW k \in Rule!Permissive
          PROVE  Rule!decStrength[rules[p[i]].then] <= Rule!decStrength[rules[k].then]
      <4>1. PICK j \in 1..n : p[j] = k
        BY <1>1, <1>10
      <4> QED
        BY <1>1, <1>10, <3>1, <4>1
    <3>2. ASSUME \A k \in Rule!Permissive :
                     Rule!decStrength[rules[p[i]].then] <= Rule!decStrength[rules[k].then],
                 NEW j \in Permuted(p)!Permissive
          PROVE  Rule!decStrength[list[i].then] <= Rule!decStrength[list[j].then]
      BY <1>1, <1>10, <3>2
    <3> QED
      BY <3>1, <3>2
  <2>4. \A i \in 1..n : i \in A <=> p[i] \in B
    BY <1>1, <1>10, <2>1, <2>2, <2>3
  <2> QED
    BY <1>10, <2>1, <2>2, <2>4
<1>17. {list[i].then : i \in Permuted(p)!FirstOf(A)} = {rules[i].then : i \in Rule!FirstOf(B)}
  <2> HIDE DEF A, B
  <2> QED
    BY <1>11, <1>12, <1>16
<1>18. Permuted(p)!Outcomes =
           IF Permuted(p)!Refused THEN {"throws"}
           ELSE IF Permuted(p)!Uncovered # {}
           THEN {list[i].then : i \in Permuted(p)!FirstOf(Permuted(p)!Uncovered)}
           ELSE IF Permuted(p)!Permissive # {}
           THEN {list[i].then : i \in Permuted(p)!FirstOf(A)}
           ELSE {"none"}
  BY DEF Permuted!Outcomes, list
<1> QED
  BY <1>8, <1>13, <1>14, <1>15, <1>17, <1>18 DEF Rule!Outcomes

\* The rules leave no choice: of some rules at most one is ahead of the others.
LEMMA OneOutcome ==
    ASSUME TypeOK, NEW d \in Rule!Outcomes
    PROVE  Rule!Outcomes = {d}
<1>1. rules \in Seq(Rules)
  BY DEF TypeOK
<1>2. ASSUME NEW S \in SUBSET (1..Len(rules)), NEW i \in Rule!FirstOf(S), NEW j \in Rule!FirstOf(S)
      PROVE  i = j
  BY <1>1, Order, SameOrder DEF Rule!FirstOf
<1>3. /\ Rule!Uncovered \in SUBSET (1..Len(rules))
      /\ Rule!Strongest(Rule!Permissive) \in SUBSET (1..Len(rules))
  BY DEF Rule!Uncovered, Rule!Strongest, Rule!Permissive, Rule!Hits, Rule!Indices
<1> QED
  BY <1>2, <1>3 DEF Rule!Outcomes

\* When no two rules tie in class, ring, priority and override, the order in which
\* they are listed decides nothing, also when a rule halts the scan or is refused:
\* what holds of the comment "invariant under permutation" (run-v-resolve.mjs:48),
\* for rule lists of any length.
THEOREM OrderDecidesTies == Spec => [](NoTies => PermutationInvariant)
<1>1. TypeOK /\ DecidedInv => (NoTies => PermutationInvariant)
  <2> SUFFICES ASSUME TypeOK, DecidedInv, NoTies, decision # "pending", NEW p \in Orders
               PROVE  Permuted(p)!Outcomes = {decision}
    BY DEF PermutationInvariant
  <2>1. Permuted(p)!Outcomes = Rule!Outcomes
    BY PermutedOutcomes
  <2>2. decision \in Rule!Outcomes
    BY DEF DecidedInv
  <2> QED
    BY <2>1, <2>2, OneOutcome
<1> QED
  BY <1>1, TypeCorrect, DecisionAllowed, PTL

-----------------------------------------------------------------------------
(***************************************************************************)
(* The evaluator that the other programs call.                             *)
(***************************************************************************)
LEMMA AheadTransitive ==
    ASSUME NEW rs \in Seq(Rules),
           NEW i \in 1..Len(rs), NEW j \in 1..Len(rs), NEW k \in 1..Len(rs),
           Ahead(rs, i, j), Ahead(rs, j, k)
    PROVE  Ahead(rs, i, k)
<1> DEFINE a == Place(rs, i)
<1> DEFINE b == Place(rs, j)
<1> DEFINE c == Place(rs, k)
<1>1. \A m \in 1..5 : a[m] \in Int
  BY PlaceType
<1>2. \A m \in 1..5 : b[m] \in Int
  BY PlaceType
<1>3. \A m \in 1..5 : c[m] \in Int
  BY PlaceType
<1>4. PICK x \in 1..5 : a[x] < b[x] /\ \A l \in 1..(x - 1) : a[l] = b[l]
  BY DEF Ahead
<1>5. PICK y \in 1..5 : b[y] < c[y] /\ \A l \in 1..(y - 1) : b[l] = c[l]
  BY DEF Ahead
<1> HIDE DEF a, b, c
<1>6. CASE x <= y
  <2>1. a[x] \in Int /\ b[x] \in Int /\ c[x] \in Int
    BY <1>1, <1>2, <1>3
  <2>2. b[x] < c[x] \/ b[x] = c[x]
    <3>1. x = y \/ x \in 1..(y - 1)
      BY <1>6
    <3> QED
      BY <1>5, <3>1
  <2>3. a[x] < b[x]
    BY <1>4
  <2>4. a[x] < c[x]
    BY <2>1, <2>2, <2>3
  <2>5. \A l \in 1..(x - 1) : l \in 1..(y - 1)
    BY <1>6
  <2>6. \A l \in 1..(x - 1) : a[l] = c[l]
    BY <1>4, <1>5, <2>5
  <2> QED
    BY <2>4, <2>6 DEF Ahead, a, c
<1>7. CASE y < x
  <2>1. y \in 1..(x - 1) /\ \A l \in 1..(y - 1) : l \in 1..(x - 1)
    BY <1>7
  <2>2. a[y] < c[y]
    BY <1>4, <1>5, <2>1
  <2>3. \A l \in 1..(y - 1) : a[l] = c[l]
    BY <1>4, <1>5, <2>1
  <2> QED
    BY <2>2, <2>3 DEF Ahead, a, c
<1> QED
  BY <1>6, <1>7

\* Of some rules one is ahead of all the others.
LEMMA ForemostExists ==
    ASSUME NEW rs \in Seq(Rules), NEW S \in SUBSET (1..Len(rs)), S # {}
    PROVE  \E m \in S : \A j \in S \ {m} : Ahead(rs, m, j)
<1> DEFINE Front(i) == {j \in S : Ahead(rs, j, i)}
<1> DEFINE Sizes == {Cardinality(Front(i)) : i \in S}
<1>1. IsFiniteSet(1..Len(rs))
  BY LenProperties, FS_Interval
<1>2. IsFiniteSet(S)
  BY <1>1, FS_Subset
<1>3. \A i \in S : IsFiniteSet(Front(i))
  BY <1>2, FS_Subset
<1>4. \A i \in S : Cardinality(Front(i)) \in Nat
  BY <1>3, FS_CardinalityType
<1>5. PICK m \in S : \A i \in S : Cardinality(Front(m)) <= Cardinality(Front(i))
  <2>1. Sizes \in SUBSET Nat /\ Sizes # {}
    BY <1>4
  <2>2. \E c \in Sizes : \A d \in Sizes : c <= d
    <3> HIDE DEF Sizes
    <3> QED
      BY <2>1, LeastNat
  <2> QED
    BY <2>2
<1>6. ASSUME NEW j \in S, Ahead(rs, j, m) PROVE FALSE
  <2>1. Front(j) \subseteq Front(m)
    BY <1>6, AheadTransitive
  <2>2. j \in Front(m) /\ j \notin Front(j)
    BY <1>6, Order
  <2> HIDE DEF Front
  <2>3. Cardinality(Front(j)) = Cardinality(Front(m))
    <3>1. Cardinality(Front(j)) <= Cardinality(Front(m))
      BY <1>3, <2>1, FS_Subset
    <3> QED
      BY <1>4, <1>5, <3>1
  <2> QED
    BY <1>3, <2>1, <2>2, <2>3, FS_Subset
<1>7. \A j \in S \ {m} : Ahead(rs, m, j)
  BY <1>6, Order
<1> QED
  BY <1>7

LEMMA EvaluatorOrder ==
    ASSUME NEW rs
    PROVE  /\ \A i, j : Decision!Evaluator(rs)!Ahead(rs, i, j) = Ahead(rs, i, j)
           /\ \A o, x : Decision!Evaluator(rs)!Covers(o, x) = Covers(o, x)
           /\ Decision!Evaluator(rs)!RESTRICTIVE = RESTRICTIVE
           /\ Decision!Evaluator(rs)!decStrength = decStrength
<1>1. /\ Decision!Evaluator(rs)!strength = strength
      /\ Decision!Evaluator(rs)!RESTRICTIVE = RESTRICTIVE
      /\ Decision!Evaluator(rs)!decStrength = decStrength
  BY DEF Decision!Evaluator!strength, strength, Decision!Evaluator!RESTRICTIVE, RESTRICTIVE,
     Decision!Evaluator!decStrength, decStrength
<1>2. \A i : Decision!Evaluator(rs)!Place(rs, i) = Place(rs, i)
  BY <1>1 DEF Decision!Evaluator!Place, Place
<1> QED
  BY <1>1, <1>2 DEF Decision!Evaluator!Ahead, Ahead, Decision!Evaluator!Covers, Covers

\* Every list of rules has an outcome.
LEMMA OutcomeExists ==
    ASSUME NEW rs \in Seq(Rules)
    PROVE  Decision!Evaluator(rs)!Outcomes # {}
<1>1. /\ \A i, j : Decision!Evaluator(rs)!Ahead(rs, i, j) = Ahead(rs, i, j)
      /\ Decision!Evaluator(rs)!decStrength = decStrength
  BY EvaluatorOrder
<1>2. ASSUME NEW S \in SUBSET (1..Len(rs)), S # {}
      PROVE  Decision!Evaluator(rs)!FirstOf(S) # {}
  BY <1>1, <1>2, ForemostExists DEF Decision!Evaluator!FirstOf
<1>3. /\ Decision!Evaluator(rs)!Uncovered \in SUBSET (1..Len(rs))
      /\ Decision!Evaluator(rs)!Permissive \in SUBSET (1..Len(rs))
  BY DEF Decision!Evaluator!Uncovered, Decision!Evaluator!Permissive,
     Decision!Evaluator!Hits, Decision!Evaluator!Indices
<1>4. ASSUME Decision!Evaluator(rs)!Permissive # {}
      PROVE  /\ Decision!Evaluator(rs)!Strongest(Decision!Evaluator(rs)!Permissive) # {}
             /\ Decision!Evaluator(rs)!Strongest(Decision!Evaluator(rs)!Permissive)
                    \in SUBSET (1..Len(rs))
  <2> DEFINE P == Decision!Evaluator(rs)!Permissive
  <2> DEFINE Ranks == {decStrength[rs[i].then] : i \in P}
  <2>1. \A i \in P : decStrength[rs[i].then] \in Nat
    BY <1>1, StrengthOfDecision DEF Decision!Evaluator!Permissive
  <2>2. Ranks \in SUBSET Nat /\ Ranks # {}
    BY <1>4, <2>1
  <2>3. \E c \in Ranks : \A d \in Ranks : c <= d
    <3> HIDE DEF Ranks
    <3> QED
      BY <2>2, LeastNat
  <2>4. \E i \in P : \A j \in P : decStrength[rs[i].then] <= decStrength[rs[j].then]
    BY <2>3
  <2> QED
    BY <1>1, <1>3, <2>4 DEF Decision!Evaluator!Strongest
<1> QED
  BY <1>2, <1>3, <1>4 DEF Decision!Evaluator!Outcomes

\* Without overrides an ALLOW means that no matching rule restricts, and a
\* restriction that some rule asked for it.
LEMMA OutcomeMeans ==
    ASSUME NEW rs \in Seq(Rules), \A i \in 1..Len(rs) : rs[i].override = "normal",
           NEW d \in Decision!Evaluator(rs)!Outcomes
    PROVE  /\ d \in {"ALLOW", "none"} =>
                 \A i \in 1..Len(rs) : rs[i].when = "match" => rs[i].then \notin RESTRICTIVE
           /\ d \in RESTRICTIVE =>
                 \E i \in 1..Len(rs) : rs[i].then = d /\ rs[i].when \in {"match", "true"}
<1>1. /\ \A i, j : Decision!Evaluator(rs)!Ahead(rs, i, j) = Ahead(rs, i, j)
      /\ \A o, x : Decision!Evaluator(rs)!Covers(o, x) = Covers(o, x)
      /\ Decision!Evaluator(rs)!RESTRICTIVE = RESTRICTIVE
      /\ Decision!Evaluator(rs)!decStrength = decStrength
  BY EvaluatorOrder
<1>2. \A i : i \in Decision!Evaluator(rs)!Hits <=>
          /\ i \in 1..Len(rs)
          /\ Decision!Evaluator(rs)!Holds(i) /\ Decision!Evaluator(rs)!Reached(i)
  BY DEF Decision!Evaluator!Hits, Decision!Evaluator!Indices
<1>3. \A i : i \in Decision!Evaluator(rs)!Uncovered <=>
          i \in Decision!Evaluator(rs)!Hits /\ rs[i].then \in RESTRICTIVE
  <2>1. \A o \in Decision!Evaluator(rs)!Hits : \A x : ~ Covers(rs[o], x)
    BY <1>2 DEF Covers
  <2> QED
    BY <1>1, <2>1 DEF Decision!Evaluator!Uncovered
<1>4. \A i : i \in Decision!Evaluator(rs)!Permissive <=>
          i \in Decision!Evaluator(rs)!Hits /\ rs[i].then \in DOMAIN decStrength
  BY <1>1 DEF Decision!Evaluator!Permissive
<1>5. \A i : Decision!Evaluator(rs)!Halts(i) <=>
          Decision!Evaluator(rs)!Holds(i) /\ rs[i].then = "EMERGENCY_HALT"
  BY DEF Decision!Evaluator!Halts
<1>6. \A i : Decision!Evaluator(rs)!Reached(i) <=>
          \A j \in 1..Len(rs) : Decision!Evaluator(rs)!Halts(j) => ~ Ahead(rs, j, i)
  BY <1>1 DEF Decision!Evaluator!Reached, Decision!Evaluator!Indices
<1>7. \A S : Decision!Evaluator(rs)!FirstOf(S) \subseteq S
  BY DEF Decision!Evaluator!FirstOf
<1>8. \A S : \A i \in Decision!Evaluator(rs)!Strongest(S) :
          i \in S /\ \A j \in S : decStrength[rs[i].then] <= decStrength[rs[j].then]
  BY <1>1 DEF Decision!Evaluator!Strongest
<1>9. ASSUME Decision!Evaluator(rs)!Uncovered # {}, d # "throws"
      PROVE  \E i \in Decision!Evaluator(rs)!Uncovered : d = rs[i].then
  BY <1>7, <1>9 DEF Decision!Evaluator!Outcomes
<1>10. ASSUME Decision!Evaluator(rs)!Uncovered = {}, Decision!Evaluator(rs)!Permissive # {},
              d # "throws"
       PROVE  \E i \in Decision!Evaluator(rs)!Permissive :
                /\ d = rs[i].then
                /\ \A j \in Decision!Evaluator(rs)!Permissive :
                       decStrength[rs[i].then] <= decStrength[rs[j].then]
  <2>1. PICK i \in Decision!Evaluator(rs)!FirstOf(
                       Decision!Evaluator(rs)!Strongest(Decision!Evaluator(rs)!Permissive)) :
            d = rs[i].then
    BY <1>10 DEF Decision!Evaluator!Outcomes
  <2> QED
    BY <1>7, <1>8, <2>1
<1>11. ASSUME Decision!Evaluator(rs)!Uncovered = {}, Decision!Evaluator(rs)!Permissive = {}
       PROVE  d \in {"throws", "none"}
  BY <1>11 DEF Decision!Evaluator!Outcomes
<1>12. ASSUME d \in {"ALLOW", "none"}, NEW i \in 1..Len(rs),
              rs[i].when = "match", rs[i].then \in RESTRICTIVE
       PROVE  FALSE
  <2>1. Decision!Evaluator(rs)!Holds(i)
    BY <1>12 DEF Decision!Evaluator!Holds
  <2>2. Decision!Evaluator(rs)!Uncovered = {}
    BY <1>3, <1>9, <1>12 DEF RESTRICTIVE
  <2>3. ~ Decision!Evaluator(rs)!Reached(i)
    BY <1>2, <1>3, <1>12, <2>1, <2>2
  <2> DEFINE H == {j \in 1..Len(rs) : Decision!Evaluator(rs)!Halts(j)}
  <2>4. H # {} /\ H \in SUBSET (1..Len(rs))
    BY <1>6, <2>3
  <2>5. PICK h \in H : \A j \in H \ {h} : Ahead(rs, h, j)
    <3> HIDE DEF H
    <3> QED
      BY <2>4, ForemostExists
  <2>6. Decision!Evaluator(rs)!Reached(h)
    BY <1>6, <2>5, Order
  <2>7. h \in Decision!Evaluator(rs)!Permissive /\ rs[h].then = "EMERGENCY_HALT"
    BY <1>2, <1>4, <1>5, <2>5, <2>6 DEF decStrength
  <2>8. PICK s \in Decision!Evaluator(rs)!Permissive :
            /\ d = rs[s].then
            /\ decStrength[rs[s].then] <= decStrength[rs[h].then]
    BY <1>10, <1>12, <2>2, <2>7
  <2> QED
    BY <1>4, <1>12, <2>7, <2>8 DEF decStrength
<1>13. ASSUME d \in RESTRICTIVE
       PROVE  \E i \in 1..Len(rs) : rs[i].then = d /\ rs[i].when \in {"match", "true"}
  <2>1. d # "throws" /\ d # "none" /\ d \notin DOMAIN decStrength
    BY <1>13 DEF RESTRICTIVE, decStrength
  <2>2. Decision!Evaluator(rs)!Uncovered # {}
    BY <1>4, <1>10, <1>11, <2>1
  <2>3. PICK i \in Decision!Evaluator(rs)!Uncovered : d = rs[i].then
    BY <1>9, <2>1, <2>2
  <2>4. i \in 1..Len(rs) /\ Decision!Evaluator(rs)!Holds(i)
    BY <1>2, <1>3
  <2> QED
    BY <2>3, <2>4 DEF Decision!Evaluator!Holds
<1> QED
  BY <1>12, <1>13

-----------------------------------------------------------------------------
(***************************************************************************)
(* The programs together.  What holds of the runner by itself holds of it  *)
(* among the others.                                                       *)
(***************************************************************************)
LEMMA RunnerSteps == ProgramsSpec => Spec
<1>1. ProgramsInit => Init
  BY DEF ProgramsInit
<1>2. [ProgramsNext]_programVars => [Next]_vars
  BY DEF ProgramsNext, programVars, vars
<1> QED
  BY <1>1, <1>2, PTL DEF ProgramsSpec, Spec

(***************************************************************************)
(* The check of decision records.                                          *)
(***************************************************************************)
LEMMA DecisionSteps == ProgramsSpec => Decision!Spec
<1>1. ProgramsInit => Decision!Init
  BY DEF ProgramsInit
<1>2. [ProgramsNext]_programVars => [Decision!Next]_(Decision!vars)
  BY DEF ProgramsNext, programVars, decisionVars, Decision!vars
<1> QED
  BY <1>1, <1>2, PTL DEF ProgramsSpec, Decision!Spec

\* What an evaluator is given: the policies, all of normal override, one without
\* a condition as the program has it.
LEMMA RulesOf ==
    ASSUME NEW ps \in Seq(Policies), NEW u \in Conditions \cup {"true"},
           NEW rs, rs = [k \in DOMAIN ps |-> Decision!RuleOf(ps[k], u)]
    PROVE  /\ rs \in Seq(Rules) /\ Len(rs) = Len(ps) /\ Len(ps) \in Nat
           /\ \A k \in 1..Len(ps) :
                  /\ rs[k].override = "normal"
                  /\ rs[k].when = Decision!Default(ps[k].when, u)
                  /\ rs[k].then = ps[k].then
<1>1. Len(ps) \in Nat /\ DOMAIN ps = 1..Len(ps)
  BY LenProperties
<1>2. ASSUME NEW k \in 1..Len(ps)
      PROVE  /\ Decision!RuleOf(ps[k], u) \in Rules
             /\ Decision!RuleOf(ps[k], u).override = "normal"
             /\ Decision!RuleOf(ps[k], u).when = Decision!Default(ps[k].when, u)
             /\ Decision!RuleOf(ps[k], u).then = ps[k].then
  <2>1. ps[k] \in Policies
    BY ElementOfSeq
  <2>2. Decision!Default(ps[k].ring, 3) \in 0..3 /\ Decision!Default(ps[k].priority, 100) \in Int
    BY <2>1 DEF Policies, Decision!Default
  <2>3. Decision!Default(ps[k].when, u) \in {"true", "match", "nomatch", "unsupported"}
    BY <2>1 DEF Policies, Conditions, Decision!Default
  <2>4. "normal" \in DOMAIN strength
    BY DEF strength
  <2>5. ps[k].then \in Decisions
    BY <2>1 DEF Policies
  <2> QED
    BY <2>2, <2>3, <2>4, <2>5 DEF Decision!RuleOf, Rules
<1>3. rs \in [1..Len(ps) -> Rules]
  BY <1>1, <1>2
<1>4. rs \in Seq(Rules) /\ Len(rs) = Len(ps)
  BY <1>1, <1>3, SequenceOf
<1>5. \A k \in 1..Len(ps) : rs[k] = Decision!RuleOf(ps[k], u)
  BY <1>1
<1> QED
  BY <1>1, <1>2, <1>4, <1>5

\* What the check of decision records gives it: a policy without a condition
\* always holds.
LEMMA RulesGiven ==
    ASSUME NEW ps \in Seq(Policies)
    PROVE  /\ Decision!ToRules(ps) \in Seq(Rules)
           /\ Len(Decision!ToRules(ps)) = Len(ps) /\ Len(ps) \in Nat
           /\ \A k \in 1..Len(ps) :
                  /\ Decision!ToRules(ps)[k].override = "normal"
                  /\ Decision!ToRules(ps)[k].when = Decision!Default(ps[k].when, "true")
                  /\ Decision!ToRules(ps)[k].then = ps[k].then
<1> DEFINE rs == Decision!ToRules(ps)
<1>1. rs = [k \in DOMAIN ps |-> Decision!RuleOf(ps[k], "true")]
  BY DEF Decision!ToRules
<1> HIDE DEF rs
<1>2. /\ rs \in Seq(Rules) /\ Len(rs) = Len(ps) /\ Len(ps) \in Nat
      /\ \A k \in 1..Len(ps) :
             /\ rs[k].override = "normal"
             /\ rs[k].when = Decision!Default(ps[k].when, "true")
             /\ rs[k].then = ps[k].then
  <2>1. PICK u \in Conditions \cup {"true"} : u = "true"
    OBVIOUS
  <2>2. rs = [k \in DOMAIN ps |-> Decision!RuleOf(ps[k], u)]
    BY <1>1, <2>1
  <2>3. /\ rs \in Seq(Rules) /\ Len(rs) = Len(ps) /\ Len(ps) \in Nat
        /\ \A k \in 1..Len(ps) :
               /\ rs[k].override = "normal"
               /\ rs[k].when = Decision!Default(ps[k].when, u)
               /\ rs[k].then = ps[k].then
    BY <2>2, RulesOf
  <2> QED
    BY <2>1, <2>3
<1> QED
  BY <1>2 DEF rs

\* And what that of the producers gives it: no rule is a catch-all.
LEMMA RuleDefsGiven ==
    ASSUME NEW ps \in Seq(Policies)
    PROVE  /\ Producer!RuleDefs(ps) \in Seq(Rules)
           /\ Len(Producer!RuleDefs(ps)) = Len(ps)
           /\ \A k \in 1..Len(ps) :
                  /\ Producer!RuleDefs(ps)[k].when # "true"
                  /\ Producer!RuleDefs(ps)[k].then = ps[k].then
<1> DEFINE rs == Producer!RuleDefs(ps)
<1>1. rs = [k \in DOMAIN ps |-> Decision!RuleOf(ps[k], UndefinedExpr)]
  BY DEF Producer!RuleDefs, Producer!RuleOf, Decision!RuleOf, Producer!Default, Decision!Default
<1>2. UndefinedExpr \in Conditions
  BY ScenariosAssumption
<1> HIDE DEF rs
<1>3. /\ rs \in Seq(Rules) /\ Len(rs) = Len(ps)
      /\ \A k \in 1..Len(ps) :
             /\ rs[k].when = Decision!Default(ps[k].when, UndefinedExpr)
             /\ rs[k].then = ps[k].then
  BY <1>1, <1>2, RulesOf
<1>4. ASSUME NEW k \in 1..Len(ps) PROVE rs[k].when # "true"
  <2>1. ps[k] \in Policies
    BY ElementOfSeq
  <2> QED
    BY <1>2, <1>3, <2>1 DEF Policies, Conditions, Decision!Default
<1> QED
  BY <1>3, <1>4 DEF rs

\* A decision derived from policies is asked for by them.
LEMMA DerivedMeans ==
    ASSUME NEW do \in DecisionObjects, Decision!Derived(do) = do.decision
    PROVE  /\ do.decision = "ALLOW" =>
                 /\ ~ Decision!NeedsHuman(do.risk, do.required)
                 /\ \A k \in DOMAIN do.policies :
                        Decision!Matches(do.policies[k]) =>
                            do.policies[k].then \notin RESTRICTIVE
           /\ do.decision \in RESTRICTIVE =>
                 \E k \in DOMAIN do.policies :
                     /\ do.policies[k].then = do.decision
                     /\ do.policies[k].when \in {"match", None}
<1> DEFINE ps == do.policies
<1> DEFINE rs == Decision!ToRules(ps)
<1> DEFINE x == CHOOSE y \in Decision!Evaluator(rs)!Outcomes : TRUE
<1>1. ps \in Seq(Policies)
  BY DEF DecisionObjects
<1>2. DOMAIN ps = 1..Len(ps)
  BY <1>1, LenProperties
<1>3. /\ rs \in Seq(Rules) /\ Len(rs) = Len(ps) /\ Len(ps) \in Nat
      /\ \A k \in 1..Len(ps) :
             /\ rs[k].override = "normal" /\ rs[k].then = ps[k].then
             /\ rs[k].when = Decision!Default(ps[k].when, "true")
  BY <1>1, RulesGiven
<1>4. x \in Decision!Evaluator(rs)!Outcomes
  BY <1>3, OutcomeExists
<1>5. Decision!Evaluate(rs) = IF x = "none" THEN "ALLOW" ELSE x
  BY DEF Decision!Evaluate
<1> HIDE DEF x
<1>6. /\ x \in {"ALLOW", "none"} =>
           \A i \in 1..Len(rs) : rs[i].when = "match" => rs[i].then \notin RESTRICTIVE
      /\ x \in RESTRICTIVE =>
           \E i \in 1..Len(rs) : rs[i].then = x /\ rs[i].when \in {"match", "true"}
  <2> HIDE DEF rs
  <2> QED
    BY <1>3, <1>4, OutcomeMeans
<1>7. do.decision = IF Decision!Evaluate(rs) # "throws" /\ Decision!NeedsHuman(do.risk, do.required)
                    THEN "REQUEST_HUMAN" ELSE Decision!Evaluate(rs)
  BY DEF Decision!Derived
<1> HIDE DEF rs
<1>8. ASSUME do.decision = "ALLOW"
      PROVE  ~ Decision!NeedsHuman(do.risk, do.required) /\ x \in {"ALLOW", "none"}
  BY <1>5, <1>7, <1>8
<1>9. ASSUME do.decision \in RESTRICTIVE
      PROVE  x = do.decision
  BY <1>5, <1>7, <1>9 DEF RESTRICTIVE
<1> HIDE DEF ps
<1>10. ASSUME do.decision = "ALLOW", NEW k \in DOMAIN ps, Decision!Matches(ps[k])
       PROVE  ps[k].then \notin RESTRICTIVE
  <2>1. rs[k].when = "match"
    BY <1>2, <1>3, <1>10, FilesAssumption DEF Decision!Matches, Decision!Default, Conditions
  <2> QED
    BY <1>2, <1>3, <1>6, <1>8, <1>10, <2>1
<1>11. ASSUME do.decision \in RESTRICTIVE
       PROVE  \E k \in DOMAIN ps :
                  ps[k].then = do.decision /\ ps[k].when \in {"match", None}
  <2>1. PICK k \in 1..Len(rs) : rs[k].then = x /\ rs[k].when \in {"match", "true"}
    BY <1>6, <1>9, <1>11
  <2>2. ps[k] \in Policies
    BY <1>1, <1>3, <2>1, ElementOfSeq
  <2>3. ps[k].when \in {"match", None}
    BY <1>3, <2>1, <2>2 DEF Policies, Conditions, Decision!Default
  <2> QED
    BY <1>2, <1>3, <1>9, <1>11, <2>1, <2>3
<1> QED
  BY <1>8, <1>10, <1>11 DEF ps

\* The objects of a file that have been checked.
Checked(f) ==
    IF file = f THEN Decision!DOs(f) \ objects
    ELSE IF ok[f] # None THEN Decision!DOs(f) ELSE {}

\* What was found of each of them is in the tally, and a file passes by it.
DecisionInv ==
    /\ files \in [main: MainFiles, divergence: DivergenceFiles]
    /\ file \in Decision!Files \cup {"done"}
    /\ tally \in [Decision!Files -> [Decision!Results -> Nat]]
    /\ ok \in [Decision!Files -> BOOLEAN \cup {None}]
    /\ file \in Decision!Files => ok[file] = None
    /\ file = "main" => ok["divergence"] = None
    /\ \A f \in Decision!Files : \A p \in Checked(f) :
           tally[f][Decision!Check(Decision!ObjectAt(f, p))] > 0
    /\ ok["main"] = TRUE => tally["main"]["divergence"] = 0

LEMMA CheckResults == \A o : Decision!Check(o) \in Decision!Results
BY DEF Decision!Check, Decision!Results

LEMMA DecisionInit == Decision!Init => DecisionInv
<1> SUFFICES ASSUME Decision!Init PROVE DecisionInv
  OBVIOUS
<1>1. /\ files \in [main: MainFiles, divergence: DivergenceFiles]
      /\ file = "main" /\ objects = Decision!DOs("main")
      /\ tally = [f \in Decision!Files |-> [r \in Decision!Results |-> 0]]
      /\ ok = [f \in Decision!Files |-> None]
  BY DEF Decision!Init
<1>2. \A f \in Decision!Files : Checked(f) = {}
  BY <1>1 DEF Checked
<1>3. ok["main"] # TRUE
  BY <1>1, FilesAssumption DEF Decision!Files
<1> QED
  BY <1>1, <1>2, <1>3 DEF DecisionInv, Decision!Files

LEMMA DecisionStep == DecisionInv /\ [Decision!Next]_(Decision!vars) => DecisionInv'
<1> SUFFICES ASSUME DecisionInv, [Decision!Next]_(Decision!vars) PROVE DecisionInv'
  OBVIOUS
<1>1. files' = files
  BY DEF Decision!Next, Decision!CheckNext, Decision!Report, Decision!vars
<1>2. /\ \A f, p : Decision!ObjectAt(f, p)' = Decision!ObjectAt(f, p)
      /\ \A f : Decision!DOs(f)' = Decision!DOs(f)
  BY <1>1 DEF Decision!ObjectAt, Decision!DOs
<1>3. CASE Decision!CheckNext
  <2>1. PICK p \in objects :
            /\ file # "done"
            /\ tally' = [tally EXCEPT ![file][Decision!Check(Decision!ObjectAt(file, p))] = @ + 1]
            /\ objects' = objects \ {p}
            /\ UNCHANGED <<files, file, ok>>
    BY <1>3 DEF Decision!CheckNext
  <2> DEFINE r == Decision!Check(Decision!ObjectAt(file, p))
  <2>2. file \in Decision!Files /\ r \in Decision!Results
    BY <2>1, CheckResults DEF DecisionInv
  <2> HIDE DEF r
  <2>3. tally' \in [Decision!Files -> [Decision!Results -> Nat]]
    BY <2>1, <2>2 DEF DecisionInv, r
  <2>4. \A f \in Decision!Files, q \in Decision!Results :
            tally'[f][q] = IF f = file /\ q = r THEN tally[f][q] + 1 ELSE tally[f][q]
    BY <2>1, <2>2 DEF DecisionInv, r
  <2>5. ASSUME NEW f \in Decision!Files, NEW q \in Checked(f)'
        PROVE  tally'[f][Decision!Check(Decision!ObjectAt(f, q))] > 0
    <3> DEFINE c == Decision!Check(Decision!ObjectAt(f, q))
    <3>1. q \in Checked(f) \/ (f = file /\ q = p)
      BY <1>2, <2>1 DEF Checked
    <3>2. c \in Decision!Results
      BY CheckResults
    <3>3. tally[f][c] \in Nat
      BY <3>2 DEF DecisionInv
    <3>4. CASE q \in Checked(f)
      <4>1. tally[f][c] > 0
        BY <3>4 DEF DecisionInv
      <4> HIDE DEF c
      <4>2. tally'[f][c] = tally[f][c] + 1 \/ tally'[f][c] = tally[f][c]
        BY <2>4, <3>2
      <4>3. tally'[f][c] > 0
        BY <3>3, <4>1, <4>2
      <4> QED
        BY <4>3 DEF c
    <3>5. CASE f = file /\ q = p
      <4>1. c = r
        BY <3>5 DEF r
      <4> HIDE DEF c
      <4>2. tally'[f][c] = tally[f][c] + 1
        BY <2>4, <3>2, <3>5, <4>1
      <4>3. tally'[f][c] > 0
        BY <3>3, <4>2
      <4> QED
        BY <4>3 DEF c
    <3> QED
      BY <3>1, <3>4, <3>5
  <2>6. ok["main"] = TRUE => tally'["main"]["divergence"] = 0
    <3> SUFFICES ASSUME ok["main"] = TRUE PROVE tally'["main"]["divergence"] = 0
      OBVIOUS
    <3>1. file # "main"
      BY FilesAssumption DEF DecisionInv, Decision!Files
    <3>2. tally'["main"]["divergence"] = tally["main"]["divergence"]
      BY <2>4, <3>1 DEF Decision!Files, Decision!Results
    <3> QED
      BY <3>2 DEF DecisionInv
  <2> QED
    BY <1>2, <2>1, <2>3, <2>5, <2>6 DEF DecisionInv
<1>4. CASE Decision!Report
  <2>1. /\ file # "done" /\ objects = {}
        /\ ok' = [ok EXCEPT ![file] =
                     IF file = "divergence"
                     THEN tally[file]["divergence"] > 0 /\ tally[file]["coherent"] = 0
                     ELSE tally[file]["divergence"] = 0]
        /\ file' = IF file = "main" THEN "divergence" ELSE "done"
        /\ objects' = IF file = "main" THEN Decision!DOs("divergence") ELSE {}
        /\ UNCHANGED <<files, tally>>
    BY <1>4 DEF Decision!Report
  <2>2. file \in {"main", "divergence"}
    BY <2>1 DEF DecisionInv, Decision!Files
  <2>3. ok' \in [Decision!Files -> BOOLEAN \cup {None}]
    BY <2>1 DEF DecisionInv
  <2>4. ASSUME NEW f \in Decision!Files, NEW q \in Checked(f)' PROVE q \in Checked(f)
    <3>1. Decision!DOs(f)' = Decision!DOs(f)
      BY <1>2
    <3>2. CASE file = f
      <4>1. Checked(f) = Decision!DOs(f)
        BY <2>1, <3>2 DEF Checked
      <4>2. q \in Decision!DOs(f)'
        BY DEF Checked
      <4> QED
        BY <3>1, <4>1, <4>2
    <3>3. CASE file' = f
      <4>1. f = "divergence" /\ objects' = Decision!DOs("divergence")
        BY <2>1, <2>2, <3>3 DEF Decision!Files
      <4>2. Checked(f)' = {}
        BY <3>1, <3>3, <4>1 DEF Checked
      <4> QED
        BY <4>2
    <3>4. CASE file # f /\ file' # f
      <4>1. ok'[f] = ok[f]
        BY <2>1, <3>4 DEF DecisionInv
      <4> QED
        BY <3>1, <3>4, <4>1 DEF Checked
    <3> QED
      BY <3>2, <3>3, <3>4
  <2>5. ok'["main"] = TRUE => tally'["main"]["divergence"] = 0
    BY <2>1, <2>2 DEF DecisionInv, Decision!Files
  <2>6. \A f \in Decision!Files : \A p \in Checked(f)' :
            tally'[f][Decision!Check(Decision!ObjectAt(f, p))] > 0
    BY <2>1, <2>4 DEF DecisionInv
  <2>7. file' \in Decision!Files => file' = "divergence" /\ ok'["divergence"] = None
    BY <2>1, <2>2 DEF DecisionInv, Decision!Files
  <2>8. file' \in Decision!Files \cup {"done"} /\ file' # "main"
    BY <2>1, <2>2 DEF Decision!Files
  <2> QED
    BY <1>2, <2>1, <2>3, <2>5, <2>6, <2>7, <2>8 DEF DecisionInv
<1>5. CASE UNCHANGED Decision!vars
  <2>1. UNCHANGED <<files, file, objects, tally, ok>>
    BY <1>5 DEF Decision!vars
  <2>2. \A f : Checked(f)' = Checked(f)
    BY <1>2, <2>1 DEF Checked
  <2>3. \A f \in Decision!Files : \A p \in Checked(f)' :
            tally'[f][Decision!Check(Decision!ObjectAt(f, p))] > 0
    BY <2>1, <2>2 DEF DecisionInv
  <2>4. /\ files' \in [main: MainFiles, divergence: DivergenceFiles]
        /\ file' \in Decision!Files \cup {"done"}
        /\ tally' \in [Decision!Files -> [Decision!Results -> Nat]]
        /\ ok' \in [Decision!Files -> BOOLEAN \cup {None}]
        /\ file' \in Decision!Files => ok'[file'] = None
        /\ file' = "main" => ok'["divergence"] = None
        /\ ok'["main"] = TRUE => tally'["main"]["divergence"] = 0
    BY <2>1 DEF DecisionInv
  <2> QED
    BY <1>2, <2>3, <2>4 DEF DecisionInv
<1> QED
  BY <1>3, <1>4, <1>5 DEF Decision!Next

\* What a file may carry at a place is a decision object.
LEMMA ObjectType ==
    ASSUME files \in [main: MainFiles, divergence: DivergenceFiles],
           NEW p \in Decision!DOs("main")
    PROVE  Decision!ObjectAt("main", p) \in DecisionObjects
<1> DEFINE names == {"decision_object", "base_do", "tampered_do"}
<1>1. files["main"] \in Seq([names -> DecisionObjects \cup {None}])
  BY FilesAssumption
<1>2. p[1] \in 1..Len(files["main"]) /\ p[2] \in 1..3 /\ Decision!ObjectAt("main", p) # None
  BY DEF Decision!DOs
<1>3. files["main"][p[1]] \in [names -> DecisionObjects \cup {None}]
  BY <1>1, <1>2, ElementOfSeq
<1>4. Decision!Fields[p[2]] \in names
  BY <1>2 DEF Decision!Fields
<1> QED
  BY <1>2, <1>3, <1>4 DEF Decision!ObjectAt

\* For files and records of any length: when the main vectors pass, no record
\* claims an ALLOW that a matching rule of its own or the oversight restricts,
\* and none claims a restriction that no rule of it asks for.
THEOREM Earned == ProgramsSpec => []AllowIsEarned
<1>1. DecisionInv => AllowIsEarned
  <2> SUFFICES ASSUME DecisionInv, ok["main"] = TRUE, NEW p \in Decision!Judged("main")
               PROVE  LET do == Decision!ObjectAt("main", p)
                      IN  /\ do.decision = "ALLOW" =>
                               /\ ~ Decision!NeedsHuman(do.risk, do.required)
                               /\ \A k \in DOMAIN do.policies :
                                      Decision!Matches(do.policies[k]) =>
                                          do.policies[k].then \notin RESTRICTIVE
                          /\ do.decision \in RESTRICTIVE =>
                               \E k \in DOMAIN do.policies :
                                   /\ do.policies[k].then = do.decision
                                   /\ do.policies[k].when \in {"match", None}
    BY DEF AllowIsEarned, Decision!AllowIsEarned, Decision!Passed,
       Decision!RESTRICTIVE, RESTRICTIVE
  <2> DEFINE do == Decision!ObjectAt("main", p)
  <2>1. p \in Decision!DOs("main") /\ ~ Decision!Skips(do)
    BY DEF Decision!Judged
  <2>2. p \in Checked("main")
    BY <2>1, FilesAssumption DEF Checked, DecisionInv, Decision!Files
  <2>3. tally["main"][Decision!Check(do)] > 0
    BY <2>2 DEF DecisionInv, Decision!Files
  <2>4. Decision!Check(do) # "divergence"
    BY <2>3 DEF DecisionInv
  <2>5. Decision!Derived(do) = do.decision
    BY <2>1, <2>4 DEF Decision!Check
  <2>6. do \in DecisionObjects
    BY <2>1, ObjectType DEF DecisionInv
  <2> HIDE DEF do
  <2> QED
    BY <2>5, <2>6, DerivedMeans DEF do
<1>2. Decision!Spec => []DecisionInv
  BY DecisionInit, DecisionStep, PTL DEF Decision!Spec
<1> QED
  BY <1>1, <1>2, DecisionSteps, PTL

\* Where no rule can be evaluated none stops the scan, and the first one throws.
LEMMA UnevaluableThrows ==
    ASSUME NEW rs \in Seq(Rules), rs # <<>>,
           \A i \in 1..Len(rs) : rs[i].when = "unsupported"
    PROVE  Decision!Evaluate(rs) = "throws"
<1>1. Decision!Evaluator(rs)!Indices = 1..Len(rs) /\ 1 \in 1..Len(rs)
  BY EmptySeq, LenProperties DEF Decision!Evaluator!Indices
<1>2. \A i \in 1..Len(rs) : ~ Decision!Evaluator(rs)!Halts(i)
  BY DEF Decision!Evaluator!Halts, Decision!Evaluator!Holds
<1>3. Decision!Evaluator(rs)!Reached(1)
  BY <1>1, <1>2 DEF Decision!Evaluator!Reached
<1>4. Decision!Evaluator(rs)!Refused
  BY <1>1, <1>3 DEF Decision!Evaluator!Refused
<1>5. Decision!Evaluator(rs)!Outcomes = {"throws"}
  BY <1>4 DEF Decision!Evaluator!Outcomes
<1>6. (CHOOSE x \in Decision!Evaluator(rs)!Outcomes : TRUE) = "throws"
  BY <1>5
<1> QED
  BY <1>6 DEF Decision!Evaluate

\* For files and records of any length: a record whose rules the evaluator can
\* only throw on makes the main vectors fail, also when a human had to decide; it
\* never passes as one there was nothing to check in.
THEOREM Unevaluable == ProgramsSpec => []UnevaluableIsReported
<1>1. DecisionInv => UnevaluableIsReported
  <2> SUFFICES ASSUME DecisionInv, ok["main"] = TRUE, NEW p \in Decision!Judged("main"),
                      \A k \in DOMAIN Decision!ObjectAt("main", p).policies :
                          Decision!ObjectAt("main", p).policies[k].when = "unsupported"
               PROVE  FALSE
    BY DEF UnevaluableIsReported, Decision!UnevaluableIsReported, Decision!Passed, Decision!Files
  <2> DEFINE do == Decision!ObjectAt("main", p)
             rs == Decision!ToRules(do.policies)
  <2>1. p \in Decision!DOs("main") /\ ~ Decision!Skips(do)
    BY DEF Decision!Judged
  <2>2. p \in Checked("main")
    BY <2>1, FilesAssumption DEF Checked, DecisionInv, Decision!Files
  <2>3. tally["main"][Decision!Check(do)] > 0
    BY <2>2 DEF DecisionInv, Decision!Files
  <2>4. Decision!Derived(do) = do.decision
    BY <2>1, <2>3 DEF DecisionInv, Decision!Check
  <2>5. do \in DecisionObjects
    BY <2>1, ObjectType DEF DecisionInv
  <2>6. do.policies \in Seq(Policies) /\ do.policies # <<>> /\ do.decision \in Decisions
    BY <2>1, <2>5 DEF DecisionObjects, Decision!Skips
  <2>7. \A k \in DOMAIN do.policies : do.policies[k].when = "unsupported"
    OBVIOUS
  <2> HIDE DEF do
  <2>8. /\ rs \in Seq(Rules) /\ Len(rs) = Len(do.policies)
        /\ \A k \in 1..Len(rs) : rs[k].when = "unsupported"
    <3>1. None # "unsupported"
      BY FilesAssumption DEF Conditions
    <3>2. DOMAIN do.policies = 1..Len(do.policies)
      BY <2>6, LenProperties
    <3> QED
      BY <2>6, <2>7, <3>1, <3>2, RulesGiven DEF Decision!Default
  <2>9. rs # <<>>
    BY <2>6, <2>8, EmptySeq
  <2>10. Decision!Evaluate(rs) = "throws"
    <3> HIDE DEF rs
    <3> QED
      BY <2>8, <2>9, UnevaluableThrows
  <2>11. do.decision = "throws"
    BY <2>4, <2>10 DEF Decision!Derived
  <2> QED
    BY <2>6, <2>11 DEF Decisions, RESTRICTIVE, decStrength
<1>2. Decision!Spec => []DecisionInv
  BY DecisionInit, DecisionStep, PTL DEF Decision!Spec
<1> QED
  BY <1>1, <1>2, DecisionSteps, PTL

\* A file has finitely many objects.
LEMMA FiniteObjects ==
    ASSUME DecisionInv, NEW f \in Decision!Files
    PROVE  IsFiniteSet(Decision!DOs(f))
<1>1. files[f] \in Seq([{"decision_object", "base_do", "tampered_do"} ->
                            DecisionObjects \cup {None}])
  BY FilesAssumption DEF DecisionInv, Decision!Files
<1>2. Len(files[f]) \in Nat
  BY <1>1, LenProperties
<1>3. IsFiniteSet(1..Len(files[f])) /\ IsFiniteSet(1..3)
  <2>1. 1 \in Int /\ 3 \in Int /\ Len(files[f]) \in Int
    BY <1>2
  <2> QED
    BY <2>1, FS_Interval, Zenon
<1>4. IsFiniteSet((1..Len(files[f])) \X (1..3))
  BY <1>3, FS_Product
<1>5. Decision!DOs(f) \in SUBSET ((1..Len(files[f])) \X (1..3))
  BY DEF Decision!DOs
<1> QED
  BY <1>4, <1>5, FS_Subset

\* What is left of a file is of the file, and every other object of it is counted
\* once.
CountsInv ==
    /\ DecisionInv
    /\ file \in Decision!Files => objects \subseteq Decision!DOs(file)
    /\ file = "divergence" => ok["main"] # None
    /\ \A f \in Decision!Files :
           Decision!Total(f) =
               IF f = file THEN Cardinality(Decision!DOs(f)) - Cardinality(objects)
               ELSE IF ok[f] # None THEN Cardinality(Decision!DOs(f)) ELSE 0

LEMMA CountsInit == Decision!Init => CountsInv
<1> SUFFICES ASSUME Decision!Init PROVE CountsInv
  OBVIOUS
<1>1. DecisionInv
  BY DecisionInit
<1>2. /\ file = "main" /\ objects = Decision!DOs("main")
      /\ tally = [f \in Decision!Files |-> [r \in Decision!Results |-> 0]]
      /\ ok = [f \in Decision!Files |-> None]
  BY DEF Decision!Init
<1>3. \A f \in Decision!Files : Decision!Total(f) = 0
  BY <1>2 DEF Decision!Total, Decision!Results
<1>4. Cardinality(Decision!DOs("main")) \in Nat
  BY <1>1, FiniteObjects, FS_CardinalityType DEF Decision!Files
<1> QED
  BY <1>1, <1>2, <1>3, <1>4 DEF CountsInv, Decision!Files

LEMMA CountsStep == CountsInv /\ [Decision!Next]_(Decision!vars) => CountsInv'
<1> SUFFICES ASSUME CountsInv, [Decision!Next]_(Decision!vars) PROVE CountsInv'
  OBVIOUS
<1>1. DecisionInv /\ DecisionInv'
  BY DecisionStep DEF CountsInv
<1>2. files' = files
  BY DEF Decision!Next, Decision!CheckNext, Decision!Report, Decision!vars
<1>3. /\ \A f, p : Decision!ObjectAt(f, p)' = Decision!ObjectAt(f, p)
      /\ \A f : Decision!DOs(f)' = Decision!DOs(f)
  BY <1>2 DEF Decision!ObjectAt, Decision!DOs
<1>4. \A f \in Decision!Files : Cardinality(Decision!DOs(f)) \in Nat
  BY <1>1, FiniteObjects, FS_CardinalityType
<1>5. /\ tally \in [Decision!Files -> [Decision!Results -> Nat]]
      /\ Decision!Results = {"skip", "coherent", "divergence"}
  BY <1>1 DEF DecisionInv, Decision!Results
<1>6. CASE Decision!CheckNext
  <2>1. PICK p \in objects :
            /\ file # "done"
            /\ tally' = [tally EXCEPT ![file][Decision!Check(Decision!ObjectAt(file, p))] = @ + 1]
            /\ objects' = objects \ {p}
            /\ UNCHANGED <<files, file, ok>>
    BY <1>6 DEF Decision!CheckNext
  <2> DEFINE r == Decision!Check(Decision!ObjectAt(file, p))
  <2>2. file \in Decision!Files /\ r \in {"skip", "coherent", "divergence"}
    BY <1>1, <2>1, CheckResults DEF DecisionInv, Decision!Results
  <2>3. objects \subseteq Decision!DOs(file)
    BY <2>2 DEF CountsInv
  <2>4. IsFiniteSet(objects)
    BY <1>1, <2>2, <2>3, FiniteObjects, FS_Subset
  <2>5. Cardinality(objects') = Cardinality(objects) - 1 /\ Cardinality(objects) \in Nat
    BY <2>1, <2>4, FS_RemoveElement, FS_CardinalityType
  <2> HIDE DEF r
  <2>6. \A f \in Decision!Files, q \in {"skip", "coherent", "divergence"} :
            /\ tally[f][q] \in Nat
            /\ tally'[f][q] = IF f = file /\ q = r THEN tally[f][q] + 1 ELSE tally[f][q]
    BY <1>5, <2>1, <2>2 DEF r
  <2>7. ASSUME NEW f \in Decision!Files
        PROVE  /\ Decision!Total(f) \in Nat
               /\ Decision!Total(f)' = IF f = file THEN Decision!Total(f) + 1 ELSE Decision!Total(f)
    <3>1. CASE f # file
      BY <2>6, <3>1 DEF Decision!Total
    <3>2. CASE f = file /\ r = "skip"
      BY <2>6, <3>2 DEF Decision!Total
    <3>3. CASE f = file /\ r = "coherent"
      BY <2>6, <3>3 DEF Decision!Total
    <3>4. CASE f = file /\ r = "divergence"
      BY <2>6, <3>4 DEF Decision!Total
    <3> QED
      BY <2>2, <3>1, <3>2, <3>3, <3>4
  <2>8. ASSUME NEW f \in Decision!Files
        PROVE  Decision!Total(f)' =
                   IF f = file THEN Cardinality(Decision!DOs(f)) - Cardinality(objects')
                   ELSE IF ok[f] # None THEN Cardinality(Decision!DOs(f)) ELSE 0
    BY <1>4, <2>5, <2>7 DEF CountsInv
  <2> QED
    BY <1>1, <1>3, <2>1, <2>3, <2>8 DEF CountsInv
<1>7. CASE Decision!Report
  <2>1. /\ file # "done" /\ objects = {} /\ tally' = tally
        /\ \A f \in Decision!Files :
               IF f = file THEN ok'[f] \in BOOLEAN ELSE ok'[f] = ok[f]
        /\ file' = IF file = "main" THEN "divergence" ELSE "done"
        /\ objects' = IF file = "main" THEN Decision!DOs("divergence") ELSE {}
    <3>1. PICK b \in BOOLEAN : ok' = [ok EXCEPT ![file] = b]
      BY <1>7 DEF Decision!Report
    <3> QED
      BY <1>1, <1>7, <3>1 DEF Decision!Report, DecisionInv
  <2>2. file \in {"main", "divergence"} /\ Decision!Files = {"main", "divergence"}
    BY <1>1, <2>1 DEF DecisionInv, Decision!Files
  <2>3. Cardinality(objects) = 0
    BY <2>1, FS_EmptySet
  <2>4. \A f \in Decision!Files : Decision!Total(f)' = Decision!Total(f)
    BY <2>1 DEF Decision!Total
  <2>5. ok'[file] # None
    BY <2>1, <2>2, FilesAssumption
  <2>6. Decision!Total(file) = Cardinality(Decision!DOs(file))
    BY <1>4, <2>2, <2>3 DEF CountsInv
  <2>7. CASE file = "main"
    <3>1. /\ Decision!Total("divergence") = 0
          /\ Decision!Total("main") = Cardinality(Decision!DOs("main"))
      BY <1>1, <2>2, <2>6, <2>7 DEF CountsInv, DecisionInv
    <3>2. file' = "divergence" /\ objects' = Decision!DOs("divergence") /\ ok'["main"] # None
      BY <2>1, <2>5, <2>7
    <3> QED
      BY <1>1, <1>3, <1>4, <2>2, <2>4, <3>1, <3>2 DEF CountsInv
  <2>8. CASE file = "divergence"
    <3>1. /\ Decision!Total("divergence") = Cardinality(Decision!DOs("divergence"))
          /\ Decision!Total("main") = Cardinality(Decision!DOs("main"))
      BY <2>2, <2>6, <2>8 DEF CountsInv
    <3>2. file' = "done" /\ ok'["main"] # None /\ ok'["divergence"] # None
      BY <2>1, <2>2, <2>5, <2>8 DEF CountsInv
    <3> QED
      BY <1>1, <1>3, <2>2, <2>4, <3>1, <3>2 DEF CountsInv
  <2> QED
    BY <2>2, <2>7, <2>8
<1>8. CASE UNCHANGED Decision!vars
  <2>1. UNCHANGED <<file, objects, tally, ok>>
    BY <1>8 DEF Decision!vars
  <2>2. \A f : Decision!Total(f)' = Decision!Total(f)
    BY <2>1 DEF Decision!Total
  <2> QED
    BY <1>1, <1>3, <2>1, <2>2 DEF CountsInv
<1> QED
  BY <1>6, <1>7, <1>8 DEF Decision!Next

LEMMA SameSize == \A S : Decision!Cardinality(S) = Cardinality(S)
BY DEF Decision!Cardinality, Cardinality, Decision!IsFiniteSet, IsFiniteSet

\* For files of any length: every object of a file is counted, and once, whichever
\* of its three fields a vector carries objects in (verify-decision.mjs:79-99).
THEOREM EachCounted == ProgramsSpec => []Decision!TypeOK
<1>1. CountsInv => Decision!TypeOK
  BY SameSize DEF CountsInv, DecisionInv, Decision!TypeOK
<1>2. Decision!Spec => []CountsInv
  BY CountsInit, CountsStep, PTL DEF Decision!Spec
<1> QED
  BY <1>1, <1>2, DecisionSteps, PTL

-----------------------------------------------------------------------------
(***************************************************************************)
(* The check of producers.                                                 *)
(***************************************************************************)
\* No scenario is run that the list does not have.
ProducerInv ==
    /\ scenarios \in Seq(Scenarios)
    /\ next \in 1..(Len(scenarios) + 1)

LEMMA ProducerStart == ProgramsInit => ProducerInv
<1> SUFFICES ASSUME ProgramsInit PROVE ProducerInv
  OBVIOUS
<1>1. scenarios \in ScenarioLists /\ next = 1
  BY DEF ProgramsInit, Producer!Init
<1>2. scenarios \in Seq(Scenarios)
  BY <1>1, ScenariosAssumption
<1>3. Len(scenarios) \in Nat
  BY <1>2, LenProperties
<1> QED
  BY <1>1, <1>2, <1>3 DEF ProducerInv

LEMMA ProducerStep == ProducerInv /\ [ProgramsNext]_programVars => ProducerInv'
<1> SUFFICES ASSUME ProducerInv, [ProgramsNext]_programVars PROVE ProducerInv'
  OBVIOUS
<1>1. [Producer!Next]_(Producer!vars)
  BY DEF ProgramsNext, programVars, producerVars, Producer!vars
<1>2. Len(scenarios) \in Nat
  BY LenProperties DEF ProducerInv
<1>3. CASE Producer!RunScenario
  BY <1>2, <1>3 DEF Producer!RunScenario, ProducerInv
<1>4. CASE Producer!NextProducer
  BY <1>2, <1>4 DEF Producer!NextProducer, ProducerInv
<1>5. CASE Producer!Die \/ Producer!Finish \/ UNCHANGED Producer!vars
  BY <1>5 DEF Producer!Die, Producer!Finish, Producer!vars, ProducerInv
<1> QED
  BY <1>1, <1>3, <1>4, <1>5 DEF Producer!Next

\* The evaluator of the producers is that of the decision check.
LEMMA ProducerRule ==
    ASSUME NEW rs
    PROVE  Producer!Evaluator(rs)!Outcomes = Decision!Evaluator(rs)!Outcomes
<1>1. /\ Producer!Evaluator(rs)!strength = strength
      /\ Producer!Evaluator(rs)!RESTRICTIVE = RESTRICTIVE
      /\ Producer!Evaluator(rs)!decStrength = decStrength
  BY DEF Producer!Evaluator!strength, strength, Producer!Evaluator!RESTRICTIVE, RESTRICTIVE,
     Producer!Evaluator!decStrength, decStrength
<1>2. \A i : Producer!Evaluator(rs)!Place(rs, i) = Place(rs, i)
  BY <1>1 DEF Producer!Evaluator!Place, Place
<1>3. /\ \A i, j : Producer!Evaluator(rs)!Ahead(rs, i, j) = Ahead(rs, i, j)
      /\ \A o, x : Producer!Evaluator(rs)!Covers(o, x) = Covers(o, x)
  BY <1>1, <1>2 DEF Producer!Evaluator!Ahead, Ahead, Producer!Evaluator!Covers, Covers
<1>4. /\ \A i, j : Decision!Evaluator(rs)!Ahead(rs, i, j) = Ahead(rs, i, j)
      /\ \A o, x : Decision!Evaluator(rs)!Covers(o, x) = Covers(o, x)
      /\ Decision!Evaluator(rs)!RESTRICTIVE = RESTRICTIVE
      /\ Decision!Evaluator(rs)!decStrength = decStrength
  BY EvaluatorOrder
<1>5. Producer!Evaluator(rs)!Indices = Decision!Evaluator(rs)!Indices
  BY DEF Producer!Evaluator!Indices, Decision!Evaluator!Indices
<1>6. \A i : Producer!Evaluator(rs)!Holds(i) <=> Decision!Evaluator(rs)!Holds(i)
  BY <1>5 DEF Producer!Evaluator!Holds, Decision!Evaluator!Holds
<1>7. \A i : Producer!Evaluator(rs)!Halts(i) <=> Decision!Evaluator(rs)!Halts(i)
  BY <1>6 DEF Producer!Evaluator!Halts, Decision!Evaluator!Halts
<1>8. \A i : Producer!Evaluator(rs)!Reached(i) <=> Decision!Evaluator(rs)!Reached(i)
  BY <1>3, <1>4, <1>5, <1>7 DEF Producer!Evaluator!Reached, Decision!Evaluator!Reached
<1>9. Producer!Evaluator(rs)!Hits = Decision!Evaluator(rs)!Hits
  BY <1>5, <1>6, <1>8 DEF Producer!Evaluator!Hits, Decision!Evaluator!Hits
<1>10. Producer!Evaluator(rs)!Refused <=> Decision!Evaluator(rs)!Refused
  BY <1>5, <1>8 DEF Producer!Evaluator!Refused, Decision!Evaluator!Refused
<1>11. Producer!Evaluator(rs)!Uncovered = Decision!Evaluator(rs)!Uncovered
  BY <1>1, <1>3, <1>4, <1>9 DEF Producer!Evaluator!Uncovered, Decision!Evaluator!Uncovered
<1>12. Producer!Evaluator(rs)!Permissive = Decision!Evaluator(rs)!Permissive
  BY <1>1, <1>4, <1>9 DEF Producer!Evaluator!Permissive, Decision!Evaluator!Permissive
<1>13. \A S : Producer!Evaluator(rs)!FirstOf(S) = Decision!Evaluator(rs)!FirstOf(S)
  BY <1>3, <1>4 DEF Producer!Evaluator!FirstOf, Decision!Evaluator!FirstOf
<1>14. \A S : Producer!Evaluator(rs)!Strongest(S) = Decision!Evaluator(rs)!Strongest(S)
  BY <1>1, <1>4 DEF Producer!Evaluator!Strongest, Decision!Evaluator!Strongest
<1> QED
  BY <1>10, <1>11, <1>12, <1>13, <1>14 DEF Producer!Evaluator!Outcomes, Decision!Evaluator!Outcomes

\* What is decided is asked for by a rule that was hit.
LEMMA AskedFor ==
    ASSUME NEW s \in Scenarios, Producer!DeriveDecision(s) \notin {"throws", "ALLOW"}
    PROVE  \/ Producer!NeedsHuman(s.risk, s.required)
           \/ \E k \in DOMAIN s.rules :
                  /\ Producer!RuleDefs(s.rules)[k].when = "match"
                  /\ s.rules[k].then \notin {"ALLOW", "NOTIFY"}
<1> DEFINE ps == s.rules
           rs == Producer!RuleDefs(ps)
           x  == CHOOSE d \in Decision!Evaluator(rs)!Outcomes : TRUE
<1> SUFFICES ASSUME ~ Producer!NeedsHuman(s.risk, s.required)
             PROVE  \E k \in DOMAIN ps :
                        rs[k].when = "match" /\ ps[k].then \notin {"ALLOW", "NOTIFY"}
  OBVIOUS
<1>1. ps \in Seq(Policies) /\ DOMAIN ps = 1..Len(ps)
  BY LenProperties DEF Scenarios
<1>2. /\ rs \in Seq(Rules) /\ Len(rs) = Len(ps)
      /\ \A k \in 1..Len(ps) : rs[k].when # "true" /\ rs[k].then = ps[k].then
  BY <1>1, RuleDefsGiven
<1>3. Producer!DeriveDecision(s) = Producer!Evaluate(rs)
  BY DEF Producer!DeriveDecision, Producer!NeedsHuman
<1> HIDE DEF rs
<1>4. x \in Decision!Evaluator(rs)!Outcomes
  BY <1>2, OutcomeExists
<1>5. Producer!Evaluate(rs) = IF x = "none" THEN "ALLOW" ELSE x
  <2>1. Producer!Evaluator(rs)!Outcomes = Decision!Evaluator(rs)!Outcomes
    BY ProducerRule
  <2> QED
    BY <2>1 DEF Producer!Evaluate
<1> HIDE DEF x
<1>6. x \notin {"none", "throws", "ALLOW"}
  BY <1>3, <1>5
<1>7. /\ Decision!Evaluator(rs)!RESTRICTIVE = RESTRICTIVE
      /\ Decision!Evaluator(rs)!decStrength = decStrength
  BY EvaluatorOrder
<1>8. /\ \A S : Decision!Evaluator(rs)!FirstOf(S) \subseteq S
      /\ \A S : Decision!Evaluator(rs)!Strongest(S) \subseteq S
  BY DEF Decision!Evaluator!FirstOf, Decision!Evaluator!Strongest
<1>9. \E i \in Decision!Evaluator(rs)!Uncovered \cup Decision!Evaluator(rs)!Permissive :
          x = rs[i].then
  BY <1>4, <1>6, <1>8 DEF Decision!Evaluator!Outcomes
<1>10. PICK i \in 1..Len(rs) :
           /\ x = rs[i].then
           /\ rs[i].when \in {"match", "true"}
           /\ rs[i].then \in RESTRICTIVE \cup DOMAIN decStrength
  BY <1>7, <1>9 DEF Decision!Evaluator!Uncovered, Decision!Evaluator!Permissive,
     Decision!Evaluator!Hits, Decision!Evaluator!Indices, Decision!Evaluator!Holds
<1>11. x # "NOTIFY"
  BY <1>10 DEF RESTRICTIVE, decStrength
<1> QED
  BY <1>1, <1>2, <1>6, <1>10, <1>11

\* A difference counted is one some scenario run so far asked for.
DifferenceInv ==
    /\ ProducerInv
    /\ fails \in [Producer!Producers -> Nat]
    /\ fails["defective"] > 0 =>
           \E i \in DOMAIN scenarios :
               Producer!DeriveDecision(scenarios[i]) \notin {"throws", "ALLOW"}
    /\ verdict = TRUE => fails["defective"] > 0

LEMMA DifferenceStep == DifferenceInv /\ [ProgramsNext]_programVars => DifferenceInv'
<1> SUFFICES ASSUME DifferenceInv, [ProgramsNext]_programVars PROVE DifferenceInv'
  OBVIOUS
<1>1. ProducerInv'
  BY ProducerStep DEF DifferenceInv
<1>2. [Producer!Next]_(Producer!vars)
  BY DEF ProgramsNext, programVars, producerVars, Producer!vars
<1>3. DOMAIN scenarios = 1..Len(scenarios)
  BY LenProperties DEF DifferenceInv, ProducerInv
<1>4. CASE Producer!RunScenario
  <2> DEFINE s == scenarios[next]
  <2>1. /\ producer \in Producer!Producers /\ next \in DOMAIN scenarios
        /\ Producer!DeriveDecision(s) # "throws"
        /\ fails' = IF Producer!Emitted(producer, s).decision = Producer!DeriveDecision(s) THEN fails
                    ELSE [fails EXCEPT ![producer] = @ + 1]
        /\ UNCHANGED <<scenarios, verdict>>
    BY <1>3, <1>4 DEF Producer!RunScenario, DifferenceInv, ProducerInv
  <2> HIDE DEF s
  <2>2. fails \in [Producer!Producers -> Nat]
    BY DEF DifferenceInv
  <2>3. fails' \in [Producer!Producers -> Nat]
    BY <2>1, <2>2
  <2>4. "defective" \in Producer!Producers
    BY DEF Producer!Producers
  <2>5. fails["defective"] > 0 => fails'["defective"] > 0
    BY <2>1, <2>2, <2>4
  <2>6. ASSUME fails'["defective"] # fails["defective"]
        PROVE  Producer!DeriveDecision(s) \notin {"throws", "ALLOW"}
    <3>1. producer = "defective" /\ Producer!Emitted(producer, s).decision # Producer!DeriveDecision(s)
      BY <2>1, <2>2, <2>4, <2>6
    <3>2. Producer!Emitted(producer, s).decision = "ALLOW"
      BY <3>1 DEF Producer!Emitted
    <3> QED
      BY <2>1, <3>1, <3>2
  <2>7. fails'["defective"] > 0 =>
            \E i \in DOMAIN scenarios :
                Producer!DeriveDecision(scenarios[i]) \notin {"throws", "ALLOW"}
    BY <2>1, <2>6 DEF DifferenceInv, s
  <2> QED
    BY <1>1, <2>1, <2>3, <2>5, <2>7 DEF DifferenceInv
<1>5. CASE Producer!Finish
  BY <1>1, <1>5 DEF Producer!Finish, DifferenceInv
<1>6. CASE Producer!Die \/ Producer!NextProducer \/ UNCHANGED Producer!vars
  BY <1>1, <1>6 DEF Producer!Die, Producer!NextProducer, Producer!vars, DifferenceInv
<1> QED
  BY <1>2, <1>4, <1>5, <1>6 DEF Producer!Next

\* For scenario lists of any length: the harness passes only with a scenario that
\* tells its defective producer from its reference, one that a human has to decide
\* or that a rule which holds does not allow.
THEOREM Tells == ProgramsSpec => []Producer!HarnessTells
<1>1. ProgramsInit => DifferenceInv
  <2> SUFFICES ASSUME ProgramsInit PROVE DifferenceInv
    OBVIOUS
  <2>1. fails = [p \in Producer!Producers |-> 0] /\ verdict = None
    BY DEF ProgramsInit, Producer!Init
  <2>2. ProducerInv
    BY ProducerStart
  <2>3. fails["defective"] = 0
    BY <2>1 DEF Producer!Producers
  <2>4. verdict # TRUE
    BY <2>1, FilesAssumption
  <2>5. fails \in [Producer!Producers -> Nat]
    BY <2>1
  <2>6. ~ (fails["defective"] > 0)
    BY <2>3
  <2> QED
    BY <2>2, <2>4, <2>5, <2>6, Zenon DEF DifferenceInv
<1>2. DifferenceInv => Producer!HarnessTells
  <2> SUFFICES ASSUME DifferenceInv, verdict = TRUE
               PROVE  \E i \in DOMAIN scenarios :
                          \/ Producer!NeedsHuman(scenarios[i].risk, scenarios[i].required)
                          \/ \E k \in DOMAIN scenarios[i].rules :
                                 /\ Producer!RuleDefs(scenarios[i].rules)[k].when = "match"
                                 /\ scenarios[i].rules[k].then \notin {"ALLOW", "NOTIFY"}
    BY DEF Producer!HarnessTells
  <2>1. PICK i \in DOMAIN scenarios :
            Producer!DeriveDecision(scenarios[i]) \notin {"throws", "ALLOW"}
    BY DEF DifferenceInv
  <2>2. scenarios[i] \in Scenarios
    BY LenProperties, ElementOfSeq DEF DifferenceInv, ProducerInv
  <2> QED
    BY <2>1, <2>2, AskedFor
<1> QED
  BY <1>1, <1>2, DifferenceStep, PTL DEF ProgramsSpec

-----------------------------------------------------------------------------
(***************************************************************************)
(* What the generator and the runner make of a vector.                     *)
(***************************************************************************)
\* Both programs resolve by the rule the decision check goes by.
LEMMA SameRule ==
    ASSUME NEW rs
    PROVE  Answers!Of(rs)!Outcomes = Decision!Evaluator(rs)!Outcomes
<1>1. /\ Answers!Of(rs)!strength = strength
      /\ Answers!Of(rs)!RESTRICTIVE = RESTRICTIVE
      /\ Answers!Of(rs)!decStrength = decStrength
  BY DEF Answers!Of!strength, strength, Answers!Of!RESTRICTIVE, RESTRICTIVE,
     Answers!Of!decStrength, decStrength
<1>2. \A i : Answers!Of(rs)!Place(rs, i) = Place(rs, i)
  BY <1>1 DEF Answers!Of!Place, Place
<1>3. /\ \A i, j : Answers!Of(rs)!Ahead(rs, i, j) = Ahead(rs, i, j)
      /\ \A o, x : Answers!Of(rs)!Covers(o, x) = Covers(o, x)
  BY <1>1, <1>2 DEF Answers!Of!Ahead, Ahead, Answers!Of!Covers, Covers
<1>4. /\ \A i, j : Decision!Evaluator(rs)!Ahead(rs, i, j) = Ahead(rs, i, j)
      /\ \A o, x : Decision!Evaluator(rs)!Covers(o, x) = Covers(o, x)
      /\ Decision!Evaluator(rs)!RESTRICTIVE = RESTRICTIVE
      /\ Decision!Evaluator(rs)!decStrength = decStrength
  BY EvaluatorOrder
<1>5. Answers!Of(rs)!Indices = Decision!Evaluator(rs)!Indices
  BY DEF Answers!Of!Indices, Decision!Evaluator!Indices
<1>6. \A i : Answers!Of(rs)!Holds(i) <=> Decision!Evaluator(rs)!Holds(i)
  BY <1>5 DEF Answers!Of!Holds, Decision!Evaluator!Holds
<1>7. \A i : Answers!Of(rs)!Halts(i) <=> Decision!Evaluator(rs)!Halts(i)
  BY <1>6 DEF Answers!Of!Halts, Decision!Evaluator!Halts
<1>8. \A i : Answers!Of(rs)!Reached(i) <=> Decision!Evaluator(rs)!Reached(i)
  BY <1>3, <1>4, <1>5, <1>7 DEF Answers!Of!Reached, Decision!Evaluator!Reached
<1>9. Answers!Of(rs)!Hits = Decision!Evaluator(rs)!Hits
  BY <1>5, <1>6, <1>8 DEF Answers!Of!Hits, Decision!Evaluator!Hits
<1>10. Answers!Of(rs)!Refused <=> Decision!Evaluator(rs)!Refused
  BY <1>5, <1>8 DEF Answers!Of!Refused, Decision!Evaluator!Refused
<1>11. Answers!Of(rs)!Uncovered = Decision!Evaluator(rs)!Uncovered
  BY <1>1, <1>3, <1>4, <1>9 DEF Answers!Of!Uncovered, Decision!Evaluator!Uncovered
<1>12. Answers!Of(rs)!Permissive = Decision!Evaluator(rs)!Permissive
  BY <1>1, <1>4, <1>9 DEF Answers!Of!Permissive, Decision!Evaluator!Permissive
<1>13. \A S : Answers!Of(rs)!FirstOf(S) = Decision!Evaluator(rs)!FirstOf(S)
  BY <1>3, <1>4 DEF Answers!Of!FirstOf, Decision!Evaluator!FirstOf
<1>14. \A S : Answers!Of(rs)!Strongest(S) = Decision!Evaluator(rs)!Strongest(S)
  BY <1>1, <1>4 DEF Answers!Of!Strongest, Decision!Evaluator!Strongest
<1> QED
  BY <1>10, <1>11, <1>12, <1>13, <1>14 DEF Answers!Of!Outcomes, Decision!Evaluator!Outcomes

\* What rules come to is one decision or none, and an exception only when there
\* is a rule the program refuses.
LEMMA OutcomeTyped ==
    ASSUME NEW rs \in Seq(Rules)
    PROVE  /\ Answers!Outcome(rs) \in Decisions \cup {"none", "throws"}
           /\ (\A i \in 1..Len(rs) : rs[i].when # "unsupported") =>
                  Answers!Outcome(rs) # "throws"
<1> DEFINE d == Answers!Outcome(rs)
<1>1. d \in Decision!Evaluator(rs)!Outcomes
  <2>1. Decision!Evaluator(rs)!Outcomes # {}
    BY OutcomeExists
  <2> QED
    BY <2>1, SameRule DEF Answers!Outcome
<1>2. /\ Decision!Evaluator(rs)!Uncovered \subseteq 1..Len(rs)
      /\ Decision!Evaluator(rs)!Permissive \subseteq 1..Len(rs)
  BY DEF Decision!Evaluator!Uncovered, Decision!Evaluator!Permissive,
         Decision!Evaluator!Hits, Decision!Evaluator!Indices
<1>3. /\ \A S : Decision!Evaluator(rs)!FirstOf(S) \subseteq S
      /\ \A S : Decision!Evaluator(rs)!Strongest(S) \subseteq S
  BY DEF Decision!Evaluator!FirstOf, Decision!Evaluator!Strongest
<1>4. ASSUME NEW i \in 1..Len(rs) PROVE rs[i].then \in Decisions
  <2>1. rs[i] \in Rules
    BY ElementOfSeq
  <2> QED
    BY <2>1 DEF Rules
<1>5. "throws" \notin Decisions
  BY DEF Decisions, RESTRICTIVE, decStrength
<1> HIDE DEF d
<1>6. \/ d = "throws" /\ Decision!Evaluator(rs)!Refused
      \/ d = "none"
      \/ \E i \in 1..Len(rs) : d = rs[i].then
  BY <1>1, <1>2, <1>3 DEF Decision!Evaluator!Outcomes
<1>7. Decision!Evaluator(rs)!Refused => \E i \in 1..Len(rs) : rs[i].when = "unsupported"
  BY DEF Decision!Evaluator!Refused, Decision!Evaluator!Indices
<1> QED
  BY <1>4, <1>5, <1>6, <1>7 DEF d

\* A vector's rule as a rule of the order.
LEMMA KeptTyped ==
    ASSUME NEW r \in Entries, NEW when \in {"true", "match", "nomatch", "unsupported"}
    PROVE  Answers!Kept(r, when) \in Rules /\ Answers!Kept(r, when).when = when
<1>1. (IF r.override = None THEN "normal" ELSE r.override) \in DOMAIN strength
  <2>1. "normal" \in DOMAIN strength
    BY DEF strength
  <2> QED
    BY <2>1 DEF Entries
<1> QED
  BY <1>1 DEF Answers!Kept, Rules, Entries

\* The runner turns the rules of a vector into rules of the order.
LEMMA ReadTyped ==
    ASSUME NEW v, IsVector(v)
    PROVE  Answers!Read(v) \in Seq(Rules)
<1> DEFINE n == Len(v.rules)
<1> DEFINE read == Answers!Read(v)
<1>1. n \in Nat /\ DOMAIN v.rules = 1..n /\ \A i \in 1..n : v.rules[i] \in Entries
  BY LenProperties, ElementOfSeq DEF IsVector
<1>2. ASSUME NEW i \in 1..n
      PROVE  Answers!RunnerReads(v.rules[i], v.fact) \in Rules
  <2>1. v.rules[i] \in Entries
    BY <1>1
  <2>2. PICK u \in {"true", "match", "nomatch", "unsupported"} :
            Answers!RunnerReads(v.rules[i], v.fact) = Answers!Kept(v.rules[i], u)
    BY DEF Answers!RunnerReads
  <2> QED
    BY <2>1, <2>2, KeptTyped
<1>3. read \in [1..n -> Rules]
  BY <1>1, <1>2 DEF Answers!Read
<1> HIDE DEF read, n
<1>4. read \in Seq(Rules)
  BY <1>1, <1>3, SequenceOf
<1> QED
  BY <1>4 DEF read

LEMMA RunnerTyped ==
    ASSUME NEW v, IsVector(v)
    PROVE  Answers!RunnerDecides(v) \in Decisions \cup {"none", "throws"}
BY ReadTyped, OutcomeTyped DEF Answers!RunnerDecides

\* In a fact of nested objects, the value under a dotted key is the one that
\* descending finds, unless the path leads into an array or a text.
LEMMA NestedLookup ==
    ASSUME NEW f, Answers!IsFact(f), Answers!Nested(f), NEW p,
           \A j \in DOMAIN f : f[j].inner => f[j].path # p
    PROVE  Answers!FieldOf(Answers!FlattenFact(f), p) = Answers!Get(f, p)
<1> DEFINE at == {i \in DOMAIN f : f[i].path = p}
<1>1. f \in Seq([path: Seq(STRING), keys: SUBSET Nat, value: STRING, inner: BOOLEAN])
  BY DEF Answers!IsFact
<1>2. {i \in DOMAIN f : f[i].path = p /\ f[i].keys = 1..Len(p)} = at
  BY DEF Answers!Nested
<1>0. {i \in Answers!Outer(f) : f[i].path = p} = at
  BY DEF Answers!Outer
<1>3. p \in DOMAIN Answers!FlattenFact(f) <=> at # {}
  BY <1>0 DEF Answers!FlattenFact, Answers!Outer
<1>4. CASE at = {}
  BY <1>2, <1>3, <1>4 DEF Answers!FieldOf, Answers!Get
<1>5. CASE at # {}
  <2>1. PICK i \in at : TRUE
    BY <1>5
  <2>2. ASSUME NEW j \in at, j # i PROVE FALSE
    <3>1. /\ f[i].path = p /\ f[j].path = p /\ i \in DOMAIN f /\ j \in DOMAIN f
          /\ f[i].keys = 1..Len(p) /\ f[j].keys = 1..Len(p)
      BY DEF Answers!Nested
    <3>2. p \in Seq(STRING) /\ Len(p) \in Nat
      <4>1. i \in 1..Len(f)
        BY <1>1, <3>1, LenProperties
      <4>2. f[i] \in [path: Seq(STRING), keys: SUBSET Nat, value: STRING, inner: BOOLEAN]
        BY <1>1, <4>1, ElementOfSeq
      <4> QED
        BY <3>1, <4>2, LenProperties
    <3>3. Len(f[i].path) <= Len(f[j].path) /\ Len(f[i].path) + 1 \in f[j].keys \cup {Len(f[j].path) + 1}
      BY <3>1, <3>2
    <3>4. \A k \in DOMAIN f[i].path :
              f[i].path[k] = f[j].path[k] /\ (k \in f[i].keys <=> k \in f[j].keys)
      BY <3>1
    <3> QED
      BY <2>2, <3>1, <3>3, <3>4 DEF Answers!IsFact, Answers!LeadsTo
  <2>3. at = {i}
    BY <2>1, <2>2
  <2>4. i \in Nat
    BY <1>1, <2>1, LenProperties
  <2>5. Answers!LastOf({i}) = i
    BY <2>4 DEF Answers!LastOf
  <2>6. Answers!FlattenFact(f)[p] = f[Answers!LastOf(at)].value
    BY <1>0, <1>3, <1>5 DEF Answers!FlattenFact
  <2>7. Answers!FieldOf(Answers!FlattenFact(f), p) = f[i].value
    BY <1>3, <1>5, <2>3, <2>5, <2>6 DEF Answers!FieldOf
  <2>8. Answers!Get(f, p) = f[CHOOSE k \in at : TRUE].value
    BY <1>2, <1>5 DEF Answers!Get
  <2> QED
    BY <2>3, <2>7, <2>8
<1> QED
  BY <1>4, <1>5

\* In a vector of nested facts, whatever its rules, a dotted path that leads into
\* no array or text finds what the reader of RFC-002 finds by descending:
\* flattening loses nothing else and adds nothing, at any depth
\* (generate-v-resolve.mjs:24-32, run-v-resolve.mjs:13).
THEOREM NestedByDescent ==
    ASSUME NEW v, IsVector(v), Answers!Nested(v.fact), Answers!StaysOutside(v)
    PROVE  Answers!LooksUpByDescent(v)
<1> SUFFICES ASSUME NEW i \in DOMAIN v.rules, NEW k \in DOMAIN v.rules[i].when.conditions
             PROVE  Answers!FieldOf(Answers!FlattenFact(v.fact), v.rules[i].when.conditions[k].field)
                        = Answers!Get(v.fact, v.rules[i].when.conditions[k].field)
  BY DEF Answers!LooksUpByDescent
<1>1. \A j \in DOMAIN v.fact : v.fact[j].inner => v.fact[j].path # v.rules[i].when.conditions[k].field
  BY DEF Answers!StaysOutside
<1> QED
  BY <1>1, NestedLookup DEF IsVector

\* For vectors of the fixture contract, of any rules and facts: what the generator
\* hands to the evaluator is, rule by rule, what the runner resolves, so nothing
\* but the resolution itself can make their decisions differ, whatever release is
\* installed (generate-v-resolve.mjs:24-56, run-v-resolve.mjs:13-26).
THEOREM NeutralAgree ==
    ASSUME NEW v, IsVector(v), Answers!Neutral(v)
    PROVE  /\ Answers!Converted(v) = Answers!Read(v)
           /\ \A release : Answers!EngineDecides(release, v) = Evaluates(release, Answers!Read(v))
<1> DEFINE context == Answers!FlattenFact(v.fact)
<1>1. ASSUME NEW i \in DOMAIN v.rules
      PROVE  Answers!ToRule(v.rules[i], context) = Answers!RunnerReads(v.rules[i], v.fact)
  <2> DEFINE r == v.rules[i]
  <2>1. CASE r.when.logic = "true"
    BY <2>1 DEF Answers!ToRule, Answers!RunnerReads
  <2>2. CASE r.when.logic # "true"
    <3>1. r.when.logic = "AND" /\ r.when.conditions # <<>>
      BY <2>2 DEF Answers!Neutral
    <3>2. \A k \in DOMAIN r.when.conditions :
              Answers!FieldOf(context, r.when.conditions[k].field)
                  = Answers!Get(v.fact, r.when.conditions[k].field)
      BY NestedByDescent DEF Answers!Neutral, Answers!LooksUpByDescent
    <3> HIDE DEF context
    <3>3. Answers!EngineMatches(r, context) <=>
              \A k \in DOMAIN r.when.conditions :
                  LET c == r.when.conditions[k]
                  IN  Answers!Equal(Answers!Get(v.fact, c.field), c.value)
      BY <3>1, <3>2 DEF Answers!EngineMatches, Answers!Equal
    <3> QED
      BY <2>2, <3>1, <3>3 DEF Answers!ToRule, Answers!RunnerReads
  <2> QED
    BY <2>1, <2>2
<1>2. Answers!Converted(v) = Answers!Read(v)
  BY <1>1 DEF Answers!Converted, Answers!Read
<1>3. \A release : Answers!EngineDecides(release, v) = Evaluates(release, Answers!Converted(v))
  BY DEF Answers!EngineDecides
<1> QED
  BY <1>2, <1>3

-----------------------------------------------------------------------------
(***************************************************************************)
(* The answers and the check of a submission.                              *)
(***************************************************************************)
LEMMA AnswersSteps == ProgramsSpec => Answers!Spec
<1>1. ProgramsInit => Answers!Init
  BY DEF ProgramsInit
<1>2. [ProgramsNext]_programVars => [Answers!Next]_(Answers!vars)
  BY DEF ProgramsNext, programVars, answerVars, Answers!vars
<1> QED
  BY <1>1, <1>2, PTL DEF ProgramsSpec, Answers!Spec

\* Results name a decision each, every vector of the answers has a decision,
\* and what was accepted leaves none of these unanswered.
AnswersInv ==
    /\ vectors \in VectorSets
    /\ answers # None => \A id \in DOMAIN answers : answers[id] \in Decisions
    /\ submission # None => submission \in Seq(Given)
    /\ reading # None => reading.results \in Seq(Given)
    /\ accepted # None =>
        /\ accepted.results \in Seq(Given)
        /\ \A id \in DOMAIN accepted.answers :
               /\ accepted.answers[id] \in Decisions
               /\ Answers!Actual(accepted.results, id) = accepted.answers[id]

LEMMA SameCount == \A S : Answers!Cardinality(S) = Cardinality(S)
BY DEF Answers!Cardinality, Cardinality, Answers!IsFiniteSet, IsFiniteSet

\* Every result the runner writes is of a vector of the set.
LEMMA RunnerResults ==
    ASSUME vectors \in VectorSets, NEW l \in Answers!Listings(DOMAIN vectors),
           \A id \in DOMAIN vectors : Answers!RunnerDecides(vectors[id]) # "throws"
    PROVE  [i \in 1..Cardinality(DOMAIN vectors) |->
               [id |-> l[i], decision |-> Answers!RunnerDecides(vectors[l[i]])]] \in Seq(Given)
<1> DEFINE n == Cardinality(DOMAIN vectors)
<1> DEFINE out == [i \in 1..n |-> [id |-> l[i], decision |-> Answers!RunnerDecides(vectors[l[i]])]]
<1>1. n \in Nat
  BY VectorsAssumption, FS_CardinalityType
<1>2. l \in [1..n -> DOMAIN vectors]
  BY SameCount DEF Answers!Listings
<1>3. \A id \in DOMAIN vectors : Answers!RunnerDecides(vectors[id]) \in Decisions \cup {"none"}
  BY VectorsAssumption, RunnerTyped
<1>4. \A id \in DOMAIN vectors : id \in Ids
  BY DEF Ids
<1>5. \A i \in 1..n : [id |-> l[i], decision |-> Answers!RunnerDecides(vectors[l[i]])] \in Given
  BY <1>2, <1>3, <1>4 DEF Given
<1>6. out \in [1..n -> Given]
  BY <1>5
<1> HIDE DEF out
<1>7. out \in Seq(Given)
  BY <1>1, <1>6, SequenceOf
<1> QED
  BY <1>7 DEF out

LEMMA AnswersStep == AnswersInv /\ [Answers!Next]_(Answers!vars) => AnswersInv'
<1> SUFFICES ASSUME AnswersInv, [Answers!Next]_(Answers!vars) PROVE AnswersInv'
  OBVIOUS
<1>1. CASE Answers!EditVectors
  BY <1>1 DEF Answers!EditVectors, AnswersInv
<1>2. CASE Answers!Generate
  <2>1. PICK release \in Releases :
            /\ \A id \in DOMAIN vectors : Answers!EngineDecides(release, vectors[id]) # "throws"
            /\ answers' = [id \in DOMAIN vectors |-> Answers!EngineDecides(release, vectors[id])]
            /\ UNCHANGED <<vectors, submission, ranOn, reading, accepted, edits>>
    BY <1>2 DEF Answers!Generate
  <2>2. \A id \in DOMAIN answers' : answers'[id] \in Decisions
    BY <2>1, ReleasesAssumption DEF AnswersInv
  <2> QED
    BY <2>1, <2>2 DEF AnswersInv
<1>3. CASE Answers!RunRunner
  <2>1. UNCHANGED <<vectors, answers, reading, accepted, edits>>
    BY <1>3 DEF Answers!RunRunner
  <2>2. PICK l \in Answers!Listings(DOMAIN vectors) :
            submission' = [i \in 1..Cardinality(DOMAIN vectors) |->
                              [id |-> l[i], decision |-> Answers!RunnerDecides(vectors[l[i]])]]
    BY <1>3, SameCount DEF Answers!RunRunner
  <2>3. submission' \in Seq(Given)
    BY <1>3, <2>2, RunnerResults DEF Answers!RunRunner, AnswersInv
  <2> QED
    BY <2>1, <2>3 DEF AnswersInv
<1>4. CASE Answers!EditSubmission
  <2>1. UNCHANGED <<vectors, answers, reading, accepted>> /\ submission \in Seq(Given)
    BY <1>4 DEF Answers!EditSubmission, AnswersInv
  <2>2. ASSUME NEW id \in Ids, NEW d \in Decided
        PROVE  Append(submission, [id |-> id, decision |-> d]) \in Seq(Given)
    <3>1. [id |-> id, decision |-> d] \in Given
      BY VectorsAssumption DEF Given
    <3> QED
      BY <2>1, <3>1, AppendProperties
  <2>3. ASSUME NEW i \in DOMAIN submission
        PROVE  Answers!RemoveAt(submission, i) \in Seq(Given)
    <3>1. i \in 1..Len(submission) /\ Len(submission) \in Nat
      BY <2>1, LenProperties
    <3>2. SubSeq(submission, 1, i - 1) \in Seq(Given) /\ SubSeq(submission, i + 1, Len(submission)) \in Seq(Given)
      BY <2>1, <3>1, SubSeqProperties
    <3> QED
      BY <3>2, ConcatProperties DEF Answers!RemoveAt
  <2>4. submission' \in Seq(Given)
    BY <1>4, <2>2, <2>3 DEF Answers!EditSubmission, Ids
  <2> QED
    BY <2>1, <2>4 DEF AnswersInv
<1>5. CASE Answers!ReadSubmission
  BY <1>5 DEF Answers!ReadSubmission, AnswersInv
<1>6. CASE Answers!JudgeSubmission
  <2>1. /\ reading # None /\ reading' = None
        /\ accepted' = IF answers # None /\ Answers!Fails(reading.results, answers) = {}
                       THEN [results |-> reading.results, answers |-> answers] ELSE None
        /\ UNCHANGED <<vectors, answers, submission, ranOn, edits>>
    BY <1>6 DEF Answers!JudgeSubmission
  <2>2. ASSUME accepted' # None
        PROVE  /\ accepted'.results \in Seq(Given)
               /\ \A id \in DOMAIN accepted'.answers :
                      /\ accepted'.answers[id] \in Decisions
                      /\ Answers!Actual(accepted'.results, id) = accepted'.answers[id]
    <3>1. /\ answers # None /\ Answers!Fails(reading.results, answers) = {}
          /\ accepted'.results = reading.results /\ accepted'.answers = answers
      BY <2>1, <2>2
    <3>2. reading.results \in Seq(Given)
      BY <2>1 DEF AnswersInv
    <3>3. \A id \in DOMAIN answers : Answers!Actual(reading.results, id) = answers[id]
      BY <3>1 DEF Answers!Fails
    <3> QED
      BY <3>1, <3>2, <3>3 DEF AnswersInv
  <2>3. \A rs, id : Answers!Actual(rs, id)' = Answers!Actual(rs, id)
    OBVIOUS
  <2> QED
    BY <2>1, <2>2 DEF AnswersInv
<1>7. CASE UNCHANGED Answers!vars
  BY <1>7 DEF Answers!vars, AnswersInv
<1> QED
  BY <1>1, <1>2, <1>3, <1>4, <1>5, <1>6, <1>7 DEF Answers!Next

\* Of the positions in S one is the last.
LEMMA LastExists ==
    ASSUME NEW n \in Nat, NEW S \in SUBSET (1..n), S # {}
    PROVE  \E m \in S : \A k \in S : k <= m
<1> DEFINE T == {n - k : k \in S}
<1>1. T \in SUBSET Nat /\ T # {}
  <2>1. \A k \in S : n - k \in Nat
    OBVIOUS
  <2>2. PICK k \in S : TRUE
    OBVIOUS
  <2> QED
    BY <2>1, <2>2
<1>2. \E t \in T : \A u \in T : t <= u
  <2> HIDE DEF T
  <2> QED
    BY <1>1, LeastNat
<1>3. PICK m \in S : \A k \in S : n - m <= n - k
  BY <1>2
<1> QED
  BY <1>3

\* The result that counts for an id is one of its results.
LEMMA ActualIsGiven ==
    ASSUME NEW results \in Seq(Given), NEW id, Answers!Actual(results, id) # None
    PROVE  \E i \in DOMAIN results :
               results[i] = [id |-> id, decision |-> Answers!Actual(results, id)]
<1> DEFINE of == {i \in DOMAIN results : results[i].id = id}
<1> DEFINE last == CHOOSE i \in of : \A j \in of : j <= i
<1>1. DOMAIN results = 1..Len(results) /\ Len(results) \in Nat
  BY LenProperties
<1>2. of # {} /\ Answers!Actual(results, id) = results[last].decision
  BY DEF Answers!Actual
<1>3. \E i \in of : \A j \in of : j <= i
  <2>1. of \in SUBSET (1..Len(results))
    BY <1>1
  <2> HIDE DEF of
  <2> QED
    BY <1>1, <1>2, <2>1, LastExists
<1>4. last \in of
  BY <1>3
<1> HIDE DEF last
<1>5. results[last] \in Given /\ results[last].id = id
  BY <1>1, <1>4, ElementOfSeq
<1>6. results[last] = [id |-> id, decision |-> Answers!Actual(results, id)]
  BY <1>2, <1>5 DEF Given
<1> QED
  BY <1>4, <1>6

\* For vectors, answers and submissions of any size: an accepted submission has,
\* for every vector the answers know, a result with the decision they give.
THEOREM AnswersAll == ProgramsSpec => []AcceptedAnswersAll
<1>1. Answers!Init => AnswersInv
  BY DEF Answers!Init, AnswersInv
<1>2. Answers!Spec => []AnswersInv
  BY <1>1, AnswersStep, PTL DEF Answers!Spec
<1>3. AnswersInv => AcceptedAnswersAll
  <2> SUFFICES ASSUME AnswersInv, accepted # None, NEW id \in DOMAIN accepted.answers
               PROVE  \E i \in DOMAIN accepted.results :
                          accepted.results[i] = [id |-> id, decision |-> accepted.answers[id]]
    BY DEF AcceptedAnswersAll, Answers!AcceptedAnswersAll
  <2>1. /\ accepted.results \in Seq(Given)
        /\ accepted.answers[id] \in Decisions
        /\ Answers!Actual(accepted.results, id) = accepted.answers[id]
    BY DEF AnswersInv
  <2>2. Answers!Actual(accepted.results, id) # None
    BY <2>1, VectorsAssumption
  <2> QED
    BY <2>1, <2>2, ActualIsGiven
<1> QED
  BY <1>2, <1>3, AnswersSteps, PTL

-----------------------------------------------------------------------------
\* A listing names every vector at one position only.
LEMMA ListingIsOnto ==
    ASSUME NEW vs \in VectorSets, NEW l \in Answers!Listings(DOMAIN vs)
    PROVE  \A id \in DOMAIN vs : \E i \in 1..Cardinality(DOMAIN vs) :
               l[i] = id /\ \A j \in 1..Cardinality(DOMAIN vs) : l[j] = id => j = i
<1> DEFINE n == Cardinality(DOMAIN vs)
<1>1. n \in Nat /\ IsFiniteSet(DOMAIN vs)
  BY VectorsAssumption, FS_CardinalityType
<1>2. l \in [1..n -> DOMAIN vs] /\ \A i, j \in 1..n : i # j => l[i] # l[j]
  BY SameCount DEF Answers!Listings
<1>3. Cardinality(1..n) = n
  BY <1>1, FS_Interval
<1> HIDE DEF n
<1>4. l \in Injection(1..n, DOMAIN vs)
  BY <1>2 DEF Injection, IsInjective
<1>5. l \in Surjection(1..n, DOMAIN vs)
  BY <1>1, <1>3, <1>4, FS_Injection DEF n
<1>6. \A id \in DOMAIN vs : \E i \in 1..n : l[i] = id
  BY <1>5 DEF Surjection
<1> QED
  BY <1>2, <1>6 DEF n

\* The results say of every vector what the runner does.
Own(results, vs) ==
    /\ vs \in VectorSets
    /\ \A id \in DOMAIN vs : Answers!Actual(results, id) = Answers!RunnerDecides(vs[id])

LEMMA RunnerOwns ==
    ASSUME NEW vs \in VectorSets, NEW l \in Answers!Listings(DOMAIN vs)
    PROVE  Own([i \in 1..Cardinality(DOMAIN vs) |->
                   [id |-> l[i], decision |-> Answers!RunnerDecides(vs[l[i]])]], vs)
<1> DEFINE n == Cardinality(DOMAIN vs)
<1> DEFINE results == [i \in 1..n |-> [id |-> l[i], decision |-> Answers!RunnerDecides(vs[l[i]])]]
<1> SUFFICES ASSUME NEW id \in DOMAIN vs
             PROVE  Answers!Actual(results, id) = Answers!RunnerDecides(vs[id])
  BY DEF Own
<1>1. PICK i \in 1..n : l[i] = id /\ \A j \in 1..n : l[j] = id => j = i
  BY ListingIsOnto
<1>2. n \in Nat
  BY VectorsAssumption, FS_CardinalityType
<1>3. DOMAIN results = 1..n /\ \A j \in 1..n : results[j].id = l[j]
  OBVIOUS
<1>4. {j \in DOMAIN results : results[j].id = id} = {i}
  BY <1>1, <1>3
<1>5. results[i].decision = Answers!RunnerDecides(vs[id])
  BY <1>1
<1> HIDE DEF results, n
<1>6. (CHOOSE m \in {i} : \A j \in {i} : j <= m) = i
  BY <1>1, <1>2
<1> QED
  BY <1>4, <1>5, <1>6 DEF Answers!Actual

\* Results nobody edited are the runner's own.
OwnInv ==
    /\ ranOn # None => Own(submission, ranOn)
    /\ reading # None /\ reading.ranOn # None => Own(reading.results, reading.ranOn)

LEMMA OwnStep == AnswersInv /\ OwnInv /\ [Answers!Next]_(Answers!vars) => OwnInv'
<1> SUFFICES ASSUME AnswersInv, OwnInv, [Answers!Next]_(Answers!vars) PROVE OwnInv'
  OBVIOUS
<1> USE DEF OwnInv
<1>1. CASE Answers!EditVectors
  BY <1>1 DEF Answers!EditVectors
<1>2. CASE Answers!Generate
  BY <1>2 DEF Answers!Generate
<1>3. CASE Answers!RunRunner
  <2>1. UNCHANGED <<vectors, reading>> /\ ranOn' = vectors
    BY <1>3 DEF Answers!RunRunner
  <2>2. PICK l \in Answers!Listings(DOMAIN vectors) :
            submission' = [i \in 1..Cardinality(DOMAIN vectors) |->
                              [id |-> l[i], decision |-> Answers!RunnerDecides(vectors[l[i]])]]
    BY <1>3, SameCount DEF Answers!RunRunner
  <2>3. vectors \in VectorSets
    BY DEF AnswersInv
  <2>4. Own(submission', vectors)
    BY <2>2, <2>3, RunnerOwns
  <2> QED
    BY <2>1, <2>4
<1>4. CASE Answers!EditSubmission
  BY <1>4 DEF Answers!EditSubmission
<1>5. CASE Answers!ReadSubmission
  <2>1. /\ reading'.results = submission /\ reading'.ranOn = ranOn
        /\ UNCHANGED <<submission, ranOn>>
    BY <1>5 DEF Answers!ReadSubmission
  <2> QED
    BY <2>1
<1>6. CASE Answers!JudgeSubmission
  BY <1>6 DEF Answers!JudgeSubmission
<1>7. CASE UNCHANGED Answers!vars
  BY <1>7 DEF Answers!vars
<1> QED
  BY <1>1, <1>2, <1>3, <1>4, <1>5, <1>6, <1>7 DEF Answers!Next

\* The check of a submission accepts what the runner wrote for vectors of the
\* contract, in whatever order, with the answers some release gave for them, just
\* when that release resolves their rules as the runner does: reading, flattening
\* and comparing by id neither make a difference nor hide one
\* (run-v-resolve.mjs:68-75, verify-v-resolve-submission.mjs:34-62).
THEOREM OwnAccepted == ProgramsSpec => RunnerAccepted
<1>1. Answers!Init => AnswersInv /\ OwnInv
  BY DEF Answers!Init, AnswersInv, OwnInv
<1>2. Answers!Spec => [](AnswersInv /\ OwnInv)
  BY <1>1, AnswersStep, OwnStep, PTL DEF Answers!Spec
<1> DEFINE Accepts ==
    \A release \in Releases :
        /\ reading # None /\ reading' = None
        /\ reading.ranOn # None
        /\ \A id \in DOMAIN reading.ranOn : Answers!Neutral(reading.ranOn[id])
        /\ answers = [id \in DOMAIN reading.ranOn |->
                          Answers!EngineDecides(release, reading.ranOn[id])]
        => (accepted' # None <=> Answers!ResolvesLikeRunner(release, reading.ranOn))
<1>3. AnswersInv /\ OwnInv /\ [Answers!Next]_(Answers!vars) => [Accepts]_(Answers!vars)
  <2> SUFFICES ASSUME AnswersInv, OwnInv, Answers!Next, NEW release \in Releases,
                      reading # None, reading' = None, reading.ranOn # None,
                      \A id \in DOMAIN reading.ranOn : Answers!Neutral(reading.ranOn[id]),
                      answers = [id \in DOMAIN reading.ranOn |->
                                    Answers!EngineDecides(release, reading.ranOn[id])]
               PROVE  accepted' # None <=> Answers!ResolvesLikeRunner(release, reading.ranOn)
    OBVIOUS
  <2>1. accepted' = IF answers # None /\ Answers!Fails(reading.results, answers) = {}
                    THEN [results |-> reading.results, answers |-> answers] ELSE None
    BY DEF Answers!Next, Answers!EditVectors, Answers!Generate, Answers!RunRunner,
           Answers!EditSubmission, Answers!ReadSubmission, Answers!JudgeSubmission
  <2>2. /\ reading.ranOn \in VectorSets
        /\ \A id \in DOMAIN reading.ranOn :
               Answers!Actual(reading.results, id) = Answers!RunnerDecides(reading.ranOn[id])
    BY DEF OwnInv, Own
  <2>3. \A id \in DOMAIN reading.ranOn :
            answers[id] = Evaluates(release, Answers!Read(reading.ranOn[id]))
    <3>1. \A id \in DOMAIN reading.ranOn : IsVector(reading.ranOn[id])
      BY <2>2, VectorsAssumption
    <3> QED
      BY <3>1, NeutralAgree
  <2>4. answers \in Keys
    <3>1. \A id \in DOMAIN reading.ranOn :
              Answers!EngineDecides(release, reading.ranOn[id]) \in Decisions \cup {"throws"}
      BY <2>2, ReleasesAssumption
    <3>2. answers \in [DOMAIN reading.ranOn -> Decisions \cup {"throws"}]
      BY <3>1
    <3> QED
      BY <2>2, <3>2 DEF Keys
  <2>5. answers # None
    BY <2>4, VectorsAssumption
  <2>6. Answers!Fails(reading.results, answers) = {} <=>
            Answers!ResolvesLikeRunner(release, reading.ranOn)
    BY <2>2, <2>3 DEF Answers!Fails, Answers!ResolvesLikeRunner
  <2>7. reading.results \in Seq(Given)
    BY DEF AnswersInv
  <2>8. [results |-> reading.results, answers |-> answers] # None
    <3>1. [results |-> reading.results, answers |-> answers] \in [results: Seq(Given), answers: Keys]
      BY <2>4, <2>5, <2>7
    <3> QED
      BY <3>1, VectorsAssumption
  <2> QED
    BY <2>1, <2>5, <2>6, <2>8
<1>4. Answers!Spec => Answers!RunnerAccepted
  BY <1>2, <1>3, PTL DEF Answers!Spec, Answers!RunnerAccepted
<1> QED
  BY <1>4, AnswersSteps DEF RunnerAccepted
=============================================================================
