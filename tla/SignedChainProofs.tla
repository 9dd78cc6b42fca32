-------------------------- MODULE SignedChainProofs --------------------------
(***************************************************************************)
(* Proofs about SignedChain, for any number of chains, records and edits:  *)
(* the types, that a traced chain is one chain of the producer, that       *)
(* accepted anchors are genuine, and that the vectors are judged as they   *)
(* declare.                                                                *)
(***************************************************************************)
EXTENDS SignedChain, SequenceTheorems, TLAPS

(***************************************************************************)
(* Records and signatures.                                                 *)
(***************************************************************************)
Statement(d, key) == [body |-> d.body, key |-> key]

LEMMA SignType ==
    ASSUME NEW d \in SignedDOs, NEW key \in Keys
    PROVE  /\ Statement(d, key) \in Statements \cup {Forged}
           /\ SignDO(d, key) = Append(d.previous_signature, Statement(d, key))
           /\ SignDO(d, key) \in Signatures /\ SignDO(d, key) # Null
           /\ SignDO(d, key)[Len(SignDO(d, key))] = Statement(d, key)
<1>1. Statement(d, key) \in Statements \cup {Forged}
  BY DEF SignedDOs, Statements, Statement
<1>2. d.previous_signature \in Seq(Statements \cup {Forged})
  BY DEF SignedDOs, Signatures
<1>3. SignDO(d, key) = Append(d.previous_signature, Statement(d, key))
  BY DEF SignDO, Statement
<1> QED
  BY <1>1, <1>2, <1>3, AppendProperties, LenProperties DEF Signatures, Null

\* Two records with the same signature have the same body and predecessor.
LEMMA SignInjective ==
    ASSUME NEW d \in SignedDOs, NEW e \in SignedDOs, NEW k \in Keys, NEW l \in Keys,
           SignDO(d, k) = SignDO(e, l)
    PROVE  d.body = e.body /\ d.previous_signature = e.previous_signature /\ k = l
<1>1. /\ Statement(d, k) \in Statements \cup {Forged}
      /\ Statement(e, l) \in Statements \cup {Forged}
      /\ Append(d.previous_signature, Statement(d, k))
           = Append(e.previous_signature, Statement(e, l))
  BY SignType
<1>2. /\ d.previous_signature \in Seq(Statements \cup {Forged})
      /\ e.previous_signature \in Seq(Statements \cup {Forged})
  BY DEF SignedDOs, Signatures
<1>3. d.previous_signature = e.previous_signature /\ Statement(d, k) = Statement(e, l)
  <2> DEFINE x == Statement(d, k)
             y == Statement(e, l)
             s == d.previous_signature
             t == e.previous_signature
             S == Statements \cup {Forged}
  <2>1. x \in S /\ y \in S /\ s \in Seq(S) /\ t \in Seq(S)
    BY <1>1, <1>2
  <2>2. Append(s, x) = Append(t, y)
    BY <1>1
  <2> HIDE DEF x, y, s, t, S
  <2>3. s = t
    BY <2>1, <2>2, AppendInjective
  <2>4. x = y
    BY <2>1, <2>2, AppendInjective
  <2> QED
    BY <2>3, <2>4 DEF x, y, s, t
<1>4. Statement(d, k).body = Statement(e, l).body /\ Statement(d, k).key = Statement(e, l).key
  BY <1>3
<1>5. d.body = e.body
  BY <1>4 DEF Statement
<1>6. k = l
  BY <1>4 DEF Statement
<1> QED
  BY <1>3, <1>5, <1>6

LEMMA ProofTypes ==
    /\ NoProof \in Proofs
    /\ \A tp \in Proofs : tp # NoProof => tp.token \in Tokens /\ tp.requested_at \in TokenTimes
    /\ \A k \in Tokens, t \in TokenTimes : [token |-> k, requested_at |-> t] \in Proofs
<1>1. \A tp \in [token: Tokens, requested_at: TokenTimes] :
        tp.token \in Tokens /\ tp.requested_at \in TokenTimes
  OBVIOUS
<1>2. \A k \in Tokens, t \in TokenTimes :
        [token |-> k, requested_at |-> t] \in [token: Tokens, requested_at: TokenTimes]
  OBVIOUS
<1> QED
  BY <1>1, <1>2 DEF Proofs

LEMMA SignedType ==
    ASSUME NEW body \in Bodies, NEW prev \in Signatures, NEW key \in Keys
    PROVE  LET s == BuildSignatureDO(body, prev, key)
           IN  /\ s \in SignedDOs /\ s.body = body /\ s.previous_signature = prev
               /\ s.timestamp_proof = NoProof /\ s.signature = SignDO(s, key)
<1> DEFINE u == [body |-> body, previous_signature |-> prev,
                 signature |-> Null, timestamp_proof |-> NoProof]
<1> DEFINE s == BuildSignatureDO(body, prev, key)
<1>1. Null \in Signatures
  BY EmptySeq DEF Null, Signatures
<1>2. u \in SignedDOs /\ u.body = body /\ u.previous_signature = prev
  BY <1>1, ProofTypes DEF SignedDOs
<1>3. SignDO(u, key) \in Signatures
  BY <1>2, SignType
<1>4. /\ s.body = body /\ s.previous_signature = prev /\ s.timestamp_proof = NoProof
      /\ s.signature = SignDO(u, key) /\ s \in SignedDOs
  BY <1>2, <1>3, ProofTypes DEF BuildSignatureDO, SignedDOs
<1>5. s.signature = SignDO(s, key)
  BY <1>2, <1>4 DEF SignDO
<1> QED
  BY <1>4, <1>5

LEMMA BuiltType ==
    ASSUME NEW body \in Bodies, NEW prev \in Signatures, NEW key \in Keys, NEW t \in TokenTimes
    PROVE  LET a == BuildTsaDO(body, prev, key, t)
           IN  /\ a \in SignedDOs /\ a.body = body /\ a.previous_signature = prev
               /\ a.timestamp_proof.token \in Tokens /\ a.signature = SignDO(a, key)
<1> DEFINE s == BuildSignatureDO(body, prev, key)
<1> DEFINE a == BuildTsaDO(body, prev, key, t)
<1>1. /\ s.body = body /\ s.previous_signature = prev /\ s \in SignedDOs
      /\ s.signature = SignDO(s, key) /\ s.signature \in Signatures
  BY SignedType DEF SignedDOs
<1>2. CreateToken(s.signature, t) \in Tokens
  BY <1>1 DEF CreateToken, Tokens, Issuable
<1>3. a = [s EXCEPT !.timestamp_proof =
             [token |-> CreateToken(s.signature, t), requested_at |-> t]]
  BY DEF BuildTsaDO
<1> HIDE DEF s, a
<1>4. /\ a.body = body /\ a.previous_signature = prev /\ a.signature = s.signature
      /\ a.timestamp_proof = [token |-> CreateToken(s.signature, t), requested_at |-> t]
      /\ a \in SignedDOs
  BY <1>1, <1>2, <1>3, ProofTypes DEF SignedDOs
<1>5. a.signature = SignDO(a, key)
  BY <1>1, <1>4 DEF SignDO
<1> QED
  BY <1>2, <1>4, <1>5 DEF a

LEMMA IssuedType ==
    ASSUME ledgers \in [ChainIds -> Seq(SignedDOs)]
    PROVE  /\ Issued \subseteq SignedDOs
           /\ IssuedSignatures \subseteq Signatures
           /\ IssuedTokens \subseteq Tokens
<1>1. Issued \subseteq SignedDOs
  <2>1. \A c \in ChainIds : \A i \in 1..Len(ledgers[c]) : ledgers[c][i] \in SignedDOs
    BY ElementOfSeq
  <2> QED
    BY <2>1 DEF Issued
<1>2. IssuedSignatures \subseteq Signatures
  BY <1>1 DEF IssuedSignatures, SignedDOs
<1>3. IssuedTokens \subseteq Tokens
  BY <1>1, ProofTypes DEF IssuedTokens, IssuedProofs, SignedDOs
<1> QED
  BY <1>1, <1>2, <1>3

\* What an overwritten record is made of.
LEMMA OverwriteType ==
    ASSUME ledgers \in [ChainIds -> Seq(SignedDOs)], NEW d \in SignedDOs, NEW e \in Overwrites(d)
    PROVE  /\ e \in SignedDOs
           /\ e.signature = d.signature \/ e.signature = SignDO(d, OtherKey)
           /\ \/ e.timestamp_proof = d.timestamp_proof
              \/ e.timestamp_proof = NoProof
              \/ e.timestamp_proof.token \in IssuedTokens \cup {Forged}
<1> DEFINE S1 == {[d EXCEPT !.body.decision = x] : x \in Decisions}
<1> DEFINE S2 == {[d EXCEPT !.body.timestamp = t] : t \in Timestamps}
<1> DEFINE S3 == {[d EXCEPT !.previous_signature = s] :
                    s \in IssuedSignatures \cup {Null, <<Forged>>}}
<1> DEFINE S4 == {[d EXCEPT !.signature = SignDO(d, OtherKey)]}
<1> DEFINE S5 == {[d EXCEPT !.timestamp_proof = NoProof]}
<1> DEFINE S6 == {[d EXCEPT !.timestamp_proof = [token |-> k, requested_at |-> t]] :
                    k \in IssuedTokens \cup {Forged}, t \in TokenTimes}
<1>1. /\ d.body \in Bodies /\ d.previous_signature \in Signatures
      /\ d.signature \in Signatures /\ d.timestamp_proof \in Proofs
  BY DEF SignedDOs
<1>2. CASE \E x \in Decisions : e = [d EXCEPT !.body.decision = x]
  <2>1. PICK x \in Decisions : e = [d EXCEPT !.body.decision = x]
    BY <1>2
  <2>2. [d.body EXCEPT !.decision = x] \in Bodies
    BY <1>1 DEF Bodies
  <2> QED
    BY <1>1, <2>1, <2>2 DEF SignedDOs
<1>3. CASE \E t \in Timestamps : e = [d EXCEPT !.body.timestamp = t]
  <2>1. PICK t \in Timestamps : e = [d EXCEPT !.body.timestamp = t]
    BY <1>3
  <2>2. [d.body EXCEPT !.timestamp = t] \in Bodies
    BY <1>1 DEF Bodies
  <2> QED
    BY <1>1, <2>1, <2>2 DEF SignedDOs
<1>4. CASE \E s \in IssuedSignatures \cup {Null, <<Forged>>} :
             e = [d EXCEPT !.previous_signature = s]
  <2>1. Null \in Signatures /\ <<Forged>> \in Signatures
    BY EmptySeq DEF Null, Signatures
  <2> QED
    BY <1>4, <2>1, IssuedType DEF SignedDOs
<1>5. CASE e = [d EXCEPT !.signature = SignDO(d, OtherKey)]
  <2>1. SignDO(d, OtherKey) \in Signatures
    BY SignType DEF Keys
  <2> QED
    BY <1>5, <2>1 DEF SignedDOs
<1>6. CASE e = [d EXCEPT !.timestamp_proof = NoProof]
  BY <1>6, ProofTypes DEF SignedDOs
<1>7. CASE \E k \in IssuedTokens \cup {Forged}, t \in TokenTimes :
             e = [d EXCEPT !.timestamp_proof = [token |-> k, requested_at |-> t]]
  <2>1. PICK k \in IssuedTokens \cup {Forged}, t \in TokenTimes :
             e = [d EXCEPT !.timestamp_proof = [token |-> k, requested_at |-> t]]
    BY <1>7
  <2>2. k \in Tokens
    BY <2>1, IssuedType DEF Tokens
  <2>3. [token |-> k, requested_at |-> t] \in Proofs
    BY <2>2, ProofTypes
  <2> QED
    BY <2>1, <2>3 DEF SignedDOs
<1>8. \/ e \in S1 \/ e \in S2 \/ e \in S3 \/ e \in S4 \/ e \in S5 \/ e \in S6
  <2>1. Overwrites(d) = S1 \cup S2 \cup S3 \cup S4 \cup S5 \cup S6
    BY DEF Overwrites
  <2> HIDE DEF S1, S2, S3, S4, S5, S6
  <2> QED
    BY <2>1
<1> QED
  BY <1>2, <1>3, <1>4, <1>5, <1>6, <1>7, <1>8

(***************************************************************************)
(* What a record that verifies says of the ledgers.                        *)
(***************************************************************************)
LEMMA UnanchoredEq ==
    ASSUME NEW d \in SignedDOs, NEW e \in SignedDOs
    PROVE  Unanchored(d) = Unanchored(e) <=>
              /\ d.body = e.body
              /\ d.previous_signature = e.previous_signature
              /\ d.signature = e.signature
<1> DEFINE U(r) == [body |-> r.body, previous_signature |-> r.previous_signature,
                    signature |-> r.signature, timestamp_proof |-> NoProof]
<1>1. Unanchored(d) = U(d) /\ Unanchored(e) = U(e)
  BY DEF Unanchored, SignedDOs
<1>2. U(d) = U(e) => /\ d.body = e.body
                     /\ d.previous_signature = e.previous_signature
                     /\ d.signature = e.signature
  <2> SUFFICES ASSUME U(d) = U(e)
               PROVE  /\ d.body = e.body
                      /\ d.previous_signature = e.previous_signature
                      /\ d.signature = e.signature
    OBVIOUS
  <2>1. /\ U(d).body = U(e).body
        /\ U(d).previous_signature = U(e).previous_signature
        /\ U(d).signature = U(e).signature
    <3> HIDE DEF U
    <3> QED  OBVIOUS
  <2>2. d.body = e.body
    BY <2>1
  <2>3. d.previous_signature = e.previous_signature
    BY <2>1
  <2>4. d.signature = e.signature
    BY <2>1
  <2> QED
    BY <2>2, <2>3, <2>4
<1> QED
  BY <1>1, <1>2

LEMMA SameSigned ==
    ASSUME NEW d \in SignedDOs, NEW e \in SignedDOs, Unanchored(d) = Unanchored(e)
    PROVE  VerifySignature(d) <=> VerifySignature(e)
  BY UnanchoredEq DEF VerifySignature, SignDO

LEMMA LedgerFacts ==
    ASSUME ledgers \in [ChainIds -> Seq(SignedDOs)], LedgerInv,
           NEW c \in ChainIds, NEW n \in 1..Len(ledgers[c])
    PROVE  /\ Len(ledgers[c]) \in Nat /\ n \in Int /\ 1 <= n
           /\ ledgers[c][n] \in SignedDOs
           /\ ledgers[c][n] \in Issued
           /\ ledgers[c][n].signature \in IssuedSignatures
           /\ ledgers[c][n].signature = SignDO(ledgers[c][n], KEY)
           /\ ledgers[c][n].signature # Null
           /\ ledgers[c][n].body.chain_id = c
           /\ ledgers[c][n].body.chain_seq = n - 1
           /\ n = 1 => ledgers[c][n].previous_signature = Null
           /\ n # 1 => /\ n - 1 \in 1..Len(ledgers[c])
                       /\ ledgers[c][n].previous_signature = ledgers[c][n - 1].signature
<1>1. ledgers[c] \in Seq(SignedDOs) /\ Len(ledgers[c]) \in Nat
  BY LenProperties
<1>2. ledgers[c][n] \in SignedDOs
  BY <1>1, ElementOfSeq
<1>3. ledgers[c][n] \in Issued
  BY DEF Issued
<1>4. ledgers[c][n].signature \in IssuedSignatures
  BY <1>3 DEF IssuedSignatures
<1>5. /\ ledgers[c][n].body.chain_id = c
      /\ ledgers[c][n].body.chain_seq = n - 1
      /\ ledgers[c][n].signature = SignDO(ledgers[c][n], KEY)
      /\ ledgers[c][n].previous_signature =
            IF n = 1 THEN Null ELSE ledgers[c][n - 1].signature
  BY DEF LedgerInv, VerifySignature
<1>6. SignDO(ledgers[c][n], KEY) # Null
  BY <1>2, SignType DEF Keys
<1>7. n \in Int /\ 1 <= n /\ (n # 1 => n - 1 \in 1..Len(ledgers[c]))
  BY <1>1
<1> QED
  BY <1>1, <1>2, <1>3, <1>4, <1>5, <1>6, <1>7

\* A statement is not forged, and its key is the one it was made with.
LEMMA StatementFacts ==
    ASSUME NEW d \in SignedDOs, NEW key \in Keys
    PROVE  Statement(d, key) # Forged /\ Statement(d, key).key = key
<1>1. Statement(d, key) \in Statements
  BY DEF SignedDOs, Statements, Statement
<1>2. Statement(d, key).key = key
  BY DEF Statement
<1> QED
  BY <1>1, <1>2, ForgedAssumption

\* A copied record that verifies is, up to its anchor, a record of a ledger.
LEMMA Verified ==
    ASSUME ledgers \in [ChainIds -> Seq(SignedDOs)], LedgerInv,
           NEW d \in SignedDOs, Available(d.signature), VerifySignature(d)
    PROVE  \E c \in ChainIds : \E n \in 1..Len(ledgers[c]) :
              Unanchored(d) = Unanchored(ledgers[c][n])
<1>1. d.signature = SignDO(d, KEY) /\ KEY \in Keys
  BY DEF VerifySignature, Keys
<1>2. d.signature # Null /\ d.signature[Len(d.signature)] = Statement(d, KEY)
  BY <1>1, SignType
<1>3. /\ d.signature[Len(d.signature)] # Forged
      /\ d.signature[Len(d.signature)].key # OtherKey
  BY <1>1, <1>2, StatementFacts, SignedAssumption
<1>4. d.signature \in IssuedSignatures
  BY <1>3 DEF Available
<1>5. PICK e \in Issued : e.signature = d.signature
  BY <1>4 DEF IssuedSignatures
<1>6. PICK c \in ChainIds : \E n \in 1..Len(ledgers[c]) : e = ledgers[c][n]
  BY <1>5 DEF Issued
<1>7. PICK n \in 1..Len(ledgers[c]) : e = ledgers[c][n]
  BY <1>6
<1>8. e \in SignedDOs /\ e.signature = SignDO(e, KEY)
  BY <1>6, <1>7, LedgerFacts
<1>9. d.body = e.body /\ d.previous_signature = e.previous_signature
  <2>1. SignDO(d, KEY) = SignDO(e, KEY)
    BY <1>1, <1>5, <1>8
  <2> QED
    BY <1>1, <1>8, <2>1, SignInjective
<1>10. Unanchored(d) = Unanchored(e)
  BY <1>5, <1>8, <1>9, UnanchoredEq
<1> QED
  BY <1>7, <1>10

\* One more turn of verifyChain keeps the records read so far the beginning
\* of one ledger.
LEMMA TraceOne ==
    ASSUME TypeOK, LedgerInv, CopyInv, ScanInv, phase = "traceback",
           cursor <= Len(chain), VerifySignature(chain[cursor]),
           chain[cursor].previous_signature = prevSig
    PROVE  Traced(cursor)
<1> DEFINE d == chain[cursor]
<1>1. ledgers \in [ChainIds -> Seq(SignedDOs)] /\ chain \in Seq(SignedDOs)
  BY DEF TypeOK
<1>2. cursor \in 1..Len(chain) /\ Len(chain) \in Nat
  BY <1>1, LenProperties DEF ScanInv
<1>3. d \in SignedDOs /\ Available(d.signature)
  BY <1>1, <1>2, ElementOfSeq DEF CopyInv, Copied
<1>4. PICK c \in ChainIds : \E n \in 1..Len(ledgers[c]) : Unanchored(d) = Unanchored(ledgers[c][n])
  BY <1>1, <1>3, Verified
<1>5. PICK n \in 1..Len(ledgers[c]) : Unanchored(d) = Unanchored(ledgers[c][n])
  BY <1>4
<1> DEFINE e == ledgers[c][n]
<1>6. e \in SignedDOs
  BY <1>1, LedgerFacts
<1>7. e.previous_signature = prevSig
  BY <1>3, <1>5, <1>6, UnanchoredEq
<1>8. CASE cursor = 1
  <2>1. prevSig = Null
    BY <1>8 DEF ScanInv
  <2>2. n = 1
    <3> SUFFICES ASSUME n # 1 PROVE FALSE
      OBVIOUS
    <3>1. n - 1 \in 1..Len(ledgers[c]) /\ e.previous_signature = ledgers[c][n - 1].signature
      BY <1>1, LedgerFacts
    <3>2. ledgers[c][n - 1].signature # Null
      BY <1>1, <3>1, LedgerFacts
    <3> QED
      BY <1>7, <2>1, <3>1, <3>2
  <2>3. 1 <= Len(ledgers[c])
    BY <2>2
  <2>4. \A i \in 1..1 : Unanchored(chain[i]) = Unanchored(ledgers[c][i])
    BY <1>5, <1>8, <2>2
  <2> QED
    BY <1>8, <2>3, <2>4 DEF Traced
<1>9. CASE cursor # 1
  <2>1. Traced(cursor - 1) /\ prevSig = chain[cursor - 1].signature
    BY <1>9 DEF ScanInv
  <2>2. cursor - 1 \in 1..Len(chain) /\ cursor - 1 \in 1..(cursor - 1)
    BY <1>2, <1>9
  <2>3. PICK b \in ChainIds :
            /\ cursor - 1 <= Len(ledgers[b])
            /\ \A i \in 1..(cursor - 1) : Unanchored(chain[i]) = Unanchored(ledgers[b][i])
    BY <2>1 DEF Traced
  <2>4. cursor - 1 \in 1..Len(ledgers[b])
    BY <1>1, <2>2, <2>3
  <2> DEFINE f == ledgers[b][cursor - 1]
  <2>5. /\ f \in SignedDOs /\ f.signature = SignDO(f, KEY) /\ f.signature # Null
        /\ f.body.chain_id = b /\ f.body.chain_seq = cursor - 2
    BY <1>1, <2>4, LedgerFacts, <1>2
  <2>6. chain[cursor - 1] \in SignedDOs
    BY <1>1, <2>2, ElementOfSeq
  <2>7. prevSig = f.signature
    BY <2>1, <2>2, <2>3, <2>5, <2>6, UnanchoredEq
  <2>8. n # 1
    BY <1>1, <1>7, <2>5, <2>7, LedgerFacts
  <2>9. n - 1 \in 1..Len(ledgers[c]) /\ e.previous_signature = ledgers[c][n - 1].signature
    BY <1>1, <2>8, LedgerFacts
  <2> DEFINE g == ledgers[c][n - 1]
  <2>10. /\ g \in SignedDOs /\ g.signature = SignDO(g, KEY)
         /\ g.body.chain_id = c /\ g.body.chain_seq = n - 2
    BY <1>1, <2>9, LedgerFacts
  <2>11. f.body = g.body
    <3>1. SignDO(f, KEY) = SignDO(g, KEY)
      BY <1>7, <2>5, <2>7, <2>9, <2>10
    <3> HIDE DEF f, g
    <3> QED
      BY <2>5, <2>10, <3>1, SignInjective DEF Keys
  <2>12. b = c /\ n = cursor
    BY <1>2, <2>5, <2>10, <2>11
  <2>13. \A i \in 1..cursor : Unanchored(chain[i]) = Unanchored(ledgers[c][i])
    <3> TAKE i \in 1..cursor
    <3>1. CASE i = cursor
      BY <1>5, <2>12, <3>1
    <3>2. CASE i # cursor
      <4>1. i \in 1..(cursor - 1)
        BY <1>2, <3>2
      <4> QED
        BY <2>3, <2>12, <4>1
    <3> QED
      BY <3>1, <3>2
  <2>14. cursor <= Len(ledgers[c])
    BY <1>1, <2>12
  <2> QED
    BY <2>13, <2>14 DEF Traced
<1> QED
  BY <1>8, <1>9

(***************************************************************************)
(* The invariant holds at first, and every action keeps it.                *)
(***************************************************************************)
LEMMA InvInit == Init => IInv
<1> SUFFICES ASSUME Init PROVE IInv
  OBVIOUS
<1> USE DEF Init
<1>1. Null \in Signatures /\ chain \in Seq(SignedDOs) /\ anchors \in Seq(AnchorResults)
      /\ << >> \in Seq(SignedDOs)
  BY EmptySeq DEF Null, Signatures
<1>2. ledgers \in [ChainIds -> Seq(SignedDOs)] /\ \A c \in ChainIds : ledgers[c] = << >>
  BY <1>1
<1>3. TypeOK
  BY <1>1, <1>2, BoundsAssumption DEF TypeOK, Phases, Results
<1>4. LedgerInv
  BY <1>2 DEF LedgerInv
<1>5. CopyInv
  BY DEF CopyInv
<1>6. VectorInv
  BY DEF VectorInv
<1>7. ScanInv
  BY DEF ScanInv
<1>8. VectorsJudged
  BY DEF VectorsJudged
<1> QED
  BY <1>3, <1>4, <1>5, <1>6, <1>7, <1>8 DEF IInv

\* What holds of the ledgers while they do not change.
LEMMA SameLedgers ==
    ASSUME ledgers' = ledgers
    PROVE  /\ LedgerInv => LedgerInv'
           /\ Issued' = Issued
           /\ IssuedSignatures' = IssuedSignatures
           /\ IssuedTokens' = IssuedTokens
           /\ \A d : Copied(d)' <=> Copied(d)
<1>1. Issued' = Issued
  BY DEF Issued
<1>2. IssuedSignatures' = IssuedSignatures /\ IssuedTokens' = IssuedTokens
  BY <1>1 DEF IssuedSignatures, IssuedTokens, IssuedProofs
<1>3. \A d : Copied(d)' <=> Copied(d)
  BY <1>2 DEF Copied, Available
<1>4. LedgerInv => LedgerInv'
  BY DEF LedgerInv
<1> QED
  BY <1>1, <1>2, <1>3, <1>4

LEMMA SameCopy ==
    ASSUME ledgers' = ledgers, chain' = chain
    PROVE  /\ CopyInv => CopyInv'
           /\ \A n : Traced(n)' <=> Traced(n)
<1>1. \A d : Copied(d)' <=> Copied(d)
  BY SameLedgers
<1>2. CopyInv => CopyInv'
  BY <1>1 DEF CopyInv
<1>3. \A n : Traced(n)' <=> Traced(n)
  BY DEF Traced
<1> QED
  BY <1>2, <1>3

LEMMA CopyKept ==
    ASSUME ledgers' = ledgers,
           \A i \in 1..Len(chain') : \E d : d = chain'[i] /\ Copied(d)
    PROVE  CopyInv'
<1>1. IssuedSignatures' = IssuedSignatures /\ IssuedTokens' = IssuedTokens
  BY SameLedgers
<1>2. \A i \in 1..Len(chain') :
        /\ \/ chain'[i].signature \in IssuedSignatures
           \/ /\ chain'[i].signature # Null
              /\ chain'[i].signature[Len(chain'[i].signature)] = Forged
           \/ /\ chain'[i].signature # Null
              /\ chain'[i].signature[Len(chain'[i].signature)].key = OtherKey
        /\ \/ chain'[i].timestamp_proof = NoProof
           \/ chain'[i].timestamp_proof.token \in IssuedTokens \cup {Forged}
  BY DEF Copied, Available
<1> QED
  BY <1>1, <1>2 DEF CopyInv, Copied, Available

\* The producer appends a record that continues the chain.
LEMMA SignStep ==
    ASSUME IInv, NEW c \in ChainIds, NEW d \in SignedDOs, Sign(c, d),
           d.body.chain_id = c, d.body.chain_seq = Len(ledgers[c]),
           d.previous_signature = LastSignature(c), d.signature = SignDO(d, KEY)
    PROVE  IInv'
<1> DEFINE L == ledgers[c]
<1>1. TypeOK /\ LedgerInv /\ VectorInv /\ ScanInv
  BY DEF IInv
<1>2. /\ phase = "sign" /\ ledgers' = [ledgers EXCEPT ![c] = Append(@, d)]
      /\ UNCHANGED <<chain, expected, edits, phase, cursor, prevSig, traceback, anchors>>
  BY DEF Sign
<1>3. ledgers \in [ChainIds -> Seq(SignedDOs)] /\ L \in Seq(SignedDOs)
      /\ chain = << >> /\ expected = "none" /\ anchors = << >> /\ traceback = "pending"
  BY <1>1, <1>2 DEF TypeOK, VectorInv, ScanInv
<1>4. /\ Append(L, d) \in Seq(SignedDOs) /\ Len(Append(L, d)) = Len(L) + 1
      /\ \A n \in 1..Len(L) : Append(L, d)[n] = L[n]
      /\ Append(L, d)[Len(L) + 1] = d
      /\ Len(L) \in Nat
  BY <1>3, AppendProperties, LenProperties
<1>5. /\ ledgers' \in [ChainIds -> Seq(SignedDOs)]
      /\ ledgers'[c] = Append(L, d)
      /\ \A b \in ChainIds \ {c} : ledgers'[b] = ledgers[b]
  BY <1>2, <1>3, <1>4
<1>6. TypeOK'
  BY <1>1, <1>2, <1>5 DEF TypeOK
<1>7. LedgerInv'
  <2> SUFFICES ASSUME NEW b \in ChainIds, NEW n \in 1..Len(ledgers'[b])
               PROVE  /\ ledgers'[b][n].body.chain_id = b
                      /\ ledgers'[b][n].body.chain_seq = n - 1
                      /\ VerifySignature(ledgers'[b][n])
                      /\ ledgers'[b][n].previous_signature =
                            IF n = 1 THEN Null ELSE ledgers'[b][n - 1].signature
    BY DEF LedgerInv, VerifySignature, SignDO
  <2>1. CASE b # c
    BY <1>1, <1>5, <2>1 DEF LedgerInv
  <2>2. CASE b = c /\ n \in 1..Len(L)
    <3>1. ledgers'[b][n] = L[n]
      BY <1>4, <1>5, <2>2
    <3>2. n # 1 => n - 1 \in 1..Len(L)
      BY <1>4, <2>2
    <3>3. n # 1 => ledgers'[b][n - 1] = L[n - 1]
      BY <1>4, <1>5, <2>2, <3>2
    <3> QED
      BY <1>1, <2>2, <3>1, <3>3 DEF LedgerInv
  <2>3. CASE b = c /\ n = Len(L) + 1
    <3>1. ledgers'[b][n] = d
      BY <1>4, <1>5, <2>3
    <3>2. n - 1 = Len(L)
      BY <1>4, <2>3
    <3>3. n = 1 => d.previous_signature = Null
      <4>1. n = 1 => L = << >>
        BY <1>3, <3>2, EmptySeq
      <4> QED
        BY <4>1 DEF LastSignature
    <3>4. n # 1 => d.previous_signature = ledgers'[b][n - 1].signature
      <4> SUFFICES ASSUME n # 1
                   PROVE  d.previous_signature = ledgers'[b][n - 1].signature
        OBVIOUS
      <4>1. Len(L) \in 1..Len(L) /\ L # << >>
        BY <1>3, <1>4, <3>2, EmptySeq
      <4>2. ledgers'[b][n - 1] = L[Len(L)]
        BY <1>4, <1>5, <2>3, <3>2, <4>1
      <4> QED
        BY <4>1, <4>2 DEF LastSignature
    <3> QED
      BY <2>3, <3>1, <3>2, <3>3, <3>4 DEF VerifySignature
  <2>4. n \in 1..Len(L) \/ n = Len(L) + 1 \/ b # c
    BY <1>4, <1>5
  <2> QED
    BY <2>1, <2>2, <2>3, <2>4
<1>8. CopyInv'
  BY <1>2, <1>3 DEF CopyInv
<1>9. VectorInv'
  BY <1>1, <1>2, <1>3 DEF VectorInv
<1>10. ScanInv'
  BY <1>1, <1>2, <1>3 DEF ScanInv
<1>11. VectorsJudged'
  BY <1>2, <1>3 DEF VectorsJudged
<1> QED
  BY <1>6, <1>7, <1>8, <1>9, <1>10, <1>11 DEF IInv

LEMMA ProduceStep == ASSUME IInv, Produce PROVE IInv'
<1>1. PICK c \in ChainIds : SignRecord(c) \/ SignAnchored(c) \/ Publish(c)
  BY DEF Produce
<1>2. TypeOK /\ LedgerInv /\ VectorInv /\ ScanInv
  BY DEF IInv
<1>3. ledgers \in [ChainIds -> Seq(SignedDOs)] /\ ledgers[c] \in Seq(SignedDOs)
      /\ Len(ledgers[c]) \in Nat
  BY <1>2, LenProperties DEF TypeOK
<1>4. LastSignature(c) \in Signatures
  <2>1. CASE ledgers[c] = << >>
    BY <2>1, EmptySeq DEF LastSignature, Null, Signatures
  <2>2. CASE ledgers[c] # << >>
    <3>1. Len(ledgers[c]) \in 1..Len(ledgers[c])
      BY <1>3, <2>2, EmptySeq
    <3>2. ledgers[c][Len(ledgers[c])] \in SignedDOs
      BY <1>3, <3>1, ElementOfSeq
    <3> QED
      BY <2>2, <3>2 DEF LastSignature, SignedDOs
  <2> QED
    BY <2>1, <2>2
<1>5. \A t \in Timestamps, x \in Decisions :
        LET b == NextBody(c, t, x)
        IN  b \in Bodies /\ b.chain_id = c /\ b.chain_seq = Len(ledgers[c])
  BY <1>3 DEF NextBody, Bodies
<1>6. KEY \in Keys
  BY DEF Keys
<1>7. CASE SignRecord(c)
  <2>1. PICK t \in Timestamps, x \in Decisions :
            Sign(c, BuildSignatureDO(NextBody(c, t, x), LastSignature(c), KEY))
    BY <1>7 DEF SignRecord
  <2> DEFINE b == NextBody(c, t, x)
             p == LastSignature(c)
             d == BuildSignatureDO(b, p, KEY)
  <2>2. b \in Bodies /\ b.chain_id = c /\ b.chain_seq = Len(ledgers[c]) /\ p \in Signatures
    BY <1>4, <1>5
  <2>4. d \in SignedDOs /\ d.body = b /\ d.previous_signature = p
        /\ d.signature = SignDO(d, KEY)
    <3> HIDE DEF b, p
    <3> QED
      BY <1>6, <2>2, SignedType
  <2>5. Sign(c, d)
    BY <2>1
  <2> HIDE DEF d, b
  <2> QED
    BY <2>2, <2>4, <2>5, SignStep
<1>8. CASE SignAnchored(c)
  <2>1. PICK t \in Timestamps, x \in Decisions, r \in TokenTimes :
            Sign(c, BuildTsaDO(NextBody(c, t, x), LastSignature(c), KEY, r))
    BY <1>8 DEF SignAnchored
  <2> DEFINE b == NextBody(c, t, x)
             p == LastSignature(c)
             d == BuildTsaDO(b, p, KEY, r)
  <2>2. b \in Bodies /\ b.chain_id = c /\ b.chain_seq = Len(ledgers[c]) /\ p \in Signatures
    BY <1>4, <1>5
  <2>4. d \in SignedDOs /\ d.body = b /\ d.previous_signature = p
        /\ d.signature = SignDO(d, KEY)
    <3> HIDE DEF b, p
    <3> QED
      BY <1>6, <2>2, BuiltType
  <2>5. Sign(c, d)
    BY <2>1
  <2> HIDE DEF d, b
  <2> QED
    BY <2>2, <2>4, <2>5, SignStep
<1>9. CASE Publish(c)
  <2>1. /\ phase = "sign" /\ chain' = ledgers[c] /\ phase' = "custody" /\ expected' = "pass"
        /\ UNCHANGED <<ledgers, edits, cursor, prevSig, traceback, anchors>>
    BY <1>9 DEF Publish
  <2>2. TypeOK'
    BY <1>2, <1>3, <2>1 DEF TypeOK, Phases
  <2>3. LedgerInv'
    BY <1>2, <2>1, SameLedgers
  <2>4. CopyInv'
    <3>1. \A i \in 1..Len(ledgers[c]) : Copied(ledgers[c][i])
      <4> TAKE i \in 1..Len(ledgers[c])
      <4> DEFINE d == ledgers[c][i]
      <4>1. d \in Issued
        BY DEF Issued
      <4>2. Available(d.signature)
        BY <4>1 DEF Available, IssuedSignatures
      <4>3. d.timestamp_proof # NoProof => d.timestamp_proof.token \in IssuedTokens
        BY <4>1 DEF IssuedTokens, IssuedProofs
      <4> QED
        BY <4>2, <4>3 DEF Copied
    <3>2. \A i \in 1..Len(chain') : \E d : d = chain'[i] /\ Copied(d)
      BY <2>1, <3>1
    <3> QED
      BY <2>1, <3>2, CopyKept
  <2>5. VectorInv'
    BY <1>2, <2>1 DEF VectorInv
  <2>6. anchors = << >> /\ traceback = "pending" /\ ChainIds # {}
    BY <1>2, <2>1 DEF ScanInv
  <2>7. Len(chain') \in Nat
    BY <1>3, <2>1
  <2>8. ScanInv'
    BY <2>1, <2>6, <2>7 DEF ScanInv
  <2>9. VectorsJudged'
    BY <2>1, <2>6 DEF VectorsJudged
  <2> QED
    BY <2>2, <2>3, <2>4, <2>5, <2>8, <2>9 DEF IInv
<1> QED
  BY <1>1, <1>7, <1>8, <1>9

(***************************************************************************)
(* The copy in custody.                                                    *)
(***************************************************************************)
\* Whatever happens to the copy before it is handed in keeps the invariant, if
\* custody could make the records and the vector says rightly that they fail.
LEMMA CustodyStep ==
    ASSUME IInv, phase = "custody", chain' \in Seq(SignedDOs),
           \A i \in 1..Len(chain') : \E d : d = chain'[i] /\ Copied(d),
           UNCHANGED <<ledgers, phase, cursor, prevSig, traceback, anchors>>,
           edits' \in 0..MaxEdits,
           \/ expected' = "unknown"
           \/ expected' = "fail" /\ Len(chain') = 1 /\ \E d : d = chain'[1] /\ ~ VerifySignature(d)
    PROVE  IInv'
<1>1. TypeOK /\ LedgerInv /\ VectorInv /\ ScanInv
  BY DEF IInv
<1>2. TypeOK'
  BY <1>1 DEF TypeOK
<1>3. LedgerInv'
  BY <1>1, SameLedgers
<1>4. CopyInv'
  BY CopyKept
<1>5. expected' = "fail" => Len(chain') = 1 /\ ~ VerifySignature(chain[1])'
  BY DEF VerifySignature, SignDO
<1>6. VectorInv'
  BY <1>1, <1>5 DEF VectorInv
<1>7. anchors = << >> /\ traceback = "pending" /\ ChainIds # {}
  BY <1>1 DEF ScanInv
<1>8. Len(chain') \in Nat
  BY LenProperties
<1>9. ScanInv'
  BY <1>7, <1>8 DEF ScanInv
<1>10. VectorsJudged'
  BY <1>7 DEF VectorsJudged
<1> QED
  BY <1>2, <1>3, <1>4, <1>6, <1>9, <1>10 DEF IInv

\* A signature under another key, and one nobody made, are available and do
\* not verify.
LEMMA NotTheProducers ==
    ASSUME NEW d \in SignedDOs
    PROVE  /\ Available(SignDO(d, OtherKey))
           /\ Available(<<Forged>>)
           /\ \A e \in SignedDOs : <<Forged>> # SignDO(e, KEY) /\ SignDO(d, OtherKey) # SignDO(e, KEY)
<1>1. OtherKey \in Keys /\ KEY \in Keys /\ KEY # OtherKey
  BY SignedAssumption DEF Keys
<1>2. Available(SignDO(d, OtherKey))
  <2>1. SignDO(d, OtherKey) # Null
        /\ SignDO(d, OtherKey)[Len(SignDO(d, OtherKey))] = Statement(d, OtherKey)
    BY <1>1, SignType
  <2>2. Statement(d, OtherKey).key = OtherKey
    BY <1>1, StatementFacts
  <2> QED
    BY <2>1, <2>2 DEF Available
<1>3. <<Forged>> # Null /\ Len(<<Forged>>) = 1 /\ <<Forged>>[1] = Forged
  BY DEF Null
<1>4. Available(<<Forged>>)
  BY <1>3 DEF Available
<1>5. ASSUME NEW e \in SignedDOs
      PROVE  <<Forged>> # SignDO(e, KEY) /\ SignDO(d, OtherKey) # SignDO(e, KEY)
  <2>1. SignDO(e, KEY)[Len(SignDO(e, KEY))] = Statement(e, KEY) /\ Statement(e, KEY) # Forged
    BY <1>1, SignType, StatementFacts
  <2>2. <<Forged>> # SignDO(e, KEY)
    BY <1>3, <2>1
  <2>3. SignDO(d, OtherKey) # SignDO(e, KEY)
    BY <1>1, SignInjective
  <2> QED
    BY <2>2, <2>3
<1> QED
  BY <1>2, <1>4, <1>5

LEMMA VectorsStep == ASSUME IInv, Vectors PROVE IInv'
<1>1. TypeOK /\ LedgerInv /\ CopyInv /\ VectorInv /\ Len(chain) = 1
  BY DEF IInv, Vectors
<1> DEFINE r == chain[1]
<1>2. r \in SignedDOs /\ 1 \in 1..Len(chain) /\ ledgers \in [ChainIds -> Seq(SignedDOs)]
  <2>1. 1 \in 1..Len(chain)
    BY <1>1
  <2>2. chain \in Seq(SignedDOs) /\ ledgers \in [ChainIds -> Seq(SignedDOs)]
    BY <1>1 DEF TypeOK
  <2>3. chain[1] \in SignedDOs
    BY <2>1, <2>2, ElementOfSeq
  <2> QED
    BY <2>1, <2>2, <2>3
<1>3. Copied(r)
  BY <1>1, <1>2 DEF CopyInv
<1>4. ASSUME NEW d \in SignedDOs, MakeVector(d), Available(d.signature),
             d.timestamp_proof \in {r.timestamp_proof, NoProof}, ~ VerifySignature(d)
      PROVE  IInv'
  <2>1. /\ phase = "custody" /\ chain' = <<d>> /\ expected' = "fail" 
        /\ UNCHANGED <<ledgers, edits, phase, cursor, prevSig, traceback, anchors>>
    BY <1>4 DEF MakeVector
  <2>2. chain' \in Seq(SignedDOs) /\ Len(chain') = 1 /\ chain'[1] = d
    BY <2>1
  <2>3. Copied(d)
    BY <1>3, <1>4 DEF Copied
  <2>4. \A i \in 1..Len(chain') : \E e : e = chain'[i] /\ Copied(e)
    BY <2>2, <2>3
  <2>5. edits' \in 0..MaxEdits
    BY <1>1, <2>1 DEF TypeOK
  <2>6. \E e : e = chain'[1] /\ ~ VerifySignature(e)
    BY <1>4, <2>2
  <2> QED
    BY <2>1, <2>2, <2>4, <2>5, <2>6, CustodyStep
<1>5. CASE TamperedSignature
  <2>1. PICK x \in Decisions \ {r.body.decision} : MakeVector([r EXCEPT !.body.decision = x])
    BY <1>5 DEF TamperedSignature
  <2> DEFINE d == [r EXCEPT !.body.decision = x]
  <2>2. r.body \in Bodies
    BY <1>2 DEF SignedDOs
  <2>3. /\ [r.body EXCEPT !.decision = x] \in Bodies
        /\ [r.body EXCEPT !.decision = x] # r.body
    BY <2>1, <2>2 DEF Bodies
  <2>4. /\ d \in SignedDOs /\ d.body # r.body
        /\ d.signature = r.signature /\ d.timestamp_proof = r.timestamp_proof
    BY <1>2, <2>3 DEF SignedDOs
  <2>5. PICK c \in ChainIds : chain = ledgers[c]
    BY <1>1, <2>1 DEF VectorInv, MakeVector
  <2>6. r.signature = SignDO(r, KEY)
    BY <1>1, <1>2, <2>5 DEF LedgerInv, VerifySignature
  <2>7. ~ VerifySignature(d)
    <3> HIDE DEF d
    <3>1. SignDO(d, KEY) # SignDO(r, KEY)
      BY <1>2, <2>4, SignInjective DEF Keys
    <3> QED
      BY <2>4, <2>6, <3>1 DEF VerifySignature
  <2>8. MakeVector(d)
    BY <2>1
  <2> HIDE DEF d
  <2> QED
    BY <1>3, <1>4, <2>4, <2>7, <2>8 DEF Copied
<1>6. CASE ForgedSignature
  <2> DEFINE d == BuildSignatureDO(r.body, r.previous_signature, OtherKey)
  <2>1. d \in SignedDOs /\ d.timestamp_proof = NoProof /\ d.signature = SignDO(d, OtherKey)
    BY <1>2, SignedType DEF SignedDOs, Keys
  <2>2. MakeVector(d)
    BY <1>6 DEF ForgedSignature
  <2> HIDE DEF d
  <2>3. Available(d.signature) /\ ~ VerifySignature(d)
    BY <2>1, NotTheProducers DEF VerifySignature
  <2> QED
    BY <1>4, <2>1, <2>2, <2>3
<1>7. CASE SignatureCanary
  <2> DEFINE d == [r EXCEPT !.signature = <<Forged>>]
  <2>1. <<Forged>> \in Signatures
    BY DEF Signatures
  <2>2. d \in SignedDOs /\ d.timestamp_proof = r.timestamp_proof /\ d.signature = <<Forged>>
    BY <1>2, <2>1 DEF SignedDOs
  <2>3. MakeVector(d)
    BY <1>7 DEF SignatureCanary
  <2> HIDE DEF d
  <2>4. Available(d.signature) /\ ~ VerifySignature(d)
    BY <2>2, NotTheProducers DEF VerifySignature
  <2> QED
    BY <1>4, <2>2, <2>3, <2>4
<1> QED
  BY <1>5, <1>6, <1>7 DEF Vectors

LEMMA FreeStep == ASSUME IInv, Custody PROVE IInv'
<1>1. TypeOK /\ LedgerInv /\ CopyInv
  BY DEF IInv
<1>2. /\ ledgers \in [ChainIds -> Seq(SignedDOs)] /\ chain \in Seq(SignedDOs)
      /\ Len(chain) \in Nat /\ DOMAIN chain = 1..Len(chain)
  BY <1>1, LenProperties DEF TypeOK
<1>3. \A i \in 1..Len(chain) : chain[i] \in SignedDOs /\ Copied(chain[i])
  BY <1>1, <1>2, ElementOfSeq DEF CopyInv
<1>4. ASSUME NEW m \in Nat, \A i \in 1..m : chain'[i] \in SignedDOs,
             chain' = [i \in 1..m |-> chain'[i]],
             \A i \in 1..m : \E d : d = chain'[i] /\ Copied(d),
             Edit(chain')
      PROVE  IInv'
  <2>1. chain' \in Seq(SignedDOs) /\ Len(chain') = m
    BY <1>4, LenProperties
  <2>2. /\ phase = "custody" /\ expected' = "unknown" /\ edits < MaxEdits /\ edits' = edits + 1
        /\ UNCHANGED <<ledgers, phase, cursor, prevSig, traceback, anchors>>
    BY <1>4 DEF Edit
  <2>3. edits' \in 0..MaxEdits
    BY <1>1, <2>2, BoundsAssumption DEF TypeOK
  <2> QED
    BY <1>4, <2>1, <2>2, <2>3, CustodyStep
<1>5. PICK k \in 1..Len(chain) : Overwrite(k) \/ Graft(k) \/ Drop(k) \/ Swap(k)
  BY DEF Custody
\* One record is put in the place of the kth.
<1>6. ASSUME NEW d \in SignedDOs, Copied(d), Edit([chain EXCEPT ![k] = d])
      PROVE  IInv'
  <2>1. chain' = [chain EXCEPT ![k] = d]
    BY <1>6 DEF Edit
  <2>2. /\ chain' = [i \in 1..Len(chain) |-> chain'[i]]
        /\ \A i \in 1..Len(chain) : chain'[i] = IF i = k THEN d ELSE chain[i]
    BY <1>2, <2>1
  <2>3. \A i \in 1..Len(chain) : chain'[i] \in SignedDOs
    BY <1>3, <1>6, <2>2
  <2>4. \A i \in 1..Len(chain) : \E e : e = chain'[i] /\ Copied(e)
    <3> TAKE i \in 1..Len(chain)
    <3>1. CASE i = k
      BY <1>6, <2>2, <3>1
    <3>2. CASE i # k
      BY <1>3, <2>2, <3>2
    <3> QED
      BY <3>1, <3>2
  <2>5. Edit(chain')
    BY <1>6, <2>1
  <2> QED
    BY <1>2, <1>4, <2>2, <2>3, <2>4, <2>5
<1>7. CASE Overwrite(k)
  <2>1. PICK d \in Overwrites(chain[k]) : Edit([chain EXCEPT ![k] = d])
    BY <1>7 DEF Overwrite
  <2>2. /\ d \in SignedDOs
        /\ d.signature = chain[k].signature \/ d.signature = SignDO(chain[k], OtherKey)
        /\ \/ d.timestamp_proof = chain[k].timestamp_proof
           \/ d.timestamp_proof = NoProof
           \/ d.timestamp_proof.token \in IssuedTokens \cup {Forged}
    BY <1>2, <1>3, <2>1, OverwriteType
  <2>3. Copied(d)
    BY <1>3, <2>2, NotTheProducers DEF Copied
  <2> QED
    BY <1>6, <2>1, <2>2, <2>3
<1>8. CASE Graft(k)
  <2>1. PICK d \in Issued : Edit([chain EXCEPT ![k] = d])
    BY <1>8 DEF Graft
  <2>2. d \in SignedDOs
    BY <1>2, <2>1, IssuedType
  <2>3. Available(d.signature)
    BY <2>1 DEF Available, IssuedSignatures
  <2>4. d.timestamp_proof # NoProof => d.timestamp_proof.token \in IssuedTokens
    BY <2>1 DEF IssuedTokens, IssuedProofs
  <2> QED
    BY <1>6, <2>1, <2>2, <2>3, <2>4 DEF Copied
<1>9. CASE Drop(k)
  <2>1. chain' = [i \in 1..(Len(chain) - 1) |-> IF i < k THEN chain[i] ELSE chain[i + 1]]
    BY <1>9 DEF Drop, Edit
  <2>2. /\ chain' = [i \in 1..(Len(chain) - 1) |-> chain'[i]]
        /\ \A i \in 1..(Len(chain) - 1) : \E j \in 1..Len(chain) : chain'[i] = chain[j]
    <3>1. \A i \in 1..(Len(chain) - 1) :
            i \in 1..Len(chain) /\ i + 1 \in 1..Len(chain)
            /\ chain'[i] = IF i < k THEN chain[i] ELSE chain[i + 1]
      BY <1>2, <2>1
    <3> QED
      BY <2>1, <3>1
  <2>3. Len(chain) - 1 \in Nat
    BY <1>2, <1>5
  <2>4. \A i \in 1..(Len(chain) - 1) : chain'[i] \in SignedDOs
    BY <1>3, <2>2
  <2>5. \A i \in 1..(Len(chain) - 1) : \E e : e = chain'[i] /\ Copied(e)
    BY <1>3, <2>2
  <2>6. Edit(chain')
    BY <1>9, <2>1 DEF Drop
  <2> QED
    BY <1>4, <2>2, <2>3, <2>4, <2>5, <2>6
<1>10. CASE Swap(k)
  <2>1. chain' = [chain EXCEPT ![k] = chain[k + 1], ![k + 1] = chain[k]] /\ k < Len(chain)
    BY <1>10 DEF Swap, Edit
  <2>2. /\ chain' = [i \in 1..Len(chain) |-> chain'[i]]
        /\ \A i \in 1..Len(chain) : \E j \in 1..Len(chain) : chain'[i] = chain[j]
    <3>1. k \in 1..Len(chain) /\ k + 1 \in 1..Len(chain)
      BY <1>2, <2>1
    <3>2. \A i \in 1..Len(chain) :
            chain'[i] = IF i = k + 1 THEN chain[k] ELSE IF i = k THEN chain[k + 1] ELSE chain[i]
      BY <1>2, <2>1, <3>1
    <3>3. chain' = [i \in 1..Len(chain) |-> chain'[i]]
      BY <1>2, <2>1
    <3> QED
      BY <3>1, <3>2, <3>3
  <2>4. \A i \in 1..Len(chain) : chain'[i] \in SignedDOs
    BY <1>3, <2>2
  <2>5. \A i \in 1..Len(chain) : \E e : e = chain'[i] /\ Copied(e)
    BY <1>3, <2>2
  <2>6. Edit(chain')
    BY <1>10, <2>1 DEF Swap
  <2> QED
    BY <1>2, <1>4, <2>2, <2>4, <2>5, <2>6
<1> QED
  BY <1>5, <1>7, <1>8, <1>9, <1>10

(***************************************************************************)
(* The two verifiers.                                                      *)
(***************************************************************************)
LEMMA SubmitStep == ASSUME IInv, Submit PROVE IInv'
<1>1. TypeOK /\ LedgerInv /\ CopyInv /\ VectorInv /\ ScanInv
  BY DEF IInv
<1>2. /\ phase = "custody" /\ phase' = "traceback" /\ cursor' = 1 /\ prevSig' = Null
      /\ UNCHANGED <<ledgers, chain, expected, edits, traceback, anchors>>
  BY DEF Submit, custodyVars
<1>3. Null \in Signatures
  BY EmptySeq DEF Null, Signatures
<1>4. TypeOK'
  BY <1>1, <1>2, <1>3 DEF TypeOK, Phases
<1>5. LedgerInv' /\ CopyInv'
  BY <1>1, <1>2, SameLedgers, SameCopy
<1>6. VectorInv'
  <2>1. VerifySignature(chain[1])' <=> VerifySignature(chain[1])
    BY <1>2 DEF VerifySignature, SignDO
  <2> QED
    BY <1>1, <1>2, <2>1 DEF VectorInv
<1>7. anchors = << >> /\ traceback = "pending" /\ ChainIds # {}
  BY <1>1, <1>2 DEF ScanInv
<1>8. Len(chain) \in Nat /\ \A c \in ChainIds : Len(ledgers[c]) \in Nat
  BY <1>1, LenProperties DEF TypeOK
<1>9. Traced(0)
  BY <1>7, <1>8 DEF Traced
<1>10. Traced(cursor - 1)'
  <2>1. Traced(0)'
    BY <1>2, <1>9, SameCopy
  <2> QED
    BY <1>2, <2>1 DEF Traced
<1>11. ScanInv'
  BY <1>2, <1>7, <1>8, <1>10 DEF ScanInv
<1>12. VectorsJudged'
  BY <1>2, <1>7 DEF VectorsJudged
<1> QED
  BY <1>4, <1>5, <1>6, <1>11, <1>12 DEF IInv

\* The vectors are judged as they declare: at a record of a chain that was
\* published, the loop goes on, and it does not pass a vector's attack.
LEMMA TraceVerdicts ==
    ASSUME IInv, phase = "traceback"
    PROVE  /\ expected = "pass" /\ cursor <= Len(chain) =>
                VerifySignature(chain[cursor]) /\ chain[cursor].previous_signature = prevSig
           /\ expected = "fail" => ~ cursor > Len(chain)
<1>1. TypeOK /\ LedgerInv /\ VectorInv /\ ScanInv
  BY DEF IInv
<1>2. /\ ledgers \in [ChainIds -> Seq(SignedDOs)] /\ chain \in Seq(SignedDOs)
      /\ Len(chain) \in Nat /\ cursor \in 1..(Len(chain) + 1)
      /\ prevSig = IF cursor = 1 THEN Null ELSE chain[cursor - 1].signature
      /\ Traced(cursor - 1)
  BY <1>1, LenProperties DEF TypeOK, ScanInv
<1>3. ASSUME expected = "pass", cursor <= Len(chain)
      PROVE  VerifySignature(chain[cursor]) /\ chain[cursor].previous_signature = prevSig
  <2>1. PICK c \in ChainIds : chain = ledgers[c]
    BY <1>1, <1>3 DEF VectorInv
  <2>2. cursor \in 1..Len(ledgers[c])
    BY <1>2, <1>3, <2>1
  <2> QED
    BY <1>1, <1>2, <2>1, <2>2 DEF LedgerInv
<1>4. ASSUME expected = "fail", cursor > Len(chain)
      PROVE  FALSE
  <2>1. Len(chain) = 1 /\ ~ VerifySignature(chain[1]) /\ cursor = 2
    <3>1. Len(chain) = 1 /\ ~ VerifySignature(chain[1])
      BY <1>1, <1>4 DEF VectorInv
    <3>2. cursor = 2
      BY <1>2, <1>4, <3>1
    <3> QED
      BY <3>1, <3>2
  <2>2. PICK c \in ChainIds :
            /\ 1 <= Len(ledgers[c])
            /\ \A i \in 1..1 : Unanchored(chain[i]) = Unanchored(ledgers[c][i])
    BY <1>2, <2>1 DEF Traced
  <2>3. 1 \in 1..Len(ledgers[c]) /\ 1 \in 1..Len(chain)
    BY <1>2, <2>1, <2>2, LenProperties
  <2>4. ledgers[c][1] \in SignedDOs /\ chain[1] \in SignedDOs
    BY <1>2, <2>3, ElementOfSeq
  <2>5. VerifySignature(ledgers[c][1])
    BY <1>1, <2>3 DEF LedgerInv
  <2> QED
    BY <2>1, <2>2, <2>4, <2>5, SameSigned
<1> QED
  BY <1>3, <1>4

LEMMA TraceStep == ASSUME IInv, TraceRecord PROVE IInv'
<1>1. TypeOK /\ LedgerInv /\ CopyInv /\ VectorInv /\ ScanInv
  BY DEF IInv
<1>2. /\ phase = "traceback"
      /\ UNCHANGED <<ledgers, chain, expected, edits, anchors>>
  BY DEF TraceRecord, custodyVars
<1>3. /\ ledgers \in [ChainIds -> Seq(SignedDOs)] /\ chain \in Seq(SignedDOs)
      /\ Len(chain) \in Nat /\ cursor \in 1..(Len(chain) + 1)
      /\ Traced(cursor - 1) /\ ChainIds # {} /\ anchors = << >> /\ traceback = "pending"
  BY <1>1, <1>2, LenProperties DEF TypeOK, ScanInv
<1>4. LedgerInv' /\ CopyInv' /\ \A n : Traced(n)' <=> Traced(n)
  BY <1>1, <1>2, SameLedgers, SameCopy
<1>5. VerifySignature(chain[1])' <=> VerifySignature(chain[1])
  BY <1>2 DEF VerifySignature, SignDO
<1>6. CASE cursor <= Len(chain) /\ VerifySignature(chain[cursor])
           /\ chain[cursor].previous_signature = prevSig
  <2>1. /\ cursor' = cursor + 1 /\ prevSig' = chain[cursor].signature
        /\ UNCHANGED <<phase, traceback>>
    BY <1>3, <1>6 DEF TraceRecord
  <2>2. chain[cursor] \in SignedDOs
    BY <1>3, <1>6, ElementOfSeq
  <2>3. TypeOK'
    <3>1. cursor' \in Nat /\ prevSig' \in Signatures
      BY <1>3, <2>1, <2>2 DEF SignedDOs
    <3> QED
      BY <1>1, <1>2, <2>1, <3>1 DEF TypeOK
  <2>4. Traced(cursor)
    BY <1>1, <1>2, <1>6, TraceOne
  <2>5. cursor' - 1 = cursor /\ cursor' # 1 /\ cursor' \in 1..(Len(chain) + 1)
    BY <1>3, <1>6, <2>1
  <2>6. Traced(cursor - 1)'
    <3>1. \A n : n = cursor => Traced(n)'
      BY <1>4, <2>4
    <3> QED
      BY <1>2, <2>5, <3>1 DEF Traced
  <2>7. prevSig' = IF cursor' = 1 THEN Null ELSE chain'[cursor' - 1].signature
    BY <1>2, <2>1, <2>5
  <2>8. ScanInv'
    BY <1>2, <1>3, <2>1, <2>5, <2>6, <2>7 DEF ScanInv
  <2>9. VectorInv' /\ VectorsJudged'
    BY <1>1, <1>2, <1>3, <1>5, <2>1 DEF VectorInv, VectorsJudged
  <2> QED
    BY <1>4, <2>3, <2>8, <2>9 DEF IInv
<1>7. CASE ~ (cursor <= Len(chain) /\ VerifySignature(chain[cursor])
              /\ chain[cursor].previous_signature = prevSig)
  <2>1. /\ traceback' = IF cursor > Len(chain) THEN "pass" ELSE "fail"
        /\ phase' = "anchors" /\ cursor' = 1 /\ prevSig' = prevSig
    BY <1>3, <1>7 DEF TraceRecord, Conclude
  <2>2. TypeOK'
    BY <1>1, <1>2, <1>3, <2>1 DEF TypeOK, Phases, Results
  <2>3. cursor > Len(chain) => Traced(Len(chain))
    <3>1. cursor > Len(chain) => cursor - 1 = Len(chain)
      BY <1>3
    <3> QED
      BY <1>3, <3>1
  <2>4. traceback' = "pass" => Traced(Len(chain))'
    <3>1. \A n : n = Len(chain) /\ Traced(n) => Traced(n)'
      BY <1>4
    <3> QED
      BY <1>2, <2>1, <2>3, <3>1 DEF Traced
  <2>5. ScanInv'
    BY <1>2, <1>3, <2>1, <2>4 DEF ScanInv
  <2>6. VectorInv'
    BY <1>1, <1>2, <1>5, <2>1 DEF VectorInv
  <2>7. /\ expected = "pass" => cursor > Len(chain)
        /\ expected = "fail" => ~ cursor > Len(chain)
    BY <1>2, <1>3, <1>7, TraceVerdicts
  <2>8. expected \in {"pass", "fail", "unknown"}
    BY <1>1, <1>2 DEF TypeOK, VectorInv
  <2>9. VectorsJudged'
    BY <1>2, <2>1, <2>7, <2>8 DEF VectorsJudged
  <2> QED
    BY <1>4, <2>2, <2>5, <2>6, <2>9 DEF IInv
<1> QED
  BY <1>6, <1>7

LEMMA AnchorResultType == \A d : AnchorResult(d) \in AnchorResults
  BY DEF AnchorResult, DetectTsaBreach, AnchorResults

LEMMA AnchorStep == ASSUME IInv, CheckAnchor PROVE IInv'
<1>1. TypeOK /\ LedgerInv /\ CopyInv /\ VectorInv /\ ScanInv /\ VectorsJudged
  BY DEF IInv
<1>2. /\ phase = "anchors"
      /\ UNCHANGED <<ledgers, chain, expected, edits, prevSig, traceback>>
  BY DEF CheckAnchor, custodyVars
<1>3. /\ chain \in Seq(SignedDOs) /\ Len(chain) \in Nat /\ cursor \in 1..(Len(chain) + 1)
      /\ anchors \in Seq(AnchorResults) /\ Len(anchors) = cursor - 1 /\ ChainIds # {}
  BY <1>1, <1>2, LenProperties DEF TypeOK, ScanInv
<1>4. LedgerInv' /\ CopyInv' /\ \A n : Traced(n)' <=> Traced(n)
  BY <1>1, <1>2, SameLedgers, SameCopy
<1>5. VerifySignature(chain[1])' <=> VerifySignature(chain[1])
  BY <1>2 DEF VerifySignature, SignDO
<1>6. traceback' = "pass" => Traced(Len(chain))'
  <2>1. \A n : n = Len(chain) /\ Traced(n) => Traced(n)'
    BY <1>4
  <2>2. traceback' = "pass" => Traced(Len(chain))
    BY <1>1, <1>2 DEF ScanInv
  <2> QED
    BY <1>2, <2>1, <2>2 DEF Traced
<1>7. phase' \in {"anchors", "done"}
  BY <1>2 DEF CheckAnchor
<1>8. VectorInv' /\ VectorsJudged'
  BY <1>1, <1>2, <1>5, <1>7 DEF VectorInv, VectorsJudged
<1>9. \A d : AnchorResult(d)' = AnchorResult(d)
  BY DEF AnchorResult, VerifySignature, SignDO, DetectTsaBreach, VerifyToken, CreateToken
<1>10. CASE cursor > Len(chain)
  <2>1. phase' = "done" /\ cursor' = cursor /\ anchors' = anchors
    BY <1>2, <1>10 DEF CheckAnchor
  <2>2. TypeOK'
    BY <1>1, <1>2, <2>1 DEF TypeOK, Phases
  <2>3. \A i \in 1..Len(anchors') : anchors'[i] = AnchorResult(chain[i])'
    BY <1>1, <1>2, <2>1 DEF ScanInv, AnchorResult, VerifySignature, SignDO, DetectTsaBreach,
       VerifyToken, CreateToken
  <2>4. ScanInv'
    BY <1>1, <1>2, <1>6, <2>1, <2>3 DEF ScanInv
  <2> QED
    BY <1>4, <1>8, <2>2, <2>4 DEF IInv
<1>11. CASE cursor <= Len(chain)
  <2>1. /\ phase' = "anchors" /\ cursor' = cursor + 1
        /\ anchors' = Append(anchors, AnchorResult(chain[cursor]))
    BY <1>2, <1>3, <1>11 DEF CheckAnchor
  <2>2. /\ anchors' \in Seq(AnchorResults) /\ Len(anchors') = Len(anchors) + 1
        /\ \A i \in 1..Len(anchors) : anchors'[i] = anchors[i]
        /\ anchors'[cursor] = AnchorResult(chain[cursor])
    BY <1>3, <2>1, AnchorResultType, AppendProperties
  <2>3. TypeOK'
    BY <1>1, <1>2, <1>3, <2>1, <2>2 DEF TypeOK, Phases
  <2>4. \A i \in 1..Len(anchors') : anchors'[i] = AnchorResult(chain[i])
    <3> TAKE i \in 1..Len(anchors')
    <3>1. i = cursor \/ i \in 1..Len(anchors)
      BY <1>3, <2>2
    <3>2. CASE i = cursor
      BY <2>2, <3>2
    <3>3. CASE i \in 1..Len(anchors)
      BY <1>1, <2>2, <3>3 DEF ScanInv
    <3> QED
      BY <3>1, <3>2, <3>3
  <2>5. \A i \in 1..Len(anchors') : anchors'[i] = AnchorResult(chain[i])'
    BY <1>2, <2>4 DEF AnchorResult, VerifySignature, SignDO, DetectTsaBreach,
       VerifyToken, CreateToken
  <2>6. Len(anchors') <= Len(chain) /\ cursor' \in 1..(Len(chain) + 1)
    BY <1>3, <1>11, <2>1, <2>2
  <2>7. ScanInv'
    BY <1>1, <1>2, <1>3, <1>6, <2>1, <2>5, <2>6 DEF ScanInv
  <2> QED
    BY <1>4, <1>8, <2>3, <2>7 DEF IInv
<1> QED
  BY <1>3, <1>10, <1>11

LEMMA InvStep == IInv /\ [Next]_vars => IInv'
<1> SUFFICES ASSUME IInv, [Next]_vars PROVE IInv'
  OBVIOUS
<1>1. CASE Next
  BY <1>1, ProduceStep, VectorsStep, FreeStep, SubmitStep, TraceStep, AnchorStep DEF Next
<1>2. CASE UNCHANGED vars
  <2>1. UNCHANGED <<ledgers, chain, expected, edits, phase, cursor, prevSig, traceback, anchors>>
    BY <1>2 DEF vars
  <2>2. TypeOK /\ LedgerInv /\ CopyInv /\ VectorInv /\ ScanInv /\ VectorsJudged
    BY DEF IInv
  <2>3. TypeOK' /\ VectorsJudged'
    BY <2>1, <2>2 DEF TypeOK, VectorsJudged
  <2>4. LedgerInv' /\ CopyInv'
    BY <2>1, <2>2, SameLedgers, SameCopy
  <2>5. VectorInv'
    BY <2>1, <2>2 DEF VectorInv, VerifySignature, SignDO
  <2>6. ScanInv'
    BY <2>1, <2>2 DEF ScanInv, Traced, AnchorResult, VerifySignature, SignDO,
       DetectTsaBreach, VerifyToken, CreateToken
  <2> QED
    BY <2>3, <2>4, <2>5, <2>6 DEF IInv
<1> QED
  BY <1>1, <1>2

\* The invariant holds in every reachable state.
THEOREM Inductive == Spec => []IInv
  BY InvInit, InvStep, PTL DEF Spec

(***************************************************************************)
(* The theorems.                                                           *)
(***************************************************************************)
\* Every variable keeps to its type (SignedChain, TypeOK).
THEOREM TypeCorrect == Spec => []TypeOK
<1>1. IInv => TypeOK
  BY DEF IInv
<1> QED
  BY <1>1, Inductive, PTL

\* However many chains there are and however the copy was edited, a chain that
\* verifyChain of verify-signature.cjs passes is the beginning of one chain the
\* producer signed.
THEOREM OneChain == Spec => []TracedIsOneChain
<1>1. IInv => TracedIsOneChain
  BY DEF IInv, ScanInv, Traced, TracedIsOneChain
<1> QED
  BY <1>1, Inductive, PTL

\* The published chains pass verifyChain and the vectors' attacks fail it.
THEOREM Judged == Spec => []VectorsJudged
<1>1. IInv => VectorsJudged
  BY DEF IInv
<1> QED
  BY <1>1, Inductive, PTL

\* A record verify-tsa.cjs has nothing against is the producer's, and a critical
\* one has a token of the authority for its signature, near its timestamp.
THEOREM Genuine == Spec => []AnchorsAreGenuine
<1>1. IInv => AnchorsAreGenuine
  <2> SUFFICES ASSUME IInv, NEW i \in 1..Len(anchors), anchors[i] = "none"
               PROVE  /\ \E d \in Issued : Unanchored(d) = Unanchored(chain[i])
                      /\ chain[i].body.decision \in CRITICAL_DECISIONS =>
                            \E k \in IssuedTokens :
                                /\ k.anchored = chain[i].signature
                                /\ AbsDiff(k.time, chain[i].body.timestamp)
                                      <= CLOCK_DRIFT_THRESHOLD
    BY DEF AnchorsAreGenuine
  <2>1. TypeOK /\ LedgerInv /\ CopyInv /\ ScanInv
    BY DEF IInv
  <2>2. /\ ledgers \in [ChainIds -> Seq(SignedDOs)] /\ chain \in Seq(SignedDOs)
        /\ Len(chain) \in Nat /\ Len(anchors) \in Nat /\ Len(anchors) <= Len(chain)
    BY <2>1, LenProperties DEF TypeOK, ScanInv
  <2>3. i \in 1..Len(chain)
    BY <2>2
  <2> DEFINE r == chain[i]
  <2>4. r \in SignedDOs /\ Copied(r) /\ AnchorResult(r) = "none"
    BY <2>1, <2>2, <2>3, ElementOfSeq DEF CopyInv, ScanInv
  <2>5. VerifySignature(r) /\ DetectTsaBreach(r) = "none"
    BY <2>4 DEF AnchorResult
  <2>6. PICK c \in ChainIds : \E n \in 1..Len(ledgers[c]) : Unanchored(r) = Unanchored(ledgers[c][n])
    BY <2>1, <2>2, <2>4, <2>5, Verified DEF Copied
  <2>7. PICK n \in 1..Len(ledgers[c]) : Unanchored(r) = Unanchored(ledgers[c][n])
    BY <2>6
  <2>8. \E d \in Issued : Unanchored(d) = Unanchored(r)
    BY <2>1, <2>2, <2>7, LedgerFacts
  <2>9. ASSUME r.body.decision \in CRITICAL_DECISIONS
        PROVE  \E k \in IssuedTokens :
                   /\ k.anchored = r.signature
                   /\ AbsDiff(k.time, r.body.timestamp) <= CLOCK_DRIFT_THRESHOLD
    <3> DEFINE tp == r.timestamp_proof
    <3>1. /\ tp # NoProof
          /\ ~ (AbsDiff(r.body.timestamp, tp.requested_at) > CLOCK_DRIFT_THRESHOLD)
          /\ tp.token = CreateToken(r.signature, tp.requested_at)
      BY <2>5, <2>9 DEF DetectTsaBreach, VerifyToken
    <3>2. /\ r.signature \in Signatures /\ tp \in Proofs
          /\ r.body.timestamp \in Int
      BY <2>4, SignedAssumption DEF SignedDOs, Bodies
    <3>3. tp.requested_at \in TokenTimes /\ tp.requested_at \in Int
      BY <3>1, <3>2, ProofTypes, SignedAssumption
    <3>4. tp.token \in Issuable
      BY <3>1, <3>2, <3>3 DEF CreateToken, Issuable
    <3>5. tp.token \in IssuedTokens
      BY <2>4, <3>1, <3>4, ForgedAssumption DEF Copied
    <3>6. tp.token.anchored = r.signature /\ tp.token.time = tp.requested_at
      BY <3>1 DEF CreateToken
    <3>7. AbsDiff(tp.requested_at, r.body.timestamp) <= CLOCK_DRIFT_THRESHOLD
      BY <3>1, <3>2, <3>3 DEF AbsDiff, CLOCK_DRIFT_THRESHOLD
    <3>8. AbsDiff(tp.token.time, r.body.timestamp) <= CLOCK_DRIFT_THRESHOLD
      BY <3>6, <3>7
    <3> QED
      BY <3>5, <3>6, <3>8
  <2> QED
    BY <2>8, <2>9
<1> QED
  BY <1>1, Inductive, PTL
=============================================================================
