--------------------------- MODULE ChainJudgement ---------------------------
(***************************************************************************)
(* What a chain verifier promises, without saying how it scans: as long as *)
(* no verdict was given the chain is whatever its holder makes it, and     *)
(* then one judgement of the whole chain is pronounced and never revised.  *)
(* A chain is sound, or the judgement names a fault that nothing precedes. *)
(***************************************************************************)
EXTENDS DecisionObject

VARIABLES chain, verdict

Init == verdict = "pending"

\* The faults of a single record and of a link, by the code each is named by.
Sound(d) == VerifyDO(d) = "passed"

RecordFaultCode(d) ==
    IF VerifyDO(d) = "preimage_version unsupported" THEN "version_unsupported"
    ELSE IF VerifyDO(d) = "throws" THEN "throws"
    ELSE "hash_mismatch"

LinkFault(prev, cur, code) ==
    \/ code = "previous_hash_dangling" /\ cur.previous_hash # prev.hash
    \/ code = "chain_seq_gap"          /\ cur.chain_seq - prev.chain_seq # 1
    \/ code = "mode_mixed_chain"       /\ {cur.mode, prev.mode} = Modes
    \/ code = "time_regression"        /\ EarlierThan(cur.timestamp, prev.timestamp)

LinkCodes == <<"previous_hash_dangling", "chain_seq_gap",
               "mode_mixed_chain", "time_regression">>

SoundLink(prev, cur) == \A p \in 1..4 : ~ LinkFault(prev, cur, LinkCodes[p])

FirstLinkFault(prev, cur, code) ==
    \E p \in 1..4 :
        /\ code = LinkCodes[p]
        /\ LinkFault(prev, cur, LinkCodes[p])
        /\ \A q \in 1..(p - 1) : ~ LinkFault(prev, cur, LinkCodes[q])

AllRecordsSound == \A i \in 1..Len(chain) : Sound(chain[i])
GenesisSound    == chain # << >> => chain[1].previous_hash = Null
LinksSound(n)   == \A i \in 2..n : SoundLink(chain[i - 1], chain[i])

RecordFault(code) ==
    \E i \in 1..Len(chain) :
        /\ \A j \in 1..(i - 1) : Sound(chain[j])
        /\ ~ Sound(chain[i])
        /\ code = RecordFaultCode(chain[i])

ChainFault(code) ==
    \/ RecordFault(code)
    \/ AllRecordsSound /\ ~ GenesisSound /\ code = "chain_genesis_mismatch"
    \/ /\ AllRecordsSound /\ GenesisSound
       /\ \E i \in 2..Len(chain) :
            /\ LinksSound(i - 1)
            /\ FirstLinkFault(chain[i - 1], chain[i], code)

Custody == verdict = "pending" /\ verdict' = "pending"

Judge ==
    /\ verdict = "pending"
    /\ \/ /\ AllRecordsSound /\ GenesisSound /\ LinksSound(Len(chain))
          /\ verdict' = "none"
       \/ ChainFault(verdict')
    /\ chain' = chain

Next == Custody \/ Judge

Spec == Init /\ [][Next]_<<chain, verdict>>
=============================================================================
