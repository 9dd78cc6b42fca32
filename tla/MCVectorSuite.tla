--------------------------- MODULE MCVectorSuite ---------------------------
(***************************************************************************)
(* A vector set with one vector of each kind, and the sets that differ     *)
(* from it in one respect.                                                 *)
(***************************************************************************)
EXTENDS VectorSuite

Record ==
    [jurisdictions |-> {"CN"}, activated_fields |-> {"agent.aid"},
     present |-> {"agent.aid"}, risk_level |-> "low", oversight |-> FALSE,
     self_authored |-> FALSE, trees_agree |-> TRUE, resolvable |-> TRUE]

\* F11 of the repository: a diverging tree and an unresolvable reference.
Diverging == [Record EXCEPT !.trees_agree = FALSE, !.resolvable = FALSE]

\* F10: an unknown jurisdiction, and an activated field that is missing.
Foreign == [Record EXCEPT !.jurisdictions = {"XX"}, !.present = {}]

\* F08: a critical record that does not activate its signature.
Unsigned == [Record EXCEPT !.risk_level = "critical", !.oversight = TRUE]

DO(passed, bytes, record) ==
    [supported |-> TRUE, passed |-> passed, bytes |-> bytes, record |-> record]

Vector(id, kind, dos) ==
    [id |-> id, kind |-> kind, dos |-> dos, required |-> {}, sod |-> FALSE,
     breach |-> "none", also_present |-> {}, detected |-> "none"]

Match  == [Vector("V-COMP-008", "match", <<DO(TRUE, "b1", Record)>>)
              EXCEPT !.required = {"agent.aid"}, !.sod = TRUE]
Canary == Vector("K01", "canary", <<DO(FALSE, "b1", Record)>>)
Breach(record, code, others) ==
    [Vector("F11", "breach", <<DO(TRUE, "b2", record)>>)
        EXCEPT !.breach = code, !.also_present = others]
Pair   == Vector("A01", "pair", <<DO(TRUE, "b1", Record), DO(FALSE, "b2", Record)>>)
Chain  == [Vector("C07", "chain",
                  <<DO(TRUE, "b1", Record),
                    [DO(FALSE, "b2", Record) EXCEPT !.supported = FALSE]>>)
              EXCEPT !.breach = "version_unsupported",
                     !.detected = "version_unsupported"]

Tree == "tree_snapshot_divergence"
Base ==
    <<Match, Canary, Breach(Diverging, Tree, {"content_unresolvable"}), Pair,
      Chain>>

MCSuites ==
    {Base, SubSeq(Base, 1, 4),
     [Base EXCEPT ![1].dos[1].bytes = "b2"],
     [Base EXCEPT ![1].dos[1].passed = FALSE],
     [Base EXCEPT ![1].required = {"signature"}],
     [Base EXCEPT ![1].dos[1].record.self_authored = TRUE],
     [Base EXCEPT ![2].dos[1].passed = TRUE],
     [Base EXCEPT ![3] = Breach(Diverging, "content_unresolvable", {Tree})],
     [Base EXCEPT ![3] = Breach(Diverging, Tree, {})],
     [Base EXCEPT ![3] = Breach(Foreign, "jurisdiction_mismatch",
                                {"compliance_field_missing"})],
     [Base EXCEPT ![3] = Breach(Unsigned, "compliance_field_missing",
                                {"oversight_missing"})],
     [Base EXCEPT ![4].dos[2].passed = TRUE],
     [Base EXCEPT ![5].dos[2].supported = TRUE],
     [Base EXCEPT ![5].detected = "hash_mismatch"]}

MCIds == {"V-COMP-008", "K01", "F11", "A01", "C07"}
=============================================================================
