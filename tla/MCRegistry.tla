----------------------------- MODULE MCRegistry -----------------------------
(***************************************************************************)
(* Model-checking instance of RegistryPrograms, in which the reference     *)
(* answer of one hash key differs between the two vector sets and the      *)
(* second expression answer is one of those the pull request check skips;  *)
(* with two tables per layer, one crash and one edit of the files.         *)
(***************************************************************************)
EXTENDS RegistryPrograms, TLC

CONSTANTS f1, f2, plain, skipped, x, y

Both(a, b) == plain :> a @@ skipped :> b

MCOffers ==
    {[layer |-> "audit", answers |-> Both(x, x), k01_check1 |-> "MISMATCH"],
     [layer |-> "expression", answers |-> Both(x, x), k01_check1 |-> "MISMATCH"],
     [layer |-> "expression", answers |-> Both(x, y), k01_check1 |-> "MATCH"]}

MCRevisions ==
    {"audit" :> Both(a, x) @@ "expression" :> Both(x, x) : a \in {x, y}}

\* For the promise about merged submissions: one runner, one vector set.
OneOffer    == {o \in MCOffers : o.layer = "audit"}
OneRevision == {"audit" :> Both(x, x) @@ "expression" :> Both(x, x)}

-----------------------------------------------------------------------------
\* What the part that does not move begins with.
T0 == [l \in Layers |-> CHOOSE t \in Rows : TRUE]

MCInit ==
    /\ \/ part = "pipeline" /\ main = [f \in 1..2 |-> Texts!Document(T0)] /\ rows = T0
       \/ part = "files" /\ head = [references   |-> CHOOSE r \in Revisions : TRUE,
                                     submissions |-> EmptyTable, registry |-> EmptyTable]
    /\ ProgramsInit

MCSpec == MCInit /\ [][ProgramsNext]_programVars /\ WF_vars(Record)
=============================================================================
