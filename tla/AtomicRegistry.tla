--------------------------- MODULE AtomicRegistry ---------------------------
(***************************************************************************)
(* What the recording of verified runners promises: contributors change    *)
(* submissions and vectors and leave the registry alone, and a recording   *)
(* replaces the registry, and nothing else, by the one derived from the    *)
(* tree it lands on, as if the whole job ran in one step.                  *)
(***************************************************************************)
EXTENDS SubmissionCheck

CONSTANTS
    Files,  \* the files under submissions/
    None    \* no file, no row

VARIABLE head  \* the tree at the tip of main

Tables == [Files -> Submissions \cup {None}]

Trees == [references: References, submissions: Tables, registry: Tables]

\* The registry of a tree: a row for every submission that passes.
Derived(tree) ==
    [f \in Files |->
        IF /\ tree.submissions[f] # None
           /\ Recordable(tree.submissions[f], tree.references)
        THEN tree.submissions[f] ELSE None]

EmptyTable == [f \in Files |-> None]

Init == head \in [references: References, submissions: {EmptyTable},
                  registry: {EmptyTable}]

Contribute == head' \in Trees /\ head'.registry = head.registry

Record == head' = [head EXCEPT !.registry = Derived(head)]

Next == Contribute \/ Record

Spec == Init /\ [][Next]_head
=============================================================================
