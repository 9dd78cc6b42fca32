------------------------------ MODULE Registry ------------------------------
(***************************************************************************)
(* The path of a runner's submission to a row of the registry: a pull      *)
(* request is checked (verify-v1.5.yml), merged to main, and the push      *)
(* starts a job (record-runners.yml) that checks out the pushed commit,    *)
(* regenerates the registry and pushes it back.                            *)
(*                                                                         *)
(* Main moves while a job runs.  What GitHub does with it is external and  *)
(* taken from how the workflows use it: a push event carries its commit,   *)
(* a concurrency group runs one job and keeps the newest of those that     *)
(* wait, a push that is no fast-forward is rejected.                       *)
(***************************************************************************)
EXTENDS Integers, SubmissionCheck

CONSTANTS
    Files,        \* the files under submissions/
    None,         \* no file, no row, no job
    Offers,       \* the contents runners submit
    Revisions,    \* the references the successive vector sets determine
    MaxCommits,   \* contributors commit while main is shorter than this
    MaxAborts     \* bound on the jobs that die before they push

ASSUME RegistryAssumption ==
    /\ None \notin Submissions
    /\ Offers \subseteq Submissions
    /\ Revisions \subseteq References
    /\ MaxCommits \in Nat /\ MaxAborts \in Nat

VARIABLES
    head,     \* the tree at the tip of main
    sha,      \* the commit at the tip, counted from 0
    author,   \* who made that commit
    prs,      \* the open pull request of each file
    waiting,  \* the push event that waits for the concurrency group
    job,      \* the running job
    aborts    \* number of jobs that died

vars == <<head, sha, author, prs, waiting, job, aborts>>

Tables  == [Files -> Submissions \cup {None}]
Trees   == [references: References, submissions: Tables, registry: Tables]
Events  == [sha: Nat, tree: Trees]
Jobs    == [sha: Nat, tree: Trees, stage: {"checkout", "push"},
            registry: Tables]
PRs     == [submission: Submissions, status: {"open", "passed", "failed"}]
Authors == {"maintainer", "runner", "bot"}

EmptyTable == [f \in Files |-> None]

Init ==
    /\ head \in [references: Revisions, submissions: {EmptyTable},
                 registry: {EmptyTable}]
    /\ sha = 0
    /\ author = "maintainer"
    /\ prs = EmptyTable
    /\ waiting = None
    /\ job = None
    /\ aborts = 0

-----------------------------------------------------------------------------
(***************************************************************************)
(* Contributors.                                                           *)
(***************************************************************************)
\* A runner offers a new or a corrected output file.
OpenPR(f, sub) ==
    /\ prs' = [prs EXCEPT ![f] = [submission |-> sub, status |-> "open"]]
    /\ UNCHANGED <<head, sha, author, waiting, job, aborts>>

\* verify-v1.5.yml checks the merge of the pull request with main as it is
\* now, every submission of it, and stops at the first that fails.
CheckPR(f) ==
    /\ prs[f] # None
    /\ prs[f].status = "open"
    /\ LET merged == [head.submissions EXCEPT ![f] = prs[f].submission]
           passes == \A g \in Files : merged[g] # None =>
                        PassesCI(merged[g], head.references)
       IN  prs' = [prs EXCEPT ![f].status =
                        IF passes THEN "passed" ELSE "failed"]
    /\ UNCHANGED <<head, sha, author, waiting, job, aborts>>

\* Mutant: an event that finds another one waiting is dropped.
TriggerKeepsOldest(commit, tree) ==
    waiting' = IF waiting = None THEN [sha |-> commit, tree |-> tree] ELSE waiting

\* A push to submissions/** on main triggers record-runners.  The concurrency
\* group keeps one waiting event, the newest.
Trigger(commit, tree) == waiting' = [sha |-> commit, tree |-> tree]

\* Main may have moved since the check.
MergePR(f) ==
    /\ prs[f] # None
    /\ prs[f].status = "passed"
    /\ sha < MaxCommits
    /\ head' = [head EXCEPT !.submissions[f] = prs[f].submission]
    /\ sha' = sha + 1
    /\ author' = "runner"
    /\ prs' = [prs EXCEPT ![f] = None]
    /\ Trigger(sha', head')
    /\ UNCHANGED <<job, aborts>>

\* A maintainer pushes something else, new vectors perhaps: the path filter
\* of record-runners lets it pass.
MaintainerPush ==
    /\ sha < MaxCommits
    /\ \E revision \in Revisions : head' = [head EXCEPT !.references = revision]
    /\ sha' = sha + 1
    /\ author' = "maintainer"
    /\ UNCHANGED <<prs, waiting, job, aborts>>

-----------------------------------------------------------------------------
(***************************************************************************)
(* The recording job.                                                      *)
(***************************************************************************)
Derived(tree) ==
    [f \in Files |->
        IF /\ tree.submissions[f] # None
           /\ Recordable(tree.submissions[f], tree.references)
        THEN tree.submissions[f] ELSE None]

\* actions/checkout takes the commit of the event, not the tip of main.
StartJob ==
    /\ job = None
    /\ waiting # None
    /\ job' = [sha |-> waiting.sha, tree |-> waiting.tree,
               stage |-> "checkout", registry |-> waiting.tree.registry]
    /\ waiting' = None
    /\ UNCHANGED <<head, sha, author, prs, aborts>>

\* Mutant: a job with nothing to commit is never taken out of the group.
RegenerateStays ==
    /\ job # None
    /\ job.stage = "checkout"
    /\ job' = [job EXCEPT !.stage = IF Derived(job.tree) = job.tree.registry
                                    THEN "done" ELSE "push",
                          !.registry = Derived(job.tree)]
    /\ UNCHANGED <<head, sha, author, prs, waiting, aborts>>

\* Both generators run on the checked out tree; without a difference there is
\* nothing to commit and the job is over.
Regenerate ==
    /\ job # None
    /\ job.stage = "checkout"
    /\ IF Derived(job.tree) = job.tree.registry
       THEN job' = None
       ELSE job' = [job EXCEPT !.stage = "push", !.registry = Derived(job.tree)]
    /\ UNCHANGED <<head, sha, author, prs, waiting, aborts>>

\* Mutant: git push --force.
PushForced ==
    /\ job # None
    /\ job.stage = "push"
    /\ head' = [job.tree EXCEPT !.registry = job.registry]
    /\ sha' = sha + 1
    /\ author' = "bot"
    /\ job' = None
    /\ UNCHANGED <<prs, waiting, aborts>>

\* git push: a fast-forward of the commit the job started from, or nothing.
\* There is no second try.
Push ==
    /\ job # None
    /\ job.stage = "push"
    /\ IF job.sha = sha
       THEN /\ head' = [job.tree EXCEPT !.registry = job.registry]
            /\ sha' = sha + 1
            /\ author' = "bot"
       ELSE UNCHANGED <<head, sha, author>>
    /\ job' = None
    /\ UNCHANGED <<prs, waiting, aborts>>

\* A step of the job fails or the machine goes away: nothing was pushed.
Abort ==
    /\ job # None
    /\ aborts < MaxAborts
    /\ job' = None
    /\ aborts' = aborts + 1
    /\ UNCHANGED <<head, sha, author, prs, waiting>>

-----------------------------------------------------------------------------
Contribute ==
    \/ \E f \in Files :
        (\E sub \in Offers : OpenPR(f, sub)) \/ CheckPR(f) \/ MergePR(f)
    \/ MaintainerPush

Record == StartJob \/ Regenerate \/ Push

Next == Contribute \/ Record \/ Abort

Spec == Init /\ [][Next]_vars

\* GitHub runs a job that can run, and runs it to its end.
FairSpec == Spec /\ WF_vars(Record)

-----------------------------------------------------------------------------
\* Every variable keeps to its type: what is on main, waits or runs is a tree,
\* an event or a job, whichever step comes when.
TypeOK ==
    /\ head \in Trees
    /\ sha \in Nat
    /\ author \in Authors
    /\ prs \in [Files -> PRs \cup {None}]
    /\ waiting \in Events \cup {None}
    /\ job \in Jobs \cup {None}
    /\ aborts \in 0..MaxAborts

\* However main moves while the job checks out, derives and pushes, the job
\* changes the registry only, and to what the tree it lands on determines: a
\* merged submission or new vectors are never undone by the bot.
Atomic == INSTANCE AtomicRegistry
ImplementsAtomicRegistry == Atomic!Spec

\* A submission that is the last thing to happen to main is recorded: unless
\* somebody else pushes after the merge, or a job dies, the registry comes to be
\* the one its tree determines, whichever jobs ran or waited before.
LatestSubmissionRecorded ==
    \A n \in 1..MaxCommits :
        sha = n /\ author = "runner"
            ~> \/ head.registry = Derived(head)
               \/ sha > n /\ author # "bot"
               \/ aborts > 0

\* README.md and IMPLEMENTATIONS.en.md: a submission that passed the check and
\* was merged is registered.  Here for submissions the registry would take.
MergedIsRegistered ==
    \A f \in Files :
        head.submissions[f] # None /\ Recordable(head.submissions[f], head.references)
            ~> \/ head.registry[f] = head.submissions[f]
               \/ ~ Recordable(head.submissions[f], head.references)

\* The same promise seen from a recording that succeeded: it registers every
\* submission that the check of the pull request accepts on that tree.
RecordingRegistersChecked ==
    author = "bot" => \A f \in Files :
        head.submissions[f] # None /\ PassesCI(head.submissions[f], head.references)
            => head.registry[f] = head.submissions[f]

-----------------------------------------------------------------------------
(***************************************************************************)
(* The inductive invariant behind the theorems of RegistryProofs: what is  *)
(* waiting or running has the tip's tree exactly when it has its commit.   *)
(***************************************************************************)
OnTip(event) == event.sha <= sha /\ (event.sha = sha => event.tree = head)

IInv ==
    /\ TypeOK
    /\ waiting # None => OnTip(waiting)
    /\ job # None => OnTip(job)
    /\ job # None /\ job.stage = "push" => job.registry = Derived(job.tree)
=============================================================================
