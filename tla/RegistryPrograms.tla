--------------------------- MODULE RegistryPrograms ---------------------------
(***************************************************************************)
(* The pipeline of Registry, and the two registry programs with the files  *)
(* they rewrite (RegistryFiles).  The pipeline takes what a job writes as  *)
(* one step, the files take the submissions as given: they share no        *)
(* variable, one moves and the other stays where it began.                 *)
(***************************************************************************)
EXTENDS Registry, Sequences

CONSTANTS Absent, Rows, MaxCrashes, MaxEdits

VARIABLES
    main, work, rows, run, step, last, pusher, crashes, edits,
    part  \* the one that moves

filesVars == <<main, work, rows, run, step, last, pusher, crashes, edits>>

Texts == INSTANCE RegistryFiles WITH
    Tables <- Rows, job <- step, author <- pusher

\* What is read is a file, and a run is one.
ASSUME FilesAssumption ==
    Absent \notin Seq(Texts!Pieces) /\ None \notin Texts!Runs

-----------------------------------------------------------------------------
ProgramsInit == Init /\ Texts!Init /\ part \in {"pipeline", "files"}

ProgramsNext ==
    /\ UNCHANGED part
    /\ \/ part = "pipeline" /\ Next /\ UNCHANGED filesVars
       \/ part = "files" /\ Texts!Next /\ UNCHANGED vars

programVars == <<part, vars, filesVars>>

\* The fairness of Registry!FairSpec.
ProgramsSpec == ProgramsInit /\ [][ProgramsNext]_programVars /\ WF_vars(Record)

-----------------------------------------------------------------------------
\* A registry program that exits with 0 leaves every file that is there with the
\* rows of its layer between that layer's markers, though a file that was torn
\* behind them stays torn (update-registry.cjs:103-118, update-expression-registry.cjs:118-132).
ExitZeroListsAll == Texts!ExitZeroListsAll

\* The recording job commits whole, equal tables only and no other text
\* (record-runners.yml:38-55).
RecordingKeepsText == Texts!RecordingKeepsText
=============================================================================
