---------------------------- MODULE RegistryFiles ----------------------------
(***************************************************************************)
(* How the rows of the registry reach the files: update-registry.cjs and   *)
(* update-expression-registry.cjs replace what stands between their two    *)
(* markers, in IMPLEMENTATIONS.md and then in IMPLEMENTATIONS.en.md, each  *)
(* by one plain write.  The recording job runs both on a fresh checkout    *)
(* and commits when both exit with 0; anybody may run them by hand.        *)
(*                                                                         *)
(* A file is a sequence of pieces: text, a marker, a table of rows.  A     *)
(* write that a crash cuts off leaves a beginning of it.                   *)
(***************************************************************************)
EXTENDS Integers, Sequences, FiniteSets

CONSTANTS
    None,        \* no run
    Absent,      \* no such file
    Tables,      \* the rows that the submissions may come to
    MaxCrashes,  \* bound on the crashes
    MaxEdits     \* bound on the commits of maintainers

VARIABLES
    main,     \* the two files at the tip of main
    work,     \* the two files in the working tree
    rows,     \* the rows its submissions come to, by layer
    run,      \* the program that runs
    job,      \* how far the recording job is
    last,     \* the layer whose program ended last, and how
    author,   \* who made the tip of main
    crashes, edits

vars == <<main, work, rows, run, job, last, author, crashes, edits>>

Layers == {"audit", "expression"}

Pieces == [kind: {"text", "begin", "rows", "end"}, of: {"a", "b", "c"} \cup Layers \cup Tables]

Piece(kind, of) == [kind |-> kind, of |-> of]
Document(tables) ==
    <<Piece("text", "a"),
      Piece("begin", "audit"), Piece("rows", tables["audit"]), Piece("end", "audit"),
      Piece("text", "b"),
      Piece("begin", "expression"), Piece("rows", tables["expression"]), Piece("end", "expression"),
      Piece("text", "c")>>

Runs == [layer: Layers, rows: Tables, file: {1, 2}, stage: {"read", "write"},
         content: Seq(Pieces)]

Places(content, piece) == {i \in DOMAIN content : content[i] = piece}
\* content.indexOf(marker), 0 for none.
IndexOf(content, piece) ==
    IF Places(content, piece) = {} THEN 0
    ELSE CHOOSE i \in Places(content, piece) : \A j \in Places(content, piece) : i <= j

Idle == run = None

Init ==
    /\ \E t \in Tables : main = [f \in 1..2 |-> Document([l \in Layers |-> t])]
    /\ work = main
    /\ rows \in [Layers -> Tables]
    /\ run = None
    /\ job = "none"
    /\ last = [layer |-> "audit", exit |-> "none"]
    /\ author = "maintainer"
    /\ crashes = 0 /\ edits = 0

-----------------------------------------------------------------------------
(***************************************************************************)
(* One run of a program.                                                   *)
(***************************************************************************)
Begin(layer) ==
    run' = [layer |-> layer, rows |-> rows[layer], file |-> 1,
            stage |-> "read", content |-> <<>>]

\* By hand, in any order.
Start(layer) ==
    /\ Idle /\ job = "none"
    /\ Begin(layer)
    /\ UNCHANGED <<main, work, rows, job, last, author, crashes, edits>>

\* Mutant: the job looks at the exit status of its last command only.
EndedAnyhow(exit) ==
    /\ run' = None
    /\ last' = [layer |-> run.layer, exit |-> exit]
    /\ job' = IF job = "none" \/ (exit # "ok" /\ job = "expression") THEN "none"
              ELSE IF job = "audit" THEN "between" ELSE "commit"

\* A program is over.  The job ends with the first that fails.
Ended(exit) ==
    /\ run' = None
    /\ last' = [layer |-> run.layer, exit |-> exit]
    /\ job' = IF job = "none" \/ exit # "ok" THEN "none"
              ELSE IF job = "audit" THEN "between" ELSE "commit"

NextFile ==
    IF run.file = 2 THEN Ended("ok")
    ELSE run' = [run EXCEPT !.file = 2, !.stage = "read"] /\ UNCHANGED <<last, job>>

HasMarkers(content, layer) ==
    /\ IndexOf(content, Piece("begin", layer)) # 0
    /\ IndexOf(content, Piece("end", layer)) # 0

\* Mutant: the expression program is over at the first file that is missing.
ReadMissingStops ==
    /\ run # None /\ run.stage = "read"
    /\ work[run.file] = Absent
    /\ Ended(IF run.layer = "expression" THEN "ok" ELSE "thrown")
    /\ UNCHANGED <<main, work, rows, author, crashes, edits>>

\* A missing file is skipped by one program, and an exception of the other.
ReadMissing ==
    /\ run # None /\ run.stage = "read"
    /\ work[run.file] = Absent
    /\ IF run.layer = "expression" THEN NextFile ELSE Ended("thrown")
    /\ UNCHANGED <<main, work, rows, author, crashes, edits>>

\* Without its markers: exit 1, with the file before it written already.
ReadUnmarked ==
    /\ run # None /\ run.stage = "read"
    /\ work[run.file] # Absent
    /\ ~ HasMarkers(work[run.file], run.layer)
    /\ Ended("failed")
    /\ UNCHANGED <<main, work, rows, author, crashes, edits>>

ReadFile ==
    /\ run # None /\ run.stage = "read"
    /\ work[run.file] # Absent
    /\ HasMarkers(work[run.file], run.layer)
    /\ run' = [run EXCEPT !.stage = "write", !.content = work[run.file]]
    /\ UNCHANGED <<main, work, rows, job, last, author, crashes, edits>>

\* newContent: all up to the first begin marker, the table, all from the
\* first end marker on.
Spliced(content, layer, table) ==
    SubSeq(content, 1, IndexOf(content, Piece("begin", layer)))
    \o <<Piece("rows", table)>>
    \o SubSeq(content, IndexOf(content, Piece("end", layer)), Len(content))

WriteFile ==
    /\ run # None /\ run.stage = "write"
    /\ work' = [work EXCEPT ![run.file] = Spliced(run.content, run.layer, run.rows)]
    /\ NextFile
    /\ UNCHANGED <<main, rows, author, crashes, edits>>

\* The program dies; a write it was in leaves a beginning of the file.
Crash ==
    /\ run # None /\ crashes < MaxCrashes
    /\ IF run.stage = "write"
       THEN LET new == Spliced(run.content, run.layer, run.rows)
            IN  \E n \in 0..(Len(new) - 1) :
                    work' = [work EXCEPT ![run.file] = SubSeq(new, 1, n)]
       ELSE UNCHANGED work
    /\ Ended("crashed")
    /\ crashes' = crashes + 1
    /\ UNCHANGED <<main, rows, author, edits>>

-----------------------------------------------------------------------------
(***************************************************************************)
(* The recording job, and the maintainers.                                 *)
(***************************************************************************)
\* A fresh checkout, of some submissions.
CheckOut ==
    /\ Idle /\ job = "none"
    /\ work' = main
    /\ rows' \in [Layers -> Tables]
    /\ job' = "checkout"
    /\ UNCHANGED <<main, run, last, author, crashes, edits>>

\* One step of the job, with two commands; the second runs if the first exits
\* with 0.
RunNext ==
    /\ Idle
    /\ \/ job = "checkout" /\ Begin("audit") /\ job' = "audit"
       \/ job = "between" /\ Begin("expression") /\ job' = "expression"
    /\ UNCHANGED <<main, work, rows, last, author, crashes, edits>>

\* With a difference: git add of both files, commit, push.
CommitBoth ==
    /\ job = "commit"
    /\ IF work # main THEN main' = work /\ author' = "bot"
       ELSE UNCHANGED <<main, author>>
    /\ job' = "none"
    /\ UNCHANGED <<work, rows, run, last, crashes, edits>>

\* A maintainer loses a piece of a file, or the file.
Edit ==
    /\ Idle /\ job = "none" /\ edits < MaxEdits
    /\ \E f \in 1..2 :
        /\ main[f] # Absent
        /\ \/ \E i \in DOMAIN main[f] :
                main' = [main EXCEPT ![f] = SubSeq(@, 1, i - 1) \o SubSeq(@, i + 1, Len(@))]
           \/ main' = [main EXCEPT ![f] = Absent]
    /\ author' = "maintainer"
    /\ edits' = edits + 1
    /\ UNCHANGED <<work, rows, run, job, last, crashes>>

Program == ReadMissing \/ ReadUnmarked \/ ReadFile \/ WriteFile
Job == CheckOut \/ RunNext \/ CommitBoth

Next == (\E l \in Layers : Start(l)) \/ Program \/ Crash \/ Job \/ Edit

Spec == Init /\ [][Next]_vars

-----------------------------------------------------------------------------
\* What stands between the markers of a layer.
Listed(content, layer) ==
    SubSeq(content, IndexOf(content, Piece("begin", layer)) + 1,
                    IndexOf(content, Piece("end", layer)) - 1)

\* A program that exits with 0 leaves every file there is with the two markers
\* of its layer and, between them, the rows of this run and nothing else,
\* whatever crashes and edits came before.  It says nothing of the rest of a
\* file: one that a crash cut off behind these markers passes and stays cut off.
ExitZeroListsAll ==
    last.exit = "ok" /\ Idle /\ job # "checkout" =>
        \A f \in 1..2 : work[f] # Absent =>
            /\ HasMarkers(work[f], last.layer)
            /\ Listed(work[f], last.layer) = <<Piece("rows", rows[last.layer])>>

\* The text and the markers of a file: which of them stands before which.
Kept(content) ==
    IF content = Absent THEN {}
    ELSE LET others == {i \in DOMAIN content : content[i].kind # "rows"}
         IN  {<<content[p[1]], content[p[2]]>> : p \in {p \in others \X others : p[1] <= p[2]}}

\* The bot never commits a file that a program left torn or half of the pair:
\* what it commits has the text and the markers main had, and the same rows in
\* every file, those of the submissions it checked out.
RecordingKeepsText ==
    [][author' = "bot" /\ main' # main =>
        \A f \in 1..2 :
            /\ (main'[f] = Absent) = (main[f] = Absent)
            /\ Kept(main'[f]) = Kept(main[f])
            /\ main'[f] # Absent => \A l \in Layers :
                Listed(main'[f], l) = <<Piece("rows", rows[l])>>]_vars
=============================================================================
