--------------------------- MODULE WorkspaceReview ---------------------------
(***************************************************************************)
(* From a selected source directory to an exported change                  *)
(* (goal_native/workspace.py, with the stage set up by cli.py              *)
(* _stage_inputs and the baselines kept by store.py).                      *)
(*                                                                         *)
(* Every run works in a stage of its own.  What was selected for the first *)
(* run of a line of stages is their baseline; a run that continues without *)
(* a selection copies the stage that recovery names and inherits its       *)
(* baseline.  A review compares the recovered stage with its baseline and  *)
(* looks at the original source; an export repeats the review, compares    *)
(* its identity with that of the review the human names, and writes a file.*)
(*                                                                         *)
(* A directory is a function from paths to contents with the set of paths  *)
(* that its .gitignore files ignore; .gitignore itself is selected like    *)
(* any file, so two snapshots with different `ignore' differ.  A link      *)
(* stands for everything a strict snapshot refuses to read.  Hashes are    *)
(* taken as injective: snapshot_hash of a snapshot is the snapshot.        *)
(***************************************************************************)
EXTENDS Naturals, FiniteSets, Functions

CONSTANTS
    Paths,          \* files of a directory, .gitignore apart
    Generated,      \* those below a generated or dependency directory
    Stages,         \* names of stage directories, never used twice
    NoStage,        \* no recovery reference
    MaxEdits,       \* bound on edits of source, stages and contract
    MaxShown        \* bound on the reports that are shown

ASSUME WorkspaceAssumption ==
    /\ Generated \subseteq Paths
    /\ NoStage \notin Stages
    /\ MaxEdits \in Nat /\ MaxShown \in Nat

VARIABLES
    source,         \* the directory the human selected
    stages,         \* stages[s]: its directory
    baselines,      \* the local_workspaces and workspace_snapshots rows of s
    recovery,       \* local_stages: the stage to continue and to review
    contract,       \* the three counters of the goal, as one
    run,            \* the run that is being set up or going on
    review,         \* the review or export in progress
    shown,          \* the reports a human has been shown
    output,         \* the exported file
    lineage,        \* observer: what was first selected, and removed since
    edits           \* how many edits there have been

workVars == <<source, stages, baselines, recovery, contract, run, lineage>>
reviewVars == <<review, shown, output>>
workspaceVars == <<workVars, reviewVars, edits>>

-----------------------------------------------------------------------------
(* Snapshots (snapshot_directory).                                         *)

Text == {"one", "two"}
Contents == Text \cup {"binary", "link", "none"}
Tree == [files: [Paths -> Contents], ignore: SUBSET Paths]
Empty == [files |-> [p \in Paths |-> "none"], ignore |-> {}]
NoTree == [files |-> <<>>, ignore |-> {}]       \* no directory of that name

Present(tree) == {p \in Paths : tree.files[p] # "none"}

\* The walk leaves out generated paths and those excluded before, and a path
\* that is tracked stays in whatever excludes it.
Walked(tree, tracked, excluded) ==
    {p \in Present(tree) : p \in tracked \/ p \notin excluded \cup Generated}

Selected(tree, tracked, excluded) ==
    {p \in Walked(tree, tracked, excluded) :
        tree.files[p] # "link" /\ (p \in tracked \/ p \notin tree.ignore)}

\* A strict snapshot refuses what it cannot read instead of leaving it out.
Refuses(tree, tracked, excluded) ==
    \E p \in Walked(tree, tracked, excluded) : tree.files[p] = "link"

Snapshot(tree, paths) == [files |-> Restrict(tree.files, paths), ignore |-> tree.ignore]
NoFiles == [files |-> <<>>, ignore |-> {}]
At(snapshot, p) == IF p \in DOMAIN snapshot.files THEN snapshot.files[p] ELSE "none"
Tracked(snapshot) == DOMAIN snapshot.files

\* make_patch: the paths that differ, with the content before and after.
Changes(before, after) ==
    {[path |-> p, before |-> At(before, p), after |-> At(after, p)] :
        p \in {q \in Paths : At(before, q) # At(after, q)}}
Unchanged(before, after) == Changes(before, after) = {} /\ before.ignore = after.ignore
PathsOf(changes) == {c.path : c \in changes}
IsBinary(c) == "binary" \in {c.before, c.after}

-----------------------------------------------------------------------------
(* Setting up a run, and what it does (cli.py _run_existing).              *)

NoRun == [at |-> "idle"]
NoBaseline == [files |-> NoFiles, excluded |-> {}, source |-> FALSE, known |-> FALSE]
Baseline(files, excluded, selected) ==
    [files |-> files, excluded |-> excluded, source |-> selected, known |-> TRUE]

\* Mutant of Inherited: only the files are inherited, as the stage has them.
InheritedNow(s) ==
    [baselines[s] EXCEPT !.files =
        Snapshot(stages[s], Selected(stages[s], Tracked(@), baselines[s].excluded))]

\* The baseline of the stage that a run continues.
Inherited(s) == baselines[s]

Chosen(tree, paths) ==
    [files |-> [p \in Paths |-> IF p \in paths THEN tree.files[p] ELSE "none"],
     ignore |-> tree.ignore]

SetUp(s, tree, selected, line) ==
    /\ run = NoRun
    /\ stages[s] = NoTree /\ ~baselines[s].known /\ s # recovery
    /\ stages' = [stages EXCEPT ![s] = tree]
    /\ run' = [at |-> "remembering", stage |-> s, selected |-> selected]
    /\ lineage' = [lineage EXCEPT ![s] = line]
    /\ UNCHANGED <<source, baselines, recovery, contract, reviewVars, edits>>

\* A first selection is its own baseline.
Select(s, tree, excluded, tracked, selected) ==
    LET files == Snapshot(tree, Selected(tree, tracked, {})) IN
    SetUp(s, tree, Baseline(files, excluded, selected),
          [origin |-> files, removed |-> {}])

SelectSource(s) ==
    LET paths == Selected(source, {}, {}) IN
    Select(s, Chosen(source, paths), Present(source) \ paths, {}, TRUE)

\* An artifact is written to its path and tracked there, wherever that is.
SelectArtifact(s, p) == Select(s, [Empty EXCEPT !.files[p] = "one"], {}, {p}, FALSE)

SelectNothing(s) == Select(s, Empty, {}, {}, FALSE)

\* A run without a selection continues the recovered stage if there is one;
\* it is refused when the directory is gone (_local_stage_path) or unsafe.
Continue(s) ==
    LET old == stages[recovery]
        kept == Inherited(recovery)
        tracked == Tracked(kept.files)
    IN  /\ recovery # NoStage
        /\ ~Refuses(old, tracked, kept.excluded)
        /\ SetUp(s, Chosen(old, Selected(old, tracked, kept.excluded)), kept,
                 lineage[recovery])

\* remember_workspace_baseline; a stage is bound once.
RememberBaseline ==
    /\ run.at = "remembering"
    /\ baselines' = [baselines EXCEPT ![run.stage] = run.selected]
    /\ run' = [run EXCEPT !.at = "running"]
    /\ UNCHANGED <<source, stages, recovery, contract, lineage, reviewVars, edits>>

\* The end of a run makes its stage the one to continue (remember_local_stage).
EndRun ==
    /\ run.at = "running"
    /\ recovery' = run.stage
    /\ run' = NoRun
    /\ UNCHANGED <<source, stages, baselines, contract, lineage, reviewVars, edits>>

\* The run is refused, replaced or its process dies, at any point.
Abandon ==
    /\ run # NoRun
    /\ run' = NoRun
    /\ UNCHANGED <<source, stages, baselines, recovery, contract, lineage, reviewVars, edits>>

\* Other stages are never looked at again.
InUse(s) == s = recovery \/ (run # NoRun /\ run.at = "running" /\ s = run.stage)

Removed(s, paths) == [lineage EXCEPT ![s].removed = @ \cup paths]

\* A tool or script of the run, a script that outlives it, or the human.
WriteStage(s, p, content) ==
    /\ InUse(s)
    /\ stages[s].files[p] # content
    /\ stages' = [stages EXCEPT ![s].files[p] = content]
    /\ lineage' = IF content = "none" THEN Removed(s, {p}) ELSE lineage
    /\ UNCHANGED <<source, baselines, recovery, contract, run>>

WriteIgnore(s, ignore) ==
    /\ InUse(s)
    /\ stages' = [stages EXCEPT ![s].ignore = ignore]
    /\ UNCHANGED <<source, baselines, recovery, contract, run, lineage>>

\* Mutant of Candidate: what the container left is selected afresh.
CandidateAfresh(tree, before, excluded) == Selected(tree, {}, excluded)

\* extract_candidate_archive keeps what the command was given.
Candidate(tree, before, excluded) == Selected(tree, before, excluded)

\* A container command (ContainerRuntime._command) is given the snapshot of
\* the stage, without what the baseline tracks, and its candidate is published.
RunCommand(p, content, ignore) ==
    LET s == run.stage
        before == Selected(stages[s], {}, {})
        hidden == Present(stages[s]) \ before
        left == [files |-> [q \in Paths |->
                              CASE q = p          -> content
                                [] q \in before   -> stages[s].files[q]
                                [] OTHER          -> "none"],
                 ignore |-> ignore]
        after == Candidate(left, before, hidden)
    IN  /\ run.at = "running"
        /\ ~Refuses(stages[s], {}, {}) /\ ~Refuses(left, before, hidden)
        /\ stages' = [stages EXCEPT ![s] =
                [files |-> [q \in Paths |->
                              CASE q \in after          -> left.files[q]
                                [] q \in before \ after -> "none"
                                [] OTHER                -> stages[s].files[q]],
                 ignore |-> ignore]]
        /\ lineage' = Removed(s, {q \in before : left.files[q] = "none"})
        /\ UNCHANGED <<source, baselines, recovery, contract, run>>

EditSource(p, content) ==
    /\ source' = [source EXCEPT !.files[p] = content]
    /\ UNCHANGED <<stages, baselines, recovery, contract, run, lineage>>

\* A request, revision or control of the goal.
ChangeContract ==
    /\ contract' = contract + 1
    /\ UNCHANGED <<source, stages, baselines, recovery, run, lineage>>

Edit ==
    /\ edits < MaxEdits
    /\ edits' = edits + 1
    /\ \/ \E s \in Stages, p \in Paths, content \in Contents \ {"one"} :
                WriteStage(s, p, content)
       \/ \E s \in Stages, ignore \in SUBSET Paths : WriteIgnore(s, ignore)
       \/ \E p \in Paths, content \in {"two", "none"}, ignore \in SUBSET Paths :
                RunCommand(p, content, ignore)
       \/ \E p \in Paths, content \in {"two", "link", "none"} : EditSource(p, content)
       \/ ChangeContract
    /\ UNCHANGED reviewVars

-----------------------------------------------------------------------------
(* Review and export.                                                      *)

NoReview == [at |-> "none"]
Formats == {"patch", "files"}

\* A review (named = {}), or an export of the review whose identity is named:
\* the baseline, the walk and the ignore rules, and then the bytes.  A strict snapshot is
\* refused when a path has gone or become unreadable in between.
BeginReview(named, format) ==
    LET tree == stages[recovery]
        baseline == baselines[recovery]
        tracked == Tracked(baseline.files)
    IN  /\ review = NoReview
        /\ named = {} => Cardinality(shown) < MaxShown
        /\ recovery # NoStage /\ baseline.known
        /\ ~Refuses(tree, tracked, baseline.excluded)
        /\ review' = [at |-> "read", named |-> named, format |-> format,
                      stage |-> recovery, baseline |-> baseline,
                      found |-> Selected(tree, tracked, baseline.excluded)]
        /\ UNCHANGED <<workVars, shown, output, edits>>

Read ==
    LET tree == stages[review.stage]
        after == Snapshot(tree, review.found)
    IN  /\ review.at = "read"
        /\ review' = IF \E p \in review.found : tree.files[p] \in {"none", "link"}
                     THEN NoReview
                     ELSE [at |-> "source", named |-> review.named, format |-> review.format,
                           stage |-> review.stage, baseline |-> review.baseline,
                           after |-> after, changes |-> Changes(review.baseline.files, after),
                           removed |-> lineage[review.stage].removed \ review.found]
        /\ UNCHANGED <<workVars, shown, output, edits>>

\* Mutant of Considered: only what the baseline has is looked at.
BaselinePaths(r) == Tracked(r.baseline.files)

\* `only': what the baseline has, and what the review changes.
Considered(r) == Tracked(r.baseline.files) \cup PathsOf(r.changes)

\* Ignore rules play no part here; the generated names do.
CurrentSource(r) ==
    Snapshot(source, {p \in Considered(r) \cap Present(source) :
                        p \in Tracked(r.baseline.files) \/ p \notin Generated})

SourceStatus(r) ==
    IF ~r.baseline.source THEN "not_selected"
    ELSE IF \E p \in Tracked(CurrentSource(r)) : source.files[p] = "link" THEN "unavailable"
    ELSE IF Unchanged(r.baseline.files, CurrentSource(r)) THEN "matching"
    ELSE "changed"

LookAtSource ==
    /\ review.at = "source"
    /\ review' = [at |-> "goal", named |-> review.named, format |-> review.format,
                   stage |-> review.stage, baseline |-> review.baseline, after |-> review.after,
                   changes |-> review.changes, removed |-> review.removed,
                   status |-> SourceStatus(review),
                   seen |-> Restrict(source.files, PathsOf(review.changes)),
                   current |-> IF SourceStatus(review) \in {"matching", "changed"}
                               THEN CurrentSource(review) ELSE NoFiles]
    /\ UNCHANGED <<workVars, shown, output, edits>>

\* Mutant of Identity: the contract alone says what was reviewed.
IdentityOfContract(r) == <<contract, r.stage, r.baseline.files, r.status>>

\* What the hash review_id is taken of.
Identity(r) == <<contract, r.stage, r.baseline.files, r.after, r.status, r.current>>

Report(r) ==
    [id |-> Identity(r), stage |-> r.stage, contract |-> contract, after |-> r.after,
     changes |-> r.changes, status |-> r.status]

FinishReview ==
    /\ review.at = "goal"
    /\ review.named = {}
    /\ shown' = shown \cup {Report(review)}
    /\ review' = NoReview
    /\ UNCHANGED <<workVars, output, edits>>

\* No stale identity, no empty change, no patch that leaves out a binary file;
\* the file is created new, and removed again when it cannot be written.
FinishExport ==
    LET r == review
        accepted == /\ r.named = {Identity(r)}
                    /\ ~Unchanged(r.baseline.files, r.after)
                    /\ r.format = "patch" => ~\E c \in r.changes : IsBinary(c)
                    /\ output.kind = "none"
        exported == [kind |-> "export", format |-> r.format, report |-> Report(r)]
    IN  /\ r.at = "goal"
        /\ r.named # {}
        /\ output' \in IF accepted THEN {exported, output} ELSE {output}
        /\ review' = NoReview
        /\ UNCHANGED <<workVars, shown, edits>>

-----------------------------------------------------------------------------

WorkspaceInit ==
    /\ source \in {t \in Tree : /\ \A p \in Generated : t.files[p] = "one"
                                /\ \A p \in Paths : t.files[p] \in {"one", "none"}
                                /\ t.ignore \cap Generated = {}}
    /\ stages = [s \in Stages |-> NoTree]
    /\ baselines = [s \in Stages |-> NoBaseline]
    /\ recovery = NoStage
    /\ contract = 0
    /\ run = NoRun
    /\ lineage = [s \in Stages |-> [origin |-> NoFiles, removed |-> {}]]
    /\ review = NoReview
    /\ shown = {}
    /\ output = [kind |-> "none"]
    /\ edits = 0

WorkspaceNext ==
    \/ \E s \in Stages : SelectSource(s) \/ SelectNothing(s) \/ Continue(s)
    \/ \E s \in Stages, p \in Paths : SelectArtifact(s, p)
    \/ RememberBaseline \/ EndRun \/ Abandon
    \/ Edit
    \/ BeginReview({}, "patch")
    \/ \E r \in shown, format \in Formats : BeginReview({r.id}, format)
    \/ Read \/ LookAtSource \/ FinishReview \/ FinishExport

WorkspaceSpec == WorkspaceInit /\ [][WorkspaceNext]_workspaceVars

-----------------------------------------------------------------------------
(* Properties.                                                             *)

\* README.md, "The export must still match the reviewed bytes, goal contract
\* and observed source state": whatever happened between the review and the
\* export, what is exported was shown to the human, under the contract and the
\* source it was shown under, although only the identity is compared.
ExportIsReviewed ==
    output.kind = "export" =>
        \E r \in shown :
            LET e == output.report IN
            /\ r.after = e.after /\ r.changes = e.changes /\ r.stage = e.stage
            /\ r.contract = e.contract /\ r.status = e.status

\* README.md, "Ignored inputs never become proposed deletions": a review
\* proposes to delete only what was really removed from this line of stages,
\* whatever .gitignore rules, exclusions, container commands and copies into
\* continued stages have come between.
DeletionsWereMade ==
    review.at \in {"source", "goal"} =>
        \A c \in review.changes : c.after = "none" => c.path \in review.removed

\* README.md, "/changes lists changes against the immutable initial selected
\* snapshot": a stage that continues others is compared with what was selected
\* for the first of them.
BaselineIsFirstSelection ==
    \A s \in Stages : baselines[s].known => baselines[s].files = lineage[s].origin

\* "matching" means that the change applies to the source as it was seen: at
\* every path it touches the source has the content the change starts from.
MatchingPatchApplies ==
    review.at = "goal" /\ review.status = "matching" =>
        \A c \in review.changes : review.seen[c.path] = c.before
=============================================================================
