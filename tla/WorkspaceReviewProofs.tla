------------------------ MODULE WorkspaceReviewProofs ------------------------
(***************************************************************************)
(* Proofs about WorkspaceReview, for any set of paths and stages and any   *)
(* bounds.                                                                 *)
(*                                                                         *)
(* A stage is bound to a baseline (Bound) when that is what was selected   *)
(* first in its line of stages, and every file of it is still there or was *)
(* removed.  Lines says which stages are bound, Reviews what a review that *)
(* is under way knows of its stage and of its baseline, Reports what the   *)
(* identity of a report determines.                                        *)
(***************************************************************************)
EXTENDS WorkspaceReview, TLAPS

-----------------------------------------------------------------------------
(* Snapshots.                                                              *)

Readable == {"one", "two", "binary"}
Files == UNION {[P -> Readable] : P \in SUBSET Paths}
Snapshots == [files: Files, ignore: SUBSET Paths]

\* A snapshot has readable files only.
LEMMA SnapshotShape ==
    ASSUME NEW snapshot \in Snapshots
    PROVE  /\ Tracked(snapshot) \subseteq Paths
           /\ \A p \in Tracked(snapshot) : snapshot.files[p] \in Readable
           /\ \A p \in Tracked(snapshot) : At(snapshot, p) = snapshot.files[p]
           /\ \A p : p \notin Tracked(snapshot) => At(snapshot, p) = "none"
  BY DEF Snapshots, Files, Tracked, At

LEMMA TreeFields ==
    ASSUME NEW tree \in Tree
    PROVE  /\ tree.files \in [Paths -> Contents] /\ tree.ignore \in SUBSET Paths
           /\ \A p \in Paths : tree.files[p] \in {"one", "two", "binary", "link", "none"}
  BY DEF Tree, Contents, Text

\* What a snapshot of readable paths has.
LEMMA SnapshotTaken ==
    ASSUME NEW tree \in Tree, NEW paths \in SUBSET Paths,
           \A p \in paths : tree.files[p] \notin {"none", "link"}
    PROVE  /\ Snapshot(tree, paths) \in Snapshots
           /\ Tracked(Snapshot(tree, paths)) = paths
  <1> DEFINE files == [p \in paths |-> tree.files[p]]
  <1>1. files \in [paths -> Readable]
    BY TreeFields DEF Readable
  <1>2. Snapshot(tree, paths) = [files |-> files, ignore |-> tree.ignore]
    BY DEF Snapshot, Restrict
  <1>3. files \in Files
    BY <1>1 DEF Files
  <1> QED
    BY <1>1, <1>2, <1>3, TreeFields DEF Snapshots, Tracked

\* What the walk and the ignore rules select.
LEMMA SelectedPaths ==
    ASSUME NEW tree \in Tree, NEW tracked, NEW excluded
    PROVE  /\ Selected(tree, tracked, excluded) \in SUBSET Paths
           /\ \A p \in Selected(tree, tracked, excluded) :
                 /\ tree.files[p] \notin {"none", "link"}
                 /\ p \in tracked \/ p \notin Generated
           /\ ~Refuses(tree, tracked, excluded) =>
                 \A p \in Paths : p \in tracked /\ tree.files[p] # "none" =>
                                     p \in Selected(tree, tracked, excluded)
  BY DEF Selected, Walked, Present, Refuses

LEMMA ChosenTree ==
    ASSUME NEW tree \in Tree, NEW paths
    PROVE  /\ Chosen(tree, paths) \in Tree
           /\ \A p \in Paths :
                 Chosen(tree, paths).files[p] = IF p \in paths THEN tree.files[p] ELSE "none"
  BY TreeFields DEF Chosen, Tree, Contents

LEMMA EmptyTree == Empty \in Tree /\ \A p \in Paths : [Empty EXCEPT !.files[p] = "one"] \in Tree
  BY DEF Empty, Tree, Contents, Text

-----------------------------------------------------------------------------
(* The inductive invariant.                                                *)

BaselineRow ==
    [files: Snapshots \cup {NoFiles}, excluded: SUBSET Paths, source: BOOLEAN, known: BOOLEAN]
LineRow == [origin: Snapshots \cup {NoFiles}, removed: SUBSET Paths]
RunRow == [at: {"remembering", "running"}, stage: Stages, selected: BaselineRow]

Rows ==
    /\ source \in Tree
    /\ stages \in [Stages -> Tree \cup {NoTree}]
    /\ baselines \in [Stages -> BaselineRow]
    /\ lineage \in [Stages -> LineRow]
    /\ recovery \in Stages \cup {NoStage}
    /\ run \in RunRow \cup {NoRun}

\* The tree and the line of a stage that is bound to a baseline.
BoundTo(baseline, tree, line) ==
    /\ baseline.known /\ baseline.files \in Snapshots /\ tree \in Tree
    /\ baseline.files = line.origin
    /\ \A p \in Tracked(baseline.files) : tree.files[p] # "none" \/ p \in line.removed

Lines ==
    /\ \A s \in Stages : baselines[s].known => BoundTo(baselines[s], stages[s], lineage[s])
    /\ run.at = "remembering" =>
          /\ ~baselines[run.stage].known
          /\ BoundTo(run.selected, stages[run.stage], lineage[run.stage])
    /\ run.at = "running" => baselines[run.stage].known
    /\ recovery # NoStage => baselines[recovery].known

\* Who asked for a review, and of what.
Asked(r) ==
    /\ r.stage \in Stages /\ baselines[r.stage].known /\ r.baseline = baselines[r.stage]
    /\ r.named # {} => \E x \in shown : r.named = {x.id}

\* No path that the walk leaves out gets into a review but by the baseline, and
\* what the baseline has and the review has not is missing.
Covers(paths, baseline, removed) ==
    /\ \A p \in paths : p \in Tracked(baseline.files) \/ p \notin Generated
    /\ \A p \in Tracked(baseline.files) : p \in paths \/ p \in removed

Reviews ==
    /\ review.at \in {"none", "read", "source", "goal"}
    /\ review.at # "none" => Asked(review)
    /\ review.at = "read" =>
          /\ review.found \in SUBSET Paths
          /\ Covers(review.found, review.baseline, lineage[review.stage].removed)
    /\ review.at \in {"source", "goal"} =>
          /\ review.after \in Snapshots
          /\ review.changes = Changes(review.baseline.files, review.after)
          /\ Covers(Tracked(review.after), review.baseline, review.removed)
    /\ MatchingPatchApplies

\* An identity determines what its report shows.
Describes(x) ==
    /\ x.contract = x.id[1] /\ x.stage = x.id[2] /\ x.after = x.id[4] /\ x.status = x.id[5]
    /\ x.changes = Changes(x.id[3], x.id[4])

Reports ==
    /\ \A x \in shown : Describes(x)
    /\ ExportIsReviewed

WorkspaceInv ==
    Rows /\ Lines /\ Reviews /\ Reports

-----------------------------------------------------------------------------
(* Runs and their stages.                                                  *)

\* Reviews go on while stages and baselines are added.
LEMMA WorkKeepsReviews ==
    ASSUME Reviews, UNCHANGED <<review, shown>>,
           \A s \in Stages : baselines[s].known =>
               /\ baselines'[s] = baselines[s]
               /\ lineage[s].removed \subseteq lineage'[s].removed
    PROVE  Reviews'
  <1>1. review.at # "none" => Asked(review)'
    BY DEF Reviews, Asked
  <1>2. review.at = "read" =>
            Covers(review.found, review.baseline, lineage'[review.stage].removed)
    BY DEF Reviews, Covers, Asked
  <1>3. MatchingPatchApplies'
    BY DEF Reviews, MatchingPatchApplies
  <1> QED
    BY <1>1, <1>2, <1>3 DEF Reviews, Covers

LEMMA ReportsStay ==
    ASSUME Reports, UNCHANGED <<shown, output>>
    PROVE  Reports'
  BY DEF Reports, Describes, ExportIsReviewed, Changes, At

LEMMA SetUpInv ==
    ASSUME WorkspaceInv, NEW s \in Stages, NEW tree \in Tree, NEW selected \in BaselineRow,
           NEW line \in LineRow, SetUp(s, tree, selected, line),
           BoundTo(selected, tree, line)
    PROVE  WorkspaceInv'
  <1>0. Rows /\ Lines /\ Reviews /\ Reports
    BY DEF WorkspaceInv
  <1>1. /\ run = NoRun /\ ~baselines[s].known /\ s # recovery
        /\ run' = [at |-> "remembering", stage |-> s, selected |-> selected]
        /\ UNCHANGED <<source, baselines, recovery, reviewVars>>
    BY DEF SetUp
  <1>2. /\ stages' = [stages EXCEPT ![s] = tree]
        /\ lineage' = [lineage EXCEPT ![s] = line]
    BY DEF SetUp
  <1>3. /\ stages'[s] = tree /\ lineage'[s] = line
        /\ \A t \in Stages \ {s} : stages'[t] = stages[t] /\ lineage'[t] = lineage[t]
    BY <1>0, <1>2 DEF Rows
  <1>4. Rows'
    BY <1>0, <1>1, <1>2 DEF Rows, RunRow
  <1>5. Lines'
    BY <1>0, <1>1, <1>3 DEF Lines, BoundTo
  <1>6. Reviews'
    BY <1>0, <1>1, <1>3, WorkKeepsReviews DEF reviewVars
  <1>7. Reports'
    BY <1>0, <1>1, ReportsStay DEF reviewVars
  <1> QED
    BY <1>4, <1>5, <1>6, <1>7 DEF WorkspaceInv

\* A first selection is bound to what was selected.
LEMMA SelectInv ==
    ASSUME WorkspaceInv, NEW s \in Stages, NEW tree \in Tree, NEW excluded \in SUBSET Paths,
           NEW tracked, NEW selected \in BOOLEAN, Select(s, tree, excluded, tracked, selected)
    PROVE  WorkspaceInv'
  <1> DEFINE paths == Selected(tree, tracked, {})
             files == Snapshot(tree, paths)
  <1>1. paths \in SUBSET Paths /\ \A p \in paths : tree.files[p] \notin {"none", "link"}
    BY SelectedPaths
  <1>2. files \in Snapshots /\ Tracked(files) = paths
    BY <1>1, SnapshotTaken
  <1>3. Baseline(files, excluded, selected) \in BaselineRow
    BY <1>2 DEF Baseline, BaselineRow
  <1>4. [origin |-> files, removed |-> {}] \in LineRow
    BY <1>2 DEF LineRow
  <1>5. BoundTo(Baseline(files, excluded, selected), tree, [origin |-> files, removed |-> {}])
    BY <1>1, <1>2 DEF BoundTo, Baseline
  <1>6. SetUp(s, tree, Baseline(files, excluded, selected), [origin |-> files, removed |-> {}])
    BY DEF Select
  <1> QED
    BY <1>3, <1>4, <1>5, <1>6, SetUpInv

LEMMA SelectionsInv ==
    ASSUME WorkspaceInv, NEW s \in Stages,
           \/ SelectSource(s) \/ SelectNothing(s)
           \/ \E p \in Paths : SelectArtifact(s, p)
    PROVE  WorkspaceInv'
  <1>1. CASE SelectSource(s)
    <2> DEFINE paths == Selected(source, {}, {})
    <2>1. source \in Tree
      BY DEF WorkspaceInv, Rows
    <2>2. Chosen(source, paths) \in Tree /\ Present(source) \ paths \in SUBSET Paths
      BY <2>1, ChosenTree DEF Present
    <2>3. Select(s, Chosen(source, paths), Present(source) \ paths, {}, TRUE)
      BY <1>1 DEF SelectSource
    <2> QED
      BY <2>2, <2>3, SelectInv
  <1>2. CASE SelectNothing(s)
    BY <1>2, EmptyTree, SelectInv DEF SelectNothing
  <1>3. ASSUME NEW p \in Paths, SelectArtifact(s, p)
        PROVE  WorkspaceInv'
    BY <1>3, EmptyTree, SelectInv DEF SelectArtifact
  <1> QED
    BY <1>1, <1>2, <1>3

\* A run that continues a stage inherits its baseline and its line.
LEMMA ContinueInv ==
    ASSUME WorkspaceInv, NEW s \in Stages, Continue(s)
    PROVE  WorkspaceInv'
  <1> DEFINE old == stages[recovery]
             kept == baselines[recovery]
             tracked == Tracked(kept.files)
             tree == Chosen(old, Selected(old, tracked, kept.excluded))
  <1>0. Rows /\ Lines
    BY DEF WorkspaceInv
  <1>1. /\ recovery \in Stages /\ ~Refuses(old, tracked, kept.excluded)
        /\ SetUp(s, tree, kept, lineage[recovery])
    BY <1>0 DEF Continue, Inherited, Rows
  <1>2. BoundTo(kept, old, lineage[recovery])
    BY <1>0, <1>1, WorkspaceAssumption DEF Lines
  <1>3. kept \in BaselineRow /\ lineage[recovery] \in LineRow /\ old \in Tree
    BY <1>0, <1>1, <1>2 DEF Rows, BoundTo
  <1>4. tree \in Tree /\ tracked \subseteq Paths
    BY <1>2, <1>3, ChosenTree, SnapshotShape DEF BoundTo
  <1>5. \A p \in tracked : tree.files[p] # "none" \/ p \in lineage[recovery].removed
    <2>1. ASSUME NEW p \in tracked, p \notin lineage[recovery].removed
          PROVE  tree.files[p] # "none"
      <3>1. p \in Paths /\ old.files[p] # "none"
        BY <1>2, <1>4, <2>1 DEF BoundTo
      <3>2. p \in Selected(old, tracked, kept.excluded)
        BY <1>1, <1>3, <3>1, SelectedPaths
      <3> QED
        BY <1>3, <3>1, <3>2, ChosenTree
    <2> QED
      BY <2>1
  <1>6. BoundTo(kept, tree, lineage[recovery])
    BY <1>2, <1>4, <1>5 DEF BoundTo
  <1> QED
    BY <1>1, <1>3, <1>4, <1>6, SetUpInv

LEMMA RememberBaselineInv ==
    ASSUME WorkspaceInv, RememberBaseline
    PROVE  WorkspaceInv'
  <1>0. Rows /\ Lines /\ Reviews /\ Reports
    BY DEF WorkspaceInv
  <1>1. /\ run.at = "remembering" /\ run \in RunRow
        /\ baselines' = [baselines EXCEPT ![run.stage] = run.selected]
        /\ run' = [run EXCEPT !.at = "running"]
        /\ UNCHANGED <<source, stages, recovery, lineage, reviewVars>>
    BY <1>0 DEF RememberBaseline, Rows, NoRun
  <1>2. /\ run.stage \in Stages /\ run.selected \in BaselineRow
        /\ run' \in RunRow /\ run'.at = "running" /\ run'.stage = run.stage
    BY <1>1 DEF RunRow
  <1>3. /\ baselines'[run.stage] = run.selected /\ ~baselines[run.stage].known
        /\ \A t \in Stages \ {run.stage} : baselines'[t] = baselines[t]
        /\ BoundTo(run.selected, stages[run.stage], lineage[run.stage])
    BY <1>0, <1>1, <1>2 DEF Rows, Lines
  <1>4. Rows'
    BY <1>0, <1>1, <1>2 DEF Rows
  <1>5. run.selected.known
    BY <1>3 DEF BoundTo
  <1>6. Lines'
    BY <1>0, <1>1, <1>2, <1>3, <1>5 DEF Lines, BoundTo, Rows
  <1>7. Reviews'
    BY <1>0, <1>1, <1>3, WorkKeepsReviews DEF reviewVars
  <1>8. Reports'
    BY <1>0, <1>1, ReportsStay DEF reviewVars
  <1> QED
    BY <1>4, <1>6, <1>7, <1>8 DEF WorkspaceInv

LEMMA EndRunInv ==
    ASSUME WorkspaceInv, EndRun \/ Abandon
    PROVE  WorkspaceInv'
  <1>0. Rows /\ Lines /\ Reviews /\ Reports
    BY DEF WorkspaceInv
  <1>1. /\ run' = NoRun
        /\ recovery' # recovery => run \in RunRow /\ run.at = "running" /\ recovery' = run.stage
        /\ UNCHANGED <<source, stages, baselines, lineage, reviewVars>>
    BY <1>0 DEF EndRun, Abandon, Rows, NoRun
  <1>2. Rows'
    BY <1>0, <1>1 DEF Rows, RunRow
  <1>3. Lines'
    BY <1>0, <1>1 DEF Lines, BoundTo, NoRun
  <1>4. Reviews'
    BY <1>0, <1>1, WorkKeepsReviews DEF reviewVars
  <1>5. Reports'
    BY <1>0, <1>1, ReportsStay DEF reviewVars
  <1> QED
    BY <1>2, <1>3, <1>4, <1>5 DEF WorkspaceInv

-----------------------------------------------------------------------------
(* Edits.                                                                  *)

\* The stage that is in use has a directory.
LEMMA StageInUse ==
    ASSUME WorkspaceInv, NEW s \in Stages, InUse(s)
    PROVE  stages[s] \in Tree
  BY WorkspaceAssumption DEF WorkspaceInv, Rows, Lines, BoundTo, InUse

\* A stage may change in any way that notes what is removed.
LEMMA StageChanges ==
    ASSUME WorkspaceInv, NEW s \in Stages, NEW tree \in Tree, NEW paths \in SUBSET Paths,
           stages' = [stages EXCEPT ![s] = tree],
           lineage' = Removed(s, paths),
           \A p \in Paths : stages[s].files[p] # "none" /\ tree.files[p] = "none" => p \in paths,
           UNCHANGED <<source, baselines, recovery, run, reviewVars>>
    PROVE  WorkspaceInv'
  <1>0. Rows /\ Lines /\ Reviews /\ Reports
    BY DEF WorkspaceInv
  <1>1. /\ lineage' \in [Stages -> LineRow]
        /\ lineage'[s].origin = lineage[s].origin
        /\ lineage'[s].removed = lineage[s].removed \cup paths
        /\ \A t \in Stages \ {s} : lineage'[t] = lineage[t]
    BY <1>0 DEF Rows, Removed, LineRow
  <1>2. stages'[s] = tree /\ \A t \in Stages \ {s} : stages'[t] = stages[t]
    BY <1>0 DEF Rows
  <1>3. Rows'
    BY <1>0, <1>1 DEF Rows
  <1>4. ASSUME NEW baseline, BoundTo(baseline, stages[s], lineage[s])
        PROVE  BoundTo(baseline, tree, lineage'[s])
    <2>1. Tracked(baseline.files) \subseteq Paths
      BY <1>4, SnapshotShape DEF BoundTo
    <2> QED
      BY <1>1, <1>4, <2>1 DEF BoundTo
  <1>5. \A t \in Stages : baselines'[t].known => BoundTo(baselines'[t], stages'[t], lineage'[t])
    BY <1>0, <1>1, <1>2, <1>4 DEF Lines
  <1>6. run'.at = "remembering" => BoundTo(run'.selected, stages'[run'.stage], lineage'[run'.stage])
    <2>1. run.at = "remembering" => run.stage \in Stages
      BY <1>0 DEF Rows, RunRow, NoRun
    <2> QED
      BY <1>0, <1>1, <1>2, <1>4, <2>1 DEF Lines
  <1>7. Lines'
    BY <1>0, <1>5, <1>6 DEF Lines, BoundTo
  <1>8. \A t \in Stages : lineage[t].removed \subseteq lineage'[t].removed
    BY <1>1
  <1>9. Reviews'
    BY <1>0, <1>8, WorkKeepsReviews DEF reviewVars
  <1>10. Reports'
    BY <1>0, ReportsStay DEF reviewVars
  <1> QED
    BY <1>3, <1>7, <1>9, <1>10 DEF WorkspaceInv

LEMMA NothingRemoved ==
    ASSUME Rows, NEW s \in Stages
    PROVE  lineage = Removed(s, {})
  <1>1. lineage[s] = [lineage[s] EXCEPT !.removed = lineage[s].removed \cup {}]
    BY DEF Rows, LineRow
  <1> QED
    BY <1>1 DEF Rows, Removed

LEMMA WriteStageInv ==
    ASSUME WorkspaceInv, NEW s \in Stages, NEW p \in Paths, NEW content \in Contents,
           WriteStage(s, p, content), UNCHANGED reviewVars
    PROVE  WorkspaceInv'
  <1> DEFINE tree == [stages[s] EXCEPT !.files = [stages[s].files EXCEPT ![p] = content]]
             paths == IF content = "none" THEN {p} ELSE {}
  <1>1. stages[s] \in Tree
    BY StageInUse DEF WriteStage
  <1>2. /\ tree \in Tree
        /\ \A q \in Paths : tree.files[q] = IF q = p THEN content ELSE stages[s].files[q]
    BY <1>1 DEF Tree
  <1>3. stages' = [stages EXCEPT ![s] = tree]
    BY DEF WriteStage
  <1>4. lineage' = Removed(s, paths)
    BY NothingRemoved DEF WriteStage, WorkspaceInv
  <1>5. UNCHANGED <<source, baselines, recovery, run, reviewVars>>
    BY DEF WriteStage
  <1>6. paths \in SUBSET Paths
    OBVIOUS
  <1>7. \A q \in Paths : stages[s].files[q] # "none" /\ tree.files[q] = "none" => q \in paths
    BY <1>2
  <1> HIDE DEF tree, paths
  <1> QED
    BY <1>2, <1>3, <1>4, <1>5, <1>6, <1>7, StageChanges

LEMMA WriteIgnoreInv ==
    ASSUME WorkspaceInv, NEW s \in Stages, NEW ignore \in SUBSET Paths,
           WriteIgnore(s, ignore), UNCHANGED reviewVars
    PROVE  WorkspaceInv'
  <1> DEFINE tree == [stages[s] EXCEPT !.ignore = ignore]
  <1>1. stages[s] \in Tree
    BY StageInUse DEF WriteIgnore
  <1>2. tree \in Tree /\ tree.files = stages[s].files
    BY <1>1 DEF Tree
  <1>3. stages' = [stages EXCEPT ![s] = tree]
    BY DEF WriteIgnore
  <1>4. lineage' = Removed(s, {})
    BY NothingRemoved DEF WriteIgnore, WorkspaceInv
  <1>5. UNCHANGED <<source, baselines, recovery, run, reviewVars>>
    BY DEF WriteIgnore
  <1>6. {} \in SUBSET Paths
    OBVIOUS
  <1>7. \A q \in Paths : stages[s].files[q] # "none" /\ tree.files[q] = "none" => q \in {}
    BY <1>2
  <1> HIDE DEF tree
  <1> QED
    BY <1>2, <1>3, <1>4, <1>5, <1>6, <1>7, StageChanges

\* What a container command removes is what it was given and left out.
LEMMA RunCommandInv ==
    ASSUME WorkspaceInv, NEW p \in Paths, NEW content \in Contents,
           NEW ignore \in SUBSET Paths, RunCommand(p, content, ignore), UNCHANGED reviewVars
    PROVE  WorkspaceInv'
  <1> DEFINE s == run.stage
             before == Selected(stages[s], {}, {})
             hidden == Present(stages[s]) \ before
             left == [files |-> [q \in Paths |->
                                   CASE q = p          -> content
                                     [] q \in before   -> stages[s].files[q]
                                     [] OTHER          -> "none"],
                      ignore |-> ignore]
             after == Selected(left, before, hidden)
             tree == [files |-> [q \in Paths |->
                                   CASE q \in after          -> left.files[q]
                                     [] q \in before \ after -> "none"
                                     [] OTHER                -> stages[s].files[q]],
                      ignore |-> ignore]
             gone == {q \in before : left.files[q] = "none"}
  <1>1. /\ run.at = "running" /\ ~Refuses(left, before, hidden)
        /\ stages' = [stages EXCEPT ![s] = tree] /\ lineage' = Removed(s, gone)
        /\ UNCHANGED <<source, baselines, recovery, run, reviewVars>>
    BY DEF RunCommand, Candidate
  <1>2. s \in Stages
    BY <1>1 DEF WorkspaceInv, Rows, RunRow, NoRun
  <1>3. stages[s] \in Tree
    BY <1>1, <1>2, StageInUse DEF InUse, NoRun
  <1>4. before \in SUBSET Paths
    BY <1>3, SelectedPaths
  <1>5. left \in Tree
    <2>1. \A q \in Paths : left.files[q] \in Contents
      BY <1>3 DEF Tree, Contents
    <2> QED
      BY <2>1 DEF Tree
  <1>6. /\ after \in SUBSET Paths /\ \A q \in after : left.files[q] # "none"
        /\ \A q \in before : left.files[q] # "none" => q \in after
    BY <1>1, <1>4, <1>5, SelectedPaths
  <1>7. tree \in Tree
    <2>1. \A q \in Paths : tree.files[q] \in Contents
      BY <1>3, <1>5 DEF Tree, Contents
    <2> QED
      BY <2>1 DEF Tree
  <1>8. \A q \in Paths : stages[s].files[q] # "none" /\ tree.files[q] = "none" => q \in gone
    BY <1>6
  <1>9. gone \in SUBSET Paths
    BY <1>4
  <1> QED
    BY <1>1, <1>2, <1>7, <1>8, <1>9, StageChanges

\* The source and the contract are nobody's part of the invariant.
LEMMA ElsewhereInv ==
    ASSUME WorkspaceInv, source' \in Tree,
           UNCHANGED <<stages, baselines, recovery, run, lineage, reviewVars>>
    PROVE  WorkspaceInv'
  <1>0. Rows /\ Lines /\ Reviews /\ Reports
    BY DEF WorkspaceInv
  <1>1. Rows' /\ Lines'
    BY <1>0 DEF Rows, Lines, BoundTo
  <1>2. Reviews'
    BY <1>0, WorkKeepsReviews DEF reviewVars
  <1>3. Reports'
    BY <1>0, ReportsStay DEF reviewVars
  <1> QED
    BY <1>1, <1>2, <1>3 DEF WorkspaceInv

LEMMA EditInv ==
    ASSUME WorkspaceInv, Edit
    PROVE  WorkspaceInv'
  <1>1. UNCHANGED reviewVars /\ source \in Tree
    BY DEF Edit, WorkspaceInv, Rows
  <1>2. CASE \E s \in Stages, p \in Paths, content \in Contents \ {"one"} :
                WriteStage(s, p, content)
    BY <1>1, <1>2, WriteStageInv
  <1>3. CASE \E s \in Stages, ignore \in SUBSET Paths : WriteIgnore(s, ignore)
    BY <1>1, <1>3, WriteIgnoreInv
  <1>4. CASE \E p \in Paths, content \in {"two", "none"}, ignore \in SUBSET Paths :
                RunCommand(p, content, ignore)
    BY <1>1, <1>4, RunCommandInv DEF Contents, Text
  <1>5. CASE \E p \in Paths, content \in {"two", "link", "none"} : EditSource(p, content)
    <2>1. PICK p \in Paths, content \in {"two", "link", "none"} : EditSource(p, content)
      BY <1>5
    <2>2. source' \in Tree
      BY <1>1, <2>1 DEF EditSource, Tree, Contents, Text
    <2> QED
      BY <1>1, <2>1, <2>2, ElsewhereInv DEF EditSource
  <1>6. CASE ChangeContract
    BY <1>1, <1>6, ElsewhereInv DEF ChangeContract
  <1> QED
    BY <1>2, <1>3, <1>4, <1>5, <1>6 DEF Edit

-----------------------------------------------------------------------------
(* Review and export.                                                      *)

\* Only the review, the reports and the output have to be looked at.
LEMMA WorkStays ==
    ASSUME Rows, Lines, UNCHANGED workVars
    PROVE  Rows' /\ Lines'
  BY DEF workVars, Rows, Lines, BoundTo

\* A review that is given up.
LEMMA GivenUp ==
    ASSUME review' = NoReview
    PROVE  Reviews'
  BY DEF Reviews, NoReview, MatchingPatchApplies

LEMMA BeginReviewInv ==
    ASSUME WorkspaceInv, NEW named, NEW format, BeginReview(named, format),
           named # {} => \E x \in shown : named = {x.id}
    PROVE  WorkspaceInv'
  <1> DEFINE tree == stages[recovery]
             baseline == baselines[recovery]
             tracked == Tracked(baseline.files)
             found == Selected(tree, tracked, baseline.excluded)
  <1>0. Rows /\ Lines /\ Reviews /\ Reports
    BY DEF WorkspaceInv
  <1>1. /\ recovery \in Stages /\ baseline.known
        /\ ~Refuses(tree, tracked, baseline.excluded)
        /\ review' = [at |-> "read", named |-> named, format |-> format,
                      stage |-> recovery, baseline |-> baseline, found |-> found]
        /\ UNCHANGED <<workVars, shown, output>>
    BY <1>0 DEF BeginReview, Rows
  <1>2. BoundTo(baseline, tree, lineage[recovery])
    BY <1>0, <1>1 DEF Lines
  <1>3. tracked \subseteq Paths /\ tree \in Tree
    BY <1>2, SnapshotShape DEF BoundTo
  <1>4. /\ found \in SUBSET Paths
        /\ \A p \in found : p \in tracked \/ p \notin Generated
        /\ \A p \in tracked : p \in found \/ p \in lineage[recovery].removed
    BY <1>1, <1>2, <1>3, SelectedPaths DEF BoundTo
  <1>5. Covers(found, baseline, lineage[recovery].removed)
    BY <1>4 DEF Covers
  <1>6. /\ review'.at = "read" /\ review'.named = named /\ review'.stage = recovery
        /\ review'.baseline = baseline /\ review'.found = found
        /\ UNCHANGED <<baselines, lineage, shown>>
    BY <1>1 DEF workVars
  <1>7. Asked(review)'
    BY <1>1, <1>6 DEF Asked
  <1>8. Reviews'
    BY <1>4, <1>5, <1>6, <1>7 DEF Reviews, MatchingPatchApplies, Covers
  <1>9. Reports'
    BY <1>0, <1>1, ReportsStay
  <1> QED
    BY <1>0, <1>1, <1>8, <1>9, WorkStays DEF WorkspaceInv

LEMMA ReadInv ==
    ASSUME WorkspaceInv, Read
    PROVE  WorkspaceInv'
  <1> DEFINE tree == stages[review.stage]
             after == Snapshot(tree, review.found)
             changes == Changes(review.baseline.files, after)
             removed == lineage[review.stage].removed \ review.found
  <1>0. Rows /\ Lines /\ Reviews /\ Reports
    BY DEF WorkspaceInv
  <1>1. review.at = "read" /\ UNCHANGED <<workVars, shown, output>>
    BY DEF Read
  <1>2. /\ review.found \in SUBSET Paths /\ Asked(review)
        /\ Covers(review.found, review.baseline, lineage[review.stage].removed)
    BY <1>0, <1>1 DEF Reviews
  <1>3. tree \in Tree
    BY <1>0, <1>2 DEF Asked, Lines, BoundTo
  <1>4. CASE review' = NoReview
    BY <1>0, <1>1, <1>4, GivenUp, ReportsStay, WorkStays DEF WorkspaceInv
  <1>5. CASE /\ \A p \in review.found : tree.files[p] \notin {"none", "link"}
             /\ review' = [at |-> "source", named |-> review.named, format |-> review.format,
                           stage |-> review.stage, baseline |-> review.baseline,
                           after |-> after, changes |-> changes, removed |-> removed]
    <2>1. after \in Snapshots /\ Tracked(after) = review.found
      BY <1>2, <1>3, <1>5, SnapshotTaken
    <2>2. Covers(Tracked(after), review.baseline, removed)
      BY <1>2, <2>1 DEF Covers
    <2>3. /\ review'.at = "source" /\ review'.named = review.named
          /\ review'.stage = review.stage /\ review'.baseline = review.baseline
          /\ review'.after = after /\ review'.changes = changes /\ review'.removed = removed
          /\ UNCHANGED <<baselines, shown>>
      BY <1>1, <1>5 DEF workVars
    <2>4. Asked(review)'
      BY <1>2, <2>3 DEF Asked
    <2>5. Reviews'
      BY <2>1, <2>2, <2>3, <2>4 DEF Reviews, MatchingPatchApplies, Covers
    <2> QED
      BY <1>0, <1>1, <2>5, ReportsStay, WorkStays DEF WorkspaceInv
  <1> QED
    BY <1>4, <1>5 DEF Read

\* A source that matches has at every changed path what the change starts from.
LEMMA MatchingSource ==
    ASSUME Rows, Reviews, review.at = "source", SourceStatus(review) = "matching",
           NEW c \in review.changes
    PROVE  c.path \in PathsOf(review.changes) /\ source.files[c.path] = c.before
  <1> DEFINE base == review.baseline.files
             current == CurrentSource(review)
             p == c.path
  <1>1. /\ review.changes = Changes(base, review.after)
        /\ review.after \in Snapshots /\ Covers(Tracked(review.after), review.baseline, review.removed)
    BY DEF Reviews
  <1>2. /\ p \in Paths /\ c.before = At(base, p) /\ At(base, p) # At(review.after, p)
        /\ p \in PathsOf(review.changes)
    BY <1>1 DEF Changes, PathsOf
  <1>3. At(base, p) = At(current, p)
    <2>1. Unchanged(base, current)
      BY DEF SourceStatus
    <2> QED
      BY <1>2, <2>1 DEF Unchanged, Changes
  <1>4. p \in Tracked(base) \/ p \notin Generated
    <2>1. ASSUME p \notin Tracked(base)
          PROVE  p \in Tracked(review.after)
      BY <1>2, <2>1 DEF At, Tracked
    <2> QED
      BY <1>1, <2>1 DEF Covers
  <1>5. CASE p \in Present(source)
    <2>1. p \in Tracked(current) /\ current.files[p] = source.files[p]
      BY <1>2, <1>4, <1>5 DEF CurrentSource, Considered, Snapshot, Restrict, Tracked
    <2> QED
      BY <1>2, <1>3, <2>1 DEF At, Tracked
  <1>6. CASE p \notin Present(source)
    <2>1. source.files[p] = "none"
      BY <1>2, <1>6 DEF Present
    <2>2. p \notin Tracked(current)
      BY <1>6 DEF CurrentSource, Snapshot, Restrict, Tracked
    <2> QED
      BY <1>2, <1>3, <2>1, <2>2 DEF At, Tracked
  <1> QED
    BY <1>2, <1>5, <1>6

LEMMA LookAtSourceInv ==
    ASSUME WorkspaceInv, LookAtSource
    PROVE  WorkspaceInv'
  <1>0. Rows /\ Lines /\ Reviews /\ Reports
    BY DEF WorkspaceInv
  <1>1. /\ review.at = "source" /\ UNCHANGED <<workVars, shown, output>>
        /\ review'.at = "goal" /\ review'.named = review.named
        /\ review'.stage = review.stage /\ review'.baseline = review.baseline
        /\ review'.after = review.after /\ review'.changes = review.changes
        /\ review'.removed = review.removed /\ review'.status = SourceStatus(review)
        /\ review'.seen = Restrict(source.files, PathsOf(review.changes))
    BY DEF LookAtSource
  <1>2. Asked(review)'
    BY <1>0, <1>1 DEF Reviews, Asked, workVars
  <1>3. MatchingPatchApplies'
    BY <1>0, <1>1, MatchingSource DEF MatchingPatchApplies, Restrict
  <1>4. Reviews'
    BY <1>0, <1>1, <1>2, <1>3 DEF Reviews, Covers
  <1>5. Reports'
    BY <1>0, <1>1, ReportsStay
  <1> QED
    BY <1>0, <1>1, <1>4, <1>5, WorkStays DEF WorkspaceInv

LEMMA ReportDescribed ==
    ASSUME Reviews, review.at = "goal"
    PROVE  Describes(Report(review))
  BY DEF Reviews, Describes, Report, Identity

LEMMA FinishReviewInv ==
    ASSUME WorkspaceInv, FinishReview
    PROVE  WorkspaceInv'
  <1>0. Rows /\ Lines /\ Reviews /\ Reports
    BY DEF WorkspaceInv
  <1>1. /\ review.at = "goal" /\ review' = NoReview /\ UNCHANGED <<workVars, output>>
        /\ shown' = shown \cup {Report(review)}
    BY DEF FinishReview
  <1>2. \A x \in shown' : Describes(x)
    BY <1>0, <1>1, ReportDescribed DEF Reports
  <1>3. ExportIsReviewed'
    BY <1>0, <1>1 DEF Reports, ExportIsReviewed
  <1>4. Reports'
    BY <1>2, <1>3 DEF Reports, Describes, Changes, At
  <1> QED
    BY <1>0, <1>1, <1>4, GivenUp, WorkStays DEF WorkspaceInv

\* The identity that was named is that of a report which was shown, and the
\* same identity is the same content.
LEMMA FinishExportInv ==
    ASSUME WorkspaceInv, FinishExport
    PROVE  WorkspaceInv'
  <1>0. Rows /\ Lines /\ Reviews /\ Reports
    BY DEF WorkspaceInv
  <1>1. /\ review.at = "goal" /\ review.named # {} /\ review' = NoReview
        /\ UNCHANGED <<workVars, shown>>
    BY DEF FinishExport
  <1>2. CASE output' = output
    BY <1>0, <1>1, <1>2, GivenUp, ReportsStay, WorkStays DEF WorkspaceInv
  <1>3. CASE /\ review.named = {Identity(review)}
             /\ output' = [kind |-> "export", format |-> review.format,
                           report |-> Report(review)]
    <2>1. PICK x \in shown : x.id = Report(review).id
      BY <1>0, <1>1, <1>3 DEF Reviews, Asked, Report
    <2>2. Describes(x) /\ Describes(Report(review))
      BY <1>0, <1>1, ReportDescribed DEF Reports
    <2>3. /\ x.after = Report(review).after /\ x.changes = Report(review).changes
          /\ x.stage = Report(review).stage /\ x.contract = Report(review).contract
          /\ x.status = Report(review).status
      BY <2>1, <2>2 DEF Describes
    <2>4. ExportIsReviewed'
      BY <1>1, <1>3, <2>3 DEF ExportIsReviewed
    <2>5. Reports'
      BY <1>0, <1>1, <2>4 DEF Reports, Describes, Changes, At
    <2> QED
      BY <1>0, <1>1, <2>5, GivenUp, WorkStays DEF WorkspaceInv
  <1> QED
    BY <1>1, <1>2, <1>3 DEF FinishExport

-----------------------------------------------------------------------------
(* The theorems.                                                           *)

LEMMA InitWorkspace ==
    ASSUME WorkspaceInit
    PROVE  WorkspaceInv
  <1>1. NoBaseline \in BaselineRow /\ [origin |-> NoFiles, removed |-> {}] \in LineRow
    BY DEF NoBaseline, BaselineRow, LineRow
  <1>2. Rows
    BY <1>1 DEF WorkspaceInit, Rows
  <1>3. Lines
    BY DEF WorkspaceInit, Lines, NoBaseline, NoRun
  <1>4. Reviews /\ Reports
    BY DEF WorkspaceInit, Reviews, Reports, NoReview, MatchingPatchApplies, ExportIsReviewed
  <1> QED
    BY <1>2, <1>3, <1>4 DEF WorkspaceInv

LEMMA NextWorkspace ==
    ASSUME WorkspaceInv, [WorkspaceNext]_workspaceVars
    PROVE  WorkspaceInv'
  <1>1. CASE UNCHANGED workspaceVars
    BY <1>1, ElsewhereInv DEF workspaceVars, workVars, WorkspaceInv, Rows
  <1>2. CASE \E s \in Stages : SelectSource(s) \/ SelectNothing(s) \/ Continue(s)
    BY <1>2, SelectionsInv, ContinueInv
  <1>3. CASE \E s \in Stages, p \in Paths : SelectArtifact(s, p)
    BY <1>3, SelectionsInv
  <1>4. CASE RememberBaseline \/ EndRun \/ Abandon \/ Edit
    BY <1>4, RememberBaselineInv, EndRunInv, EditInv
  <1>5. CASE BeginReview({}, "patch")
    BY <1>5, BeginReviewInv
  <1>6. CASE \E r \in shown, format \in Formats : BeginReview({r.id}, format)
    BY <1>6, BeginReviewInv
  <1>7. CASE Read \/ LookAtSource \/ FinishReview \/ FinishExport
    BY <1>7, ReadInv, LookAtSourceInv, FinishReviewInv, FinishExportInv
  <1> QED
    BY <1>1, <1>2, <1>3, <1>4, <1>5, <1>6, <1>7 DEF WorkspaceNext

\* The inductive invariant of selections, stages, reviews and exports.
THEOREM WorkspaceInvariant == WorkspaceSpec => []WorkspaceInv
  <1>1. WorkspaceInit => WorkspaceInv
    BY InitWorkspace
  <1>2. WorkspaceInv /\ [WorkspaceNext]_workspaceVars => WorkspaceInv'
    BY NextWorkspace
  <1> QED
    BY <1>1, <1>2, PTL DEF WorkspaceSpec

\* What is exported was shown to the human (export_changes compares only the
\* identity of the review).
THEOREM ExportIsReviewedHolds == WorkspaceSpec => []ExportIsReviewed
  <1>1. WorkspaceInv => ExportIsReviewed
    BY DEF WorkspaceInv, Reports
  <1> QED
    BY <1>1, WorkspaceInvariant, PTL

\* A review proposes to delete only what was removed in this line of stages.
THEOREM DeletionsWereMadeHolds == WorkspaceSpec => []DeletionsWereMade
  <1>1. WorkspaceInv => DeletionsWereMade
    <2> SUFFICES ASSUME WorkspaceInv, review.at \in {"source", "goal"},
                        NEW c \in review.changes, c.after = "none"
                 PROVE  c.path \in review.removed
      BY DEF DeletionsWereMade
    <2>1. /\ review.after \in Snapshots
          /\ review.changes = Changes(review.baseline.files, review.after)
          /\ Covers(Tracked(review.after), review.baseline, review.removed)
      BY DEF WorkspaceInv, Reviews
    <2>2. /\ At(review.after, c.path) = "none"
          /\ At(review.baseline.files, c.path) # "none"
      BY <2>1 DEF Changes
    <2>3. c.path \notin Tracked(review.after)
      BY <2>1, <2>2, SnapshotShape DEF Readable
    <2>4. c.path \in Tracked(review.baseline.files)
      BY <2>2 DEF At, Tracked
    <2> QED
      BY <2>1, <2>3, <2>4 DEF Covers
  <1> QED
    BY <1>1, WorkspaceInvariant, PTL

\* Every stage of a line is compared with what was selected first.
THEOREM BaselineIsFirstSelectionHolds == WorkspaceSpec => []BaselineIsFirstSelection
  <1>1. WorkspaceInv => BaselineIsFirstSelection
    BY DEF WorkspaceInv, Lines, BoundTo, BaselineIsFirstSelection
  <1> QED
    BY <1>1, WorkspaceInvariant, PTL

\* A change that is said to match applies to the source as it was seen.
THEOREM MatchingPatchAppliesHolds == WorkspaceSpec => []MatchingPatchApplies
  <1>1. WorkspaceInv => MatchingPatchApplies
    BY DEF WorkspaceInv, Reviews
  <1> QED
    BY <1>1, WorkspaceInvariant, PTL
=============================================================================
