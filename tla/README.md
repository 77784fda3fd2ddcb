# A verification of goal-native

goal-native keeps human goals in a local SQLite store, lets an agent process
work on them under fenced authority, and delivers results only through an
effect gateway. This directory holds TLA+ models of its core, the TLC
configurations that check them on small instances, and TLAPS proofs. Paths
like `store.py:1110` mean `src/goal_native/store.py`, line 1110.

## 1. Inventory of the system

| component | state it keeps | operations | interacts with |
|---|---|---|---|
| authority core (`store.py`) | goals with three counters (`revision`, `input_version`, `authority_version`), a status and `effects_allowed`; assignments and invocations with copies of the counters | `create_goal`, `request`, `pause_for_interruption`, `reopen_for_run`, `revise`, `assign`, `invoke`, `finish` | everything below compares its copies with these counters |
| effect gateway (`store.py`) | artifacts, evidence, effects, destinations, `destination_history`, acceptances | `artifact`, `verify`, `prepare_effect`, `approve`, `commit`, `reconcile`, `accept` | authority core (freshness of the invocation a product came from) |
| run ledger (`store.py`) | `run_attempts`, `local_stages` | `start_run`, `record_run_admission`, `bind_run_invocation`, `finish_run`, `remember_local_stage` | authority core; worker |
| goal hierarchy and links (`store.py`) | `goals.parent_id`, `goal_links` | `create_goal`, `move_goal`, `link_goal` | none of the fences |
| portable record (`store.py`) | none (a JSON value) | `export`, `import_data` | all tables |
| worker (`worker.py`) | the identities, fence and cancel event of one run | `run`, `cancel`, the RPC and event handlers | store (one transaction per step), bridge |
| bridge supervisor (`worker.py` `PiBridge`) | child process, two pipes, deadline, cancel flag | `run`, `cancel` | agent process, worker callbacks |
| agent process (`bridge/agent.mjs`) | pending RPCs, one active run | messages `run`, `cancel`, `rpc_result` | bridge supervisor |
| command line (`cli.py`) | one run at a time, its stage directory | `_run_existing`, `_fence_interrupted_run`, `_human_artifact`, `_chat` | worker, store, sandbox |
| web server (`server.py`) | job table behind one lock, a thread per job | `start`, `cancel`, `status`, `manual_draft`, one route per other store method | worker, store |
| stage files (`sandbox.py`, `container_runner.py`) | a private directory per run, one command at a time | `read`, `write`, `edit`, `discover`, `search`, `regex_search`, `run`, `command`, `cancel`, `close` | worker tools |
| workspace review (`workspace.py`) | baseline snapshots | selection, review, export of what was reviewed | store, stage files |
| context budget (`context.py`) | none | `admit`, `compile_context` | worker |
| terminal (`tui.py`, `bridge/terminal.mjs`) | renderer process, two pipes, armed run | arm, send, watch; submit, interrupt, close | command line |
| evaluation, language tools, bootstrap | none between calls | benchmarks, subprocess calls | none |

What is hard about it:

* **Several controllers, one store.** The server, any number of command lines
  and the threads of the server open the same database. A store method is one
  `BEGIN IMMEDIATE` transaction, but a run is some ten of them, and everybody
  else acts in between.
* **Copied authority.** Nothing is locked for the time of a run. An assignment
  copies the goal's counters, an invocation copies them again, a worker keeps
  a third copy; every check compares a copy with the present.
* **Lost responses and late calls.** A commit may be executed and its answer
  lost; approve, commit, reconcile and finish may be repeated at any time.
* **Interruptions.** Ctrl-C, a cancel from another thread, a deadline, a
  refused transaction in the middle of error handling, and process death. A
  draft written by hand is four transactions that may break off anywhere.
* **Records that outlive the program.** The store is exported in any state and
  imported elsewhere, where old rows must not carry authority.

What makes each component correct is stated next to its module below.

## 2. Modules

```
GoalAuthority ──┬── EffectGateway ──(refines)── CommitPromise
                └── RunLedger ──(refined by)─── WorkerRun
ServerRun      BridgeSession      TerminalLoss       (composed by MCSessions)
GoalHierarchy  StageEdit  StageSearch  ContextBudget (composed by MCParts)
StagedExecution      WorkspaceReview
```

`GoalAuthority`, `EffectGateway`, `RunLedger`, `WorkerRun`, `BridgeSession`,
`StagedExecution` and `WorkspaceReview` each have a module `...Proofs` with
their theorems; those of `GoalHierarchy`, `ServerRun`, `StageSearch`,
`ContextBudget` and `StageEdit`, which share nothing with anybody, are in
`PartsProofs`, one section each. The proofs follow the composition: `EffectGatewayProofs` and
`RunLedgerProofs` extend `GoalAuthorityProofs`, and `WorkerRunProofs` extends
`RunLedgerProofs`.

Modules on one line of the picture share no variable with each other.
`WorkerRun` composes the authority core with the ledger; `BridgeSession` is
one service of `WorkerRun` from inside, `StagedExecution` one of its tool
calls, `TerminalLoss` the process around it. `MCSessions` and `MCParts` choose
one part in the initial state and let only that part step: they check several
independent modules in one run.

### GoalAuthority

The three tables of the authority core as functions from identities to rows.
A method that raises rolls back, so it is an action that is not enabled; a
method that returns a row as it is takes no step. `Request`, `Revise`,
`PauseForInterruption`, `ReopenForRun`, `Assign`, `Invoke` and `Finish` are
those methods; `ImportAuthority` is `export` followed by `import_data`.
`Fresh` is `_assert_invocation_fresh`.

* `OneActiveAssignment`: a replacement fences its predecessor.
* `SnapshotsInherited`: copies are bound to an existing goal, never ahead of
  it, and an invocation carries exactly the copy of its assignment.
* `CurrentIsRunnable`: `start_run` compares counters and never looks at the
  status; a stopped goal is safe from it only because every way of stopping a
  goal advances a counter, and because no assignment is made while it is
  stopped.
* `AuthorityEpoch`: what a goal permits changes only together with
  `authority_version`, as long as an assignment is live.
* `StaleForever`: a lost authority never comes back.
* `CancelIsFinal`: a cancelled goal gets no new work and never changes.

### EffectGateway and CommitPromise

The rest of what decides about deliveries. An effect is one proposed change of
one destination, prepared from an artifact and a piece of evidence; `Permitted`
is `_effect_context`. A commit is a compare-and-set of the destination's
version, the history row and the effect's state in one transaction, and its
answer may be lost (`lose_response`), which leaves the effect `unresolved`.
`Importable` is `import_data`'s list of conditions, table by table.

`CommitPromise` is what a user may rely on, with goals, evidence and authority
left out: an offer is open, void or delivered; void is final; a delivery takes
the next place at its target and voids every other open offer for it; doubt
exists only about deliveries that happened. `KeepsPromise` is the refinement:
`Promise == INSTANCE CommitPromise WITH ...`.

* `HistoryExplainsDestination`: the history of a target is gapless, has one
  operation per version, and its last row is what the destination shows.
* `DeliveredIsRecorded`: delivered exactly when recorded, so reconciliation
  finds what it looks for.
* `KeepsPromise` includes that a proposal which is no longer permitted never
  becomes permitted again (`effects_allowed` is granted by advancing a counter,
  so the grant itself voids what was prepared before it).
* `ImportAccepts`: every store that can arise has a record that `import_data`
  accepts.

### RunLedger

`run_attempts` in the order of its rows, and `local_stages`. The module has no
run of its own: `WorkerRun` calls its operations in the order the code does.

* `RunsAreBound`: attempts, invocations and recovery references belong to
  assignments of the same goal.
* `RecoveryMovesForward`: the docstring of `remember_local_stage`, "without
  letting a replaced run move recovery back".

### WorkerRun

Any number of controller processes, each executing `Worker._run_once` inside
`cli.py` `_run_existing`, as a program of store transactions. `pc` names the
next one; between any two of them the other controllers and the human act.
While it serves, the messages of the agent are the environment's choice.
Refusals, the end of a run by result, error, cancellation or deadline, the
Ctrl-C handler row by row, and process death are modelled. The store may be
exported and imported between any two steps (`MoveStore`); nobody goes on with
what was running then.

A draft written by hand (`cli.py` `_human_artifact`, `server.py`
`manual_draft`) is a small controller of its own, of four transactions without a
finally clause: `AssignDraft`, `InvokeDraft`, the artifact, which no fence guards
and which changes nothing here, and `FinishDraft`. `drafting` and `writing` say
where a draft is; `DropDraft` is one that ends before its invoke,
`AbandonDraft` one that ends after it, because the artifact is refused or a
Ctrl-C comes. `abandoned` only observes: the invocations whose own owner ended
without finishing them.

* `ContextMatchesInvocation`: the model is shown a context of exactly the
  versions its invocation is recorded under, although the two are read and
  written by different transactions.
* `InvocationsHaveOwners`: each running invocation is the unfinished current one
  of a controller that serves or ends, or of a draft between its invoke and its
  finish. The exceptions are `abandoned`: its own process died, its own Ctrl-C
  handler gave up, its own draft broke off, or the store was moved. No
  replacement, fence, refusal or end of somebody else leaves one running.
* `RunsEnd` (liveness): every attempt is recorded as ended.
* `CtrlCRecordsPause` is violated, see the findings.

### ServerRun

`LocalRunner`: the job table, the lock, one thread per job, and of the worker
what the server can tell: the cancel event, the admission of RPCs, the outcome.

* `OneRunPerGoal`: no two threads inside a run of one goal, also when one of
  them is cancelled slowly.
* `JobsSettle` (liveness): every job leaves the active states, or its goal
  could never be run again.
* `CancelRejectsLaterRpcs` is violated, see the findings.

### BridgeSession

One service of `WorkerRun` seen from inside: `PiBridge._run_once` with
`Worker._rpc` and `Worker._event` at one end of two pipes, `bridge/agent.mjs`
at the other. `sup` is where the supervisor's loop is, `agent.at` where the
agent is; a pipe is a queue of lines. The pi SDK in the agent process is
external: it is the agent's next step through the hooks that `agent.mjs` gives
it, and what those hooks leave open (a failure with or without events, when an
abort is noticed, how many tools are called) is left open. A cancellation, the
deadline, a goal fenced by somebody else, the death of either process and the
end of the agent's input come at any time. The store may refuse to finish the
invocation at a `turn_end`, because another controller has cancelled it
(`ReadEvent`): the receipt is written then, and the run fails. A tool outside
the loadout is blocked without an RPC and may end the run (`BlockTool`); a
message cut off at its length stops like one that is complete.

* `CaptureIsFaithful`: every event is captured once, in order, and under the
  invocation the agent was in, the events before the first admission included.
* `NoSpuriousRefusal`: no interleaving makes the controller take its own agent
  for one that breaks the protocol.
* `FinishedMeansDone`: `finished` hides no cancellation, no refused budget, no
  open round.
* `SessionEnds` (liveness): a run ends and takes its process with it whatever
  the agent does, and an orphaned agent ends by itself.

### StagedExecution

What a tool call that executes code does on the stage, in both profiles. With
the `python` profile, `Sandbox.run` and the regex helper share one slot
(`slot`: `_run_active`, `_active`, `_cancel_requested`); with the `docker`
profile, `ContainerRuntime.command` (`box`) snapshots the stage, starts a
container whose supervisor (`sup`, `runtime/Dockerfile`) runs the command,
reads its receipt, compares the stage with the snapshot and publishes the
candidate file by file. A cancellation comes from another thread (`canceller`
walks through `Worker.cancel`: `Sandbox.cancel`, the kill, then
`ContainerRuntime.cancel`) or as a Ctrl-C that unwinds the caller. The stage is
a tree of four paths: `d` is a file or a directory, `f`, `g` and `x` are files
in it, and `x` is ignored by every snapshot.

* `PublicationIsExact`: a receipt says `published` exactly when the stage is
  the candidate, although the order of removals and writes has to make room
  for files that become directories and the reverse; and no change of somebody
  else was overwritten. The promise is relative to the compare: `Tamper`
  changes the stage between the snapshot and the compare. Between the compare
  and the last replacement nothing protects it (`docs/API.md:97-98` says that
  an update is not one transaction).
* `CancelReachesTask`: a cancellation that meets a reserved slot is never lost.
* `ReceiptTellsCancellation`: nor is it hidden from the model, or invented.
* `ContainerCancelIsFinal`: no container starts after `Worker.cancel`.
* `CallsEnd` (liveness): a call ends and takes its process with it, whatever
  the process does.
* `CancelTerminatesExecution` is violated, see the findings.

### WorkspaceReview

From a selected source directory to an exported change: `snapshot_directory`
with its exclusions, ignore rules and refusals, the stage of every run
(selected, continued from the recovery reference, or empty), the baselines in
the store, container commands, and a review and an export as the steps between
which the human, a run or the source can change something. A tree is a
function from paths to contents with the set of paths its `.gitignore` files
ignore. `lineage` observes what was first selected and what was really removed.

* `ExportIsReviewed`: what is exported was shown, under the contract and the
  state of the source it was shown under, although only a hash is compared.
* `DeletionsWereMade`: no ignore rule, exclusion, command or continuation makes
  a file look deleted that was not.
* `BaselineIsFirstSelection`: a line of continued stages is compared with its
  first selection.
* `MatchingPatchApplies`: `matching` means that the change applies.

### GoalHierarchy

`create_goal` with a parent, `move_goal`, `link_goal` and the import of both.
The ancestor walk is the least set that contains the new parent and, with a
goal, its parent (`Walk`); the walk ends if it has a goal without a parent.
That is what the loop with its `seen` set computes, and it needs no recursion.

* `HierarchyIsForest`: no order of moves, creations and imports makes a cycle.

### StageEdit

One file and the tools that read, write and edit it, while a script that
outlived its call or the human writes to it. A text is a sequence of
characters. `Spans`, `Overlap` and `Rebuilt` are the loop of `Sandbox.edit`
over its edits, `VerifyEdit`, `CheckEdit` and `ReplaceFile` the three looks at
the file before and the replacement after it. The hash an edit is bound to is that
of the last read or the one an edit has answered (`EditAnswer`,
`docs/API.md:63`).

* `EditsMeanWhatWasRead`: the file becomes what all edits mean at once
  (`Simultaneous`, a definition by characters instead of by spans), in whatever
  order they came; a change by somebody else is overwritten only if it came
  after the last look; an edit of the lines a read has shown removes exactly
  what was shown.

### StageSearch

`discover`, `search` and `regex_search`: scan, stat and open are steps of
their own, between which the tree may change, then the opened files are read.

* `SearchTellsWhatItMissed`: a result that is not truncated and excludes
  nothing has every file (and every match) that was there all the time; and the
  limits hold although sizes change between the look and the opening.

### ContextBudget

`compile_context` over products, earlier invocations and receipts that have a
number of tokens, and the admission of every later request of the run.

* `ContextIsQualified`: a compiled context fits, has everything required, and
  shows no product without its recorded inputs and qualifications; a run is
  refused only if no closed choice of products that has the required ones fits
  (quantified over all of them, not over what the code tries); beyond the
  target there is nothing optional.

### TerminalLoss

The interactive session: Python's main thread (`chat`: where it is, so that a
`KeyboardInterrupt` knows where to unwind to), the flags of `PiTerminal`
(`ui`), the watcher thread, the Node process that owns the terminal, two pipes
and a pending SIGINT. The renderer can hang up, close or be killed at any time.

* `LossEndsSession` (liveness): once the renderer is gone the session ends,
  whoever of three notices it first, without waiting for the provider. There is
  one exception, stated in the property: `PiTerminal` interrupts once for a
  renderer's life, and if that was used up before a run began, the run goes on
  to its own end.
* `CtrlCStopsRun` is violated, see the findings.

## 3. Runs

| run | instance | what it shows |
|---|---|---|
| `goal_authority` | 1 goal, 3 assignments, 2 invocations, counters to 2/2/4 | all state and action properties of the core; 314,566 states |
| `effect_gateway` | 1 goal, 1 assignment, 1 invocation, 2 effects, 1 target, 2 pieces of evidence | gateway properties and the refinement; 60,186 states |
| `worker_run` | 2 controllers, 1 goal, 2 assignments, 1 invocation, handwritten drafts, 1 Ctrl-C, 1 death | safety of runs; 1,628,589 states |
| `worker_live` | the same without deaths | `RunsEnd`; 213,021 states |
| `worker_ctrl_c` | 2 controllers, 2 invocations, 1 Ctrl-C | violation of `CtrlCRecordsPause` |
| `server_cancel` | 2 jobs, 1 goal | violation of `CancelRejectsLaterRpcs` |
| `sessions` | bridge: 2 rounds, up to 2 tools each, 4 early events; server: 2 jobs, 2 goals; terminal: 2 submissions | the properties of `BridgeSession`, `ServerRun` and `TerminalLoss`; 169,762 states |
| `terminal_ctrl_c` | 1 submission | violation of `CtrlCStopsRun` |
| `workspace_review` | 2 paths, one generated; 2 stages, 2 edits, 1 report | the properties of `WorkspaceReview`; 3,130,868 states |
| `parts` | 4 goals; texts of two lines, 2 edits per call; a tree of 2 nested directories, 1 change; 3 products, 1 earlier invocation | the properties of `GoalHierarchy`, `StageEdit`, `StageSearch`, `ContextBudget`; 2,042,532 states |
| `staged_execution` | 2 tool calls, a thread that cancels and a Ctrl-C | the properties of `StagedExecution`; 572,294 states |
| `staged_ctrl_c` | 1 tool call, a Ctrl-C | violation of `CancelTerminatesExecution` |

Bounds, and why they suffice. Rows of different goals never meet in a guard
of the authority core, so one goal is enough there. Three assignments make a
predecessor, a successor and a third that replaces the successor; an authority
counter of 4 leaves room for a stop and a resumption after the creation, with
one more change. Two effects are the least that compete for a destination, and
two pieces of evidence the least that differ in what they prove. Two
controllers are the least that replace each other; they need one invocation
each only where the finding is about two of them. `MaxRevision`, `MaxInput`,
`MaxAuthority` cap the counters, `MaxEvidence` the evidence rows, `MaxRuns`
the run attempts, `MaxHuman` the counter up to which the human acts in
`WorkerRun` (so that a Ctrl-C handler always has room to pause),
`MaxInterrupts` and `MaxCrashes` the Ctrl-C and the deaths. Symmetry is used
for identities in the runs without liveness properties only. Two rounds are
the least that have a round which goes on and one that meets `MaxRounds`; two
tools (`MaxTools`) the least with something between two calls. The code keeps 32
events before the first admission and an agent emits four kinds of them in one
batch before it; `PendingLimit` is 4, what one run really needs.
Two tool calls (`MaxCalls`) make a write that leaves an ignored file behind and
a command that publishes around it, and a call that begins where a cancelled
one ended; four paths are the least with a file that turns into a directory of
two files and one file that no snapshot shows.

In `workspace_review` (`MaxEdits`, `MaxShown`) the second stage continues the
first, one path can be tracked or generated, and two edits are the least that
make and unmake a difference; a behaviour is followed to its first export
(`UntilExport`). In `parts` three goals are the least that make a cycle
through a goal which is not a child of the moved one, and the fourth moves a
subtree; `MaxLinks` is 1, since
links meet no guard. Texts have up to three characters and two lines
(`MaxLine`, `MaxColumn`), enough for two edits that touch, overlap or insert at
one place (`MaxEditCount`), and the file changes twice beside the tool
(`MaxStamp`). The tree meets each of the search limits and has one change
(`MaxChanges`), wherever it falls. `Sizes`, the two limits and the two targets
are chosen so that required work alone may exceed either, and bundles may fit
in part; the windows (`WorkWindow` and three more; 64, 2, 4 and 16 in the code)
are smaller than what there is to show. In `sessions` a first submission can
leave behind what disturbs the second (`MaxSubmits`).

`CHECK_DEADLOCK FALSE` stands in the runs of `WorkerRun`, `ServerRun`,
`StagedExecution`, `WorkspaceReview`, `TerminalLoss`, `MCSessions` and
`MCParts`: with all identities used and every controller idle, all jobs over,
the session, run or export ended or the bounds of a part reached, these systems
really have nothing more to do.

Fairness. `WorkerFairness`: a live controller executes its own next
transaction (weak fairness of `Proceed`), and a service ends (strong fairness
of `EndService`): `PiBridge._run_once` checks its deadline on every turn of its
loop (`worker.py:352`), a cancellation shortens it to two seconds, and tool
calls have timeouts of their own clipped to the rest of the run. Fairness says
nothing about the human, other controllers' beginnings, or the agent's
requests. `ServerFairness` is the same for threads; a lock is only held for
finite loops. `BridgeFairness`: the supervisor's loop goes on
(its `select` waits at most 0.1 s, and its handlers end), time passes, and an
agent whose controller is gone is scheduled by its system; nothing is assumed
of an agent that is supervised, which may hang anywhere.
`TerminalFairness`: the main thread and the watcher are scheduled; nothing is
assumed of the service of a run, which may wait for its provider, nor of the
renderer. The three stand together in `SessionsSpec`, where the fairness of a
part that was not chosen holds because none of its steps is enabled.
`LiveSpec` of `StagedExecution`: the calling thread and a cancelling thread go
on, deadlines pass, and so does the supervisor in a container; the script,
helper or command may run forever.

## 4. Proofs

`GoalAuthorityProofs` proves, for any sets of goals, assignments and
invocations and any bounds, `Spec => []P` for the type invariant and the three
state properties, and `AuthorityEpoch`, `StaleForever` and `CancelIsFinal` as
action properties. The only assumption is that the bounds are natural numbers
(`BoundsAssumption`).

The inductive invariant `AuthorityInv` is the conjunction of the four state
properties; `CurrentIsRunnable` is not inductive by itself. It survives a
stop because the stop advances a counter, and that makes every live
assignment of the goal stale only if none of them was ahead of it, which is
`SnapshotsInherited`. `GoalStepCases` reduces the five operations on a goal's
row to one fact about it (`GoalOnlyStep`: no counter goes back, a change of
permission advances the authority counter, a cancellation leaves no
permission), from which the invariants and `AuthorityEpoch` follow without
looking at the operations again.
`StaleForever` needs that counters never go back and that a fenced assignment
is never reactivated. `CancelIsFinal` needs one fact more, `CancelledIsBare`:
a cancelled goal has no effect authority left that an import could withdraw.

`PartsProofs` proves that the hierarchy is a forest, for any set of goals. `HierarchyIsForest` says of every non-empty set of goals that one of
them has its parent outside; so nobody has to follow a path. It is inductive
together with the types. A new goal is nobody's parent. A move could only
close a set that contains the moved goal and its new parent; such a set
contains the whole walk from the parent (`WalkStays`, because the walk is the
least closed set), hence the goal at which the walk ends, which has no parent.
An import is the same argument for the walk from each goal. The assumption is
that the null parent is no goal (`NoGoalAssumption`).

`EffectGatewayProofs` proves the four state properties of the gateway and the
refinement of `CommitPromise`, for any sets of goals, artifacts, effects and
targets. The invariant `GatewayInv` is their conjunction with `AuthorityInv`
and `Importable`; they hold each other up. A commit leaves no gap because an
undelivered operation has no history row (`DeliveredIsRecorded`); `Reconcile`
finds what it looks for because a destination names only recorded operations;
an import fits because snapshots are never ahead of their goal. For the
refinement, the one difficult fact is that a void offer stays void:
`PermittedBefore` shows that whatever is permitted after a step and existed
before it was permitted before it, by `StaleForever`'s argument about the
invocation and because a grant advances a counter. `KeepsPromiseHolds` has one
step per operation of the gateway; each is a step of the promise or a stutter.

`RunLedgerProofs` proves the types, `RunsAreBound` and `RecoveryMovesForward`.
`RunsAreBound` is inductive together with `AuthorityInv`, since no row of the
authority tables changes its owner (`Persistence`). Recovery moves forward
because `remember_local_stage` writes only for the live assignment, a goal has
one (`OneActiveAssignment`), and the reference names an assignment of its goal:
another one that it replaces must be fenced.

`WorkerRunProofs` proves that every behaviour of the controllers is one of the
ledger (`WorkersUseLedger`: `WorkerSpec => LedgerSpec`), so the ledger's
theorems hold of the program that uses it; and `WorkerTypeOK`,
`ContextMatchesInvocation` and `InvocationsHaveOwners` for any number of
controllers. `RowInv` ties the local state of one controller to the tables.
Between its transactions everybody else acts, so `RowStays` says once that
no step of another controller or of the human disturbs a row, because counters
never go back and rows keep their owners. The central argument: the fence that
a context was compiled under lies between the snapshot of the assignment and
the counters of the goal, hence when `invoke` finds those two equal, it equals
both. The input version is bounded in the model, and `InputsBounded` is part of
the invariant. `InvocationsHaveOwners` is inductive together with the rows:
whoever sets an invocation running holds it at once (`invocation` with `done`
false, or `writing`), only a finish of that row or the owner's own end lets go
of it, and an owner that ends without having finished it puts it in `abandoned`.

`PartsProofs` also proves `OneRunPerGoal`, for any number of jobs and goals.
`LocalRunner.start` looks at the job table, while the property is about
threads: a thread that has not recorded its outcome has an active job
(`JobOutlivesThread`), a cancellation keeps a job active, and the table has at
most one active job of a goal (`OneActiveJob`).

`StagedExecutionProofs` proves the three state properties beside the types, and
`ContainerCancelIsFinal`, for any number of calls. The invariant `StagedInv` has
six parts: `Shapes` (types), `Places` (which slot and supervisor exist where the
call is), `Flags` (who knows of a cancellation), `Processes` (whose process a
canceller is about to kill), `Receipts` (what the last receipt says is still
true) and `Publishing`. The last one carries `PublicationIsExact`: at each place
of the list of removals and writes the stage is what the steps before it make
of the snapshot (`Due`, `Halfway`), and the order of the list makes room
for the next write, unless an ignored file keeps a directory, which is the
refusal in the code. Lemmas about trees of four paths come first.

`WorkspaceReviewProofs` proves the four properties of the review, for any paths,
stages, edits and reviews. A stage is `BoundTo` a baseline when that is what
its line of stages selected first and every file of it is still there or was
removed; `Lines` says which stages are bound, `Reviews` what a review that is
under way knows, `Reports` that the hash determines what was shown. The
argument of `DeletionsWereMade` is `Covers`: the selection that a report
compares has every file of the baseline that exists, whatever ignore rules and
exclusions say by then, because tracked files are always selected. Assumed is
only the module's `WorkspaceAssumption`.

`BridgeSessionProofs` proves the four invariants of a session, for any number
of rounds and tools. Supervisor and agent share only two pipes, so `BridgeInv`
ties what one of them knows to what the other does through what is under way.
`Held` and `Flow`: what the controller recorded, then what it keeps until the
first admission, then the events in the pipe, are the numbers 1, 2, ... up to
what the agent has emitted; `CaptureIsFaithful` follows, and no assumption on
when the run breaks off is needed. `Calls` and `Orders`: there is at most one
RPC and it is in one place, hence an answer always meets an agent that waits for
it, and the invocations on both sides agree except for an admission under way;
`Turns` says that a turn which is over is finished in the store or has its
`turn_end` in the pipe, ahead of the next request. From these comes
`NoSpuriousRefusal`. `Causes`, `Reports` and `Results` carry `FinishedMeansDone`:
an agent that gives up was told to, and says so. All of it but what was recorded
stops mattering when the supervisor kills the process. Assumed is
`PendingLimit >= 4` (32 in the code, `worker.py:1112`): an agent emits four
events before its first request. With less, `NoSpuriousRefusal` would be false.

`PartsProofs` proves `SearchTellsWhatItMissed`, for any tree, limits, results
and number of changes. A search in progress owes a file that is steady and in
its scope. As long as it has left out nothing, each such file is listed, or is
below the path of a step still to do; after the walk, each one with a match is
matched or still to be read (`Told`). A scan replaces a directory by all its
names, a stat or an open by the file or its reason, and a change takes the path
and all below it out of what is steady, so that nothing else moves. The property
looks three levels below the scope (`Below`), whatever `MaxDepth` is. Assumed is
`SearchAssumption`: the root is nobody's child, and the initial trees are trees.

`PartsProofs` proves `ContextIsQualified`, for any products, sizes, windows and
limits. `BundleIsClosure`: a bundle is the least set with its product that is
closed under inputs and qualifications. The rounds of the worklist are as many
as there are products; a round that is not closed has more products than rounds
were made, hence the last one is closed. Closed sets can be joined, and every
addition is a whole bundle or nothing (`AccumulateKeeps`), so what is shown is
closed after each; an addition is kept only if it fits hard limit and target. A
refusal is about what is required, and every closed choice with the required
products contains it (`RequiredIsClosure`) and has at least its tokens
(`MoreIsLarger`). That is the part of the property which quantifies over choices
the code never tries.

`PartsProofs` proves `EditsMeanWhatWasRead`, for any texts and replacements, any
number of edits in a call and any writers beside it. The invariant `EditInv` is
about a call in progress: its text is what its spans mean in the text it was
made for (`Meant`), which is the one that was read; and after the last check the
file is that text, or somebody has written since. Only `BeginEdit` has to be
looked into, and that is about data. `OrderedSorts`: the spans can be sorted,
because in a total order of a finite set the ranks are the numbers up to its
size (`Ranked`). `OrderedAreLaid`: the code compares neighbours only, which is
enough, since of sorted spans the starts never go back. `RebuiltIsSimultaneous`:
`Simultaneous` grows from the front, `Rebuilt` from the back; from one span to
the next the first grows by the replacement and by what the second copies of the
original (`AfterSpan`). `ShownIsTaken`: the first column of a line is where the
line before it ends, for the reader and the editor alike. Assumed is
`EditAssumption`: texts are sequences, bounds are numbers.

Induction. The library's induction theorems cannot be used here, since they take
an operator as a parameter. Induction over numbers is proved instead for a set
(`Induct`, from the smallest number outside it, which `WFMin` gives without an
operator), and what a recursive function computes is proved with it: `InFlight`
of `BridgeSession`, `Names` of `StageSearch`, and, through one lemma
(`Recursion`), the sums, rounds and additions of `ContextBudget` and both texts
of `StageEdit`.

Each inductive invariant was checked by TLC on the constants of the runs before
it was proved. The assumptions on constants are those of the modules: bounds
and sizes are natural numbers, a null value is no member of the set it is null
for, and the two named above.

Only model-checked:

* all liveness (`RunsEnd`, `JobsSettle`, `CallsEnd`, `SessionEnds`,
  `LossEndsSession`): fairness and `ENABLED` are out of the prover's reach, and
  with them `TerminalLoss`, whose property is of this kind.

Neither proved nor checked, but read off the code: that the loop of the ancestor
walk computes the least closed set `Walk`.

## 5. Findings

* `worker_ctrl_c`: "CLI Ctrl-C also records a pause/control-version fence"
  (`docs/ARCHITECTURE.md:65-66`). The handler (`cli.py:309-332`) finishes the
  invocations it read as running, other controllers' included; if one of them
  has ended meanwhile with another status or result, `Store.finish` raises and
  the handler ends before the pause. The goal stays runnable. The other party may
  be a run or a handwritten draft that finishes.
* `server_cancel`: "Cancellation rejects later admission/tool RPCs"
  (`docs/ARCHITECTURE.md:58-59`). A cancel acknowledged before `Worker.run` is
  entered sets an event that `Worker._run_once` clears as its first statement
  (`worker.py:586`).
* `staged_ctrl_c`: "Cancellation ... terminates staged execution"
  (`docs/ARCHITECTURE.md:58-59`). A Ctrl-C inside `Sandbox.run` unwinds through
  a finally clause (`sandbox.py:1018-1027`) that gives up the slot and kills
  nothing; the `worker.cancel()` of the handler then finds no active run. The
  script, in a session of its own, goes on without its timeout and may write
  to the stage that `cli.py:449` records for recovery. The regex helper and
  the container profile kill theirs on the same path.

* `terminal_ctrl_c`: "In the Pi editor, Ctrl-C stops an active run or clears
  input" (`README.md:134`). A SIGINT that the main thread takes at the prompt
  does not consume a submission that is on its way, and prompts again
  (`cli.py:1282-1284`, `tui.py:240`). The submission is read right after, the
  run begins, and the renderer then handles the second prompt as the end of the
  run: `busy` is false (`bridge/terminal.mjs:184`), and Ctrl-C only clears the
  editor from there on (`bridge/terminal.mjs:111-113`).

Behaviours that no document denies. A `Worker.cancel` from another thread that
comes after a `staged_run` call has looked at the cancel event and before
`Sandbox.run` has reserved its slot is forgotten by the slot
(`sandbox.py:951-956`); the script then runs until its own timeout. After a
process death the attempt and its invocation stay `running` until a Ctrl-C
handler of the same goal or an import touches them; no start-up sweep exists.
A later run is not hindered by them, since it gets an assignment of its own.
The same holds of a draft written by hand that breaks off between `invoke` and
`finish` (`cli.py:485-499`, `server.py:90-101`): a Ctrl-C there, or an artifact
that the store refuses, leaves the invocation `running` although no process died
and no handler gave up. `artifacts add` with an empty `--kind` gets that far,
because only `Store.artifact` looks at it. `AbandonDraft` is that step; no
document says otherwise.

## 6. Not modelled, and why

* Texts: outcomes, criteria, artifact content beyond equality, receipts,
  usage, events. No guard reads them. `Store.finish` compares results; in
  `WorkerRun` an equal status may therefore agree or disagree.
* Time stamps. `remember_local_stage` and `Latest` order rows by
  `(created_at, id)`, taken as the order of creation.
* SQLite's busy timeout: a transaction that cannot start raises
  `sqlite3.OperationalError`, which `_run_once` does not handle; for the rows
  it is like a process death at that point, or like a draft that breaks off.
* Stores older than the present schema (`_initialize`, lines 291-316); the
  branch of `reconcile` for them is in the model but never needed.
* In `BridgeSession`: the limit on the size of a frame, lines that are not
  JSON, and a second `run` message (no controller sends one). The tools' own
  effects are those of the stage files.
* In `StagedExecution`: path checks, a
  `.gitignore` that changes what a snapshot selects, a Ctrl-C inside a finally
  clause, the reuse of a process identity, a disk error in a publication, and a
  container that outlives its killed client (its own alarm ends it; the next
  call forgets it).
* In `WorkerRun`: a second Ctrl-C inside the Ctrl-C handler, and one inside the
  final cleanup (`TerminalLoss` has both, without the rows they leave).
* In `WorkspaceReview`: sizes and limits, blocked names, mode bits, the layout
  of patch and archive, hash collisions, and the loss of a stage directory.
  `ContainerRuntime` is built without `tracked`: a tracked file that a new
  `.gitignore` hides is invisible to later container commands but never
  removed by them, which is what `Candidate` says. Nor is a stage recovered
  without a baseline (`cli.py:204-212`): the stage is then its own baseline.
  Such references exist only in stores written before baselines were kept, so
  no run of the modelled program can reach that branch.
* In `StageEdit` and `StageSearch`: UTF-8, size limits of an edit, line ends
  other than a newline, path checks, and changes that keep size and time of a
  file. An edit that has both positions and `old_text` is one with positions
  that is refused on a difference. A file holds at most one matching line.
* In `ContextBudget`: texts, and the few bytes that join them; `_provider_payload`,
  which admits the final body once more.
* In `TerminalLoss`: the plain interface without a TTY, full pipes, and the
  failure to start the renderer.
* The components marked "not modelled" in PROJECT.json, with the reasons there.

## 7. Plan

1. Done: `GoalAuthority`, `EffectGateway` with `CommitPromise`, `RunLedger`,
   `WorkerRun`, `ServerRun`, `GoalAuthorityProofs`.
2. Done: `BridgeSession`, `StagedExecution`.
3. Done: `WorkspaceReview`, `StageEdit`, `StageSearch`, `ContextBudget`,
   `TerminalLoss`, `GoalHierarchy` with its proofs.
4. Done: the proofs of `EffectGateway` with the refinement of `CommitPromise`,
   `RunLedger`, `WorkerRun`, `ServerRun`, `StagedExecution` and
   `WorkspaceReview`.
5. Done: the proofs of `BridgeSession`, `StageSearch`, `ContextBudget` and
   `StageEdit`. Every safety property of the passing runs is a theorem.
6. Not planned: token refresh (`bridge/auth.mjs`), the language tools and the
   evaluation harness, which keep no state that the rest reads.
