----------------------------- MODULE WorkerRun -----------------------------
(***************************************************************************)
(* Controllers that run goals (goal_native/worker.py Worker._run_once,     *)
(* called by cli.py _run_existing), over one shared store.                 *)
(*                                                                         *)
(* Each controller is one process with a Store connection of its own; it   *)
(* executes a program of store transactions, and every other controller    *)
(* and the human may act between any two of them.  Its program counter     *)
(* names the next transaction:                                             *)
(*                                                                         *)
(*   idle -> assigned -> started -> compiled -> serving                    *)
(*   serving -> preparing -> invoking -> binding -> serving   (a request)  *)
(*   serving -> stopping -> recording -> remembering -> idle  (the end)    *)
(*   recording -> fencing -> cancelling -> remembering        (Ctrl-C)     *)
(*                                                                         *)
(* While it serves, the controller answers the agent process one message   *)
(* at a time.  The messages are the environment's choice.  A request that  *)
(* is refused gets an error reply and changes nothing.  The result, an     *)
(* error, a cancellation and the deadline of the run all end the service   *)
(* with some outcome (StopServing).  Tool calls write only to the run's    *)
(* own stage directory or save artifacts, which are no part of this state. *)
(*                                                                         *)
(* The human may also write a draft by hand (cli.py _human_artifact,       *)
(* server.py manual_draft).  That is a small controller too, of four       *)
(* transactions: assign, invoke, artifact, finish.  It makes no attempt,   *)
(* and nothing cleans up after it when one of the four fails.              *)
(***************************************************************************)
EXTENDS RunLedger, FiniteSets

CONSTANTS
    Workers,        \* controller processes
    NoAssignment,   \* a controller without an assignment
    MaxHuman,       \* bound on goals.authority_version for human controls
    MaxInterrupts,  \* bound on the number of Ctrl-C
    MaxCrashes      \* bound on the number of process deaths

ASSUME WorkerAssumption ==
    /\ Workers \subseteq Stages
    /\ NoAssignment \notin Assignments
    /\ MaxHuman \in Nat /\ MaxInterrupts \in Nat /\ MaxCrashes \in Nat

VARIABLES
    workers,        \* workers[w]: the local state of controller w
    interrupts,     \* how many Ctrl-C there have been
    crashes,        \* how many process deaths there have been
    gave_up,        \* the handling of a Ctrl-C has ended early (FenceInvocation)
    drafting,       \* assignments a handwritten draft is about to invoke under
    writing,        \* invocations of handwritten drafts, yet to be finished
    abandoned       \* invocations whose owner has ended without finishing them

drafts == <<drafting, writing>>
environment == <<interrupts, crashes, gave_up, drafts, abandoned>>
workerVars == <<ledgerVars, workers, environment>>

-----------------------------------------------------------------------------

Serving == {"serving", "preparing", "invoking", "binding"}
Ending == {"stopping", "recording"}
Fencing == {"fencing", "cancelling"}
ProgramCounters ==
    {"idle", "assigned", "started", "compiled", "remembering"}
        \cup Serving \cup Ending \cup Fencing

Snapshot == [revision: Nat, input_version: Nat, authority_version: Nat]
NoSnapshot == [revision |-> 0, input_version |-> 0, authority_version |-> 0]
SnapshotOf(row) ==
    [revision |-> row.revision, input_version |-> row.input_version,
     authority_version |-> row.authority_version]

WorkerRow ==
    [pc: ProgramCounters, goal: Goals, assignment: Assignments \cup {NoAssignment},
     run: Nat,                                  \* 0: no attempt recorded
     fence: Snapshot,                           \* _run_fence
     invocation: Invocations \cup {NoInvocation},
     done: BOOLEAN,                             \* in _finished_invocations
     outcome: FinishStatuses, interrupted: BOOLEAN,
     open: SUBSET Invocations,                  \* what _fence_interrupted_run read
     attempts: SUBSET (Nat \X (Invocations \cup {NoInvocation}))]

Blank(g) ==
    [pc |-> "idle", goal |-> g, assignment |-> NoAssignment, run |-> 0,
     fence |-> NoSnapshot, invocation |-> NoInvocation, done |-> FALSE,
     outcome |-> "failed", interrupted |-> FALSE, open |-> {}, attempts |-> {}]

At(w, pc) == workers[w].pc = pc
GoalRead(w) == goals[workers[w].goal]
Run(w) == runs[workers[w].run]

\* The controller goes on to pc; nothing else of its state changes.
Goto(w, pc) == workers' = [workers EXCEPT ![w] = [@ EXCEPT !.pc = pc]]
Stop(w, outcome) ==
    workers' = [workers EXCEPT ![w] = [@ EXCEPT !.pc = "stopping", !.outcome = outcome]]

\* The invocation the controller still has to finish (_finish_current).
Unfinished(w) == workers[w].invocation # NoInvocation /\ ~workers[w].done
LeftBy(w) == {i \in Invocations : Unfinished(w) /\ workers[w].invocation = i}

\* An exception of the store that a run does not expect (_run_once).
Fail(w) == Stop(w, "failed") \/ Stop(w, "cancelled")

\* Store.finish of a row that is already terminal returns it when status and
\* result agree and raises otherwise; results are left out, so it may do
\* either when the status agrees.
FinishAgrees(i, status) == invocations[i].status = status

-----------------------------------------------------------------------------
(* The beginning of a run.                                                 *)

Begin(w, g, a) ==
    /\ At(w, "idle")
    /\ Assign(g, a)
    /\ workers' = [workers EXCEPT ![w] =
            [Blank(g) EXCEPT !.pc = "assigned", !.assignment = a]]
    /\ UNCHANGED <<ledgerTables, environment>>

StartAttempt(w) ==
    LET wk == workers[w] IN
    /\ At(w, "assigned")
    /\ \/ /\ StartRun(wk.goal, wk.assignment)
          /\ workers' = [workers EXCEPT ![w] =
                [wk EXCEPT !.pc = "started", !.run = Len(runs) + 1]]
       \/ /\ ~AssignmentCurrent(wk.assignment)
          /\ Fail(w)
          /\ UNCHANGED ledgerVars
    /\ UNCHANGED environment

\* store.goal after start_run: the fence of the run and the compiled context
\* come from this read.  A context over the budget stops the run.
ReadGoal(w) ==
    /\ At(w, "started")
    /\ \/ workers' = [workers EXCEPT ![w] =
            [@ EXCEPT !.pc = "compiled", !.fence = SnapshotOf(GoalRead(w))]]
       \/ Stop(w, "interrupted") \/ Stop(w, "cancelled")
    /\ UNCHANGED <<ledgerVars, environment>>

\* Recording the admission fails once another controller ended the attempt.
AdmitRun(w) ==
    /\ At(w, "compiled")
    /\ \/ /\ RecordAdmission(workers[w].run)
          /\ Goto(w, "serving") \/ Stop(w, "cancelled") \/ Stop(w, "interrupted")
       \/ /\ Run(w).status # "running"
          /\ Fail(w)
          /\ UNCHANGED ledgerVars
    /\ UNCHANGED environment

-----------------------------------------------------------------------------
(* Serving the agent.                                                      *)

\* prepare_request: the prior invocation is terminal, the request is admitted.
PrepareRequest(w) ==
    /\ At(w, "serving")
    /\ ~Unfinished(w)
    /\ RecordAdmission(workers[w].run)
    /\ Goto(w, "preparing")
    /\ UNCHANGED environment

\* _fenced_goal: the goal read now must have the versions the context was
\* compiled from.
CheckFence(w) ==
    /\ At(w, "preparing")
    /\ IF SnapshotOf(GoalRead(w)) = workers[w].fence
       THEN Goto(w, "invoking")
       ELSE Goto(w, "serving")
    /\ UNCHANGED <<ledgerVars, environment>>

\* store.invoke, which checks goal and assignment again; refused, it raises.
InvokeTurn(w) ==
    LET wk == workers[w]
        Accepted(i) == Invoke(wk.goal, wk.assignment, i, wk.fence.input_version)
        refused == \/ goals[wk.goal].status \in Stopped
                   \/ ~AssignmentCurrent(wk.assignment)
                   \/ goals[wk.goal].input_version # wk.fence.input_version
    IN  /\ At(w, "invoking")
        /\ \/ \E i \in Invocations :
                /\ Accepted(i)
                /\ workers' = [workers EXCEPT ![w] =
                        [wk EXCEPT !.pc = "binding", !.invocation = i, !.done = FALSE]]
                /\ UNCHANGED ledgerTables
           \/ /\ refused \/ \A i \in Invocations : Known(invocations[i])
              /\ Goto(w, "serving")
              /\ UNCHANGED ledgerVars
        /\ UNCHANGED environment

\* The worker has taken the invocation before the binding can fail.
BindTurn(w) ==
    LET wk == workers[w] IN
    /\ At(w, "binding")
    /\ IF Run(w).status = "running"
       THEN BindInvocation(wk.run, wk.invocation)
       ELSE UNCHANGED ledgerVars
    /\ Goto(w, "serving")
    /\ UNCHANGED environment

\* The turn_end event finishes the invocation.
EndTurn(w, status) ==
    LET wk == workers[w]
        finished == workers' = [workers EXCEPT ![w] = [wk EXCEPT !.done = TRUE]]
    IN  /\ At(w, "serving")
        /\ Unfinished(w)
        /\ \/ Finish(wk.invocation, status) /\ UNCHANGED ledgerTables /\ finished
           \/ /\ invocations[wk.invocation].status # "running"
              /\ UNCHANGED ledgerVars
              /\ \/ FinishAgrees(wk.invocation, status) /\ finished
                 \/ Fail(w)
        /\ UNCHANGED environment

\* Mutant of StopServing: the stop reason is kept as the status.
StopServingAtLimit(w, outcome) ==
    /\ At(w, "serving")
    /\ outcome = "interrupted"
    /\ Stop(w, "time_limit")
    /\ UNCHANGED <<ledgerVars, environment>>

\* A result, an error, a cancellation or the deadline.
StopServing(w, outcome) ==
    /\ At(w, "serving")
    /\ Stop(w, outcome)
    /\ UNCHANGED <<ledgerVars, environment>>

-----------------------------------------------------------------------------
(* The end of a run.                                                       *)

\* Mutant of FinishTurn: the end of a run leaves its invocation as it is.
LeaveTurn(w) ==
    /\ At(w, "stopping")
    /\ Goto(w, "recording")
    /\ UNCHANGED <<ledgerVars, environment>>

\* _finish_current.  When another controller finished the invocation with a
\* different status or result, the error escapes from the run: neither the
\* attempt nor, after Ctrl-C, the pause is recorded by this controller.
FinishTurn(w) ==
    LET wk == workers[w] IN
    /\ At(w, "stopping")
    /\ IF Unfinished(w) /\ invocations[wk.invocation].status = "running"
       THEN /\ Finish(wk.invocation, wk.outcome)
            /\ UNCHANGED ledgerTables
            /\ Goto(w, "recording")
       ELSE /\ UNCHANGED ledgerVars
            /\ \/ /\ Unfinished(w) => FinishAgrees(wk.invocation, wk.outcome)
                  /\ Goto(w, "recording")
               \/ Unfinished(w) /\ Goto(w, "remembering")
    /\ UNCHANGED environment

\* Mutant of RecordEnd: an attempt that made no request is not recorded.
RecordEndOfTurns(w) ==
    LET wk == workers[w] IN
    /\ At(w, "recording")
    /\ IF wk.run # 0 /\ Run(w).status = "running" /\ wk.invocation # NoInvocation
       THEN FinishRun(wk.run, wk.outcome, wk.invocation)
       ELSE UNCHANGED ledgerVars
    /\ Goto(w, IF wk.interrupted THEN "fencing" ELSE "remembering")
    /\ UNCHANGED environment

RecordEnd(w) ==
    LET wk == workers[w] IN
    /\ At(w, "recording")
    /\ IF wk.run # 0 /\ Run(w).status = "running"
       THEN FinishRun(wk.run, wk.outcome, wk.invocation)
       ELSE UNCHANGED ledgerVars
    /\ Goto(w, IF wk.interrupted THEN "fencing" ELSE "remembering")
    /\ UNCHANGED environment

\* The stage directory becomes the goal's recovery reference, unless the
\* assignment was replaced, never ran, or something of it still runs.
Remember(w) ==
    LET wk == workers[w]
        refused == \/ assignments[wk.assignment].status # "active"
                   \/ StillRunning(wk.assignment)
                   \/ RunsOf(wk.assignment) \cup InvocationsOf(wk.assignment) = {}
    IN  /\ At(w, "remembering")
        /\ RememberLocalStage(wk.assignment, w) \/ (refused /\ UNCHANGED ledgerVars)
        /\ workers' = [workers EXCEPT ![w] = Blank(wk.goal)]
        /\ UNCHANGED environment

-----------------------------------------------------------------------------
(* Ctrl-C and death.                                                       *)

\* KeyboardInterrupt inside the run goes through _stop_run first; inside the
\* handlers of _run_once it goes straight to the controller's own handler.
Interrupt(w) ==
    /\ interrupts < MaxInterrupts
    /\ ~workers[w].interrupted
    /\ \/ /\ workers[w].pc \in {"assigned", "started", "compiled"} \cup Serving
          /\ workers' = [workers EXCEPT ![w] =
                [@ EXCEPT !.pc = "stopping", !.outcome = "cancelled", !.interrupted = TRUE]]
       \/ /\ workers[w].pc \in Ending
          /\ workers' = [workers EXCEPT ![w] =
                [@ EXCEPT !.pc = "fencing", !.interrupted = TRUE]]
    /\ interrupts' = interrupts + 1
    /\ UNCHANGED <<ledgerVars, crashes, gave_up, drafts, abandoned>>

\* _fence_interrupted_run reads the goal once ...
FenceRead(w) ==
    LET g == workers[w].goal IN
    /\ At(w, "fencing")
    /\ workers' = [workers EXCEPT ![w] = [@ EXCEPT
            !.pc = "cancelling",
            !.open = {i \in Invocations : invocations[i].status = "running"
                                          /\ invocations[i].goal = g},
            !.attempts = {<<r, runs[r].invocation>> :
                             r \in {s \in RunIds : runs[s].status = "running"
                                                   /\ runs[s].goal = g}}]]
    /\ UNCHANGED <<ledgerVars, environment>>

\* ... then cancels the invocations it saw running, whoever owns them; one
\* that was finished meanwhile with another status or result makes it give up.
FenceInvocation(w, i) ==
    LET closed == /\ workers' = [workers EXCEPT ![w].open = @ \ {i}]
                  /\ UNCHANGED <<gave_up, abandoned>>
    IN
    /\ At(w, "cancelling")
    /\ i \in workers[w].open
    /\ \/ Finish(i, "cancelled") /\ closed /\ UNCHANGED ledgerTables
       \/ /\ invocations[i].status # "running"
          /\ UNCHANGED ledgerVars
          /\ \/ FinishAgrees(i, "cancelled") /\ closed
             \/ /\ Goto(w, "remembering")
                /\ gave_up' = TRUE
                /\ abandoned' = abandoned \cup LeftBy(w)
    /\ UNCHANGED <<interrupts, crashes, drafts>>

\* ... then the attempts it saw running, with the invocations it read ...
FenceAttempt(w, attempt) ==
    LET r == attempt[1] IN
    /\ At(w, "cancelling")
    /\ workers[w].open = {}
    /\ attempt \in workers[w].attempts
    /\ IF runs[r].status = "running"
       THEN FinishRun(r, "cancelled", attempt[2])
       ELSE UNCHANGED ledgerVars
    /\ workers' = [workers EXCEPT ![w].attempts = @ \ {attempt}]
    /\ UNCHANGED environment

\* ... and pauses the goal unless it is stopped already.
FencePause(w) ==
    /\ At(w, "cancelling")
    /\ workers[w].open = {} /\ workers[w].attempts = {}
    /\ IF GoalRead(w).status \in Stopped
       THEN UNCHANGED ledgerVars
       ELSE PauseForInterruption(workers[w].goal) /\ UNCHANGED ledgerTables
    /\ Goto(w, "remembering")
    /\ UNCHANGED environment

\* The process dies and another takes its place; the rows stay as they are.
Crash(w) ==
    /\ crashes < MaxCrashes
    /\ ~At(w, "idle")
    /\ crashes' = crashes + 1
    /\ workers' = [workers EXCEPT ![w] = Blank(workers[w].goal)]
    /\ abandoned' = abandoned \cup LeftBy(w)
    /\ UNCHANGED <<ledgerVars, interrupts, gave_up, drafts>>

-----------------------------------------------------------------------------

(* The human beside the controllers.                                       *)

Human(g) ==
    /\ \/ \E control \in Controls : Request(g, control)
       \/ ReopenForRun(g)
       \/ \E r \in 1..MaxRevision : Revise(g, r)
    /\ goals'[g].authority_version <= MaxHuman
    /\ UNCHANGED <<ledgerTables, workers, environment>>

\* A draft written by hand replaces the controller of its goal ...
AssignDraft(g, a) ==
    /\ Assign(g, a)
    /\ drafting' = drafting \cup {a}
    /\ UNCHANGED <<ledgerTables, workers, interrupts, crashes, gave_up, writing, abandoned>>

\* ... and invokes under the input version of the moment ...
InvokeDraft(a) ==
    LET g == assignments[a].goal IN
    /\ a \in drafting
    /\ \E i \in Invocations :
          /\ Invoke(g, a, i, goals[g].input_version)
          /\ writing' = writing \cup {i}
    /\ drafting' = drafting \ {a}
    /\ UNCHANGED <<ledgerTables, workers, interrupts, crashes, gave_up, abandoned>>

\* ... unless invoke refuses or a Ctrl-C comes first.
DropDraft(a) ==
    /\ a \in drafting
    /\ drafting' = drafting \ {a}
    /\ UNCHANGED <<ledgerVars, workers, interrupts, crashes, gave_up, writing, abandoned>>

\* store.artifact, which no fence guards, leaves these tables alone; then
\* store.finish, which raises when a Ctrl-C handler has cancelled the invocation.
FinishDraft(i) ==
    /\ i \in writing
    /\ IF invocations[i].status = "running"
       THEN Finish(i, "finished") /\ UNCHANGED ledgerTables
       ELSE UNCHANGED ledgerVars
    /\ writing' = writing \ {i}
    /\ UNCHANGED <<workers, interrupts, crashes, gave_up, drafting, abandoned>>

\* store.artifact refuses (an empty kind), or a Ctrl-C or a death comes between
\* the transactions: no finally clause finishes the invocation.
AbandonDraft(i) ==
    /\ i \in writing
    /\ writing' = writing \ {i}
    /\ abandoned' = abandoned \cup {i}
    /\ UNCHANGED <<ledgerVars, workers, interrupts, crashes, gave_up, drafting>>

\* The record is exported at any time and imported elsewhere, where nobody
\* goes on with what was running.
MoveStore ==
    /\ ImportLedger
    /\ workers' = [w \in Workers |-> Blank(workers[w].goal)]
    /\ drafting' = {} /\ writing' = {}
    /\ abandoned' = abandoned \cup writing \cup UNION {LeftBy(w) : w \in Workers}
    /\ UNCHANGED <<interrupts, crashes, gave_up>>

WorkerInit ==
    /\ LedgerInit
    /\ workers \in [Workers -> {Blank(g) : g \in Goals}]
    /\ interrupts = 0
    /\ crashes = 0
    /\ gave_up = FALSE
    /\ drafting = {} /\ writing = {} /\ abandoned = {}

\* What a live controller does by itself, however its choices fall.
Proceed(w) ==
    \/ StartAttempt(w) \/ ReadGoal(w) \/ AdmitRun(w)
    \/ CheckFence(w) \/ InvokeTurn(w) \/ BindTurn(w)
    \/ FinishTurn(w) \/ RecordEnd(w) \/ Remember(w)
    \/ FenceRead(w) \/ FencePause(w)
    \/ \E i \in Invocations : FenceInvocation(w, i)
    \/ \E attempt \in workers[w].attempts : FenceAttempt(w, attempt)

EndService(w) == \E outcome \in FinishStatuses : StopServing(w, outcome)

WorkerNext ==
    \/ \E g \in Goals : CreateGoal(g) /\ UNCHANGED <<ledgerTables, workers, environment>>
    \/ \E g \in Goals : Human(g)
    \/ \E g \in Goals, a \in Assignments : AssignDraft(g, a)
    \/ \E a \in Assignments : InvokeDraft(a) \/ DropDraft(a)
    \/ \E i \in Invocations : FinishDraft(i) \/ AbandonDraft(i)
    \/ MoveStore
    \/ \E w \in Workers, g \in Goals, a \in Assignments : Begin(w, g, a)
    \/ \E w \in Workers :
        \/ Proceed(w)
        \/ PrepareRequest(w)
        \/ \E status \in {"finished", "failed", "cancelled"} : EndTurn(w, status)
        \/ EndService(w)
        \/ Interrupt(w)
        \/ Crash(w)

WorkerSpec == WorkerInit /\ [][WorkerNext]_workerVars

\* A controller executes its own next transaction sooner or later, and a
\* service ends: PiBridge gives every run a deadline.
WorkerFairness ==
    \A w \in Workers : WF_workerVars(Proceed(w)) /\ SF_workerVars(EndService(w))

LiveWorkerSpec == WorkerSpec /\ WorkerFairness

-----------------------------------------------------------------------------
(* Properties.                                                             *)

\* The ledger's tables and the controllers hold values of their own type.
WorkerTypeOK ==
    /\ LedgerTypeOK
    /\ workers \in [Workers -> WorkerRow]
    /\ interrupts \in 0..MaxInterrupts
    /\ crashes \in 0..MaxCrashes
    /\ gave_up \in BOOLEAN
    /\ drafting \subseteq Assignments
    /\ writing \subseteq Invocations
    /\ abandoned \subseteq Invocations

\* What the model is shown is what the request is recorded under: the context
\* is compiled from a read made after start_run, and every invocation of the
\* run still has exactly the versions of that read.
ContextMatchesInvocation ==
    \A w \in Workers :
        workers[w].invocation # NoInvocation =>
            /\ SnapshotOf(invocations[workers[w].invocation]) = workers[w].fence
            /\ invocations[workers[w].invocation].assignment = workers[w].assignment

\* Each running invocation has somebody who is going to finish it: a controller
\* whose current one it is, or a draft between its invoke and its finish.  The
\* only ones left running for good are those whose own process died, whose own
\* Ctrl-C handler gave up, whose own draft broke off, or that were running when
\* the record was moved; no replacement, fence or end of others leaves one.
InvocationsHaveOwners ==
    \A i \in Invocations \ abandoned : invocations[i].status = "running" =>
        \/ i \in writing
        \/ \E w \in Workers :
              /\ workers[w].invocation = i
              /\ ~workers[w].done
              /\ workers[w].pc \in Serving \cup Ending \cup Fencing

GoingOn(r) == r \in RunIds /\ runs[r].status = "running"

\* Every attempt is recorded as ended eventually, if no process dies: by its
\* own controller, or by the one whose Ctrl-C handler took it over.  Only a
\* handler that gives up halfway may leave an attempt running.
RunsEnd ==
    \A r \in 1..MaxRuns : GoingOn(r) ~> (~GoingOn(r) \/ gave_up)

\* docs/ARCHITECTURE.md, "CLI Ctrl-C also records a pause/control-version
\* fence": when the handling of a Ctrl-C is over, the goal is stopped.
CtrlCRecordsPause ==
    [][\A w \in Workers :
          At(w, "cancelling") /\ workers'[w].pc = "remembering"
          => goals'[workers[w].goal].status \in Stopped]_workerVars
=============================================================================
