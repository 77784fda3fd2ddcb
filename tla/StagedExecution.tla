--------------------------- MODULE StagedExecution ---------------------------
(***************************************************************************)
(* Tool calls that execute code on a private stage: Sandbox.run and the     *)
(* regex helper (sandbox.py), ContainerRuntime.command and the supervisor   *)
(* inside the container (container_runner.py, runtime/Dockerfile), as       *)
(* Worker._run_tool calls them one after the other. A cancellation comes    *)
(* from another thread (Worker.cancel) or as a Ctrl-C that unwinds the      *)
(* calling thread; finally clauses are taken to run in one step.            *)
(* The stage is a small tree: d is a file or a directory, f, g and x live   *)
(* in it, and x is an ignored path that no snapshot selects.                *)
(***************************************************************************)
EXTENDS Naturals, Sequences

CONSTANTS MaxCalls,     \* bound: tool calls of the run
          Cancellers    \* who cancels: a subset of {"thread", "ctrl_c"}

ASSUME StagedAssumption == MaxCalls \in Nat /\ Cancellers \subseteq {"thread", "ctrl_c"}

VARIABLES profile,    \* execution profile of the worker
          call,       \* the tool call and where it is
          receipt,    \* what the last call returned
          slot,       \* Sandbox: _run_active, _active, _cancel_requested
          box,        \* ContainerRuntime: the same, and _closed
          cancel,     \* Worker._cancel_event
          canceller,  \* the thread in Worker.cancel
          interrupted,
          task,       \* the process of the call, and who killed it
          sup,        \* the supervisor inside the container
          stage,      \* the files of the stage
          candidate,  \* before, after, and what is left to publish
          foreign     \* somebody else changed selected files meanwhile

cancelVars == <<cancel, canceller, interrupted>>
fileVars == <<stage, candidate, foreign>>
vars == <<profile, call, receipt, slot, box, cancelVars, task, sup, fileVars>>

-----------------------------------------------------------------------------
(* Trees, and what a publication does to them. *)

Inside == {"f", "g", "x"}
Selected == {"d", "f", "g"}
Contents(p) == IF p \in {"d", "f"} THEN {"none", "old", "new"} ELSE {"none", "old"}

Trees ==
  {t \in [Inside \union {"d"} -> {"none", "old", "new", "dir"}] :
     /\ t["d"] \in Contents("d") \union {"dir"}
     /\ \A p \in Inside : t[p] \in Contents(p)
     /\ (t["d"] = "dir") <=> \E p \in Inside : t[p] # "none"}

Selection(t) == [p \in Selected |-> IF t[p] = "dir" THEN "none" ELSE t[p]]

\* _remove_file: the file goes, and its directory when it is empty.
CanRemove(t, p) == t[p] \notin {"none", "dir"}
Removed(t, p) ==
  LET u == [t EXCEPT ![p] = "none"]
  IN IF p # "d" /\ \A q \in Inside : u[q] = "none" THEN [u EXCEPT !["d"] = "none"] ELSE u

\* _write_file: directories are made, a directory in the way is an error.
CanWrite(t, p) == IF p = "d" THEN t["d"] # "dir" ELSE t["d"] \in {"none", "dir"}
Written(t, p, content) ==
  IF p = "d" THEN [t EXCEPT ![p] = content] ELSE [t EXCEPT ![p] = content, !["d"] = "dir"]

Only(p, paths) == IF p \in paths THEN <<p>> ELSE <<>>
Sorted(paths) == Only("d", paths) \o Only("f", paths) \o Only("g", paths)
Gone(old, new) == Sorted({p \in Selected : old[p] # "none" /\ new[p] = "none"})
Put(old, new) == Sorted({p \in Selected : new[p] # "none" /\ new[p] # old[p]})

\* Mutant: writes before removals.
WritesFirst(old, new) == Put(old, new) \o Gone(old, new)

\* _publish: removals, then changed files, each sorted.
Publication(old, new) == Gone(old, new) \o Put(old, new)

-----------------------------------------------------------------------------

NoTask == [state |-> "none", by |-> "none", of |-> 0]
NoSupervisor == [at |-> "none", stdin |-> TRUE, lost |-> FALSE, out |-> "none"]
NoReceipt == [kind |-> "none", why |-> "none", cancelled |-> FALSE, published |-> FALSE, of |-> 0]
Nothing == [p \in Selected |-> "none"]

Init ==
  /\ profile \in {"python", "docker"}
  /\ call = [at |-> "idle", kind |-> "none", n |-> 0, cancelled |-> FALSE]
  /\ receipt = NoReceipt
  /\ slot = [busy |-> FALSE, active |-> FALSE, cancelled |-> FALSE]
  /\ box = [busy |-> FALSE, active |-> FALSE, cancelled |-> FALSE, closed |-> FALSE]
  /\ cancel = FALSE /\ interrupted = FALSE
  /\ canceller = [at |-> "off", victim |-> 0]
  /\ task = NoTask /\ sup = NoSupervisor
  /\ stage \in {t \in Trees : t["x"] = "none"}
  /\ candidate = [before |-> Nothing, after |-> Nothing, todo |-> <<>>]
  /\ foreign = FALSE

Kinds == {"regex"} \union (IF profile = "python" THEN {"run"} ELSE {"command", "language"})
Go(at) == call' = [call EXCEPT !.at = at]
Killed(by) == IF task.state = "running" THEN [task EXCEPT !.state = "dead", !.by = by] ELSE task

Return(kind, why, cancelled, published) ==
  /\ Go("idle")
  /\ receipt' = [kind |-> kind, why |-> why, cancelled |-> cancelled,
                 published |-> published, of |-> call.n]

\* staged_write: no process, one step.
WriteFile ==
  /\ call.at = "idle" /\ call.n < MaxCalls /\ ~cancel
  /\ call' = [call EXCEPT !.n = @ + 1]
  /\ receipt' = NoReceipt
  /\ \E p \in DOMAIN stage : \E content \in Contents(p) \ {"none"} :
       CanWrite(stage, p) /\ stage' = Written(stage, p, content)
  /\ UNCHANGED <<profile, slot, box, cancelVars, task, sup, candidate, foreign>>

Begin ==
  /\ call.at = "idle" /\ call.n < MaxCalls
  /\ \E kind \in Kinds :
       call' = [at |-> "check", kind |-> kind, n |-> call.n + 1,
                cancelled |-> FALSE]
  /\ receipt' = NoReceipt /\ task' = NoTask /\ sup' = NoSupervisor
  /\ candidate' = [before |-> Nothing, after |-> Nothing, todo |-> <<>>]
  /\ foreign' = FALSE
  /\ UNCHANGED <<profile, slot, box, cancelVars, stage>>

CheckCancelled ==
  /\ call.at = "check"
  /\ IF cancel THEN Return("refused", "cancelled", FALSE, FALSE)
     ELSE /\ Go(IF call.kind \in {"run", "regex"} THEN "reserve" ELSE "admit")
          /\ UNCHANGED receipt
  /\ UNCHANGED <<profile, slot, box, cancelVars, task, sup, fileVars>>

-----------------------------------------------------------------------------
(* Sandbox.run and Sandbox._run_regex_helper: one slot behind one lock. *)

Reserve ==
  /\ call.at = "reserve"
  /\ IF slot.busy THEN Return("error", "busy", FALSE, FALSE) /\ UNCHANGED slot
     ELSE /\ slot' = [busy |-> TRUE, cancelled |-> FALSE,
                      active |-> IF call.kind = "run" THEN FALSE ELSE slot.active]
          /\ Go("spawn") /\ UNCHANGED receipt
  /\ UNCHANGED <<profile, box, cancelVars, task, sup, fileVars>>

Spawn ==
  /\ call.at = "spawn"
  /\ \/ /\ task' = [state |-> "running", by |-> "none", of |-> call.n]
        /\ Go("record")
     \/ UNCHANGED task /\ Go("release")
  /\ UNCHANGED <<profile, receipt, slot, box, cancelVars, sup, fileVars>>

\* Mutant: what was cancelled before the process was known is not looked at.
RecordOnly ==
  /\ call.at = "record"
  /\ slot' = [slot EXCEPT !.active = TRUE]
  /\ UNCHANGED task
  /\ Go("collect")
  /\ UNCHANGED <<profile, receipt, box, cancelVars, sup, fileVars>>

Record ==
  /\ call.at = "record"
  /\ slot' = [slot EXCEPT !.active = TRUE]
  /\ task' = IF slot.cancelled THEN Killed("cancel") ELSE task
  /\ Go("collect")
  /\ UNCHANGED <<profile, receipt, box, cancelVars, sup, fileVars>>

\* Mutant: no deadline.
WaitForever ==
  /\ call.at = "collect" /\ task.state = "dead"
  /\ UNCHANGED task
  /\ Go("reap")
  /\ UNCHANGED <<profile, receipt, slot, box, cancelVars, sup, fileVars>>

\* _collect and communicate: until the end of output, the deadline or the
\* output limit.
Collect ==
  /\ call.at = "collect"
  /\ task' = Killed("limit")
  /\ Go("reap")
  /\ UNCHANGED <<profile, receipt, slot, box, cancelVars, sup, fileVars>>

\* The flag is read once the process is reaped; what cancel does from here
\* on comes too late for it.
Reap ==
  /\ call.at = "reap"
  /\ call' = [call EXCEPT !.at = "release", !.cancelled = slot.cancelled]
  /\ UNCHANGED <<profile, receipt, slot, box, cancelVars, task, sup, fileVars>>

\* Mutant: the slot stays taken when nothing could be started.
ReleaseIfRan ==
  /\ call.at = "release"
  /\ slot' = IF task.state = "none" THEN slot
             ELSE [busy |-> FALSE, active |-> FALSE, cancelled |-> FALSE]
  /\ Return("ran", "none", call.cancelled, FALSE)
  /\ UNCHANGED <<profile, box, cancelVars, task, sup, fileVars>>

\* The finally clause. A killed or cancelled regex search is an error.
Release ==
  /\ call.at = "release"
  /\ slot' = [busy |-> FALSE, active |-> FALSE,
              cancelled |-> slot.cancelled /\ call.kind = "regex"]
  /\ CASE task.state = "none" -> Return("error", "spawn", FALSE, FALSE)
       [] task.state # "none" /\ call.kind = "regex" /\ (task.by # "none" \/ call.cancelled) ->
            Return("error", "killed", call.cancelled, FALSE)
       [] OTHER -> Return("ran", "none", call.cancelled, FALSE)
  /\ UNCHANGED <<profile, box, cancelVars, task, sup, fileVars>>

TaskEnds ==
  /\ task.state = "running"
  /\ task' = [task EXCEPT !.state = "dead"]
  /\ UNCHANGED <<profile, call, receipt, slot, box, cancelVars, sup, fileVars>>

\* A staged script writes to the stage itself, for as long as it runs.
ScriptWrites ==
  /\ profile = "python" /\ call.kind = "run" /\ task.state = "running"
  /\ \E p \in DOMAIN stage : \E content \in Contents(p) \ {"none"} :
       CanWrite(stage, p) /\ stage' = Written(stage, p, content)
  /\ UNCHANGED <<profile, call, receipt, slot, box, cancelVars, task, sup, candidate, foreign>>

-----------------------------------------------------------------------------
(* ContainerRuntime.command, and its _command, _execute, _read_process. *)

ReturnBox(kind, why, cancelled, published) ==
  /\ Return(kind, why, cancelled, published)
  /\ box' = [box EXCEPT !.busy = FALSE, !.active = FALSE]

Admit ==
  /\ call.at = "admit"
  /\ IF box.closed \/ box.busy \/ box.cancelled
     THEN Return("refused", "runtime", FALSE, FALSE) /\ UNCHANGED <<box, candidate>>
     ELSE /\ box' = [box EXCEPT !.busy = TRUE]
          /\ candidate' = [candidate EXCEPT !.before = Selection(stage)]
          /\ Go("start") /\ UNCHANGED receipt
  /\ UNCHANGED <<profile, slot, cancelVars, task, sup, stage, foreign>>

\* Mutant: cancellation was looked at on admission.
StartAdmitted ==
  /\ call.at = "start"
  /\ \/ /\ sup' = [NoSupervisor EXCEPT !.at = "input"]
        /\ box' = [box EXCEPT !.active = TRUE]
        /\ Go("read") /\ UNCHANGED receipt
     \/ ReturnBox("error", "spawn", FALSE, FALSE) /\ UNCHANGED sup
  /\ UNCHANGED <<profile, slot, cancelVars, task, fileVars>>

\* Under the lock: the last look at the cancellation, and Popen.
Start ==
  /\ call.at = "start"
  /\ \/ /\ box.closed \/ box.cancelled
        /\ ReturnBox("no_candidate", "none", TRUE, FALSE) /\ UNCHANGED sup
     \/ /\ ~box.closed /\ ~box.cancelled
        /\ sup' = [NoSupervisor EXCEPT !.at = "input"]
        /\ box' = [box EXCEPT !.active = TRUE]
        /\ Go("read") /\ UNCHANGED receipt
     \/ /\ ~box.closed /\ ~box.cancelled
        /\ ReturnBox("error", "spawn", FALSE, FALSE) /\ UNCHANGED sup
  /\ UNCHANGED <<profile, slot, cancelVars, task, fileVars>>

\* The reading loop closes the input of a cancelled run.
NoticeCancel ==
  /\ call.at = "read" /\ box.cancelled /\ ~call.cancelled
  /\ call' = [call EXCEPT !.cancelled = TRUE]
  /\ sup' = [sup EXCEPT !.stdin = FALSE]
  /\ UNCHANGED <<profile, receipt, slot, box, cancelVars, task, fileVars>>

\* _force_kill: the engine may or may not answer; the client goes anyway and
\* takes its end of the supervisor's input with it.
ForceKill(out) ==
  \/ /\ task' = Killed("limit")
     /\ sup' = [sup EXCEPT !.at = "gone", !.stdin = FALSE, !.out = out]
  \/ /\ sup' = [sup EXCEPT !.stdin = FALSE, !.out = out]
     /\ UNCHANGED task

\* The host's own deadline; what was already sent may be half a receipt.
HardDeadline ==
  /\ call.at = "read" /\ sup.at # "gone"
  /\ \E out \in {"none"} \union (IF sup.at = "finished" THEN {"part"} ELSE {}) : ForceKill(out)
  /\ Go("decode")
  /\ UNCHANGED <<profile, receipt, slot, box, cancelVars, fileVars>>

ReadToEnd ==
  /\ call.at = "read" /\ sup.at = "gone"
  /\ Go("decode")
  /\ UNCHANGED <<profile, receipt, slot, box, cancelVars, task, sup, fileVars>>

Decode ==
  /\ call.at = "decode"
  /\ CASE sup.out = "none" ->
            ReturnBox("no_candidate", "none", call.cancelled, FALSE)
       [] sup.out \in {"error", "part"} ->
            ReturnBox("error", "receipt", call.cancelled, FALSE)
       [] sup.out = "ok" -> Go("compare") /\ UNCHANGED <<box, receipt>>
  /\ UNCHANGED <<profile, slot, cancelVars, task, sup, fileVars>>

Compare ==
  /\ call.at = "compare"
  /\ IF Selection(stage) # candidate.before
     THEN ReturnBox("error", "diverged", FALSE, FALSE) /\ UNCHANGED candidate
     ELSE /\ IF call.kind = "command"
             THEN /\ candidate' = [candidate EXCEPT
                                     !.todo = Publication(candidate.before, candidate.after)]
                  /\ Go("publish")
             ELSE UNCHANGED candidate /\ Go("done")
          /\ UNCHANGED <<receipt, box>>
  /\ UNCHANGED <<profile, slot, cancelVars, task, sup, stage, foreign>>

PublishFile ==
  /\ call.at = "publish" /\ candidate.todo # <<>>
  /\ LET p == Head(candidate.todo)
         content == candidate.after[p]
         remove == content = "none"
     IN IF IF remove THEN CanRemove(stage, p) ELSE CanWrite(stage, p)
        THEN /\ stage' = IF remove THEN Removed(stage, p) ELSE Written(stage, p, content)
             /\ candidate' = [candidate EXCEPT !.todo = Tail(@)]
             /\ UNCHANGED <<call, receipt, box>>
        ELSE ReturnBox("error", "publication", FALSE, FALSE) /\ UNCHANGED <<stage, candidate>>
  /\ UNCHANGED <<profile, slot, cancelVars, task, sup, foreign>>

Finish ==
  /\ call.at \in {"done", "publish"} /\ candidate.todo = <<>>
  /\ ReturnBox("ran", "none", call.cancelled \/ sup.lost, call.kind = "command")
  /\ UNCHANGED <<profile, slot, cancelVars, task, sup, fileVars>>

\* Somebody else's change of the stage while the container is at work.
Tamper ==
  /\ ~foreign /\ call.at \in {"start", "read", "decode"}
  /\ \E p \in Selected : \E content \in Contents(p) \ {"none"} :
       /\ CanWrite(stage, p) /\ stage[p] # content
       /\ stage' = Written(stage, p, content)
  /\ foreign' = TRUE
  /\ UNCHANGED <<profile, call, receipt, slot, box, cancelVars, task, sup, candidate>>

-----------------------------------------------------------------------------
(* The supervisor in the container (runtime/Dockerfile). *)

InContainer(next) ==
  /\ sup' = next
  /\ UNCHANGED <<profile, call, receipt, slot, box, cancelVars, stage, foreign>>

TakeInput ==
  /\ sup.at = "input"
  /\ InContainer([sup EXCEPT !.at = "running"])
  /\ task' = [state |-> "running", by |-> "none", of |-> call.n]
  /\ UNCHANGED candidate

\* The input broke off before it was complete.
InputLost ==
  /\ sup.at = "input" /\ ~sup.stdin
  /\ InContainer([sup EXCEPT !.at = "gone"])
  /\ UNCHANGED <<task, candidate>>

\* guardian: the end of the input means that the controller is lost.
Guardian ==
  /\ sup.at = "running" /\ ~sup.stdin /\ ~sup.lost
  /\ InContainer([sup EXCEPT !.lost = TRUE])
  /\ task' = Killed(IF call.cancelled THEN "cancel" ELSE "limit")
  /\ UNCHANGED candidate

Limit ==
  /\ sup.at = "running" /\ task.state = "running"
  /\ task' = Killed("limit")
  /\ InContainer(sup) /\ UNCHANGED candidate

Finished ==
  /\ sup.at = "running" /\ task.state = "dead"
  /\ InContainer([sup EXCEPT !.at = "finished"])
  /\ UNCHANGED <<task, candidate>>

\* archive_workspace and emit: a candidate, or the refusal of what the
\* command left; heard by nobody once the host has stopped reading.
Emit ==
  /\ sup.at = "finished"
  /\ IF call.at = "read"
     THEN \/ /\ InContainer([sup EXCEPT !.at = "gone", !.out = "ok"])
             /\ candidate' \in {[candidate EXCEPT !.after = Selection(t)] : t \in Trees}
          \/ /\ InContainer([sup EXCEPT !.at = "gone", !.out = "error"])
             /\ UNCHANGED candidate
     ELSE InContainer([sup EXCEPT !.at = "gone"]) /\ UNCHANGED candidate
  /\ UNCHANGED task

\* Its own alarm covers input, command and output.
HardAlarm ==
  /\ sup.at \in {"input", "running", "finished"}
  /\ InContainer([sup EXCEPT !.at = "gone"])
  /\ task' = Killed("limit")
  /\ UNCHANGED candidate

Container == TakeInput \/ InputLost \/ Guardian \/ Limit \/ Finished \/ Emit \/ HardAlarm

-----------------------------------------------------------------------------
(* Cancellation, Ctrl-C and the end of the run. *)

Others == <<profile, receipt, sup, fileVars>>
Step(at, victim) == canceller' = [at |-> at, victim |-> victim]

CancelEvent ==
  /\ "thread" \in Cancellers /\ canceller.at = "off" /\ call.at # "over"
  /\ cancel' = TRUE /\ Step("sandbox", 0)
  /\ UNCHANGED <<call, slot, box, interrupted, task, Others>>

\* Mutant: a process that is killed is not noted as cancelled.
KillOnly ==
  /\ canceller.at = "sandbox"
  /\ IF slot.busy
     THEN /\ slot' = [slot EXCEPT !.cancelled = ~slot.active]
          /\ IF slot.active THEN Step("kill", task.of) ELSE Step("runtime", 0)
     ELSE Step("runtime", 0) /\ UNCHANGED slot
  /\ UNCHANGED <<call, box, cancel, interrupted, task, Others>>

\* Sandbox.cancel under the lock, and the kill after it.
CancelSandbox ==
  /\ canceller.at = "sandbox"
  /\ IF slot.busy
     THEN /\ slot' = [slot EXCEPT !.cancelled = TRUE]
          /\ IF slot.active THEN Step("kill", task.of) ELSE Step("runtime", 0)
     ELSE Step("runtime", 0) /\ UNCHANGED slot
  /\ UNCHANGED <<call, box, cancel, interrupted, task, Others>>

CancelKills ==
  /\ canceller.at = "kill"
  /\ task' = IF task.of = canceller.victim THEN Killed("cancel") ELSE task
  /\ Step("runtime", 0)
  /\ UNCHANGED <<call, slot, box, cancel, interrupted, Others>>

CancelRuntime ==
  /\ canceller.at = "runtime"
  /\ box' = [box EXCEPT !.cancelled = profile = "docker"]
  /\ Step("done", 0)
  /\ UNCHANGED <<call, slot, cancel, interrupted, task, Others>>

Canceller == CancelEvent \/ CancelSandbox \/ CancelKills \/ CancelRuntime

\* Ctrl-C somewhere in the tool call. The regex helper and the container's
\* client are killed on the way out; Sandbox.run only gives up its slot.
InSlot == {"spawn", "record", "collect", "reap"}
Interrupt ==
  /\ "ctrl_c" \in Cancellers /\ ~interrupted
  /\ call.at \notin {"unwound", "closing", "over", "release", "done"}
  /\ interrupted' = TRUE
  /\ Go("unwound")
  /\ slot' = IF call.at \in InSlot
             THEN [busy |-> FALSE, active |-> FALSE,
                   cancelled |-> slot.cancelled /\ call.kind = "regex"]
             ELSE slot
  /\ box' = [box EXCEPT !.busy = FALSE, !.active = FALSE]
  /\ CASE call.at = "read" -> ForceKill("none")
       [] call.at \in InSlot /\ call.kind = "regex" -> task' = Killed("cancel") /\ UNCHANGED sup
       [] OTHER -> UNCHANGED <<task, sup>>
  /\ UNCHANGED <<profile, receipt, cancel, canceller, fileVars>>

\* _run_existing's handler: Worker.cancel in this thread, after the unwinding.
CancelAfterInterrupt ==
  /\ call.at = "unwound"
  /\ cancel' = TRUE
  /\ slot' = [slot EXCEPT !.cancelled = @ \/ slot.busy]
  /\ box' = [box EXCEPT !.cancelled = profile = "docker"]
  /\ Go("closing")
  /\ UNCHANGED <<canceller, interrupted, task, Others>>

EndRun ==
  /\ call.at = "idle" /\ Go("closing")
  /\ UNCHANGED <<slot, box, cancelVars, task, Others>>

\* ContainerRuntime.close and Sandbox.close; from here on the stage may be
\* recorded for recovery.
Close ==
  /\ call.at = "closing" /\ Go("over")
  /\ box' = [box EXCEPT !.closed = TRUE, !.cancelled = profile = "docker"]
  /\ IF box.active THEN ForceKill("none") ELSE UNCHANGED <<task, sup>>
  /\ UNCHANGED <<profile, receipt, slot, cancelVars, fileVars>>

Runner ==
  \/ CheckCancelled \/ Reserve \/ Spawn \/ Record \/ Collect \/ Reap \/ Release
  \/ Admit \/ Start \/ NoticeCancel \/ HardDeadline \/ ReadToEnd \/ Decode
  \/ Compare \/ PublishFile \/ Finish \/ CancelAfterInterrupt \/ Close

Next == WriteFile \/ Begin \/ Runner \/ TaskEnds \/ ScriptWrites \/ Tamper
        \/ Container \/ Canceller \/ Interrupt \/ EndRun

Spec == Init /\ [][Next]_vars

\* Deadlines pass and threads are scheduled; a task may never end by itself,
\* and nobody has to call, cancel or end the run.
LiveSpec == Spec /\ WF_vars(Runner) /\ WF_vars(Container)
                 /\ WF_vars(CancelSandbox \/ CancelKills \/ CancelRuntime)

-----------------------------------------------------------------------------
(* Properties. *)

Ats == {"idle", "check", "reserve", "spawn", "record", "collect", "reap", "release",
        "admit", "start", "read", "decode", "compare", "publish", "done",
        "unwound", "closing", "over"}

\* Types; and the slots are free between two calls, so that no call is turned
\* away as a second one (sandbox.py:952, container_runner.py:769).
StagedTypeOK ==
  /\ call.at \in Ats /\ call.n \in 0..MaxCalls
  /\ stage \in Trees
  /\ slot \in [busy : BOOLEAN, active : BOOLEAN, cancelled : BOOLEAN]
  /\ box \in [busy : BOOLEAN, active : BOOLEAN, cancelled : BOOLEAN, closed : BOOLEAN]
  /\ slot.active => slot.busy /\ call.at \in {"collect", "reap", "release"}
  /\ box.active => box.busy
  /\ call.at = "idle" => ~slot.busy /\ ~box.busy
  /\ receipt.why # "busy"

\* A receipt says published exactly when the selected files of the stage are
\* the candidate and nobody else's change was overwritten on the way; files
\* that become directories and directories that become files included. What
\* may stop a publication half way is only a file outside the selection that
\* holds a directory (container_runner.py _publish, _remove_file, _write_file).
PublicationIsExact ==
  /\ call.at = "idle" /\ receipt.published => Selection(stage) = candidate.after /\ ~foreign
  /\ call.at = "idle" /\ receipt.why = "publication" => stage["x"] # "none"

\* Between Sandbox.run and Sandbox.cancel there is no order of steps in which
\* a cancellation that met a reserved slot lets its process go on: either it
\* kills the process or the process finds the flag.
CancelReachesTask ==
  call.at = "collect" /\ slot.cancelled /\ canceller.at # "kill" => task.state # "running"

\* A receipt of work that a cancellation cut short says so, and none says so
\* without a cancellation (docs/ARCHITECTURE.md:63-65).
ReceiptTellsCancellation ==
  call.at = "idle" =>
    /\ receipt.kind \in {"ran", "no_candidate"} /\ receipt.of = task.of /\ task.by = "cancel"
         => receipt.cancelled
    /\ receipt.cancelled => cancel

\* When Worker.cancel has returned in the cancelling thread, or the Ctrl-C
\* handler has called it, no container starts any more, wherever between its
\* checks the call was then (docs/API.md:99; container_runner.py:498-500).
ContainerCancelIsFinal ==
  [][canceller.at = "done" \/ call.at \in {"closing", "over"}
       => ~(sup.at = "none" /\ sup'.at = "input")]_vars

\* A call ends, and its process with it, whatever the process does. Left out
\* is what staged_ctrl_c shows.
CallsEnd ==
  call.at # "idle" ~> \/ /\ call.at \in {"idle", "over"} /\ task.state # "running"
                         /\ ~slot.busy /\ ~box.busy
                      \/ interrupted /\ profile = "python"

\* "Cancellation ... terminates staged execution" (docs/ARCHITECTURE.md:58-59):
\* no staged script is running when the cancelled run is over.
CancelTerminatesExecution ==
  call.at = "over" /\ cancel /\ call.kind = "run" => task.state # "running"
=============================================================================
