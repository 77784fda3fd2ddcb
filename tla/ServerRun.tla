----------------------------- MODULE ServerRun -----------------------------
(***************************************************************************)
(* Background runs of the local web server (goal_native/server.py,         *)
(* LocalRunner): a job table behind one lock, one thread per job, and      *)
(* HTTP handler threads that start and cancel jobs.  The controller a      *)
(* thread runs (Worker.run) is reduced to what LocalRunner can tell of it: *)
(* the reset of its cancel event, the admission of RPCs, and its outcome;  *)
(* module WorkerRun has the rest of it.                                    *)
(*                                                                         *)
(* A thread:  opening -> created -> (signalling) -> entering -> serving    *)
(*            serving <-> rpc                                              *)
(*            serving -> recording -> closing -> over                      *)
(*            an exception anywhere -> failing -> closing                  *)
(***************************************************************************)
EXTENDS Naturals

CONSTANTS JobGoals, Jobs

VARIABLES
    jobs,       \* LocalRunner.jobs
    threads,    \* execute(), one per job: program counter and Worker state
    cancelling, \* the jobs POST .../cancel has yet to signal
    lock,       \* LocalRunner.lock is held by POST .../cancel
    answered    \* the jobs whose cancellation was acknowledged to a client

serverVars == <<jobs, threads, cancelling, lock, answered>>

-----------------------------------------------------------------------------

Outcomes == {"finished", "failed", "cancelled", "interrupted"}
ActiveStates == {"running", "cancelling"}

NoJob == [status |-> "absent"]

\* Where the thread may touch the store under the authority of the run.
InRun == {"entering", "serving", "rpc"}

\* cancel_event is Worker._cancel_event.
NoThread == [pc |-> "none", cancel_event |-> FALSE, result |-> "failed"]

ThreadAt(j, pc) == threads[j].pc = pc
ThreadGoto(j, pc) == threads' = [threads EXCEPT ![j].pc = pc]
Cancellable(g) == {j \in Jobs : jobs[j].status = "running" /\ jobs[j].goal = g}

-----------------------------------------------------------------------------
(* HTTP handlers.                                                          *)

\* POST .../run, refused while a job of the goal is active.
StartJob(j, g) ==
    /\ ~lock
    /\ ~\E k \in Jobs : jobs[k].status \in ActiveStates /\ jobs[k].goal = g
    /\ jobs[j] = NoJob
    /\ jobs' = [jobs EXCEPT ![j] = [goal |-> g, status |-> "running",
                                    worker |-> FALSE, cancel_requested |-> FALSE]]
    /\ ThreadGoto(j, "opening")
    /\ UNCHANGED <<cancelling, lock, answered>>

\* Mutant of CancelGoal: the jobs count as over at once.
CancelAtOnce(g) ==
    /\ ~lock
    /\ Cancellable(g) # {}
    /\ lock' = TRUE
    /\ cancelling' = Cancellable(g)
    /\ jobs' = [j \in Jobs |->
            IF j \in Cancellable(g)
            THEN [jobs[j] EXCEPT !.cancel_requested = TRUE, !.status = "cancelled"]
            ELSE jobs[j]]
    /\ UNCHANGED <<threads, answered>>

\* POST .../cancel, under the lock: mark the running jobs of the goal ...
CancelGoal(g) ==
    /\ ~lock
    /\ Cancellable(g) # {}
    /\ lock' = TRUE
    /\ cancelling' = Cancellable(g)
    /\ jobs' = [j \in Jobs |->
            IF j \in Cancellable(g)
            THEN [jobs[j] EXCEPT !.cancel_requested = TRUE, !.status = "cancelling"]
            ELSE jobs[j]]
    /\ UNCHANGED <<threads, answered>>

\* ... signal the workers that are there, and answer.
Signal(j) ==
    /\ j \in cancelling
    /\ cancelling' = cancelling \ {j}
    /\ lock' = (cancelling' # {})
    /\ answered' = answered \cup {j}
    /\ threads' = [threads EXCEPT ![j].cancel_event = @ \/ jobs[j].worker]
    /\ UNCHANGED jobs

-----------------------------------------------------------------------------
(* The thread of a job.                                                    *)

\* Opening the store and building the worker may raise.
Open(j) ==
    /\ ThreadAt(j, "opening")
    /\ ThreadGoto(j, "created") \/ ThreadGoto(j, "failing")
    /\ UNCHANGED <<jobs, cancelling, lock, answered>>

\* Publish the worker and read the cancel request, under the lock.
Publish(j) ==
    /\ ThreadAt(j, "created")
    /\ ~lock
    /\ jobs' = [jobs EXCEPT ![j].worker = TRUE]
    /\ ThreadGoto(j, IF jobs[j].cancel_requested THEN "signalling" ELSE "entering")
    /\ UNCHANGED <<cancelling, lock, answered>>

SignalSelf(j) ==
    /\ ThreadAt(j, "signalling")
    /\ threads' = [threads EXCEPT ![j] = [@ EXCEPT !.pc = "entering", !.cancel_event = TRUE]]
    /\ UNCHANGED <<jobs, cancelling, lock, answered>>

\* Worker._run_once begins with _cancel_event.clear().
EnterRun(j) ==
    /\ ThreadAt(j, "entering")
    /\ threads' = [threads EXCEPT ![j] = [@ EXCEPT !.pc = "serving", !.cancel_event = FALSE]]
    /\ UNCHANGED <<jobs, cancelling, lock, answered>>

\* Worker._rpc: _check_cancelled comes first; an entered RPC may finish.
AdmitRpc(j) ==
    /\ ThreadAt(j, "serving")
    /\ ~threads[j].cancel_event
    /\ ThreadGoto(j, "rpc")
    /\ UNCHANGED <<jobs, cancelling, lock, answered>>

AnswerRpc(j) ==
    /\ ThreadAt(j, "rpc")
    /\ ThreadGoto(j, "serving")
    /\ UNCHANGED <<jobs, cancelling, lock, answered>>

\* Every end of Worker._run_once reads the event to choose the status; an
\* exception that escapes from it has none.
EndRun(j) ==
    /\ ThreadAt(j, "serving")
    /\ \/ \E result \in Outcomes :
            /\ threads[j].cancel_event => result = "cancelled"
            /\ threads' = [threads EXCEPT ![j] = [@ EXCEPT !.pc = "recording",
                                                           !.result = result]]
       \/ ThreadGoto(j, "failing")
    /\ UNCHANGED <<jobs, cancelling, lock, answered>>

Settle(j, status) ==
    /\ ~lock
    /\ jobs' = [jobs EXCEPT ![j].status = status]
    /\ ThreadGoto(j, "closing")
    /\ UNCHANGED <<cancelling, lock, answered>>

Record(j) == ThreadAt(j, "recording") /\ Settle(j, threads[j].result)

\* Mutant of RecordFailure: an exception only closes the job.
FailUnrecorded(j) ==
    /\ ThreadAt(j, "failing")
    /\ ~lock
    /\ ThreadGoto(j, "closing")
    /\ UNCHANGED <<jobs, cancelling, lock, answered>>

RecordFailure(j) ==
    /\ ThreadAt(j, "failing")
    /\ Settle(j, IF jobs[j].cancel_requested THEN "cancelled" ELSE "failed")

Close(j) ==
    /\ ThreadAt(j, "closing")
    /\ ~lock
    /\ jobs' = [jobs EXCEPT ![j].worker = FALSE]
    /\ ThreadGoto(j, "over")
    /\ UNCHANGED <<cancelling, lock, answered>>

-----------------------------------------------------------------------------

ServerInit ==
    /\ jobs = [j \in Jobs |-> NoJob]
    /\ threads = [j \in Jobs |-> NoThread]
    /\ cancelling = {}
    /\ lock = FALSE
    /\ answered = {}

\* What a thread does without the agent's help.
Advance(j) ==
    \/ Open(j) \/ Publish(j) \/ SignalSelf(j) \/ EnterRun(j)
    \/ AnswerRpc(j) \/ Record(j) \/ RecordFailure(j) \/ Close(j)

ServerNext ==
    \/ \E j \in Jobs, g \in JobGoals : StartJob(j, g)
    \/ \E g \in JobGoals : CancelGoal(g)
    \/ \E j \in Jobs : Signal(j) \/ Advance(j) \/ AdmitRpc(j) \/ EndRun(j)

ServerSpec == ServerInit /\ [][ServerNext]_serverVars

\* Threads are scheduled, nobody keeps the lock, and the deadline of PiBridge
\* ends every service, however many RPCs come before it.
ServerFairness ==
    \A j \in Jobs : /\ WF_serverVars(Advance(j))
                    /\ SF_serverVars(EndRun(j))
                    /\ WF_serverVars(Signal(j))

-----------------------------------------------------------------------------
(* Properties.                                                             *)

\* "a run is already active for this goal": no two threads are ever inside a
\* run of the same goal, also when one of them is being cancelled slowly.
OneRunPerGoal ==
    \A j, k \in Jobs :
        /\ threads[j].pc \in InRun
        /\ threads[k].pc \in InRun
        /\ jobs[j].goal = jobs[k].goal
        => j = k

\* Every started job ends, so its goal can be run again: start refuses the
\* goal only for a time.
JobsSettle == \A j \in Jobs : (jobs[j].status \in ActiveStates) ~> (jobs[j].status \in Outcomes)

\* docs/ARCHITECTURE.md, "Cancellation rejects later admission/tool RPCs":
\* after the cancellation of a job was answered, its run admits no RPC.
CancelRejectsLaterRpcs ==
    [][\A j \in answered : ThreadAt(j, "serving") => threads'[j].pc # "rpc"]_serverVars
=============================================================================
