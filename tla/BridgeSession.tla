---------------------------- MODULE BridgeSession ----------------------------
(***************************************************************************)
(* One run of the bridge: the supervisor loop PiBridge._run_once with the   *)
(* callbacks Worker._rpc and Worker._event (worker.py) on one side, the     *)
(* agent process of bridge/agent.mjs on the other, and a pipe each way.     *)
(* The pi SDK inside the agent process is external: its turns are modelled  *)
(* through the hooks that agent.mjs gives it, and wherever agent.mjs leaves *)
(* the SDK a choice (fail with or without events, notice an abort now or    *)
(* later) the model leaves it too.                                          *)
(* PiBridge._cancel_requested is only ever set after Worker._cancel_event   *)
(* or at the end of the loop, so one flag stands for both.                  *)
(***************************************************************************)
EXTENDS Naturals, Sequences, SequencesExt

CONSTANTS MaxRounds,     \* max_rounds of the run request
          MaxTools,      \* bound: tool calls of one message
          PendingLimit   \* events kept before the first admission (32)

\* Four events precede the first admission, and the limit has room for them.
ASSUME BridgeAssumption == /\ MaxRounds \in Nat \ {0}
                           /\ MaxTools \in Nat \ {0}
                           /\ PendingLimit \in Nat /\ PendingLimit >= 4

VARIABLES sup,       \* where the supervisor loop is
          request,   \* the RPC being handled
          cancel,    \* Worker._cancel_event
          cancelSent,
          late,      \* the deadline of the loop has passed
          fenced,    \* the goal is no longer what the run was started on
          worker,    \* what Worker and the store hold for this run
          outcome,   \* status and reason of the run
          toAgent, toSupervisor,
          proc,      \* the agent process
          agent      \* the state of agent.mjs and of the SDK in it

controllerVars == <<sup, request, cancelSent, worker, outcome>>
eventVars == <<cancel, late, fenced>>
vars == <<controllerVars, eventVars, toAgent, toSupervisor, proc, agent>>

EarlyKinds == {"agent_config", "agent_start", "turn_start", "input"}
ModelKinds == {"message", "tool", "turn_end", "agent_end"}
Statuses == {"finished", "failed", "cancelled", "interrupted"}

NoRequest == [type |-> "none"]
Live == {"top", "read", "rpc", "serve"}
Active == {"preflight", "begin", "turn", "prepare", "preparing", "payload",
           "paying", "stream", "tools", "tooling", "turn_end", "ending",
           "refused", "result"}
Running == Active \ {"preflight", "begin", "result"}

Event(kind, n) == [type |-> "event", kind |-> kind, inv |-> agent.inv, n |-> n]
Rpc(method) == [type |-> "rpc", method |-> method, inv |-> agent.inv]
Result(ok, status, rounds) ==
  [type |-> "result", ok |-> ok, status |-> status, rounds |-> rounds]
Reply(ok, status, inv) ==
  [type |-> "rpc_result", ok |-> ok, status |-> status, inv |-> inv]

Init ==
  /\ sup = "off" /\ request = NoRequest
  /\ cancel = FALSE /\ cancelSent = FALSE /\ late = FALSE /\ fenced = FALSE
  /\ worker = [inv |-> 0, finished |-> {}, pending |-> <<>>, log |-> <<>>,
               refused |-> FALSE, protocol |-> FALSE, budget |-> FALSE]
  /\ outcome = [status |-> "none", why |-> "none", rounds |-> 0]
  /\ toAgent = <<>> /\ toSupervisor = <<>>
  /\ proc = "none"
  /\ agent = [at |-> "idle", inv |-> 0, rounds |-> 0, tools |-> 0,
              cancelled |-> FALSE, aborted |-> FALSE, closed |-> FALSE,
              stop |-> "none", err |-> "none", emitted |-> 0]

-----------------------------------------------------------------------------
(* The supervisor loop. *)

\* The finally clause: the process is killed whatever ended the loop. The
\* status is what Worker._run_once makes of it.
End(status, why, rounds) ==
  /\ sup' = "over"
  /\ outcome' = [status |-> IF cancel THEN "cancelled" ELSE status,
                 why |-> why, rounds |-> rounds]
  /\ proc' = IF proc = "none" THEN "none" ELSE "dead"

Start ==
  /\ sup = "off"
  /\ \/ /\ sup' = "top" /\ proc' = "alive"
        /\ toAgent' = <<[type |-> "run"]>>
        /\ UNCHANGED outcome
     \/ /\ \/ cancel /\ End("cancelled", "before_start", 0)
           \/ End("failed", "spawn", 0)
        /\ UNCHANGED toAgent
  /\ UNCHANGED <<request, cancelSent, worker, eventVars, toSupervisor, agent>>

SendCancel ==
  /\ sup = "top" /\ cancel /\ ~cancelSent
  /\ IF proc = "alive"
     THEN /\ toAgent' = Append(toAgent, [type |-> "cancel"])
          /\ cancelSent' = TRUE
          /\ UNCHANGED <<sup, outcome, proc>>
     ELSE /\ End("failed", "broken_pipe", 0)
          /\ UNCHANGED <<toAgent, cancelSent>>
  /\ UNCHANGED <<request, worker, eventVars, toSupervisor, agent>>

\* Mutant: once the cancel is sent, the agent is waited for.
TrustCancel ==
  /\ sup = "top" /\ (cancel => cancelSent)
  /\ IF late /\ ~cancel THEN End("interrupted", "time_limit", 0)
                        ELSE sup' = "read" /\ UNCHANGED <<outcome, proc>>
  /\ UNCHANGED <<request, cancelSent, worker, eventVars, toAgent, toSupervisor, agent>>

CheckDeadline ==
  /\ sup = "top" /\ (cancel => cancelSent)
  /\ IF late THEN End("interrupted", "time_limit", 0)
             ELSE sup' = "read" /\ UNCHANGED <<outcome, proc>>
  /\ UNCHANGED <<request, cancelSent, worker, eventVars, toAgent, toSupervisor, agent>>

\* select: nothing to read yet, or the end of the stream.
NothingToRead ==
  /\ sup = "read" /\ toSupervisor = <<>>
  /\ IF proc = "alive" THEN sup' = "top" /\ UNCHANGED <<outcome, proc>>
                       ELSE End("failed", "exited", 0)
  /\ UNCHANGED <<request, cancelSent, worker, eventVars, toAgent, toSupervisor, agent>>

Line == Head(toSupervisor)
HasLine(type) == sup = "read" /\ toSupervisor # <<>> /\ Line.type = type

Receipts(w, events) ==
  [i \in DOMAIN events |-> [n |-> events[i].n, inv |-> events[i].inv, under |-> w.inv]]

\* The receipts alone, before the end of a turn is acted on.
Received(w, events) == [w EXCEPT !.log = @ \o Receipts(w, events)]

\* Worker._event once there is an invocation: receipts, and finish at turn_end.
Recorded(w, events) ==
  [w EXCEPT !.log = @ \o Receipts(w, events),
            !.finished = IF \E i \in DOMAIN events : events[i].kind = "turn_end"
                         THEN @ \union {w.inv} ELSE @]

\* Worker._event. The store refuses to finish an invocation that another
\* controller has cancelled (_finish_current); the run fails with it.
ReadEvent ==
  /\ HasLine("event")
  /\ toSupervisor' = Tail(toSupervisor)
  /\ \/ /\ worker.inv > 0
        /\ worker' = Recorded(worker, <<Line>>)
        /\ sup' = "top" /\ UNCHANGED <<outcome, proc>>
     \/ /\ worker.inv = 0 /\ Line.kind \in EarlyKinds
        /\ Len(worker.pending) < PendingLimit
        /\ worker' = [worker EXCEPT !.pending = Append(@, Line)]
        /\ sup' = "top" /\ UNCHANGED <<outcome, proc>>
     \/ /\ worker.inv = 0
        /\ Line.kind \in EarlyKinds => Len(worker.pending) >= PendingLimit
        /\ End("failed", "early_event", 0) /\ UNCHANGED worker
     \/ /\ worker.inv > 0 /\ Line.kind = "turn_end"
        /\ worker.inv \notin worker.finished
        /\ worker' = Received(worker, <<Line>>)
        /\ End("failed", "not_finished", 0)
  /\ UNCHANGED <<request, cancelSent, eventVars, toAgent, agent>>

\* Worker._run_once reports a refused budget even when the agent does not.
ReadResult ==
  /\ HasLine("result")
  /\ toSupervisor' = Tail(toSupervisor)
  /\ IF Line.ok
     THEN End(IF worker.budget THEN "interrupted" ELSE Line.status, "result", Line.rounds)
     ELSE End(Line.status, "agent_error", 0)
  /\ UNCHANGED <<request, cancelSent, worker, eventVars, toAgent, agent>>

ReadRpc ==
  /\ HasLine("rpc")
  /\ toSupervisor' = Tail(toSupervisor)
  /\ request' = Line /\ sup' = "rpc"
  /\ UNCHANGED <<cancelSent, worker, outcome, eventVars, toAgent, proc, agent>>

-----------------------------------------------------------------------------
(* Worker._rpc: the check on entry, then the method, then the answer. *)

Answer(reply) ==
  /\ request' = NoRequest
  /\ IF proc = "alive" THEN /\ toAgent' = Append(toAgent, reply) /\ sup' = "top"
                            /\ UNCHANGED <<outcome, proc>>
                       ELSE End("failed", "broken_pipe", 0) /\ UNCHANGED toAgent

Refuse(w, status) ==
  /\ worker' = [w EXCEPT !.refused = TRUE]
  /\ Answer(Reply(FALSE, status, 0))

\* _check_cancelled. The limit of the worker is never before the loop's.
EnterRpc ==
  /\ sup = "rpc"
  /\ \/ /\ ~cancel
        /\ sup' = "serve" /\ UNCHANGED <<request, worker, outcome, toAgent, proc>>
     \/ /\ cancel \/ late
        /\ Refuse(worker, "failed")
  /\ UNCHANGED <<cancelSent, eventVars, toSupervisor, agent>>

\* The checks of _prepare_request that only a misbehaving agent fails.
AdmissionInOrder == /\ request.inv = worker.inv
                    /\ worker.inv > 0 => worker.inv \in worker.finished

\* Mutant: the waiting events are replayed before the invocation is set.
ReplayedTooEarly ==
  [Recorded([worker EXCEPT !.pending = <<>>], worker.pending) EXCEPT !.inv = @ + 1]

\* invoke, then the events that waited for an invocation, in their order.
Admitted == Recorded([worker EXCEPT !.inv = @ + 1, !.pending = <<>>], worker.pending)

Disorder(inOrder) == [worker EXCEPT !.protocol = @ \/ ~inOrder]

PrepareRequest ==
  /\ sup = "serve" /\ request.method = "prepare_request"
  /\ \/ /\ ~AdmissionInOrder \/ fenced
        /\ Refuse(Disorder(AdmissionInOrder), "failed")
     \/ /\ AdmissionInOrder
        /\ Refuse([worker EXCEPT !.budget = TRUE], "interrupted")
     \/ /\ AdmissionInOrder /\ ~fenced
        /\ worker' = Admitted
        /\ Answer(Reply(TRUE, "finished", worker.inv + 1))
  /\ UNCHANGED <<cancelSent, eventVars, toSupervisor, agent>>

ProviderPayload ==
  /\ sup = "serve" /\ request.method = "provider_payload"
  /\ LET inOrder == request.inv = worker.inv /\ worker.inv \notin worker.finished
     IN \/ /\ ~inOrder \/ fenced
           /\ Refuse(Disorder(inOrder), "failed")
        \/ /\ inOrder /\ ~fenced
           /\ Refuse([worker EXCEPT !.budget = TRUE], "interrupted")
        \/ /\ inOrder /\ ~fenced
           /\ UNCHANGED worker /\ Answer(Reply(TRUE, "finished", 0))
  /\ UNCHANGED <<cancelSent, eventVars, toSupervisor, agent>>

\* _tool_call: the tool itself works or not, the answer is ok either way.
ToolCall ==
  /\ sup = "serve" /\ request.method = "tool_call"
  /\ LET inOrder == request.inv = worker.inv /\ worker.inv \notin worker.finished
     IN \/ /\ ~inOrder \/ fenced
           /\ Refuse(Disorder(inOrder), "failed")
        \/ /\ inOrder /\ ~fenced
           /\ UNCHANGED worker /\ Answer(Reply(TRUE, "finished", 0))
  /\ UNCHANGED <<cancelSent, eventVars, toSupervisor, agent>>

Supervisor ==
  \/ SendCancel \/ CheckDeadline \/ NothingToRead
  \/ ReadEvent \/ ReadResult \/ ReadRpc
  \/ EnterRpc \/ PrepareRequest \/ ProviderPayload \/ ToolCall

-----------------------------------------------------------------------------
(* The agent process. A write to a controller that is gone ends it. *)

Write(next, lines) ==
  /\ proc = "alive"
  /\ IF sup = "crashed" /\ lines # <<>>
     THEN proc' = "dead" /\ UNCHANGED <<agent, toSupervisor>>
     ELSE /\ agent' = next /\ toSupervisor' = toSupervisor \o lines
          /\ UNCHANGED proc

AgentStep(next, lines) ==
  Write(next, lines) /\ UNCHANGED <<controllerVars, eventVars, toAgent>>

\* Events are numbered by the agent, so that losses and swaps can be told.
Emit(next, kinds) ==
  AgentStep([next EXCEPT !.emitted = @ + Len(kinds)],
            [i \in 1..Len(kinds) |-> Event(kinds[i], agent.emitted + i)])

Go(at) == [agent EXCEPT !.at = at]
Fail(err, at) == [agent EXCEPT !.at = at, !.err = err]

HasMessage(type) == proc = "alive" /\ toAgent # <<>> /\ Head(toAgent).type = type
Handle(next, lines) ==
  /\ toAgent' = Tail(toAgent)
  /\ Write(next, lines) /\ UNCHANGED <<controllerVars, eventVars>>

\* startRun and runAgent up to their first await; createAgent may throw.
HandleRun ==
  /\ HasMessage("run")
  /\ \/ Handle([agent EXCEPT !.at = "preflight", !.emitted = 1],
               <<Event("agent_config", 1)>>)
     \/ Handle(Go("done"), <<Result(FALSE, "failed", 0)>>)

\* The abort reaches the SDK only once it runs.
HandleCancel ==
  /\ HasMessage("cancel")
  /\ Handle([agent EXCEPT !.cancelled = @ \/ agent.at \in Active,
                          !.aborted = @ \/ agent.at \in Running], <<>>)

HandleAdmission ==
  /\ HasMessage("rpc_result") /\ agent.at = "preparing"
  /\ LET reply == Head(toAgent)
     IN Handle(IF reply.ok THEN [agent EXCEPT !.at = "payload", !.inv = reply.inv]
                           ELSE Fail(reply.status, "refused"), <<>>)

HandlePayloadReply ==
  /\ HasMessage("rpc_result") /\ agent.at = "paying"
  /\ IF Head(toAgent).ok
     THEN Handle(Go("stream"), <<>>)
     ELSE Handle([agent EXCEPT !.at = "turn_end", !.stop = "error",
                               !.emitted = @ + 1],
                 <<Event("message", agent.emitted + 1)>>)

HandleToolReply ==
  /\ HasMessage("rpc_result") /\ agent.at = "tooling"
  /\ Handle([agent EXCEPT !.at = "tools", !.tools = @ + 1, !.emitted = @ + 1],
            <<Event("tool", agent.emitted + 1)>>)

Preflight ==
  /\ agent.at = "preflight"
  /\ AgentStep(Go("begin"), <<>>) \/ AgentStep(Fail("failed", "result"), <<>>)

Begin == agent.at = "begin" /\ Emit(Go("turn"), <<"agent_start">>)

Turn ==
  /\ agent.at = "turn"
  /\ Emit([agent EXCEPT !.at = "prepare", !.tools = 0],
          IF agent.inv = 0 THEN <<"turn_start", "input">> ELSE <<"turn_start">>)

AskAdmission ==
  agent.at = "prepare" /\ AgentStep(Go("preparing"), <<Rpc("prepare_request")>>)
SendPayload ==
  agent.at = "payload" /\ AgentStep(Go("paying"), <<Rpc("provider_payload")>>)

\* The model's message, its failure, or the abort of its stream. "stop" stands
\* for every message without tool calls, one cut off at its length too.
Stream ==
  /\ agent.at = "stream"
  /\ \E stop \in {"stop", "toolUse", "error"} \union (IF agent.aborted THEN {"aborted"} ELSE {}) :
       Emit([agent EXCEPT !.stop = stop,
                          !.at = IF stop = "toolUse" THEN "tools" ELSE "turn_end"],
            <<"message">>)

CallTool ==
  /\ agent.at = "tools" /\ agent.tools < MaxTools
  /\ AgentStep(Go("tooling"), <<Rpc("tool_call")>>)

\* beforeToolCall: a tool outside the loadout is refused without an RPC, and
\* the SDK is told to end the run.  It may wait for the calls beside it to agree.
BlockTool ==
  /\ agent.at = "tools" /\ agent.tools < MaxTools
  /\ \E stop \in {agent.stop, "blocked"} :
       Emit([agent EXCEPT !.tools = @ + 1, !.stop = stop], <<"tool">>)

\* Between the calls it has to make, the SDK may notice an abort.
NoticeAbort ==
  /\ agent.aborted /\ agent.at \in {"prepare", "payload", "tools"}
  /\ Emit([agent EXCEPT !.stop = "aborted", !.at = "turn_end"], <<"message">>)

ToolsDone ==
  agent.at = "tools" /\ agent.tools > 0 /\ AgentStep(Go("turn_end"), <<>>)

\* Mutant: one round too many.
FinishTurnLate ==
  /\ agent.at = "turn_end"
  /\ LET rounds == agent.rounds + 1
         goOn == agent.stop = "toolUse" /\ rounds <= MaxRounds
         next == [agent EXCEPT !.rounds = rounds]
     IN IF goOn THEN Emit([next EXCEPT !.at = "turn"], <<"turn_end">>)
        ELSE Emit([next EXCEPT !.at = "ending",
                     !.err = IF agent.stop \in {"error", "aborted"} THEN "failed" ELSE @],
                  <<"turn_end">>)

\* finishTurn: the round is counted, and the limit ends the run.
FinishTurn ==
  /\ agent.at = "turn_end"
  /\ LET rounds == agent.rounds + 1
         goOn == agent.stop = "toolUse" /\ rounds < MaxRounds
         next == [agent EXCEPT !.rounds = rounds]
     IN IF goOn THEN Emit([next EXCEPT !.at = "turn"], <<"turn_end">>)
        ELSE Emit([next EXCEPT !.at = "ending",
                     !.err = IF agent.stop \in {"error", "aborted"} THEN "failed" ELSE @],
                  <<"turn_end">>)

AgentEnd == agent.at = "ending" /\ Emit(Go("result"), <<"agent_end">>)

\* prepareRequest threw: the SDK lets it through, or reports it by events.
Refused ==
  /\ agent.at = "refused"
  /\ \/ AgentStep(Go("result"), <<>>)
     \/ Emit(Go("result"), <<"message", "turn_end", "agent_end">>)

\* Mutant: only errors count.
StatusOfError ==
  CASE agent.err # "none" -> IF agent.cancelled THEN "cancelled" ELSE agent.err
    [] OTHER -> "finished"

\* The statuses of runAgent.
AgentStatus ==
  CASE agent.err # "none" -> IF agent.cancelled THEN "cancelled" ELSE agent.err
    [] /\ agent.err = "none" /\ agent.rounds >= MaxRounds
       /\ agent.stop \in {"toolUse", "blocked"} -> "interrupted"
    [] OTHER -> "finished"

SendResult ==
  /\ agent.at = "result"
  /\ AgentStep(Go("done"), <<Result(TRUE, AgentStatus, agent.rounds)>>)

\* The end of stdin: abort, and every pending RPC fails.
StdinClosed ==
  /\ sup = "crashed" /\ toAgent = <<>> /\ ~agent.closed
  /\ AgentStep([agent EXCEPT
       !.closed = TRUE, !.aborted = @ \/ agent.at \in Running,
       !.at = IF @ \in {"preparing", "paying", "tooling"} THEN "refused" ELSE @,
       !.err = IF agent.at \in {"preparing", "paying", "tooling"} THEN "failed" ELSE @], <<>>)

Exit == /\ proc = "alive" /\ agent.closed /\ agent.at = "done" /\ proc' = "dead"
        /\ UNCHANGED <<controllerVars, eventVars, toAgent, toSupervisor, agent>>

Agent ==
  \/ HandleRun \/ HandleCancel
  \/ HandleAdmission \/ HandlePayloadReply \/ HandleToolReply
  \/ Preflight \/ Begin \/ Turn \/ AskAdmission \/ SendPayload
  \/ Stream \/ CallTool \/ BlockTool \/ NoticeAbort \/ ToolsDone \/ FinishTurn \/ AgentEnd
  \/ Refused \/ SendResult \/ StdinClosed \/ Exit

-----------------------------------------------------------------------------
(* What happens to both. *)

Cancel == ~cancel /\ sup \notin {"over", "crashed"} /\ cancel' = TRUE
          /\ UNCHANGED <<controllerVars, late, fenced, toAgent, toSupervisor, proc, agent>>
Fence == ~fenced /\ sup \in Live /\ fenced' = TRUE
         /\ UNCHANGED <<controllerVars, cancel, late, toAgent, toSupervisor, proc, agent>>
TimePasses == ~late /\ sup \in Live /\ late' = TRUE
              /\ UNCHANGED <<controllerVars, cancel, fenced, toAgent, toSupervisor, proc, agent>>

AgentDies == proc = "alive" /\ sup \in Live /\ proc' = "dead"
             /\ UNCHANGED <<controllerVars, eventVars, toAgent, toSupervisor, agent>>
ControllerDies == sup \in Live /\ sup' = "crashed"
                  /\ UNCHANGED <<request, cancelSent, worker, outcome, eventVars,
                                 toAgent, toSupervisor, proc, agent>>

Next == Start \/ Supervisor \/ Agent \/ Cancel \/ Fence \/ TimePasses
        \/ AgentDies \/ ControllerDies

Spec == Init /\ [][Next]_vars

\* The controller runs its loop and its handlers end; time passes; and an
\* orphaned agent is scheduled. Nothing is assumed of an agent that is
\* supervised: it may hang anywhere.
BridgeFairness == /\ WF_vars(Supervisor) /\ WF_vars(TimePasses)
                  /\ WF_vars(sup = "crashed" /\ Agent)

-----------------------------------------------------------------------------
(* Properties. *)

Lines == {[type |-> "event", kind |-> k, inv |-> i, n |-> n] :
            k \in EarlyKinds \union ModelKinds, i \in 0..MaxRounds, n \in 1..(agent.emitted)}
  \union {[type |-> "rpc", method |-> m, inv |-> i] :
            m \in {"prepare_request", "provider_payload", "tool_call"}, i \in 0..MaxRounds}
  \union {[type |-> "result", ok |-> ok, status |-> s, rounds |-> r] :
            ok \in BOOLEAN, s \in Statuses, r \in 0..MaxRounds}

\* Types, and the bound on invocations: no run is admitted more often than
\* max_rounds, which only the agent counts (agent.mjs finishTurn).
BridgeTypeOK ==
  /\ sup \in Live \union {"off", "over", "crashed"}
  /\ request = NoRequest \/ request \in Lines
  /\ <<cancel, cancelSent, late, fenced>> \in BOOLEAN \X BOOLEAN \X BOOLEAN \X BOOLEAN
  /\ worker.inv \in 0..MaxRounds /\ worker.finished \subseteq 1..(worker.inv)
  /\ outcome.status \in Statuses \union {"none"}
  /\ ToSet(toSupervisor) \subseteq Lines
  /\ agent.at \in Active \union {"idle", "done"} /\ agent.inv \in 0..(worker.inv)
  /\ proc \in {"none", "alive", "dead"}

Numbers(s) == [i \in 1..Len(s) |-> s[i].n]
InFlight ==
  LET upTo[k \in 0..Len(toSupervisor)] ==
        IF k = 0 THEN <<>>
        ELSE IF toSupervisor[k].type = "event" THEN Append(upTo[k - 1], toSupervisor[k])
        ELSE upTo[k - 1]
  IN  upTo[Len(toSupervisor)]

\* Every event the agent emits is captured once and in its order, those before
\* the first admission included; nothing is captured twice or out of order
\* even when the run breaks off (worker.py _event, _prepare_request's flush).
CapturedInOrder ==
  LET held == Numbers(worker.log) \o Numbers(worker.pending)
      all == held \o Numbers(InFlight)
  IN /\ held = [i \in 1..Len(held) |-> i]
     /\ sup \in Live => all = [i \in 1..(agent.emitted) |-> i]

\* An event is recorded under the invocation the agent was in when it emitted
\* it, not under a later one (docs/ARCHITECTURE.md:42); what precedes the
\* first admission goes to the first invocation.
CapturedUnderInvocation ==
  \A i \in 1..Len(worker.log) :
    worker.log[i].under = IF worker.log[i].inv = 0 THEN 1 ELSE worker.log[i].inv

CaptureIsFaithful == CapturedInOrder /\ CapturedUnderInvocation

\* The controller never takes its own agent for a misbehaving one: no RPC is
\* out of order in any run, and a model event before the first admission can
\* only follow a refusal or a cancellation.
NoSpuriousRefusal ==
  /\ ~worker.protocol
  /\ outcome.why = "early_event" => worker.refused \/ cancelSent

\* A run reported as finished is one whose last message really ended it,
\* because it calls no tool or because a tool it calls is refused for good:
\* every admitted invocation is finished, every round is counted, and neither
\* a cancellation nor a refused budget hides behind the status.
FinishedMeansDone ==
  outcome.status = "finished" =>
    /\ outcome.why = "result" /\ agent.stop \in {"stop", "blocked"}
    /\ worker.finished = 1..(worker.inv) /\ outcome.rounds = worker.inv
    /\ ~cancel /\ ~worker.budget

\* A run ends and takes its process with it, whatever the agent does; and an
\* agent whose controller is gone ends by itself.
SessionEnds == sup \in Live ~> (sup \notin Live /\ proc # "alive")
=============================================================================
