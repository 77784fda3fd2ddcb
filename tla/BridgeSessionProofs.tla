------------------------ MODULE BridgeSessionProofs ------------------------
(***************************************************************************)
(* Proofs about BridgeSession, for any number of rounds and of tool calls: *)
(* types, faithful capture, no spurious refusal, and that a run reported   *)
(* as finished is done.                                                    *)
(*                                                                         *)
(* The two processes share nothing but the pipes, so BridgeInv ties what   *)
(* the one knows to what the other does, through what is under way:        *)
(*   Held, Flow       what the controller has recorded, then what waits    *)
(*                    for an admission, then the events in the pipe, are   *)
(*                    the numbers 1, 2, ... up to what the agent emitted   *)
(*   Calls, Orders    there is at most one RPC, and it is in one place: in *)
(*                    the pipe, in the controller's hands, or answered;    *)
(*                    the invocations of the two sides agree up to it      *)
(*   PhaseOf          what the agent has counted, where it is in its turn  *)
(*   Turns            a turn that is over is finished in the store, or its *)
(*                    turn_end is in the pipe                              *)
(*   Causes           an agent that aborts or gives up was told to         *)
(*   Reports, Results what the result says, in the pipe and at the end     *)
(* Session stops holding when the supervisor kills the process: what was   *)
(* under way is then lost, and only what was recorded keeps its meaning.   *)
(***************************************************************************)
EXTENDS BridgeSession, SequenceTheorems, WellFoundedInduction, TLAPS

Waiting == {"preparing", "paying", "tooling"}
Asks == [preparing |-> "prepare_request", paying |-> "provider_payload",
         tooling |-> "tool_call"]
InTurn == {"payload", "paying", "stream", "tools", "tooling"}
BetweenTurns == {"turn", "prepare", "preparing"}

SupervisorPlaces == Live \cup {"off", "over", "crashed"}
EventLines ==
  [type: {"event"}, kind: EarlyKinds \cup ModelKinds, inv: 0..MaxRounds, n: Nat]
RpcLines ==
  [type: {"rpc"}, method: {"prepare_request", "provider_payload", "tool_call"},
   inv: 0..MaxRounds]
ResultLines == [type: {"result"}, ok: BOOLEAN, status: Statuses, rounds: 0..MaxRounds]
Messages == [type: {"run"}] \cup [type: {"cancel"}]
    \cup [type: {"rpc_result"}, ok: BOOLEAN, status: Statuses, inv: 0..MaxRounds]
ReceiptRow == [n: Nat, inv: 0..MaxRounds, under: 0..MaxRounds]
WorkerRow ==
  [inv: 0..MaxRounds, finished: SUBSET (1..MaxRounds), pending: Seq(EventLines),
   log: Seq(ReceiptRow), refused: BOOLEAN, protocol: BOOLEAN, budget: BOOLEAN]
Whys == {"none", "before_start", "spawn", "broken_pipe", "time_limit", "exited",
         "early_event", "not_finished", "result", "agent_error"}
OutcomeRow == [status: Statuses \cup {"none"}, why: Whys, rounds: 0..MaxRounds]
AgentRow ==
  [at: Active \cup {"idle", "done"}, inv: 0..MaxRounds, rounds: 0..MaxRounds, tools: Nat,
   cancelled: BOOLEAN, aborted: BOOLEAN, closed: BOOLEAN,
   stop: {"none", "stop", "toolUse", "blocked", "error", "aborted"},
   err: {"none", "failed", "interrupted"}, emitted: Nat]

Shapes ==
  /\ sup \in SupervisorPlaces
  /\ request \in RpcLines \cup {NoRequest}
  /\ cancel \in BOOLEAN /\ cancelSent \in BOOLEAN /\ late \in BOOLEAN /\ fenced \in BOOLEAN
  /\ worker \in WorkerRow
  /\ outcome \in OutcomeRow
  /\ toAgent \in Seq(Messages)
  /\ toSupervisor \in Seq(EventLines \cup RpcLines \cup ResultLines)
  /\ proc \in {"none", "alive", "dead"}
  /\ agent \in AgentRow

\* What is captured is captured in order and under its invocation.
HeldCount == Len(worker.log) + Len(worker.pending)
Held ==
  /\ \A i \in 1..Len(worker.log) :
        /\ worker.log[i].n = i
        /\ worker.log[i].under = IF worker.log[i].inv = 0 THEN 1 ELSE worker.log[i].inv
  /\ \A i \in 1..Len(worker.pending) :
        /\ worker.pending[i].n = Len(worker.log) + i
        /\ worker.pending[i].inv = 0 /\ worker.pending[i].kind \in EarlyKinds
  /\ worker.inv = 0 => worker.log = <<>>
  /\ worker.inv > 0 => worker.pending = <<>>
  /\ worker.finished \subseteq 1..(worker.inv)
  /\ 1..(worker.inv - 1) \subseteq worker.finished

\* Where an event is in the pipe.
IsEvent(i) == toSupervisor[i].type = "event"
EndInFlight ==
  \E i \in 1..Len(toSupervisor) : IsEvent(i) /\ toSupervisor[i].kind = "turn_end"

\* The events of a pipe are those after the first m, up to n, in order.
Carries(s, m, n) ==
  /\ m <= n
  /\ \A i \in 1..Len(s) : s[i].type = "event" => s[i].n > m /\ s[i].n <= n
  /\ \A i, j \in 1..Len(s) :
        s[i].type = "event" /\ s[j].type = "event" /\ i < j => s[i].n < s[j].n
  /\ \A k \in (m + 1)..n : \E i \in 1..Len(s) : s[i].type = "event" /\ s[i].n = k
Flow == Carries(toSupervisor, HeldCount, agent.emitted)

\* Where the agent is, and what it has counted.
PhaseOf(a) ==
  /\ a.at = "idle" => a.emitted = 0
  /\ a.at \in {"idle", "preflight", "begin"} =>
        a.inv = 0 /\ a.rounds = 0 /\ a.err = "none"
  /\ a.at \in BetweenTurns =>
        a.inv = a.rounds /\ a.rounds < MaxRounds /\ a.err = "none"
  /\ a.at \in InTurn => a.inv = a.rounds + 1 /\ a.err = "none"
  /\ a.at \in {"tools", "tooling"} => a.stop \in {"toolUse", "blocked"}
  /\ a.at = "turn_end" =>
        /\ a.rounds < MaxRounds /\ a.err = "none" /\ a.stop # "none"
        /\ IF a.stop = "aborted" THEN a.aborted ELSE a.inv = a.rounds + 1
  /\ a.at \in {"ending", "result"} /\ a.err = "none" =>
        /\ a.inv = a.rounds
        /\ a.stop \in {"stop", "blocked"} \/ (a.stop = "toolUse" /\ a.rounds >= MaxRounds)
  /\ a.at = "ending" /\ a.inv = 0 => a.aborted
  /\ a.at = "refused" => a.err # "none"
  /\ a.inv = 0 =>
        /\ a.at \in {"preflight", "begin"} => a.emitted = 1
        /\ a.at = "turn" => a.emitted = 2
        /\ a.at \in {"prepare", "preparing", "refused"} => a.emitted = 4

IsReply(i) == toAgent[i].type = "rpc_result"
Admitting == \E i \in 1..Len(toAgent) : IsReply(i) /\ toAgent[i].ok /\ agent.at = "preparing"

\* Which causes are known to the supervisor.
CauseAt(i) ==
  IsEvent(i) /\ toSupervisor[i].inv = 0 =>
    IF toSupervisor[i].kind \in EarlyKinds THEN toSupervisor[i].n <= 4
    ELSE worker.refused \/ cancelSent
Causes ==
  /\ agent.aborted => cancelSent \/ sup = "crashed"
  /\ agent.at = "refused" => worker.refused \/ agent.closed
  /\ agent.closed => sup = "crashed" /\ toAgent = <<>>
  /\ \A i \in 1..Len(toSupervisor) : CauseAt(i)

\* The messages to the agent.
OrderAt(i) ==
  /\ toAgent[i].type = "run" => i = 1 /\ agent.at = "idle"
  /\ toAgent[i].type = "cancel" => cancelSent
  /\ IsReply(i) =>
      /\ toSupervisor = <<>> /\ request = NoRequest /\ agent.at \in Waiting
      /\ \A j \in 1..Len(toAgent) : IsReply(j) => i = j
      /\ IF toAgent[i].ok THEN agent.at = "preparing" => toAgent[i].inv = worker.inv
         ELSE worker.refused /\ toAgent[i].status \in {"failed", "interrupted"}
Orders == \A i \in 1..Len(toAgent) : OrderAt(i)

\* The one RPC that is under way, and where it is.
Calls ==
  /\ IF Admitting THEN worker.inv = agent.inv + 1 ELSE worker.inv = agent.inv
  /\ request # NoRequest =>
        /\ toSupervisor = <<>> /\ request.inv = agent.inv /\ worker.inv = agent.inv
        /\ agent.closed \/ (agent.at \in Waiting /\ request.method = Asks[agent.at])
  /\ sup \in {"rpc", "serve"} => request # NoRequest
  /\ sup \in {"off", "top", "read"} => request = NoRequest
  /\ agent.at = "idle" => toSupervisor = <<>>

\* The lines from the agent.
ReportAt(i) ==
  /\ toSupervisor[i].type \in {"event", "rpc"} => toSupervisor[i].inv = agent.inv
  /\ toSupervisor[i].type = "rpc" =>
      /\ i = Len(toSupervisor)
      /\ agent.closed \/ (agent.at \in Waiting /\ toSupervisor[i].method = Asks[agent.at])
  /\ toSupervisor[i].type = "result" =>
      /\ i = Len(toSupervisor) /\ agent.at = "done"
      /\ toSupervisor[i].ok /\ toSupervisor[i].status = "finished" =>
            agent.stop \in {"stop", "blocked"} /\ toSupervisor[i].rounds = agent.inv
      /\ ~toSupervisor[i].ok => toSupervisor[i].status = "failed"
Reports == \A i \in 1..Len(toSupervisor) : ReportAt(i)

\* Which turns are over.
TurnOver == BetweenTurns \cup {"refused", "ending", "result", "done"}
Turns ==
  /\ agent.at \in InTurn => agent.inv \notin worker.finished /\ ~EndInFlight
  /\ Admitting => worker.inv \notin worker.finished
  /\ agent.inv > 0 /\ agent.at \in TurnOver =>
        agent.inv \in worker.finished \/ EndInFlight \/ agent.closed

\* The processes.
Places ==
  /\ sup = "off" => proc = "none" /\ toAgent = <<>> /\ agent.at = "idle"
  /\ sup # "over" => outcome.status = "none" /\ outcome.why = "none"
  /\ sup = "over" => proc # "alive"
  /\ sup \in Live => proc # "none"

Results ==
  /\ ~worker.protocol
  /\ outcome.why = "early_event" => worker.refused \/ cancelSent
  /\ FinishedMeansDone

Session == PhaseOf(agent) /\ Causes /\ Orders /\ Calls /\ Reports /\ Turns
BridgeInv ==
  /\ Shapes /\ Held /\ Places /\ Results
  /\ agent.inv <= worker.inv
  /\ \A i \in 1..Len(toSupervisor) : IsEvent(i) =>
        toSupervisor[i].n >= 1 /\ toSupervisor[i].n <= agent.emitted
  /\ sup # "over" => Session
  /\ sup \in Live \cup {"off"} => Flow

-----------------------------------------------------------------------------
(* Queues.                                                                 *)

\* w is s followed by t.
Joins(w, s, t) ==
  /\ Len(w) = Len(s) + Len(t) /\ Len(s) \in Nat /\ Len(t) \in Nat
  /\ \A i \in 1..Len(s) : i \in 1..Len(w) /\ w[i] = s[i]
  /\ \A i \in 1..Len(t) : Len(s) + i \in 1..Len(w) /\ w[Len(s) + i] = t[i]
  /\ \A i \in 1..Len(w) :
        \/ i \in 1..Len(s)
        \/ i > Len(s) /\ i - Len(s) \in 1..Len(t) /\ w[i] = t[i - Len(s)]

\* Two queues one after the other.
LEMMA Extended ==
  ASSUME NEW S, NEW s \in Seq(S), NEW t \in Seq(S)
  PROVE  s \o t \in Seq(S) /\ Joins(s \o t, s, t)
  <1>1. Len(s) \in Nat /\ Len(t) \in Nat
    BY LenProperties
  <1> QED
    BY <1>1, ConcatProperties DEF Joins

\* A queue without its head.
LEMMA Shortened ==
  ASSUME NEW S, NEW s \in Seq(S), s # <<>>
  PROVE  /\ Tail(s) \in Seq(S) /\ Len(Tail(s)) = Len(s) - 1 /\ Len(s) \in Nat \ {0}
         /\ Head(s) = s[1] /\ 1 \in 1..Len(s) /\ Head(s) \in S
         /\ \A i \in 1..Len(Tail(s)) : i + 1 \in 1..Len(s) /\ Tail(s)[i] = s[i + 1]
         /\ \A i \in 1..Len(s) : i = 1 \/ i - 1 \in 1..Len(Tail(s))
  <1>1. Len(s) \in Nat /\ Len(s) # 0
    BY LenProperties, EmptySeq
  <1>2. Tail(s) \in Seq(S) /\ Len(Tail(s)) = Len(s) - 1 /\ Head(s) \in S /\ Head(s) = s[1]
    BY HeadTailProperties
  <1>3. \A i \in 1..Len(Tail(s)) : Tail(s)[i] = s[i + 1]
    BY HeadTailProperties
  <1> QED
    BY <1>1, <1>2, <1>3

\* A queue with one more at its end.
LEMMA OneMore ==
  ASSUME NEW S, NEW s \in Seq(S), NEW e \in S
  PROVE  /\ Append(s, e) \in Seq(S) /\ Len(Append(s, e)) = Len(s) + 1 /\ Len(s) \in Nat
         /\ \A i \in 1..Len(s) : i \in 1..Len(Append(s, e)) /\ Append(s, e)[i] = s[i]
         /\ Append(s, e)[Len(s) + 1] = e
         /\ \A i \in 1..Len(Append(s, e)) : i \in 1..Len(s) \/ i = Len(s) + 1
  BY AppendProperties, LenProperties

-----------------------------------------------------------------------------
(* Steps of the agent.                                                     *)

LineSet == EventLines \cup RpcLines \cup ResultLines
Kinds == EarlyKinds \cup ModelKinds
Numbered(kinds) == [i \in 1..Len(kinds) |-> Event(kinds[i], agent.emitted + i)]

\* A queue of cancellations, or none.
Cancels(q) ==
  /\ q \in Seq(Messages)
  /\ \A i \in 1..Len(q) : q[i].type = "cancel" /\ cancelSent

\* What the fields of the lines are.
LEMMA LineShapes ==
  /\ \A e \in EventLines : e.type = "event" /\ e.kind \in Kinds /\ e.n \in Nat /\ e.inv \in 0..MaxRounds
  /\ \A e \in RpcLines : e.type = "rpc" /\ e.inv \in 0..MaxRounds
  /\ \A e \in ResultLines : e.type = "result" /\ e.status \in Statuses /\ e.rounds \in 0..MaxRounds
  BY DEF EventLines, RpcLines, ResultLines, Kinds

\* What the lines in the pipe are.
LEMMA PipeShape ==
  ASSUME Shapes
  PROVE  /\ toSupervisor \in Seq(LineSet) /\ Len(toSupervisor) \in Nat
         /\ \A i \in 1..Len(toSupervisor) :
               /\ toSupervisor[i] \in LineSet
               /\ IsEvent(i) => toSupervisor[i] \in EventLines
               /\ toSupervisor[i].type = "rpc" => toSupervisor[i] \in RpcLines
               /\ toSupervisor[i].type = "result" => toSupervisor[i] \in ResultLines
               /\ toSupervisor[i].type \in {"event", "rpc", "result"}
  <1>1. toSupervisor \in Seq(LineSet)
    BY DEF Shapes, LineSet
  <1>2. Len(toSupervisor) \in Nat /\ \A i \in 1..Len(toSupervisor) : toSupervisor[i] \in LineSet
    BY <1>1, LenProperties, ElementOfSeq
  <1> QED
    BY <1>1, <1>2, LineShapes DEF LineSet, IsEvent

\* The events that Emit writes.
LEMMA NumberedLines ==
  ASSUME agent \in AgentRow, NEW kinds \in Seq(Kinds)
  PROVE  /\ Numbered(kinds) \in Seq(LineSet)
         /\ Len(Numbered(kinds)) = Len(kinds) /\ Len(kinds) \in Nat
         /\ \A i \in 1..Len(kinds) :
               /\ Numbered(kinds)[i] = Event(kinds[i], agent.emitted + i)
               /\ Numbered(kinds)[i] \in EventLines
               /\ Numbered(kinds)[i].type = "event" /\ Numbered(kinds)[i].kind = kinds[i]
               /\ Numbered(kinds)[i].inv = agent.inv
               /\ Numbered(kinds)[i].n = agent.emitted + i
  <1>1. Len(kinds) \in Nat /\ \A i \in 1..Len(kinds) : kinds[i] \in Kinds
    BY LenProperties, ElementOfSeq
  <1>2. \A i \in 1..Len(kinds) : Event(kinds[i], agent.emitted + i) \in EventLines
    BY <1>1 DEF Event, EventLines, Kinds, AgentRow
  <1>3. Numbered(kinds) \in Seq(LineSet) /\ Len(Numbered(kinds)) = Len(kinds)
    <2>1. Numbered(kinds) \in [1..Len(kinds) -> LineSet]
      BY <1>2 DEF Numbered, LineSet
    <2> QED
      BY <1>1, <2>1, IsASeq, LenProperties
  <1> QED
    BY <1>1, <1>2, <1>3 DEF Numbered, Event

\* The pipe after the agent has written.
Adds(u, s, kinds) ==
  /\ u \in Seq(LineSet) /\ Len(u) = Len(s) + Len(kinds)
  /\ Len(s) \in Nat /\ Len(kinds) \in Nat
  /\ \A i \in 1..Len(s) : i \in 1..Len(u) /\ u[i] = s[i]
  /\ \A i \in 1..Len(kinds) :
        /\ Len(s) + i \in 1..Len(u)
        /\ u[Len(s) + i].type = "event" /\ u[Len(s) + i].kind = kinds[i]
        /\ u[Len(s) + i].inv = agent.inv /\ u[Len(s) + i].n = agent.emitted + i
  /\ \A i \in 1..Len(u) :
        \/ i \in 1..Len(s) /\ u[i] = s[i]
        \/ /\ i > Len(s) /\ i - Len(s) \in 1..Len(kinds)
           /\ u[i].type = "event" /\ u[i].kind = kinds[i - Len(s)]
           /\ u[i].inv = agent.inv /\ u[i].n = agent.emitted + (i - Len(s))

\* The pipe after Emit.
LEMMA Written ==
  ASSUME agent \in AgentRow, NEW s \in Seq(LineSet), NEW kinds \in Seq(Kinds)
  PROVE  Adds(s \o Numbered(kinds), s, kinds)
  <1> DEFINE t == Numbered(kinds)
             u == s \o t
  <1>1. t \in Seq(LineSet) /\ Len(t) = Len(kinds) /\ Len(kinds) \in Nat
    BY NumberedLines
  <1>0. ASSUME NEW i \in 1..Len(kinds)
        PROVE  /\ t[i].type = "event" /\ t[i].kind = kinds[i]
               /\ t[i].inv = agent.inv /\ t[i].n = agent.emitted + i
    BY NumberedLines
  <1> HIDE DEF t
  <1>2. u \in Seq(LineSet) /\ Joins(u, s, t)
    BY <1>1, Extended
  <1> HIDE DEF u
  <1>4. ASSUME NEW i \in 1..Len(kinds)
        PROVE  /\ Len(s) + i \in 1..Len(u)
               /\ u[Len(s) + i].type = "event" /\ u[Len(s) + i].kind = kinds[i]
               /\ u[Len(s) + i].inv = agent.inv /\ u[Len(s) + i].n = agent.emitted + i
    <2>1. Len(s) + i \in 1..Len(u) /\ u[Len(s) + i] = t[i]
      BY <1>1, <1>2 DEF Joins
    <2> QED
      BY <2>1, <1>0
  <1>5. ASSUME NEW i \in 1..Len(u), i \notin 1..Len(s)
        PROVE  /\ i > Len(s) /\ i - Len(s) \in 1..Len(kinds)
               /\ u[i].type = "event" /\ u[i].kind = kinds[i - Len(s)]
               /\ u[i].inv = agent.inv /\ u[i].n = agent.emitted + (i - Len(s))
    <2>1. i > Len(s) /\ i - Len(s) \in 1..Len(kinds) /\ u[i] = t[i - Len(s)]
      BY <1>1, <1>2, <1>5 DEF Joins
    <2> QED
      BY <2>1, <1>0
  <1>6. Adds(u, s, kinds)
    BY <1>1, <1>2, <1>4, <1>5 DEF Joins, Adds
  <1> QED
    BY <1>6 DEF u, t

\* Events that go on from the last one keep the pipe in order.
LEMMA CarriesMore ==
  ASSUME agent \in AgentRow, NEW s \in Seq(LineSet), NEW kinds \in Seq(Kinds), NEW u,
         Adds(u, s, kinds), NEW m \in Nat, Carries(s, m, agent.emitted)
  PROVE  Carries(u, m, agent.emitted + Len(kinds))
  <1>1. agent.emitted \in Nat /\ Len(kinds) \in Nat /\ Len(s) \in Nat
    BY DEF AgentRow, Adds
  <1>2. ASSUME NEW i \in 1..Len(u), u[i].type = "event"
        PROVE  /\ u[i].n > m /\ u[i].n <= agent.emitted + Len(kinds)
               /\ i \in 1..Len(s) => u[i].n = s[i].n /\ s[i].type = "event"
               /\ i \notin 1..Len(s) => u[i].n = agent.emitted + (i - Len(s))
    <2>1. CASE i \in 1..Len(s)
      <3>1. u[i] = s[i] /\ s[i] \in LineSet
        BY <2>1, ElementOfSeq DEF Adds
      <3>2. s[i].n > m /\ s[i].n <= agent.emitted /\ s[i].n \in Nat
        BY <1>2, <2>1, <3>1, LineShapes DEF Carries, LineSet
      <3> QED
        BY <1>1, <1>2, <2>1, <3>1, <3>2
    <2>2. CASE i \notin 1..Len(s)
      BY <1>1, <2>2 DEF Adds, Carries
    <2> QED
      BY <2>1, <2>2
  <1>3. ASSUME NEW i \in 1..Len(s), s[i].type = "event"
        PROVE  s[i].n <= agent.emitted /\ s[i].n \in Nat
    BY <1>3, ElementOfSeq, LineShapes DEF Carries, LineSet
  <1>4. ASSUME NEW i \in 1..Len(u), NEW j \in 1..Len(u),
               u[i].type = "event", u[j].type = "event", i < j
        PROVE  u[i].n < u[j].n
    <2>1. CASE j \in 1..Len(s)
      BY <1>1, <1>2, <1>4, <2>1 DEF Carries
    <2>2. CASE j \notin 1..Len(s)
      <3>1. u[j].n = agent.emitted + (j - Len(s)) /\ j > Len(s) /\ j \in Nat
        BY <1>1, <1>2, <1>4, <2>2 DEF Adds
      <3>2. CASE i \in 1..Len(s)
        <4>1. u[i].n = s[i].n /\ s[i].n <= agent.emitted /\ s[i].n \in Nat
          BY <1>2, <1>3, <1>4, <3>2
        <4> QED
          BY <1>1, <3>1, <4>1
      <3>3. CASE i \notin 1..Len(s)
        <4>1. u[i].n = agent.emitted + (i - Len(s)) /\ i \in Int
          BY <1>2, <1>4, <3>3
        <4> QED
          BY <1>1, <1>4, <3>1, <4>1
      <3> QED
        BY <3>2, <3>3
    <2> QED
      BY <2>1, <2>2
  <1>5. ASSUME NEW k \in (m + 1)..(agent.emitted + Len(kinds))
        PROVE  \E i \in 1..Len(u) : u[i].type = "event" /\ u[i].n = k
    <2>1. CASE k <= agent.emitted
      <3>1. k \in (m + 1)..(agent.emitted)
        BY <1>1, <2>1
      <3>2. PICK i \in 1..Len(s) : s[i].type = "event" /\ s[i].n = k
        BY <3>1 DEF Carries
      <3>3. i \in 1..Len(u) /\ u[i] = s[i]
        BY DEF Adds
      <3> QED
        BY <3>2, <3>3
    <2>2. CASE k > agent.emitted
      <3> DEFINE j == k - agent.emitted
      <3>1. j \in 1..Len(kinds) /\ agent.emitted + j = k
        BY <1>1, <2>2
      <3> HIDE DEF j
      <3>2. /\ Len(s) + j \in 1..Len(u) /\ u[Len(s) + j].type = "event"
            /\ u[Len(s) + j].n = agent.emitted + j
        BY <3>1 DEF Adds
      <3> QED
        BY <3>1, <3>2
    <2> QED
      BY <1>1, <2>1, <2>2
  <1> QED
    BY <1>1, <1>2, <1>4, <1>5 DEF Carries

\* The agent goes on: it writes some events, or none, and asks for nothing.
\* q are the messages that are left to it.
MayGo(next, kinds, q) ==
  /\ next \in AgentRow /\ kinds \in Seq(Kinds)
  /\ Cancels(q) /\ (agent.closed => q = <<>>)
  /\ agent.at # "done" /\ ~Admitting
  /\ agent.at \in Waiting => \E i \in 1..Len(toAgent) : IsReply(i)
  /\ next.inv = agent.inv /\ next.emitted = agent.emitted + Len(kinds)
  /\ next.closed = agent.closed /\ next.aborted = agent.aborted
  /\ next.at \notin Waiting \cup {"idle", "done"}
  /\ PhaseOf(next)
  /\ next.at = "refused" => worker.refused \/ agent.closed
  /\ agent.inv = 0 =>
       \A i \in 1..Len(kinds) : IF kinds[i] \in EarlyKinds THEN agent.emitted + i <= 4
                                ELSE worker.refused \/ cancelSent
  /\ next.at \in InTurn =>
       agent.at \in InTurn /\ \A i \in 1..Len(kinds) : kinds[i] # "turn_end"
  /\ agent.inv > 0 /\ next.at \in TurnOver =>
       \/ agent.at \in TurnOver \/ agent.closed
       \/ \E i \in 1..Len(kinds) : kinds[i] = "turn_end"
GoesOn(next, kinds) ==
  /\ sup \in Live \cup {"crashed"}
  /\ agent' = next /\ toSupervisor' = toSupervisor \o Numbered(kinds)
  /\ UNCHANGED <<controllerVars, eventVars, proc>>
  /\ Len(kinds) > 0 => sup # "crashed"
  /\ MayGo(next, kinds, toAgent')

\* A step of the agent that emits events and may take one message keeps the session.
LEMMA Progress ==
  ASSUME BridgeInv, NEW next, NEW kinds, GoesOn(next, kinds)
  PROVE  BridgeInv'
  <1>a. /\ sup' = sup /\ request' = request /\ cancelSent' = cancelSent /\ worker' = worker
        /\ outcome' = outcome /\ cancel' = cancel /\ late' = late /\ fenced' = fenced
        /\ proc' = proc /\ agent' = next
    BY DEF GoesOn, controllerVars, eventVars
  <1>b. Shapes /\ Held /\ Places /\ Results /\ Session /\ sup # "over"
    BY DEF BridgeInv, GoesOn, Live
  <1>c. agent \in AgentRow /\ worker \in WorkerRow /\ agent.emitted \in Nat
        /\ agent.inv \in 0..MaxRounds
    BY <1>b DEF Shapes, AgentRow
  <1>d. /\ toSupervisor \in Seq(LineSet) /\ kinds \in Seq(Kinds)
        /\ toSupervisor' = toSupervisor \o Numbered(kinds)
    BY <1>b, PipeShape DEF GoesOn, MayGo
  <1>e. Adds(toSupervisor', toSupervisor, kinds)
    BY <1>c, <1>d, Written
  <1>f. Shapes'
    BY <1>a, <1>b, <1>e DEF Shapes, Cancels, LineSet, GoesOn, MayGo, Adds
  <1>g. Held' /\ Places' /\ Results'
    BY <1>a, <1>b DEF Held, Places, Results, FinishedMeansDone, Live, GoesOn, MayGo
  <1>h. ~Admitting /\ ~Admitting'
    BY DEF GoesOn, MayGo, Admitting, Cancels, IsReply
  <1>i. PhaseOf(agent)'
    BY <1>a DEF GoesOn, MayGo, PhaseOf
  <1>j. Causes'
    <2>1. /\ agent'.aborted => cancelSent' \/ sup' = "crashed"
          /\ agent'.at = "refused" => worker'.refused \/ agent'.closed
          /\ agent'.closed => sup' = "crashed" /\ toAgent' = <<>>
      BY <1>a, <1>b DEF Session, Causes, GoesOn, MayGo
    <2>2. ASSUME NEW i \in 1..Len(toSupervisor')
          PROVE  CauseAt(i)'
      <3>1. CASE i \in 1..Len(toSupervisor) /\ toSupervisor'[i] = toSupervisor[i]
        BY <1>a, <1>b, <2>2, <3>1 DEF Session, Causes, CauseAt, IsEvent
      <3>2. CASE ~(i \in 1..Len(toSupervisor) /\ toSupervisor'[i] = toSupervisor[i])
        <4>1. PICK j \in 1..Len(kinds) :
                 /\ toSupervisor'[i].kind = kinds[j] /\ toSupervisor'[i].inv = agent.inv
                 /\ toSupervisor'[i].n = agent.emitted + j
          BY <1>e, <3>2 DEF Adds
        <4>2. agent.inv = 0 => IF kinds[j] \in EarlyKinds THEN agent.emitted + j <= 4
                               ELSE worker.refused \/ cancelSent
          BY DEF GoesOn, MayGo
        <4> QED
          BY <1>a, <4>1, <4>2 DEF CauseAt
      <3> QED
        BY <3>1, <3>2
    <2> QED
      BY <2>1, <2>2 DEF Causes
  <1>k. Orders'
    BY <1>a DEF GoesOn, MayGo, Cancels, Orders, OrderAt, IsReply
  <1>q. /\ agent.closed => kinds = <<>>
        /\ kinds = <<>> => Len(toSupervisor') = Len(toSupervisor)
    <2>1. agent.closed => kinds = <<>>
      BY <1>b, <1>d, <1>e, EmptySeq DEF Session, Causes, GoesOn, MayGo, Adds
    <2>2. kinds = <<>> => Len(toSupervisor') = Len(toSupervisor)
      BY <1>e, EmptySeq DEF Adds
    <2> QED
      BY <2>1, <2>2
  <1>r. agent.at \in Waiting => toSupervisor = <<>>
    BY <1>b DEF Session, Orders, OrderAt, GoesOn, MayGo
  <1>l. Calls'
    <2>1. worker.inv = agent.inv
      BY <1>b, <1>h DEF Session, Calls
    <2>2. request = NoRequest \/ (agent.closed /\ kinds = <<>>)
      <3>1. ASSUME request # NoRequest
            PROVE  agent.closed
        BY <1>b, <3>1 DEF Session, Calls, Orders, OrderAt, GoesOn, MayGo
      <3> QED
        BY <3>1, <1>q
    <2>4. toSupervisor = <<>> /\ kinds = <<>> => toSupervisor' = <<>>
      BY <1>e, <1>q, EmptySeq DEF Adds
    <2>5. agent.closed => next.closed
      BY DEF GoesOn, MayGo
    <2> QED
      BY <1>a, <1>b, <1>h, <2>1, <2>2, <2>4, <2>5 DEF Session, Calls, GoesOn, MayGo
  <1>m. Reports'
    <2>1. ASSUME NEW i \in 1..Len(toSupervisor')
          PROVE  ReportAt(i)'
      <3>1. CASE i \in 1..Len(toSupervisor) /\ toSupervisor'[i] = toSupervisor[i]
        <4>1. agent.at \notin Waiting
          BY <1>e, <1>r, <3>1, EmptySeq DEF Adds
        <4>2. /\ toSupervisor[i].type \in {"event", "rpc"} => toSupervisor[i].inv = agent.inv
              /\ toSupervisor[i].type = "rpc" => i = Len(toSupervisor) /\ agent.closed
              /\ toSupervisor[i].type # "result"
          BY <1>b, <3>1, <4>1 DEF Session, Reports, ReportAt, GoesOn, MayGo
        <4> QED
          BY <1>a, <1>q, <3>1, <4>2 DEF ReportAt, GoesOn, MayGo
      <3>2. CASE ~(i \in 1..Len(toSupervisor) /\ toSupervisor'[i] = toSupervisor[i])
        <4>1. toSupervisor'[i].type = "event" /\ toSupervisor'[i].inv = agent.inv
          BY <1>e, <3>2 DEF Adds
        <4> QED
          BY <1>a, <4>1 DEF ReportAt, GoesOn, MayGo
      <3> QED
        BY <3>1, <3>2
    <2> QED
      BY <2>1 DEF Reports
  <1>n. Turns'
    <2>1. ASSUME agent'.at \in InTurn
          PROVE  agent'.inv \notin worker'.finished /\ ~EndInFlight'
      <3>1. agent.inv \notin worker.finished /\ ~EndInFlight /\ agent'.inv = agent.inv
        BY <1>a, <1>b, <2>1 DEF Session, Turns, GoesOn, MayGo
      <3>2. ASSUME NEW i \in 1..Len(toSupervisor'), IsEvent(i)'
            PROVE  toSupervisor'[i].kind # "turn_end"
        <4>1. CASE i \in 1..Len(toSupervisor) /\ toSupervisor'[i] = toSupervisor[i]
          BY <3>1, <3>2, <4>1 DEF EndInFlight, IsEvent
        <4>2. CASE ~(i \in 1..Len(toSupervisor) /\ toSupervisor'[i] = toSupervisor[i])
          <5>1. PICK j \in 1..Len(kinds) : toSupervisor'[i].kind = kinds[j]
            BY <1>e, <4>2 DEF Adds
          <5> QED
            BY <1>a, <2>1, <5>1 DEF GoesOn, MayGo
        <4> QED
          BY <4>1, <4>2
      <3> QED
        BY <1>a, <3>1, <3>2 DEF EndInFlight
    <2>2. ASSUME agent'.inv > 0, agent'.at \in TurnOver
          PROVE  agent'.inv \in worker'.finished \/ EndInFlight' \/ agent'.closed
      <3>1. \/ agent.at \in TurnOver \/ agent.closed
            \/ \E j \in 1..Len(kinds) : kinds[j] = "turn_end"
        BY <1>a, <2>2 DEF GoesOn, MayGo
      <3>2. CASE agent.at \in TurnOver
        <4>1. agent.inv \in worker.finished \/ EndInFlight \/ agent.closed
          BY <1>a, <1>b, <2>2, <3>2 DEF Session, Turns, GoesOn, MayGo
        <4>2. EndInFlight => EndInFlight'
          BY <1>e DEF Adds, EndInFlight, IsEvent
        <4> QED
          BY <1>a, <4>1, <4>2 DEF GoesOn, MayGo
      <3>3. CASE agent.closed
        BY <1>a, <3>3 DEF GoesOn, MayGo
      <3>4. CASE \E j \in 1..Len(kinds) : kinds[j] = "turn_end"
        BY <1>e, <3>4 DEF Adds, EndInFlight, IsEvent
      <3> QED
        BY <3>1, <3>2, <3>3, <3>4
    <2> QED
      BY <1>h, <2>1, <2>2 DEF Turns
  <1>t. HeldCount \in Nat /\ HeldCount' = HeldCount
    BY <1>a, <1>c, LenProperties DEF HeldCount, WorkerRow
  <1>o. Flow => Flow'
    <2>1. agent'.emitted = agent.emitted + Len(kinds)
      BY <1>a DEF GoesOn, MayGo
    <2>2. Flow => Carries(toSupervisor', HeldCount, agent.emitted + Len(kinds))
      BY <1>c, <1>d, <1>e, <1>t, CarriesMore DEF Flow
    <2> QED
      BY <1>t, <2>1, <2>2 DEF Flow
  <1>s. ASSUME NEW i \in 1..Len(toSupervisor'), IsEvent(i)'
        PROVE  toSupervisor'[i].n >= 1 /\ toSupervisor'[i].n <= agent'.emitted
    <2>1. agent'.emitted = agent.emitted + Len(kinds) /\ Len(kinds) \in Nat
      BY <1>a, <1>e DEF GoesOn, MayGo, Adds
    <2>2. CASE i \in 1..Len(toSupervisor) /\ toSupervisor'[i] = toSupervisor[i]
      <3>1. toSupervisor[i].n >= 1 /\ toSupervisor[i].n <= agent.emitted
        BY <1>s, <2>2 DEF BridgeInv, IsEvent
      <3>2. toSupervisor[i].n \in Nat
        BY <1>b, <1>s, <2>2, PipeShape, LineShapes DEF IsEvent
      <3> QED
        BY <1>c, <2>1, <2>2, <3>1, <3>2
    <2>3. CASE ~(i \in 1..Len(toSupervisor) /\ toSupervisor'[i] = toSupervisor[i])
      <3>1. PICK j \in 1..Len(kinds) : toSupervisor'[i].n = agent.emitted + j
        BY <1>e, <2>3 DEF Adds
      <3> QED
        BY <1>c, <2>1, <3>1
    <2> QED
      BY <2>2, <2>3
  <1> QED
    BY <1>a, <1>b, <1>f, <1>g, <1>i, <1>j, <1>k, <1>l, <1>m, <1>n, <1>o, <1>s
       DEF BridgeInv, Session, GoesOn, MayGo

\* The numbers in the pipe are no more than the agent has given out.
LEMMA Numberings ==
  /\ Numbered(<<>>) = <<>> /\ <<>> \in Seq(Kinds)
  /\ \A k \in Kinds : Numbered(<<k>>) = <<Event(k, agent.emitted + 1)>> /\ <<k>> \in Seq(Kinds)
  BY DEF Numbered

\* The agent dies, and what was sent to it may be lost.
LEMMA Dies ==
  ASSUME BridgeInv, proc = "alive", proc' = "dead",
         UNCHANGED <<controllerVars, eventVars, agent, toSupervisor>>,
         toAgent' = toAgent \/ (Cancels(toAgent') /\ ~Admitting
                                 /\ (agent.closed => toAgent' = <<>>))
  PROVE  BridgeInv'
  <1>a. /\ sup' = sup /\ request' = request /\ cancelSent' = cancelSent /\ worker' = worker
        /\ outcome' = outcome /\ cancel' = cancel /\ late' = late /\ fenced' = fenced
        /\ agent' = agent /\ toSupervisor' = toSupervisor
    BY DEF controllerVars, eventVars
  <1>b. Shapes' /\ Held' /\ Places' /\ Results'
    BY <1>a DEF BridgeInv, Shapes, Held, Places, Results, FinishedMeansDone, Live, Cancels
  <1>c. sup # "over" => Session'
    <2> SUFFICES ASSUME sup # "over" PROVE Session'
      OBVIOUS
    <2>1. PhaseOf(agent)' /\ Causes' /\ Reports'
      BY <1>a DEF BridgeInv, Session, PhaseOf, Causes, CauseAt, IsEvent, Reports, ReportAt
    <2>2. Orders'
      BY <1>a DEF BridgeInv, Session, Orders, OrderAt, IsReply, Cancels
    <2>3. Admitting' <=> Admitting
      BY <1>a DEF Admitting, IsReply, Cancels
    <2>4. Calls' /\ Turns'
      BY <1>a, <2>3 DEF BridgeInv, Session, Calls, Turns, EndInFlight, IsEvent
    <2> QED
      BY <2>1, <2>2, <2>4 DEF Session
  <1>d. sup \in Live \cup {"off"} => Flow'
    BY <1>a DEF BridgeInv, Flow, Carries, HeldCount
  <1> QED
    BY <1>a, <1>b, <1>c, <1>d DEF BridgeInv, IsEvent

\* What a step of the agent leaves alone in BridgeInv.
LEMMA AgentWrites ==
  ASSUME BridgeInv, NEW next, NEW kinds, Write(next, Numbered(kinds)),
         MayGo(next, kinds, toAgent'), UNCHANGED <<controllerVars, eventVars>>
  PROVE  BridgeInv'
  <1>1. proc = "alive" /\ sup \in Live \cup {"crashed"}
    BY DEF Write, BridgeInv, Places, Shapes, SupervisorPlaces
  <1>2. CASE sup = "crashed" /\ Numbered(kinds) # <<>>
    <2>1. proc' = "dead" /\ UNCHANGED <<agent, toSupervisor>>
      BY <1>2 DEF Write
    <2> QED
      BY <1>1, <2>1, Dies DEF MayGo
  <1>3. CASE ~(sup = "crashed" /\ Numbered(kinds) # <<>>)
    <2>1. Len(kinds) > 0 => sup # "crashed"
      <3>1. agent \in AgentRow /\ kinds \in Seq(Kinds)
        BY DEF BridgeInv, Shapes, MayGo
      <3>2. Len(Numbered(kinds)) = Len(kinds)
        BY <3>1, NumberedLines
      <3>3. Numbered(kinds) = <<>> => Len(kinds) = 0
        BY <3>2, EmptySeq
      <3> QED
        BY <1>3, <3>3
    <2>2. GoesOn(next, kinds)
      BY <1>1, <1>3, <2>1 DEF GoesOn, Write
    <2> QED
      BY <2>2, Progress
  <1> QED
    BY <1>2, <1>3

-----------------------------------------------------------------------------
(* What the messages to the agent are.                                     *)

\* While the agent waits for nothing, only cancellations are on their way to it.
LEMMA Quiet ==
  ASSUME BridgeInv, sup # "over", agent.at \notin Waiting \cup {"idle"}
  PROVE  Cancels(toAgent) /\ ~Admitting /\ (agent.closed => toAgent = <<>>)
  <1>1. toAgent \in Seq(Messages) /\ \A i \in 1..Len(toAgent) : toAgent[i] \in Messages
    BY ElementOfSeq DEF BridgeInv, Shapes
  <1>2. \A i \in 1..Len(toAgent) : toAgent[i].type \in {"run", "cancel", "rpc_result"}
    BY <1>1 DEF Messages
  <1> QED
    BY <1>1, <1>2 DEF BridgeInv, Session, Orders, OrderAt, IsReply, Cancels, Admitting,
                      Causes, Waiting

\* So they are when it has taken one message.
LEMMA TailQuiet ==
  ASSUME BridgeInv, HasMessage("run") \/ HasMessage("rpc_result")
  PROVE  /\ Cancels(Tail(toAgent)) /\ ~agent.closed /\ sup # "over"
         /\ Head(toAgent) \in Messages /\ Head(toAgent) = toAgent[1] /\ 1 \in 1..Len(toAgent)
         /\ OrderAt(1)
  <1>0. toAgent \in Seq(Messages) /\ toAgent # <<>> /\ sup # "over"
    BY DEF BridgeInv, Shapes, HasMessage, Places
  <1>1. /\ Tail(toAgent) \in Seq(Messages) /\ Len(toAgent) \in Nat \ {0}
        /\ Head(toAgent) = toAgent[1] /\ 1 \in 1..Len(toAgent) /\ Head(toAgent) \in Messages
        /\ \A i \in 1..Len(Tail(toAgent)) : i + 1 \in 1..Len(toAgent) /\ Tail(toAgent)[i] = toAgent[i + 1]
    BY <1>0, Shortened
  <1>2. Session /\ OrderAt(1)
    BY <1>0, <1>1 DEF BridgeInv, Session, Orders
  <1>3. ASSUME NEW i \in 1..Len(Tail(toAgent))
        PROVE  Tail(toAgent)[i].type = "cancel" /\ cancelSent
    <2>1. i + 1 \in 1..Len(toAgent) /\ Tail(toAgent)[i] = toAgent[i + 1] /\ i + 1 # 1
      BY <1>1
    <2>2. OrderAt(i + 1)
      BY <1>2, <2>1 DEF Session, Orders
    <2>3. toAgent[i + 1].type \in {"run", "cancel", "rpc_result"}
      BY <1>0, <2>1, ElementOfSeq DEF Messages
    <2>4. toAgent[1].type \in {"run", "rpc_result"}
      BY <1>1 DEF HasMessage
    <2> QED
      BY <1>1, <1>2, <2>1, <2>2, <2>3, <2>4 DEF OrderAt, IsReply, Waiting
  <1> QED
    BY <1>0, <1>1, <1>2, <1>3 DEF Cancels, Session, Causes

-----------------------------------------------------------------------------
(* The steps of the agent that write events, or nothing.                   *)

\* An agent that does something is alive.
LEMMA AtWork ==
  ASSUME BridgeInv, proc = "alive"
  PROVE  /\ sup # "over" /\ sup # "off" /\ sup \in Live \cup {"crashed"}
         /\ agent \in AgentRow /\ PhaseOf(agent) /\ Session
  BY DEF BridgeInv, Session, Places, Shapes, SupervisorPlaces

\* Two states of the agent that differ where it is and in what it counts.
Kin(next, a) ==
  /\ next \in AgentRow
  /\ next.inv = a.inv /\ next.aborted = a.aborted /\ next.closed = a.closed

\* What holds of a message or two that the agent emits.
EarlyOnly(kinds) ==
  agent.inv = 0 =>
    \A i \in 1..Len(kinds) : IF kinds[i] \in EarlyKinds THEN agent.emitted + i <= 4
                             ELSE worker.refused \/ cancelSent
NoEnd(kinds) == \A i \in 1..Len(kinds) : kinds[i] # "turn_end"

\* The same but for the events it has emitted.
Later(next, a, n) ==
  /\ next \in AgentRow /\ next.emitted = a.emitted + n
  /\ next.at = a.at /\ next.inv = a.inv /\ next.rounds = a.rounds /\ next.tools = a.tools
  /\ next.cancelled = a.cancelled /\ next.aborted = a.aborted /\ next.closed = a.closed
  /\ next.stop = a.stop /\ next.err = a.err

\* Only the count of events grows.
LEMMA Counted ==
  ASSUME NEW a \in AgentRow, NEW n \in Nat
  PROVE  Later([a EXCEPT !.emitted = @ + n], a, n)
  BY DEF Later, AgentRow

\* A step that emits events: what is left to show of it.
Emits(base, kinds) ==
  /\ kinds \in Seq(Kinds) /\ Len(kinds) > 0
  /\ Kin(base, agent) /\ base.emitted = agent.emitted
  /\ {agent.at, base.at} \cap (Waiting \cup {"idle", "done"}) = {}
  /\ base.at # "refused"
  /\ sup = "crashed" \/ EarlyOnly(kinds)
  /\ base.at \in InTurn => agent.at \in InTurn /\ NoEnd(kinds)
  /\ agent.inv > 0 /\ base.at \in TurnOver =>
       agent.at \in TurnOver \/ ~NoEnd(kinds)

\* BridgeInv over a step that emits events and takes no message.
LEMMA EmitInv ==
  ASSUME BridgeInv, NEW base, NEW kinds, Emit(base, kinds), Emits(base, kinds),
         \A next : Later(next, base, Len(kinds)) => PhaseOf(next)
  PROVE  BridgeInv'
  <1> DEFINE next == [base EXCEPT !.emitted = @ + Len(kinds)]
  <1>1. /\ proc = "alive" /\ toAgent' = toAgent /\ UNCHANGED <<controllerVars, eventVars>>
        /\ Write(next, Numbered(kinds))
    BY DEF Emit, AgentStep, Write, Numbered
  <1>2. agent \in AgentRow /\ PhaseOf(agent) /\ sup # "over"
    BY <1>1, AtWork
  <1>3. Cancels(toAgent) /\ ~Admitting /\ (agent.closed => toAgent = <<>>)
    BY <1>2, Quiet DEF Emits, Waiting
  <1>4. base \in AgentRow /\ Len(kinds) \in Nat /\ kinds \in Seq(Kinds)
    BY LenProperties DEF Kin, Emits
  <1>5. Later(next, base, Len(kinds))
    BY <1>4, Counted
  <1>6. Numbered(kinds) # <<>>
    BY <1>2, <1>4, NumberedLines, EmptySeq DEF Emits
  <1> HIDE DEF next
  <1>7. CASE sup = "crashed"
    BY <1>1, <1>3, <1>6, <1>7, Dies DEF Write
  <1>8. CASE sup # "crashed"
    <2>1. MayGo(next, kinds, toAgent')
      BY <1>1, <1>3, <1>5, <1>8 DEF MayGo, Emits, EarlyOnly, NoEnd, Later, Kin, Waiting
    <2> QED
      BY <1>1, <2>1, AgentWrites
  <1> QED
    BY <1>7, <1>8

\* A step that only moves the agent.
Moves(next) ==
  /\ Kin(next, agent) /\ next.emitted = agent.emitted /\ PhaseOf(next)
  /\ {agent.at, next.at} \cap (Waiting \cup {"idle", "done"}) = {}
  /\ next.at # "refused"
  /\ next.at \in InTurn => agent.at \in InTurn
  /\ agent.inv > 0 /\ next.at \in TurnOver => agent.at \in TurnOver

\* BridgeInv over a step that only moves the agent.
LEMMA MoveInv ==
  ASSUME BridgeInv, NEW next, AgentStep(next, <<>>), Moves(next)
  PROVE  BridgeInv'
  <1> DEFINE kinds == <<>>
  <1>1. /\ proc = "alive" /\ toAgent' = toAgent /\ UNCHANGED <<controllerVars, eventVars>>
        /\ Write(next, Numbered(kinds))
    BY Numberings DEF AgentStep, Write
  <1>0. kinds \in Seq(Kinds) /\ Len(kinds) = 0
    OBVIOUS
  <1> HIDE DEF kinds
  <1>2. agent \in AgentRow /\ PhaseOf(agent) /\ sup # "over"
    BY <1>1, AtWork
  <1>3. Cancels(toAgent) /\ ~Admitting /\ (agent.closed => toAgent = <<>>)
    BY <1>2, Quiet DEF Moves, Waiting
  <1>e. agent.emitted \in Nat
    BY <1>2 DEF AgentRow
  <1>f. agent.at \notin Waiting \cup {"done"} /\ next.at \notin Waiting \cup {"idle", "done"}
    BY DEF Moves
  <1>4. MayGo(next, kinds, toAgent')
    BY <1>0, <1>1, <1>3, <1>e, <1>f DEF MayGo, Moves, Kin
  <1> QED
    BY <1>1, <1>4, AgentWrites

\* Each of these actions, by MoveInv or EmitInv.
LEMMA PreflightInv ==
  ASSUME BridgeInv, Preflight
  PROVE  BridgeInv'
  <1>1. agent.at = "preflight" /\ proc = "alive"
    BY DEF Preflight, AgentStep, Write
  <1>2. agent \in AgentRow /\ PhaseOf(agent)
    BY <1>1, AtWork
  <1>4. ASSUME NEW next, next = Go("begin") \/ next = Fail("failed", "result")
        PROVE  Moves(next)
    <2>1. /\ Kin(next, agent) /\ next.emitted = agent.emitted /\ next.rounds = agent.rounds
          /\ \/ next.at = "begin" /\ next.err = agent.err
             \/ next.at = "result" /\ next.err = "failed"
      BY <1>2, <1>4 DEF Go, Fail, AgentRow, Active, Kin
    <2>2. PhaseOf(next) /\ agent.inv = 0
      BY <1>1, <1>2, <2>1 DEF PhaseOf, Kin, BetweenTurns, InTurn
    <2> QED
      BY <1>1, <2>1, <2>2 DEF Moves, Kin, Waiting, InTurn, TurnOver
  <1> QED
    BY <1>4, MoveInv DEF Preflight

LEMMA BeginInv ==
  ASSUME BridgeInv, Begin
  PROVE  BridgeInv'
  <1> DEFINE base == Go("turn")
             kinds == <<"agent_start">>
  <1>1. agent.at = "begin" /\ proc = "alive" /\ Emit(base, kinds)
    BY DEF Begin, Emit, AgentStep, Write
  <1>2. agent \in AgentRow /\ PhaseOf(agent)
    BY <1>1, AtWork
  <1>4. /\ Kin(base, agent) /\ base.emitted = agent.emitted /\ base.rounds = agent.rounds
        /\ base.at = "turn" /\ base.err = agent.err
    BY <1>2 DEF Go, AgentRow, Active, Kin
  <1>5. /\ kinds \in Seq(Kinds) /\ Len(kinds) = 1
        /\ \A i \in 1..Len(kinds) : kinds[i] = "agent_start" /\ i = 1
    BY DEF Kinds, EarlyKinds
  <1> HIDE DEF base, kinds
  <1>6. agent.inv = 0 /\ agent.emitted = 1 /\ agent.rounds = 0 /\ agent.err = "none"
    BY <1>1, <1>2 DEF PhaseOf
  <1>7. ASSUME NEW next, Later(next, base, Len(kinds))
        PROVE  PhaseOf(next)
    BY <1>4, <1>5, <1>6, <1>7, BridgeAssumption DEF PhaseOf, Later, Kin, BetweenTurns, InTurn
  <1>8. Emits(base, kinds)
    BY <1>1, <1>4, <1>5, <1>6 DEF Emits, EarlyOnly, EarlyKinds, Waiting, InTurn
  <1> QED
    BY <1>1, <1>7, <1>8, EmitInv

LEMMA TurnInv ==
  ASSUME BridgeInv, Turn
  PROVE  BridgeInv'
  <1> DEFINE base == [agent EXCEPT !.at = "prepare", !.tools = 0]
             kinds == IF agent.inv = 0 THEN <<"turn_start", "input">> ELSE <<"turn_start">>
  <1>1. agent.at = "turn" /\ proc = "alive" /\ Emit(base, kinds)
    BY DEF Turn, Emit, AgentStep, Write
  <1>2. agent \in AgentRow /\ PhaseOf(agent)
    BY <1>1, AtWork
  <1>4. /\ Kin(base, agent) /\ base.emitted = agent.emitted /\ base.rounds = agent.rounds
        /\ base.at = "prepare" /\ base.err = agent.err
    BY <1>2 DEF AgentRow, Active, Kin
  <1>5. /\ kinds \in Seq(Kinds) /\ Len(kinds) = IF agent.inv = 0 THEN 2 ELSE 1
        /\ \A i \in 1..Len(kinds) : kinds[i] \in EarlyKinds
    <2>1. CASE agent.inv = 0
      BY <2>1 DEF Kinds, EarlyKinds
    <2>2. CASE agent.inv # 0
      BY <2>2 DEF Kinds, EarlyKinds
    <2> QED
      BY <2>1, <2>2
  <1> HIDE DEF base, kinds
  <1>6. /\ agent.inv = 0 => agent.emitted = 2
        /\ agent.inv = agent.rounds /\ agent.rounds < MaxRounds /\ agent.err = "none"
    BY <1>1, <1>2 DEF PhaseOf, BetweenTurns
  <1>7. ASSUME NEW next, Later(next, base, Len(kinds))
        PROVE  PhaseOf(next)
    BY <1>4, <1>5, <1>6, <1>7 DEF PhaseOf, Later, Kin, BetweenTurns, InTurn
  <1>8. Emits(base, kinds)
    <2>1. ASSUME agent.inv = 0, NEW i \in 1..Len(kinds)
          PROVE  agent.emitted + i <= 4
      BY <1>5, <1>6, <2>1
    <2> QED
      BY <1>1, <1>4, <1>5, <2>1 DEF Emits, EarlyOnly, Waiting, InTurn, TurnOver, BetweenTurns
  <1> QED
    BY <1>1, <1>7, <1>8, EmitInv

LEMMA StreamInv ==
  ASSUME BridgeInv, Stream
  PROVE  BridgeInv'
  <1> DEFINE kinds == <<"message">>
  <1>1. PICK stop \in {"stop", "toolUse", "error"} \cup (IF agent.aborted THEN {"aborted"} ELSE {}) :
          Emit([agent EXCEPT !.stop = stop,
                             !.at = IF stop = "toolUse" THEN "tools" ELSE "turn_end"], kinds)
    BY DEF Stream
  <1> DEFINE base == [agent EXCEPT !.stop = stop,
                                   !.at = IF stop = "toolUse" THEN "tools" ELSE "turn_end"]
  <1>2. agent.at = "stream" /\ proc = "alive" /\ Emit(base, kinds)
    BY <1>1 DEF Stream, Emit, AgentStep, Write
  <1>3. agent \in AgentRow /\ PhaseOf(agent)
    BY <1>2, AtWork
  <1>4. /\ Kin(base, agent) /\ base.emitted = agent.emitted /\ base.rounds = agent.rounds
        /\ base.at = (IF stop = "toolUse" THEN "tools" ELSE "turn_end")
        /\ base.err = agent.err /\ base.stop = stop
    BY <1>3 DEF AgentRow, Active, Kin
  <1>5. /\ kinds \in Seq(Kinds) /\ Len(kinds) = 1
        /\ \A i \in 1..Len(kinds) : kinds[i] = "message"
    BY DEF Kinds, ModelKinds
  <1> HIDE DEF base, kinds
  <1>6. agent.inv = agent.rounds + 1 /\ agent.err = "none" /\ agent.inv \in 0..MaxRounds
        /\ agent.rounds \in Nat
    BY <1>2, <1>3 DEF PhaseOf, InTurn, AgentRow
  <1>7. ASSUME NEW next, Later(next, base, Len(kinds))
        PROVE  PhaseOf(next)
    BY <1>4, <1>5, <1>6, <1>7, BridgeAssumption DEF PhaseOf, Later, Kin, BetweenTurns, InTurn
  <1>8. Emits(base, kinds)
    BY <1>2, <1>4, <1>5, <1>6
       DEF Emits, EarlyOnly, NoEnd, Waiting, InTurn, TurnOver, BetweenTurns
  <1> QED
    BY <1>2, <1>7, <1>8, EmitInv

LEMMA BlockToolInv ==
  ASSUME BridgeInv, BlockTool
  PROVE  BridgeInv'
  <1> DEFINE kinds == <<"tool">>
  <1>1. PICK stop \in {agent.stop, "blocked"} :
          Emit([agent EXCEPT !.tools = @ + 1, !.stop = stop], kinds)
    BY DEF BlockTool
  <1> DEFINE base == [agent EXCEPT !.tools = @ + 1, !.stop = stop]
  <1>2. agent.at = "tools" /\ proc = "alive" /\ Emit(base, kinds)
    BY <1>1 DEF BlockTool, Emit, AgentStep, Write
  <1>3. agent \in AgentRow /\ PhaseOf(agent)
    BY <1>2, AtWork
  <1>4. stop \in {"toolUse", "blocked"}
    BY <1>2, <1>3 DEF PhaseOf
  <1>5. /\ Kin(base, agent) /\ base.emitted = agent.emitted /\ base.rounds = agent.rounds
        /\ base.at = "tools" /\ base.err = agent.err /\ base.stop = stop
    <2>1. agent.tools + 1 \in Nat /\ stop \in {"none", "stop", "toolUse", "blocked", "error", "aborted"}
      BY <1>3, <1>4 DEF AgentRow
    <2>2. base = [agent EXCEPT !.tools = agent.tools + 1, !.stop = stop]
      OBVIOUS
    <2> HIDE DEF base
    <2> QED
      BY <1>2, <1>3, <2>1, <2>2 DEF AgentRow, Kin
  <1>6. /\ kinds \in Seq(Kinds) /\ Len(kinds) = 1
        /\ \A i \in 1..Len(kinds) : kinds[i] = "tool"
    BY DEF Kinds, ModelKinds
  <1> HIDE DEF base, kinds
  <1>7. agent.inv = agent.rounds + 1 /\ agent.err = "none" /\ agent.inv \in 0..MaxRounds
        /\ agent.rounds \in Nat
    BY <1>2, <1>3 DEF PhaseOf, InTurn, AgentRow
  <1>8. ASSUME NEW next, Later(next, base, Len(kinds))
        PROVE  PhaseOf(next)
    BY <1>4, <1>5, <1>6, <1>7, <1>8, BridgeAssumption
       DEF PhaseOf, Later, Kin, BetweenTurns, InTurn
  <1>9. Emits(base, kinds)
    BY <1>2, <1>5, <1>6, <1>7
       DEF Emits, EarlyOnly, NoEnd, Waiting, InTurn, TurnOver, BetweenTurns
  <1> QED
    BY <1>2, <1>8, <1>9, EmitInv

LEMMA NoticeAbortInv ==
  ASSUME BridgeInv, NoticeAbort
  PROVE  BridgeInv'
  <1> DEFINE base == [agent EXCEPT !.stop = "aborted", !.at = "turn_end"]
             kinds == <<"message">>
  <1>1. /\ agent.at \in {"prepare", "payload", "tools"} /\ agent.aborted
        /\ proc = "alive" /\ Emit(base, kinds)
    BY DEF NoticeAbort, Emit, AgentStep, Write
  <1>2. agent \in AgentRow /\ PhaseOf(agent) /\ Session
    BY <1>1, AtWork
  <1>4. /\ Kin(base, agent) /\ base.emitted = agent.emitted /\ base.rounds = agent.rounds
        /\ base.at = "turn_end" /\ base.err = agent.err /\ base.stop = "aborted"
    BY <1>2 DEF AgentRow, Active, Kin
  <1>5. /\ kinds \in Seq(Kinds) /\ Len(kinds) = 1
        /\ \A i \in 1..Len(kinds) : kinds[i] = "message"
    BY DEF Kinds, ModelKinds
  <1> HIDE DEF base, kinds
  <1>6. /\ agent.rounds < MaxRounds /\ agent.err = "none"
        /\ sup = "crashed" \/ cancelSent
    <2>1. agent.inv \in 0..MaxRounds /\ agent.rounds \in 0..MaxRounds
      BY <1>2 DEF AgentRow
    <2>2. agent.rounds < MaxRounds /\ agent.err = "none"
      BY <1>1, <1>2, <2>1, BridgeAssumption DEF PhaseOf, InTurn, BetweenTurns
    <2> QED
      BY <1>1, <1>2, <2>2 DEF Session, Causes
  <1>7. ASSUME NEW next, Later(next, base, Len(kinds))
        PROVE  PhaseOf(next)
    BY <1>1, <1>4, <1>5, <1>6, <1>7 DEF PhaseOf, Later, Kin, BetweenTurns, InTurn
  <1>8. Emits(base, kinds)
    BY <1>1, <1>4, <1>5, <1>6
       DEF Emits, EarlyOnly, EarlyKinds, NoEnd, Waiting, InTurn, TurnOver, BetweenTurns
  <1> QED
    BY <1>1, <1>7, <1>8, EmitInv

LEMMA ToolsDoneInv ==
  ASSUME BridgeInv, ToolsDone
  PROVE  BridgeInv'
  <1> DEFINE next == Go("turn_end")
  <1>1. agent.at = "tools" /\ proc = "alive" /\ AgentStep(next, <<>>)
    BY DEF ToolsDone, AgentStep, Write
  <1>2. agent \in AgentRow /\ PhaseOf(agent)
    BY <1>1, AtWork
  <1>3. /\ Kin(next, agent) /\ next.emitted = agent.emitted /\ next.rounds = agent.rounds
        /\ next.err = agent.err /\ next.at = "turn_end" /\ next.stop = agent.stop
    BY <1>2 DEF Go, AgentRow, Active, Kin
  <1> HIDE DEF next
  <1>4. /\ agent.inv = agent.rounds + 1 /\ agent.err = "none"
        /\ agent.stop \in {"toolUse", "blocked"}
        /\ agent.inv \in 0..MaxRounds /\ agent.rounds \in 0..MaxRounds
    BY <1>1, <1>2 DEF PhaseOf, InTurn, AgentRow
  <1>5. PhaseOf(next)
    BY <1>3, <1>4, BridgeAssumption DEF PhaseOf, Kin, BetweenTurns, InTurn
  <1>6. Moves(next)
    BY <1>1, <1>3, <1>5 DEF Moves, Waiting, InTurn, TurnOver, BetweenTurns
  <1> QED
    BY <1>1, <1>6, MoveInv

LEMMA FinishTurnInv ==
  ASSUME BridgeInv, FinishTurn
  PROVE  BridgeInv'
  <1> DEFINE kinds == <<"turn_end">>
             next == [agent EXCEPT !.rounds = agent.rounds + 1]
             goOn == agent.stop = "toolUse" /\ agent.rounds + 1 < MaxRounds
             base == IF goOn THEN [next EXCEPT !.at = "turn"]
                     ELSE [next EXCEPT !.at = "ending",
                             !.err = IF agent.stop \in {"error", "aborted"} THEN "failed" ELSE @]
  <1>1. agent.at = "turn_end" /\ proc = "alive" /\ Emit(base, kinds)
    BY DEF FinishTurn, Emit, AgentStep, Write
  <1>2. agent \in AgentRow /\ PhaseOf(agent) /\ Session
    BY <1>1, AtWork
  <1>3. /\ agent.rounds < MaxRounds /\ agent.err = "none" /\ agent.stop # "none"
        /\ IF agent.stop = "aborted" THEN agent.aborted ELSE agent.inv = agent.rounds + 1
        /\ agent.inv \in 0..MaxRounds /\ agent.rounds \in 0..MaxRounds /\ MaxRounds \in Nat
        /\ agent.stop \in {"stop", "toolUse", "blocked", "error", "aborted"}
    BY <1>1, <1>2, BridgeAssumption DEF PhaseOf, AgentRow
  <1>4. /\ Kin(base, agent) /\ base.emitted = agent.emitted
        /\ base.rounds = agent.rounds + 1 /\ base.stop = agent.stop
        /\ base.at = (IF goOn THEN "turn" ELSE "ending")
        /\ base.err = IF ~goOn /\ agent.stop \in {"error", "aborted"} THEN "failed" ELSE "none"
    <2>1. /\ next \in AgentRow /\ next.rounds = agent.rounds + 1
          /\ next.inv = agent.inv /\ next.aborted = agent.aborted /\ next.closed = agent.closed
          /\ next.emitted = agent.emitted /\ next.stop = agent.stop /\ next.err = agent.err
      BY <1>2, <1>3 DEF AgentRow
    <2> HIDE DEF next
    <2>2. CASE goOn
      BY <1>3, <2>1, <2>2 DEF AgentRow, Active, Kin
    <2>3. CASE ~goOn
      BY <1>3, <2>1, <2>3 DEF AgentRow, Active, Kin
    <2> QED
      BY <2>2, <2>3
  <1>5. /\ kinds \in Seq(Kinds) /\ Len(kinds) = 1 /\ kinds[1] = "turn_end"
        /\ \A i \in 1..Len(kinds) : kinds[i] = "turn_end"
    BY DEF Kinds, ModelKinds
  <1> HIDE DEF base, kinds, next
  <1>6. agent.inv = 0 => agent.aborted /\ (sup = "crashed" \/ cancelSent)
    BY <1>2, <1>3 DEF Session, Causes
  <1>7. ASSUME NEW a, Later(a, base, Len(kinds))
        PROVE  PhaseOf(a)
    <2>1. CASE goOn
      BY <1>3, <1>4, <1>5, <1>7, <2>1 DEF PhaseOf, Later, Kin, BetweenTurns, InTurn
    <2>2. CASE ~goOn
      BY <1>3, <1>4, <1>5, <1>6, <1>7, <2>2 DEF PhaseOf, Later, Kin, BetweenTurns, InTurn
    <2> QED
      BY <2>1, <2>2
  <1>8. Emits(base, kinds)
    <2>1. sup = "crashed" \/ EarlyOnly(kinds)
      BY <1>5, <1>6 DEF EarlyOnly, EarlyKinds
    <2>2. ~NoEnd(kinds)
      BY <1>5 DEF NoEnd
    <2> QED
      BY <1>1, <1>4, <1>5, <2>1, <2>2 DEF Emits, Waiting, InTurn, TurnOver, BetweenTurns
  <1> QED
    BY <1>1, <1>7, <1>8, EmitInv

LEMMA AgentEndInv ==
  ASSUME BridgeInv, AgentEnd
  PROVE  BridgeInv'
  <1> DEFINE kinds == <<"agent_end">>
             base == Go("result")
  <1>1. agent.at = "ending" /\ proc = "alive" /\ Emit(base, kinds)
    BY DEF AgentEnd, Emit, AgentStep, Write
  <1>2. agent \in AgentRow /\ PhaseOf(agent) /\ Session
    BY <1>1, AtWork
  <1>4. /\ Kin(base, agent) /\ base.emitted = agent.emitted
        /\ base.rounds = agent.rounds /\ base.stop = agent.stop
        /\ base.at = "result" /\ base.err = agent.err
    BY <1>2 DEF Go, AgentRow, Active, Kin
  <1>5. /\ kinds \in Seq(Kinds) /\ Len(kinds) = 1
        /\ \A i \in 1..Len(kinds) : kinds[i] = "agent_end"
    BY DEF Kinds, ModelKinds
  <1> HIDE DEF base, kinds
  <1>6. agent.inv = 0 => sup = "crashed" \/ cancelSent
    BY <1>1, <1>2 DEF Session, Causes, PhaseOf
  <1>7. ASSUME NEW a, Later(a, base, Len(kinds))
        PROVE  PhaseOf(a)
    BY <1>1, <1>2, <1>4, <1>5, <1>7 DEF PhaseOf, Later, Kin, BetweenTurns, InTurn
  <1>8. Emits(base, kinds)
    BY <1>1, <1>4, <1>5, <1>6
       DEF Emits, EarlyOnly, EarlyKinds, Waiting, InTurn, TurnOver, BetweenTurns
  <1> QED
    BY <1>1, <1>7, <1>8, EmitInv

LEMMA RefusedInv ==
  ASSUME BridgeInv, Refused
  PROVE  BridgeInv'
  <1> DEFINE kinds == <<"message", "turn_end", "agent_end">>
             base == Go("result")
  <1>1. agent.at = "refused" /\ proc = "alive" /\ (AgentStep(base, <<>>) \/ Emit(base, kinds))
    BY DEF Refused, Emit, AgentStep, Write
  <1>2. agent \in AgentRow /\ PhaseOf(agent) /\ Session
    BY <1>1, AtWork
  <1>4. /\ Kin(base, agent) /\ base.emitted = agent.emitted
        /\ base.rounds = agent.rounds /\ base.stop = agent.stop
        /\ base.at = "result" /\ base.err = agent.err
    BY <1>2 DEF Go, AgentRow, Active, Kin
  <1>5. /\ kinds \in Seq(Kinds) /\ Len(kinds) = 3
        /\ \A i \in 1..Len(kinds) : kinds[i] \notin EarlyKinds
    BY DEF Kinds, ModelKinds, EarlyKinds
  <1> HIDE DEF base, kinds
  <1>6. agent.err # "none" /\ (sup = "crashed" \/ worker.refused)
    BY <1>1, <1>2 DEF Session, Causes, PhaseOf
  <1>7. ASSUME NEW a, a.at = "result", a.err = agent.err
        PROVE  PhaseOf(a)
    BY <1>6, <1>7 DEF PhaseOf, BetweenTurns, InTurn
  <1>8. Moves(base)
    BY <1>1, <1>4, <1>7 DEF Moves, Waiting, InTurn, TurnOver, BetweenTurns
  <1>9. Emits(base, kinds)
    BY <1>1, <1>4, <1>5, <1>6 DEF Emits, EarlyOnly, Waiting, InTurn, TurnOver, BetweenTurns
  <1>10. \A a : Later(a, base, Len(kinds)) => PhaseOf(a)
    BY <1>4, <1>7 DEF Later
  <1> QED
    BY <1>1, <1>8, <1>9, <1>10, EmitInv, MoveInv

-----------------------------------------------------------------------------
(* The steps of the agent on an answer, and on the order to run.           *)

\* The answer that the agent is waiting for.
LEMMA Answered ==
  ASSUME BridgeInv, HasMessage("rpc_result")
  PROVE  /\ Cancels(Tail(toAgent)) /\ ~agent.closed /\ agent.at \in Waiting
         /\ toSupervisor = <<>> /\ request = NoRequest
         /\ 1 \in 1..Len(toAgent) /\ IsReply(1) /\ Head(toAgent) = toAgent[1]
         /\ Head(toAgent).ok \in BOOLEAN /\ Head(toAgent).inv \in 0..MaxRounds
         /\ Head(toAgent).ok /\ agent.at = "preparing" => Head(toAgent).inv = worker.inv
         /\ ~Head(toAgent).ok =>
               worker.refused /\ Head(toAgent).status \in {"failed", "interrupted"}
         /\ Admitting <=> Head(toAgent).ok /\ agent.at = "preparing"
  <1>1. /\ Cancels(Tail(toAgent)) /\ ~agent.closed
        /\ Head(toAgent) \in Messages /\ Head(toAgent) = toAgent[1] /\ 1 \in 1..Len(toAgent)
        /\ OrderAt(1)
    BY TailQuiet
  <1>2. Head(toAgent).type = "rpc_result"
    BY DEF HasMessage
  <1>3. Head(toAgent).ok \in BOOLEAN /\ Head(toAgent).inv \in 0..MaxRounds
    BY <1>1, <1>2 DEF Messages
  <1>4. \A j \in 1..Len(toAgent) : IsReply(j) => j = 1
    BY <1>1, <1>2 DEF OrderAt, IsReply
  <1> QED
    BY <1>1, <1>2, <1>3, <1>4 DEF OrderAt, IsReply, Admitting

\* What an answer makes of the agent, when it is not an admission.
Heeds(next, kinds) ==
  /\ kinds \in Seq(Kinds) /\ Kin(next, agent) /\ PhaseOf(next)
  /\ next.emitted = agent.emitted + Len(kinds)
  /\ next.at \notin Waiting \cup {"idle", "done"}
  /\ next.at = "refused" => worker.refused
  /\ agent.inv = 0 => kinds = <<>>
  /\ next.at \in InTurn => agent.at \in InTurn /\ NoEnd(kinds)
  /\ next.at \in TurnOver => agent.at \in TurnOver

\* BridgeInv over a step that takes an answer and emits events.
LEMMA HeedInv ==
  ASSUME BridgeInv, NEW next, NEW kinds, HasMessage("rpc_result"), ~Admitting,
         Handle(next, Numbered(kinds)), Heeds(next, kinds)
  PROVE  BridgeInv'
  <1>1. /\ toAgent' = Tail(toAgent) /\ UNCHANGED <<controllerVars, eventVars>>
        /\ Write(next, Numbered(kinds))
    BY DEF Handle
  <1>2. /\ Cancels(Tail(toAgent)) /\ ~agent.closed /\ agent.at \in Waiting
        /\ 1 \in 1..Len(toAgent) /\ IsReply(1)
    BY Answered
  <1>3. agent.at # "done"
    BY <1>2 DEF Waiting
  <1>4. ASSUME agent.inv = 0, NEW i \in 1..Len(kinds)
        PROVE  FALSE
    BY <1>4 DEF Heeds
  <1>5. MayGo(next, kinds, toAgent')
    BY <1>1, <1>2, <1>3, <1>4 DEF MayGo, Heeds, Kin, NoEnd
  <1> QED
    BY <1>1, <1>5, AgentWrites

\* Each of these actions, by HeedInv.
LEMMA HandlePayloadReplyInv ==
  ASSUME BridgeInv, HandlePayloadReply
  PROVE  BridgeInv'
  <1>1. /\ agent.at = "paying" /\ proc = "alive" /\ HasMessage("rpc_result")
    BY DEF HandlePayloadReply, HasMessage
  <1>2. agent \in AgentRow /\ PhaseOf(agent) /\ ~Admitting
    BY <1>1, AtWork DEF Admitting
  <1>3. /\ agent.inv = agent.rounds + 1 /\ agent.err = "none"
        /\ agent.inv \in 0..MaxRounds /\ agent.rounds \in 0..MaxRounds /\ MaxRounds \in Nat
    BY <1>1, <1>2, BridgeAssumption DEF PhaseOf, InTurn, AgentRow
  <1>4. CASE Head(toAgent).ok
    <2> DEFINE next == Go("stream")
               kinds == <<>>
    <2>1. Handle(next, Numbered(kinds))
      BY <1>4, Numberings DEF HandlePayloadReply
    <2>2. /\ Kin(next, agent) /\ next.emitted = agent.emitted /\ next.rounds = agent.rounds
          /\ next.err = agent.err /\ next.at = "stream"
      BY <1>2 DEF Go, AgentRow, Active, Kin
    <2>3. kinds \in Seq(Kinds) /\ Len(kinds) = 0 /\ agent.emitted \in Nat
      BY <1>2 DEF AgentRow
    <2> HIDE DEF next
    <2>4. PhaseOf(next)
      BY <1>3, <2>2 DEF PhaseOf, Kin, BetweenTurns, InTurn
    <2>5. Heeds(next, kinds)
      BY <1>1, <2>2, <2>3, <2>4 DEF Heeds, Waiting, InTurn, TurnOver, BetweenTurns, NoEnd
    <2> QED
      BY <1>1, <1>2, <2>1, <2>5, HeedInv
  <1>5. CASE ~Head(toAgent).ok
    <2> DEFINE next == [agent EXCEPT !.at = "turn_end", !.stop = "error", !.emitted = @ + 1]
               kinds == <<"message">>
    <2>3. kinds \in Seq(Kinds) /\ Len(kinds) = 1 /\ agent.emitted \in Nat /\ kinds # <<>>
          /\ NoEnd(kinds)
      BY <1>2 DEF AgentRow, Kinds, ModelKinds, NoEnd
    <2>1. Handle(next, Numbered(kinds))
      BY <1>5, Numberings DEF HandlePayloadReply, Kinds, ModelKinds
    <2>2. /\ Kin(next, agent) /\ next.emitted = agent.emitted + 1 /\ next.rounds = agent.rounds
          /\ next.err = agent.err /\ next.at = "turn_end" /\ next.stop = "error"
      <3>1. PICK n \in Nat : n = agent.emitted + 1
        BY <1>2 DEF AgentRow
      <3>2. next = [agent EXCEPT !.at = "turn_end", !.stop = "error", !.emitted = n]
        BY <3>1
      <3> HIDE DEF next
      <3> QED
        BY <1>2, <3>1, <3>2 DEF AgentRow, Active, Kin
    <2> HIDE DEF next, kinds
    <2>4. PhaseOf(next)
      BY <1>3, <2>2 DEF PhaseOf, Kin, BetweenTurns, InTurn
    <2>5. Heeds(next, kinds)
      BY <1>1, <1>3, <2>2, <2>3, <2>4 DEF Heeds, Waiting, InTurn, TurnOver, BetweenTurns
    <2> QED
      BY <1>1, <1>2, <2>1, <2>5, HeedInv
  <1> QED
    BY <1>4, <1>5

LEMMA HandleToolReplyInv ==
  ASSUME BridgeInv, HandleToolReply
  PROVE  BridgeInv'
  <1> DEFINE next == [agent EXCEPT !.at = "tools", !.tools = @ + 1, !.emitted = @ + 1]
             kinds == <<"tool">>
  <1>1. /\ agent.at = "tooling" /\ proc = "alive" /\ HasMessage("rpc_result")
    BY DEF HandleToolReply, HasMessage
  <1>2. agent \in AgentRow /\ PhaseOf(agent) /\ ~Admitting
    BY <1>1, AtWork DEF Admitting
  <1>3. /\ agent.inv = agent.rounds + 1 /\ agent.err = "none" /\ agent.stop \in {"toolUse", "blocked"}
        /\ agent.inv \in 0..MaxRounds /\ agent.rounds \in 0..MaxRounds /\ MaxRounds \in Nat
    BY <1>1, <1>2, BridgeAssumption DEF PhaseOf, InTurn, AgentRow
  <1>4. kinds \in Seq(Kinds) /\ Len(kinds) = 1 /\ kinds # <<>> /\ NoEnd(kinds)
    BY DEF Kinds, ModelKinds, NoEnd
  <1>5. Handle(next, Numbered(kinds))
    BY Numberings DEF HandleToolReply, Kinds, ModelKinds
  <1>6. /\ Kin(next, agent) /\ next.emitted = agent.emitted + 1 /\ next.rounds = agent.rounds
        /\ next.err = agent.err /\ next.at = "tools" /\ next.stop = agent.stop
    <2>1. PICK n \in Nat : n = agent.emitted + 1
      BY <1>2 DEF AgentRow
    <2>2. PICK k \in Nat : k = agent.tools + 1
      BY <1>2 DEF AgentRow
    <2>3. next = [agent EXCEPT !.at = "tools", !.tools = k, !.emitted = n]
      BY <2>1, <2>2
    <2> HIDE DEF next
    <2> QED
      BY <1>2, <2>1, <2>2, <2>3 DEF AgentRow, Active, Kin
  <1> HIDE DEF next, kinds
  <1>7. PhaseOf(next)
    BY <1>3, <1>6 DEF PhaseOf, Kin, BetweenTurns, InTurn
  <1>8. Heeds(next, kinds)
    BY <1>1, <1>3, <1>4, <1>6, <1>7 DEF Heeds, Waiting, InTurn, TurnOver, BetweenTurns
  <1> QED
    BY <1>1, <1>2, <1>5, <1>8, HeedInv

LEMMA AdmissionRefusedInv ==
  ASSUME BridgeInv, HandleAdmission, ~Head(toAgent).ok
  PROVE  BridgeInv'
  <1> DEFINE next == Fail(Head(toAgent).status, "refused")
             kinds == <<>>
  <1>1. /\ agent.at = "preparing" /\ proc = "alive" /\ HasMessage("rpc_result")
    BY DEF HandleAdmission, HasMessage
  <1>2. agent \in AgentRow /\ PhaseOf(agent)
    BY <1>1, AtWork
  <1>3. /\ ~Admitting /\ worker.refused
        /\ Head(toAgent).status \in {"failed", "interrupted"}
    BY <1>1, Answered
  <1>4. kinds \in Seq(Kinds) /\ Len(kinds) = 0 /\ agent.emitted \in Nat
    BY <1>2 DEF AgentRow
  <1>5. Handle(next, Numbered(kinds))
    BY Numberings DEF HandleAdmission
  <1>6. /\ Kin(next, agent) /\ next.emitted = agent.emitted /\ next.rounds = agent.rounds
        /\ next.err = Head(toAgent).status /\ next.at = "refused"
    BY <1>2, <1>3 DEF Fail, AgentRow, Active, Kin
  <1> HIDE DEF next
  <1>7. PhaseOf(next)
    BY <1>1, <1>2, <1>3, <1>6 DEF PhaseOf, Kin, BetweenTurns, InTurn
  <1>8. Heeds(next, kinds)
    BY <1>1, <1>3, <1>4, <1>6, <1>7 DEF Heeds, Waiting, InTurn, TurnOver, BetweenTurns
  <1> QED
    BY <1>1, <1>3, <1>5, <1>8, HeedInv

LEMMA RunAccepted ==
  ASSUME BridgeInv, HasMessage("run"),
         Handle([agent EXCEPT !.at = "preflight", !.emitted = 1], <<Event("agent_config", 1)>>)
  PROVE  BridgeInv'
  <1> DEFINE next == [agent EXCEPT !.at = "preflight", !.emitted = 1]
             kinds == <<"agent_config">>
  <1>1. /\ proc = "alive" /\ Cancels(Tail(toAgent)) /\ ~agent.closed /\ agent.at = "idle"
    BY TailQuiet DEF HasMessage, OrderAt
  <1>2. agent \in AgentRow /\ PhaseOf(agent) /\ ~Admitting
    BY <1>1, AtWork DEF Admitting
  <1>3. agent.inv = 0 /\ agent.emitted = 0 /\ agent.rounds = 0 /\ agent.err = "none"
    BY <1>1, <1>2 DEF PhaseOf
  <1>4. kinds \in Seq(Kinds) /\ Len(kinds) = 1 /\ \A i \in 1..Len(kinds) : i = 1 /\ kinds[i] = "agent_config"
    BY DEF Kinds, EarlyKinds
  <1>5. /\ toAgent' = Tail(toAgent) /\ UNCHANGED <<controllerVars, eventVars>>
        /\ Write(next, Numbered(kinds))
    BY <1>3, Numberings DEF Handle, Kinds, EarlyKinds
  <1>6. /\ Kin(next, agent) /\ next.emitted = 1 /\ next.rounds = 0
        /\ next.err = "none" /\ next.at = "preflight"
    BY <1>2, <1>3 DEF AgentRow, Active, Kin
  <1> HIDE DEF next, kinds
  <1>7. PhaseOf(next)
    BY <1>3, <1>6 DEF PhaseOf, Kin, BetweenTurns, InTurn
  <1>8. MayGo(next, kinds, toAgent')
    BY <1>1, <1>2, <1>3, <1>4, <1>5, <1>6, <1>7
       DEF MayGo, Kin, Waiting, InTurn, TurnOver, BetweenTurns, EarlyKinds
  <1> QED
    BY <1>5, <1>8, AgentWrites

-----------------------------------------------------------------------------
(* The steps of the agent that ask for something, or report its result.    *)

\* A pipe with one more line.
LEMMA OneLine ==
  ASSUME NEW s \in Seq(LineSet), NEW line \in LineSet
  PROVE  s \o <<line>> \in Seq(LineSet) /\ Joins(s \o <<line>>, s, <<line>>)
  <1>1. <<line>> \in Seq(LineSet)
    OBVIOUS
  <1> QED
    BY <1>1, Extended

\* A line that is no event leaves the events in order.
LEMMA CarriesOther ==
  ASSUME NEW s \in Seq(LineSet), NEW line \in LineSet, line.type # "event", NEW u,
         Joins(u, s, <<line>>), NEW m, NEW n, Carries(s, m, n)
  PROVE  Carries(u, m, n)
  <1>1. \A i \in 1..Len(u) :
           IF i \in 1..Len(s) THEN u[i] = s[i] ELSE u[i] = line
    BY DEF Joins
  <1>2. \A i \in 1..Len(u) : u[i].type = "event" => i \in 1..Len(s) /\ u[i] = s[i]
    BY <1>1
  <1>3. \A i \in 1..Len(s) : i \in 1..Len(u) /\ u[i] = s[i]
    BY DEF Joins
  <1> QED
    BY <1>2, <1>3 DEF Carries

\* The agent writes one line that is no event.
Speaks(next, line) ==
  /\ Kin(next, agent) /\ next.emitted = agent.emitted /\ PhaseOf(next)
  /\ Cancels(toAgent') /\ ~Admitting
  /\ agent.at \notin Waiting \cup {"done"}
  /\ next.at \notin {"idle", "refused"}
  /\ \/ /\ line \in RpcLines /\ line.inv = agent.inv
        /\ next.at \in Waiting /\ line.method = Asks[next.at]
     \/ /\ line \in ResultLines /\ next.at = "done"
        /\ line.ok /\ line.status = "finished" =>
              next.stop \in {"stop", "blocked"} /\ line.rounds = next.inv
        /\ ~line.ok => line.status = "failed"
  /\ next.at \in InTurn => agent.at \in InTurn
  /\ agent.inv > 0 /\ next.at \in TurnOver => agent.at \in TurnOver

\* BridgeInv over a step that writes one line that is no event.
LEMMA SpeakInv ==
  ASSUME BridgeInv, NEW next, NEW line, Write(next, <<line>>), Speaks(next, line),
         UNCHANGED <<controllerVars, eventVars>>, agent.closed => toAgent' = <<>>
  PROVE  BridgeInv'
  <1>1. /\ sup' = sup /\ request' = request /\ cancelSent' = cancelSent /\ worker' = worker
        /\ outcome' = outcome /\ cancel' = cancel /\ late' = late /\ fenced' = fenced
        /\ proc = "alive"
    BY DEF controllerVars, eventVars, Write
  <1>2. /\ sup \in Live \cup {"crashed"} /\ sup # "over" /\ agent \in AgentRow /\ Session
        /\ Shapes /\ Held /\ Places /\ Results
    BY <1>1, AtWork DEF BridgeInv
  <1>3. CASE sup = "crashed"
    BY <1>1, <1>3, Dies DEF Write, Speaks
  <1>4. ASSUME sup \in Live
        PROVE  BridgeInv'
    <2>1. /\ agent' = next /\ toSupervisor' = toSupervisor \o <<line>> /\ proc' = proc
          /\ sup # "crashed" /\ sup' # "crashed"
      BY <1>1, <1>4 DEF Write, Live
    <2>2. line \in LineSet /\ line.type # "event" /\ toSupervisor \in Seq(LineSet)
      BY <1>2, PipeShape, LineShapes DEF Speaks, LineSet
    <2>3. toSupervisor' \in Seq(LineSet) /\ Joins(toSupervisor', toSupervisor, <<line>>)
      BY <2>1, <2>2, OneLine
    <2>4. /\ Len(toSupervisor) \in Nat /\ Len(toSupervisor') = Len(toSupervisor) + 1
          /\ \A i \in 1..Len(toSupervisor) : i \in 1..Len(toSupervisor') /\ toSupervisor'[i] = toSupervisor[i]
          /\ \A i \in 1..Len(toSupervisor') :
                \/ i \in 1..Len(toSupervisor) /\ toSupervisor'[i] = toSupervisor[i]
                \/ i = Len(toSupervisor') /\ toSupervisor'[i] = line
      BY <2>3 DEF Joins
    <2>5. ~agent.closed /\ ~next.closed /\ request = NoRequest
      BY <1>2, <2>1 DEF Session, Causes, Calls, Speaks, Kin
    <2>6. Shapes'
      BY <1>1, <1>2, <2>1, <2>3 DEF Shapes, Cancels, LineSet, Speaks, Kin
    <2>7. Held' /\ Places' /\ Results'
      BY <1>1, <1>2, <1>4, <2>1 DEF Held, Places, Results, FinishedMeansDone, Live
    <2>8. ~Admitting'
      BY DEF Speaks, Admitting, Cancels, IsReply
    <2>9. PhaseOf(agent)'
      BY <2>1 DEF Speaks, PhaseOf
    <2>10. Causes'
      <3>1. /\ agent'.aborted => cancelSent' \/ sup' = "crashed"
            /\ agent'.at = "refused" => worker'.refused \/ agent'.closed
            /\ agent'.closed => sup' = "crashed" /\ toAgent' = <<>>
        BY <1>1, <1>2, <2>1, <2>5 DEF Session, Causes, Speaks, Kin
      <3>2. ASSUME NEW i \in 1..Len(toSupervisor')
            PROVE  CauseAt(i)'
        <4>1. CASE i \in 1..Len(toSupervisor) /\ toSupervisor'[i] = toSupervisor[i]
          BY <1>1, <1>2, <4>1 DEF Session, Causes, CauseAt, IsEvent
        <4>2. CASE toSupervisor'[i] = line
          BY <2>2, <4>2 DEF CauseAt, IsEvent
        <4> QED
          BY <2>4, <4>1, <4>2
      <3> QED
        BY <3>1, <3>2 DEF Causes
    <2>11. Orders'
      BY <1>1 DEF Speaks, Cancels, Orders, OrderAt, IsReply
    <2>12. Calls'
      BY <1>1, <1>2, <2>1, <2>5, <2>8 DEF Session, Calls, Speaks, Kin
    <2>13. Reports'
      <3>1. ASSUME NEW i \in 1..Len(toSupervisor')
            PROVE  ReportAt(i)'
        <4>1. CASE i \in 1..Len(toSupervisor) /\ toSupervisor'[i] = toSupervisor[i]
          <5>1. /\ toSupervisor[i].type \notin {"rpc", "result"}
                /\ toSupervisor[i].type = "event" => toSupervisor[i].inv = agent.inv
            BY <1>2, <2>5, <4>1 DEF Session, Reports, ReportAt, Speaks
          <5> QED
            BY <2>1, <4>1, <5>1 DEF ReportAt, Speaks, Kin
        <4>2. CASE i = Len(toSupervisor') /\ toSupervisor'[i] = line
          BY <2>1, <4>2, LineShapes DEF ReportAt, Speaks, Kin
        <4> QED
          BY <2>4, <4>1, <4>2
      <3> QED
        BY <3>1 DEF Reports
    <2>14. Turns'
      <3>1. EndInFlight' <=> EndInFlight
        BY <2>2, <2>4 DEF EndInFlight, IsEvent
      <3> QED
        BY <1>1, <1>2, <2>1, <2>8, <3>1 DEF Session, Turns, Speaks, Kin
    <2>15. Flow => Flow'
      <3>1. HeldCount' = HeldCount
        BY <1>1 DEF HeldCount
      <3>2. Flow => Carries(toSupervisor', HeldCount, agent.emitted)
        BY <2>2, <2>3, CarriesOther DEF Flow
      <3> QED
        BY <2>1, <3>1, <3>2 DEF Flow, Speaks
    <2>16. ASSUME NEW i \in 1..Len(toSupervisor'), IsEvent(i)'
           PROVE  toSupervisor'[i].n >= 1 /\ toSupervisor'[i].n <= agent'.emitted
      BY <2>1, <2>2, <2>4, <2>16 DEF BridgeInv, IsEvent, Speaks
    <2>17. agent'.inv <= worker'.inv
      BY <1>1, <2>1 DEF BridgeInv, Speaks, Kin
    <2> QED
      BY <1>1, <1>4, <2>6, <2>7, <2>9, <2>10, <2>11, <2>12, <2>13, <2>14, <2>15, <2>16, <2>17
         DEF BridgeInv, Session, Live
  <1> QED
    BY <1>2, <1>3, <1>4

\* The two requests that the agent makes by itself, and its tool calls.
LEMMA AskInv ==
  ASSUME BridgeInv, NEW at, NEW method, AgentStep(Go(at), <<Rpc(method)>>),
         \/ agent.at = "prepare" /\ at = "preparing" /\ method = "prepare_request"
         \/ agent.at = "payload" /\ at = "paying" /\ method = "provider_payload"
         \/ agent.at = "tools" /\ at = "tooling" /\ method = "tool_call"
  PROVE  BridgeInv'
  <1> DEFINE next == Go(at)
             line == Rpc(method)
  <1>1. /\ proc = "alive" /\ toAgent' = toAgent /\ UNCHANGED <<controllerVars, eventVars>>
        /\ Write(next, <<line>>)
    BY DEF AgentStep, Write
  <1>2. agent \in AgentRow /\ PhaseOf(agent) /\ sup # "over"
    BY <1>1, AtWork
  <1>3. Cancels(toAgent) /\ ~Admitting /\ (agent.closed => toAgent = <<>>)
    BY <1>2, Quiet DEF Waiting
  <1>4. /\ Kin(next, agent) /\ next.emitted = agent.emitted /\ next.rounds = agent.rounds
        /\ next.err = agent.err /\ next.at = at /\ next.stop = agent.stop
    BY <1>2 DEF Go, AgentRow, Active, Kin
  <1>5. line \in RpcLines /\ line.inv = agent.inv /\ line.method = method
    BY <1>2 DEF Rpc, RpcLines, AgentRow
  <1> HIDE DEF next, line
  <1>6. PhaseOf(next)
    BY <1>2, <1>4 DEF PhaseOf, Kin, BetweenTurns, InTurn
  <1>7. Speaks(next, line)
    BY <1>1, <1>3, <1>4, <1>5, <1>6
       DEF Speaks, Asks, Waiting, InTurn, TurnOver, BetweenTurns
  <1> QED
    BY <1>1, <1>3, <1>7, SpeakInv

\* The result, from where the agent is when it reports.
LEMMA SendResultInv ==
  ASSUME BridgeInv, SendResult
  PROVE  BridgeInv'
  <1> DEFINE next == Go("done")
             line == Result(TRUE, AgentStatus, agent.rounds)
  <1>1. /\ proc = "alive" /\ toAgent' = toAgent /\ UNCHANGED <<controllerVars, eventVars>>
        /\ Write(next, <<line>>) /\ agent.at = "result"
    BY DEF SendResult, AgentStep, Write
  <1>2. agent \in AgentRow /\ PhaseOf(agent) /\ sup # "over"
    BY <1>1, AtWork
  <1>3. Cancels(toAgent) /\ ~Admitting /\ (agent.closed => toAgent = <<>>)
    BY <1>1, <1>2, Quiet DEF Waiting
  <1>4. /\ Kin(next, agent) /\ next.emitted = agent.emitted /\ next.rounds = agent.rounds
        /\ next.err = agent.err /\ next.at = "done" /\ next.stop = agent.stop
    BY <1>2 DEF Go, AgentRow, Active, Kin
  <1>5. /\ AgentStatus \in Statuses
        /\ AgentStatus = "finished" =>
              agent.stop \in {"stop", "blocked"} /\ agent.rounds = agent.inv
    <2>1. /\ agent.err \in {"none", "failed", "interrupted"}
          /\ agent.err = "none" => agent.inv = agent.rounds
          /\ agent.err = "none" /\ agent.stop \notin {"stop", "blocked"} =>
                agent.stop = "toolUse" /\ agent.rounds >= MaxRounds
      BY <1>1, <1>2 DEF PhaseOf, AgentRow
    <2>2. CASE agent.err = "none"
      BY <2>1, <2>2 DEF AgentStatus, Statuses
    <2>3. CASE agent.err # "none"
      BY <2>1, <2>3 DEF AgentStatus, Statuses
    <2> QED
      BY <2>2, <2>3
  <1>6. /\ line \in ResultLines /\ line.ok /\ line.status = AgentStatus
        /\ line.rounds = agent.rounds
    BY <1>2, <1>5 DEF Result, ResultLines, AgentRow
  <1> HIDE DEF next, line
  <1>7. PhaseOf(next)
    BY <1>4 DEF PhaseOf, BetweenTurns, InTurn
  <1>8. Speaks(next, line)
    BY <1>1, <1>3, <1>4, <1>5, <1>6, <1>7
       DEF Speaks, Kin, Waiting, InTurn, TurnOver, BetweenTurns
  <1> QED
    BY <1>1, <1>3, <1>8, SpeakInv

\* A run that createAgent refuses.
LEMMA RunRejected ==
  ASSUME BridgeInv, HasMessage("run"), Handle(Go("done"), <<Result(FALSE, "failed", 0)>>)
  PROVE  BridgeInv'
  <1> DEFINE next == Go("done")
             line == Result(FALSE, "failed", 0)
  <1>1. /\ proc = "alive" /\ Cancels(Tail(toAgent)) /\ ~agent.closed /\ agent.at = "idle"
    BY TailQuiet DEF HasMessage, OrderAt
  <1>2. /\ toAgent' = Tail(toAgent) /\ UNCHANGED <<controllerVars, eventVars>>
        /\ Write(next, <<line>>)
    BY DEF Handle
  <1>3. agent \in AgentRow /\ PhaseOf(agent) /\ ~Admitting
    BY <1>1, AtWork DEF Admitting
  <1>4. /\ Kin(next, agent) /\ next.emitted = agent.emitted /\ next.at = "done" /\ next.inv = 0
    BY <1>1, <1>3 DEF Go, AgentRow, Active, Kin, PhaseOf
  <1>5. line \in ResultLines /\ ~line.ok /\ line.status = "failed"
    BY BridgeAssumption DEF Result, ResultLines, Statuses
  <1> HIDE DEF next, line
  <1>6. PhaseOf(next)
    BY <1>4 DEF PhaseOf, BetweenTurns, InTurn
  <1>7. Speaks(next, line)
    BY <1>1, <1>2, <1>3, <1>4, <1>5, <1>6
       DEF Speaks, Kin, Waiting, InTurn, TurnOver, BetweenTurns
  <1> QED
    BY <1>1, <1>2, <1>7, SpeakInv

\* The agent changes, and neither the pipe from it nor the controller does.
LEMMA Listens ==
  ASSUME BridgeInv, NEW next, Write(next, <<>>), UNCHANGED <<controllerVars, eventVars>>
  PROVE  /\ sup' = sup /\ request' = request /\ cancelSent' = cancelSent /\ worker' = worker
         /\ outcome' = outcome /\ cancel' = cancel /\ late' = late /\ fenced' = fenced
         /\ proc' = proc /\ agent' = next /\ toSupervisor' = toSupervisor /\ proc = "alive"
  <1>1. toSupervisor' = toSupervisor \o <<>> /\ agent' = next /\ proc' = proc /\ proc = "alive"
    BY DEF Write
  <1>2. toSupervisor \in Seq(LineSet)
    BY PipeShape DEF BridgeInv
  <1>3. toSupervisor' = toSupervisor
    BY <1>1, <1>2
  <1> QED
    BY <1>1, <1>3 DEF controllerVars, eventVars

\* The end of the process.
LEMMA ExitInv ==
  ASSUME BridgeInv, Exit
  PROVE  BridgeInv'
  BY Dies DEF Exit

\* The admission: the agent catches up with the controller.
LEMMA AdmissionGrantedInv ==
  ASSUME BridgeInv, HandleAdmission, Head(toAgent).ok
  PROVE  BridgeInv'
  <1> DEFINE next == [agent EXCEPT !.at = "payload", !.inv = Head(toAgent).inv]
  <1>1. /\ agent.at = "preparing" /\ HasMessage("rpc_result") /\ toAgent' = Tail(toAgent)
        /\ Write(next, <<>>) /\ UNCHANGED <<controllerVars, eventVars>>
    BY DEF HandleAdmission, Handle
  <1>2. /\ sup' = sup /\ request' = request /\ cancelSent' = cancelSent /\ worker' = worker
        /\ outcome' = outcome /\ cancel' = cancel /\ late' = late /\ fenced' = fenced
        /\ proc' = proc /\ agent' = next /\ toSupervisor' = toSupervisor /\ proc = "alive"
    BY <1>1, Listens
  <1>3. /\ sup # "over" /\ agent \in AgentRow /\ PhaseOf(agent) /\ Session
        /\ Shapes /\ Held /\ Places /\ Results
    BY <1>2, AtWork DEF BridgeInv
  <1>4. /\ Cancels(Tail(toAgent)) /\ ~agent.closed
        /\ toSupervisor = <<>> /\ request = NoRequest /\ Admitting
        /\ Head(toAgent).inv = worker.inv /\ Head(toAgent).inv \in 0..MaxRounds
    BY <1>1, Answered
  <1>5. /\ next \in AgentRow /\ next.at = "payload" /\ next.inv = worker.inv
        /\ next.rounds = agent.rounds /\ next.err = agent.err /\ next.emitted = agent.emitted
        /\ next.aborted = agent.aborted /\ next.closed = agent.closed /\ next.stop = agent.stop
    BY <1>3, <1>4 DEF AgentRow, Active
  <1> HIDE DEF next
  <1>6. Len(toSupervisor) = 0
    BY <1>4
  <1>7. worker.inv = agent.inv + 1 /\ worker.inv \notin worker.finished
        /\ agent.inv = agent.rounds /\ agent.err = "none" /\ agent.inv \in Nat
    BY <1>1, <1>3, <1>4 DEF Session, Calls, Turns, PhaseOf, BetweenTurns, AgentRow
  <1>8. PhaseOf(agent)'
    BY <1>2, <1>5, <1>7 DEF PhaseOf, BetweenTurns, InTurn
  <1>9. Shapes' /\ Held' /\ Places' /\ Results'
    <2>1. Shapes'
      BY <1>1, <1>2, <1>3, <1>4, <1>5 DEF Shapes, Cancels
    <2> QED
      BY <1>2, <1>3, <1>5, <2>1 DEF Held, Places, Results, FinishedMeansDone, Live
  <1>10. ~Admitting'
    BY <1>2, <1>5 DEF Admitting
  <1>11. Causes' /\ Orders' /\ Reports'
    BY <1>1, <1>2, <1>3, <1>4, <1>5, <1>6
       DEF Session, Causes, Orders, OrderAt, IsReply, Reports, Cancels
  <1>12. Calls' /\ Turns'
    <2>1. ~EndInFlight'
      BY <1>2, <1>6 DEF EndInFlight
    <2> QED
      BY <1>2, <1>3, <1>4, <1>5, <1>7, <1>10, <2>1
         DEF Session, Calls, Turns, TurnOver, BetweenTurns
  <1>13. Flow => Flow'
    BY <1>2, <1>5 DEF Flow, HeldCount
  <1> QED
    BY <1>2, <1>3, <1>5, <1>6, <1>8, <1>9, <1>11, <1>12, <1>13, BridgeAssumption
       DEF BridgeInv, Session, AgentRow

\* A cancellation arrives.
LEMMA HandleCancelInv ==
  ASSUME BridgeInv, HandleCancel
  PROVE  BridgeInv'
  <1> DEFINE next == [agent EXCEPT !.cancelled = @ \/ agent.at \in Active,
                                   !.aborted = @ \/ agent.at \in Running]
  <1>1. /\ HasMessage("cancel") /\ toAgent' = Tail(toAgent)
        /\ Write(next, <<>>) /\ UNCHANGED <<controllerVars, eventVars>>
    BY DEF HandleCancel, Handle
  <1>2. /\ sup' = sup /\ request' = request /\ cancelSent' = cancelSent /\ worker' = worker
        /\ outcome' = outcome /\ cancel' = cancel /\ late' = late /\ fenced' = fenced
        /\ proc' = proc /\ agent' = next /\ toSupervisor' = toSupervisor /\ proc = "alive"
    BY <1>1, Listens
  <1>3. /\ sup # "over" /\ sup # "off" /\ agent \in AgentRow /\ PhaseOf(agent) /\ Session
        /\ Shapes /\ Held /\ Places /\ Results
    BY <1>2, AtWork DEF BridgeInv
  <1>4. /\ next.at = agent.at /\ next.inv = agent.inv /\ next.rounds = agent.rounds
        /\ next.closed = agent.closed /\ next.stop = agent.stop /\ next.err = agent.err
        /\ next.emitted = agent.emitted /\ next \in AgentRow
        /\ agent.aborted => next.aborted
    BY <1>3 DEF AgentRow, Later
  <1> HIDE DEF next
  <1>5. toAgent \in Seq(Messages) /\ toAgent # <<>>
    BY <1>1, <1>3 DEF Shapes, HasMessage
  <1>6. /\ Tail(toAgent) \in Seq(Messages) /\ Head(toAgent) = toAgent[1] /\ 1 \in 1..Len(toAgent)
        /\ \A i \in 1..Len(Tail(toAgent)) : i + 1 \in 1..Len(toAgent) /\ Tail(toAgent)[i] = toAgent[i + 1]
        /\ \A i \in 1..Len(toAgent) : i = 1 \/ i - 1 \in 1..Len(Tail(toAgent))
    BY <1>5, Shortened
  <1>7. toAgent[1].type = "cancel" /\ cancelSent /\ ~agent.closed
    BY <1>1, <1>3, <1>5, <1>6 DEF HasMessage, Session, Orders, OrderAt, Causes
  <1>8. PhaseOf(agent)'
    BY <1>2, <1>3, <1>4 DEF PhaseOf
  <1>9. Shapes' /\ Held' /\ Places' /\ Results'
    <2>1. Shapes'
      BY <1>1, <1>2, <1>3, <1>4, <1>6 DEF Shapes
    <2> QED
      BY <1>2, <1>3, <1>4, <2>1 DEF Held, Places, Results, FinishedMeansDone, Live
  <1>10. Admitting' <=> Admitting
    <2>1. ASSUME NEW i \in 1..Len(toAgent), IsReply(i), toAgent[i].ok
          PROVE  \E j \in 1..Len(Tail(toAgent)) :
                    Tail(toAgent)[j].type = "rpc_result" /\ Tail(toAgent)[j].ok
      <3>1. i # 1 /\ i - 1 \in 1..Len(Tail(toAgent))
        BY <1>6, <1>7, <2>1 DEF IsReply
      <3>2. Tail(toAgent)[i - 1] = toAgent[i]
        BY <1>6, <3>1
      <3> QED
        BY <2>1, <3>1, <3>2 DEF IsReply
    <2>2. ASSUME NEW j \in 1..Len(Tail(toAgent))
          PROVE  j + 1 \in 1..Len(toAgent) /\ Tail(toAgent)[j] = toAgent[j + 1]
      BY <1>6
    <2>3. Admitting => Admitting'
      BY <1>1, <1>2, <1>4, <2>1 DEF Admitting, IsReply
    <2>4. Admitting' => Admitting
      BY <1>1, <1>2, <1>4, <2>2 DEF Admitting, IsReply
    <2> QED
      BY <2>3, <2>4
  <1>11. Orders'
    <2>1. ASSUME NEW i \in 1..Len(toAgent')
          PROVE  OrderAt(i)'
      <3>1. /\ i + 1 \in 1..Len(toAgent) /\ toAgent'[i] = toAgent[i + 1] /\ i + 1 # 1
            /\ OrderAt(i + 1)
        BY <1>1, <1>3, <1>6 DEF Session, Orders
      <3>2. \A j \in 1..Len(toAgent') : IsReply(j)' => IsReply(j + 1) /\ j + 1 \in 1..Len(toAgent)
        BY <1>1, <1>6 DEF IsReply
      <3>3. \A j \in 1..Len(toAgent') : IsReply(i)' /\ IsReply(j)' => i = j
        <4>1. ASSUME NEW j \in 1..Len(toAgent'), IsReply(i)', IsReply(j)'
              PROVE  i = j
          <5>1. i + 1 = j + 1
            BY <3>1, <3>2, <4>1 DEF OrderAt, IsReply
          <5>2. i \in Nat /\ j \in Nat
            BY <1>1, <1>6
          <5> QED
            BY <5>1, <5>2
        <4> QED
          BY <4>1
      <3> QED
        BY <1>2, <1>4, <3>1, <3>3 DEF OrderAt, IsReply
    <2> QED
      BY <2>1 DEF Orders
  <1>12. Causes' /\ Reports'
    BY <1>2, <1>3, <1>4, <1>7
       DEF Session, Causes, CauseAt, IsEvent, Reports, ReportAt
  <1>13. Calls' /\ Turns'
    BY <1>2, <1>3, <1>4, <1>10 DEF Session, Calls, Turns, EndInFlight, IsEvent
  <1>14. Flow => Flow'
    BY <1>2, <1>4 DEF Flow, HeldCount
  <1> QED
    BY <1>2, <1>3, <1>4, <1>8, <1>9, <1>11, <1>12, <1>13, <1>14
       DEF BridgeInv, Session, IsEvent

\* The controller is gone.
LEMMA StdinClosedInv ==
  ASSUME BridgeInv, StdinClosed
  PROVE  BridgeInv'
  <1> DEFINE next == [agent EXCEPT
               !.closed = TRUE, !.aborted = @ \/ agent.at \in Running,
               !.at = IF @ \in Waiting THEN "refused" ELSE @,
               !.err = IF agent.at \in Waiting THEN "failed" ELSE @]
  <1>1. /\ sup = "crashed" /\ toAgent = <<>> /\ toAgent' = <<>>
        /\ Write(next, <<>>) /\ UNCHANGED <<controllerVars, eventVars>>
    BY DEF StdinClosed, AgentStep, Waiting
  <1>2. /\ sup' = sup /\ request' = request /\ cancelSent' = cancelSent /\ worker' = worker
        /\ outcome' = outcome /\ cancel' = cancel /\ late' = late /\ fenced' = fenced
        /\ proc' = proc /\ agent' = next /\ toSupervisor' = toSupervisor /\ proc = "alive"
    BY <1>1, Listens
  <1>3. /\ agent \in AgentRow /\ PhaseOf(agent) /\ Session
        /\ Shapes /\ Held /\ Places /\ Results
    BY <1>2, AtWork DEF BridgeInv
  <1>4. /\ next.at = (IF agent.at \in Waiting THEN "refused" ELSE agent.at)
        /\ next.err = (IF agent.at \in Waiting THEN "failed" ELSE agent.err)
        /\ next.inv = agent.inv /\ next.rounds = agent.rounds
        /\ next.closed /\ next.stop = agent.stop
        /\ next.emitted = agent.emitted /\ next \in AgentRow
        /\ agent.aborted => next.aborted
    BY <1>3 DEF AgentRow, Active, Waiting
  <1> HIDE DEF next
  <1>8. PhaseOf(agent)'
    <2>1. CASE agent.at \in Waiting
      <3>1. agent.inv = 0 => agent.at = "preparing"
        BY <1>3, <2>1 DEF PhaseOf, InTurn, AgentRow, Waiting
      <3> QED
        BY <1>2, <1>3, <1>4, <2>1, <3>1 DEF PhaseOf, InTurn, BetweenTurns
    <2>2. CASE agent.at \notin Waiting
      BY <1>2, <1>3, <1>4, <2>2 DEF PhaseOf
    <2> QED
      BY <2>1, <2>2
  <1>9. Shapes' /\ Held' /\ Places' /\ Results'
    <2>1. Shapes'
      BY <1>1, <1>2, <1>3, <1>4 DEF Shapes
    <2> QED
      BY <1>1, <1>2, <1>3, <1>4, <2>1 DEF Held, Places, Results, FinishedMeansDone, Live
  <1>10. ~Admitting /\ ~Admitting'
    BY <1>1 DEF Admitting
  <1>12. Causes' /\ Orders'
    BY <1>1, <1>2, <1>3, <1>4
       DEF Session, Causes, CauseAt, IsEvent, Orders
  <1>13. Reports'
    <2>1. ASSUME NEW i \in 1..Len(toSupervisor)
          PROVE  ReportAt(i)'
      BY <1>2, <1>3, <1>4 DEF Session, Reports, ReportAt, Waiting
    <2> QED
      BY <1>2, <2>1 DEF Reports
  <1>14. Calls' /\ Turns'
    BY <1>1, <1>2, <1>3, <1>4, <1>10
       DEF Session, Calls, Turns, EndInFlight, IsEvent, Waiting, InTurn, TurnOver, BetweenTurns
  <1> QED
    BY <1>1, <1>2, <1>3, <1>4, <1>8, <1>9, <1>12, <1>13, <1>14
       DEF BridgeInv, Session, IsEvent, Live

\* Every step of the agent.
LEMMA AgentInv ==
  ASSUME BridgeInv, Agent
  PROVE  BridgeInv'
  <1>1. CASE HandleRun
    BY <1>1, RunAccepted, RunRejected DEF HandleRun
  <1>2. CASE HandleAdmission
    BY <1>2, AdmissionGrantedInv, AdmissionRefusedInv
  <1>3. CASE AskAdmission \/ SendPayload \/ CallTool
    BY <1>3, AskInv DEF AskAdmission, SendPayload, CallTool
  <1> QED
    BY <1>1, <1>2, <1>3, HandleCancelInv, HandlePayloadReplyInv, HandleToolReplyInv,
       PreflightInv, BeginInv, TurnInv, StreamInv, BlockToolInv, NoticeAbortInv, ToolsDoneInv,
       FinishTurnInv, AgentEndInv, RefusedInv, SendResultInv, StdinClosedInv, ExitInv
       DEF Agent

-----------------------------------------------------------------------------
(* The supervisor ends its loop.                                           *)

\* The pipe is left as it is, or its first line has been read.
Leaves == toSupervisor' = toSupervisor
          \/ (toSupervisor # <<>> /\ toSupervisor' = Tail(toSupervisor))

LEMMA Leaving ==
  ASSUME BridgeInv, Leaves
  PROVE  /\ toSupervisor' \in Seq(LineSet)
         /\ \A i \in 1..Len(toSupervisor') :
               \E j \in 1..Len(toSupervisor) : toSupervisor'[i] = toSupervisor[j]
  <1>1. toSupervisor \in Seq(LineSet)
    BY PipeShape DEF BridgeInv
  <1>2. CASE toSupervisor' = toSupervisor
    BY <1>1, <1>2
  <1>3. CASE toSupervisor # <<>> /\ toSupervisor' = Tail(toSupervisor)
    BY <1>1, <1>3, Shortened
  <1> QED
    BY <1>2, <1>3 DEF Leaves

\* What the run has to be for the outcome.
Concludes(status, why, rounds) ==
  /\ status \in Statuses /\ why \in Whys /\ rounds \in 0..MaxRounds
  /\ worker' \in WorkerRow /\ Held' /\ ~worker'.protocol
  /\ agent.inv <= worker'.inv
  /\ why = "early_event" => worker'.refused \/ cancelSent
  /\ status = "finished" =>
       /\ why = "result" /\ agent.stop \in {"stop", "blocked"}
       /\ worker'.finished = 1..(worker'.inv) /\ rounds = worker'.inv /\ ~worker'.budget

\* Ending the loop loses what is under way, and keeps what is recorded.
LEMMA EndInv ==
  ASSUME BridgeInv, NEW status, NEW why, NEW rounds, End(status, why, rounds),
         Concludes(status, why, rounds),
         UNCHANGED <<cancelSent, eventVars, toAgent, agent>>, Leaves,
         request' \in RpcLines \cup {NoRequest}
  PROVE  BridgeInv'
  <1>1. /\ cancelSent' = cancelSent /\ cancel' = cancel /\ late' = late /\ fenced' = fenced
        /\ agent' = agent /\ toAgent' = toAgent
        /\ sup' = "over" /\ proc' = (IF proc = "none" THEN "none" ELSE "dead")
        /\ outcome' = [status |-> IF cancel THEN "cancelled" ELSE status,
                       why |-> why, rounds |-> rounds]
    BY DEF eventVars, End
  <1>2. Shapes
    BY DEF BridgeInv
  <1>3. /\ outcome'.status = (IF cancel THEN "cancelled" ELSE status)
        /\ outcome'.why = why /\ outcome'.rounds = rounds /\ outcome' \in OutcomeRow
    BY <1>1 DEF OutcomeRow, Concludes, Statuses
  <1>4. toSupervisor' \in Seq(EventLines \cup RpcLines \cup ResultLines)
    BY Leaving DEF LineSet
  <1>5. Shapes'
    BY <1>1, <1>2, <1>3, <1>4 DEF Shapes, Concludes, SupervisorPlaces
  <1>6. Places'
    BY <1>1 DEF Places, Live
  <1>7. Results'
    BY <1>1, <1>3 DEF Results, FinishedMeansDone, Concludes
  <1>8. ASSUME NEW i \in 1..Len(toSupervisor'), IsEvent(i)'
        PROVE  toSupervisor'[i].n >= 1 /\ toSupervisor'[i].n <= agent'.emitted
    BY <1>1, <1>8, Leaving DEF BridgeInv, IsEvent
  <1> QED
    BY <1>1, <1>5, <1>6, <1>7, <1>8 DEF BridgeInv, Concludes, Live

\* Ending with what there is, and without having finished.
LEMMA StopInv ==
  ASSUME BridgeInv, sup # "over", NEW status, NEW why, End(status, why, 0),
         status \in Statuses \ {"finished"}, why \in Whys,
         why = "early_event" => worker.refused \/ cancelSent,
         UNCHANGED <<request, cancelSent, worker, eventVars, toAgent, agent>>, Leaves
  PROVE  BridgeInv'
  <1>1. Concludes(status, why, 0)
    BY BridgeAssumption DEF Concludes, BridgeInv, Shapes, Results, Held
  <1>2. request' \in RpcLines \cup {NoRequest}
    BY DEF BridgeInv, Shapes
  <1> QED
    BY <1>1, <1>2, EndInv

-----------------------------------------------------------------------------
(* Steps that change where the supervisor is, or what it has been told.    *)

LEMMA Moved ==
  ASSUME BridgeInv, sup # "over", sup' \in Live \cup {"off", "crashed"},
         UNCHANGED <<request, cancelSent, worker, outcome, toAgent, toSupervisor, proc, agent>>,
         cancel' \in BOOLEAN, late' \in BOOLEAN, fenced' \in BOOLEAN,
         sup = "crashed" => sup' = "crashed",
         sup' = "off" <=> sup = "off",
         sup' \in {"rpc", "serve"} => request # NoRequest,
         sup' \in {"top", "read"} => request = NoRequest
  PROVE  BridgeInv'
  <1>1. /\ request' = request /\ cancelSent' = cancelSent /\ worker' = worker
        /\ outcome' = outcome /\ toAgent' = toAgent /\ toSupervisor' = toSupervisor
        /\ proc' = proc /\ agent' = agent /\ sup' # "over"
    BY DEF Live
  <1>2. Shapes /\ Held /\ Places /\ Results /\ Session
    BY DEF BridgeInv
  <1>3. Shapes' /\ Held' /\ Places' /\ Results'
    <2>1. Shapes' /\ Held' /\ Places'
      BY <1>1, <1>2 DEF Shapes, Held, Places, SupervisorPlaces, Live
    <2>2. Results'
      BY <1>1, <1>2 DEF Places, Results, FinishedMeansDone
    <2> QED
      BY <2>1, <2>2
  <1>4. PhaseOf(agent)' /\ Causes' /\ Orders' /\ Reports'
    BY <1>1, <1>2 DEF Session, PhaseOf, Causes, CauseAt, IsEvent, Orders, OrderAt, IsReply,
                      Reports, ReportAt
  <1>5. Calls' /\ Turns'
    <2>1. Admitting' <=> Admitting
      BY <1>1 DEF Admitting, IsReply
    <2> QED
      BY <1>1, <1>2, <2>1 DEF Session, Calls, Turns, EndInFlight, IsEvent
  <1>6. sup' \in Live \cup {"off"} => Flow'
    BY <1>1 DEF BridgeInv, Flow, HeldCount, SupervisorPlaces, Shapes, Live
  <1> QED
    BY <1>1, <1>3, <1>4, <1>5, <1>6 DEF BridgeInv, Session, IsEvent

\* The cancellation, the fence and the deadline.
LEMMA EventsInv ==
  ASSUME BridgeInv, Cancel \/ Fence \/ TimePasses
  PROVE  BridgeInv'
  <1>1. /\ UNCHANGED <<sup, request, cancelSent, worker, outcome, toAgent, toSupervisor, proc, agent>>
        /\ sup # "over" /\ cancel' \in BOOLEAN /\ late' \in BOOLEAN /\ fenced' \in BOOLEAN
    BY DEF BridgeInv, Shapes, Cancel, Fence, TimePasses, controllerVars, Live
  <1>2. /\ sup \in Live \cup {"off", "crashed"}
        /\ sup \in {"rpc", "serve"} => request # NoRequest
        /\ sup \in {"top", "read"} => request = NoRequest
    BY <1>1 DEF BridgeInv, Shapes, Session, Calls, SupervisorPlaces
  <1> QED
    BY <1>1, <1>2, Moved

\* Either process dies.
LEMMA DeathsInv ==
  ASSUME BridgeInv, AgentDies \/ ControllerDies
  PROVE  BridgeInv'
  <1>1. CASE AgentDies
    BY <1>1, Dies DEF AgentDies
  <1>2. CASE ControllerDies
    <2>1. /\ cancel' \in BOOLEAN /\ late' \in BOOLEAN /\ fenced' \in BOOLEAN
          /\ sup # "over" /\ sup # "off" /\ sup' = "crashed"
      BY <1>2 DEF BridgeInv, Shapes, ControllerDies, eventVars, Live
    <2> QED
      BY <1>2, <2>1, Moved DEF ControllerDies, Live
  <1> QED
    BY <1>1, <1>2

\* The top of the loop, and the end of the stream.
LEMMA CheckDeadlineInv ==
  ASSUME BridgeInv, CheckDeadline
  PROVE  BridgeInv'
  <1>1. CASE late
    <2>1. End("interrupted", "time_limit", 0)
      BY <1>1 DEF CheckDeadline
    <2> QED
      BY <2>1, StopInv DEF CheckDeadline, Leaves, Statuses, Whys
  <1>2. CASE ~late
    <2>1. /\ sup = "top" /\ sup' = "read" /\ request = NoRequest
          /\ UNCHANGED <<request, cancelSent, worker, outcome, toAgent, toSupervisor, proc, agent>>
          /\ cancel' \in BOOLEAN /\ late' \in BOOLEAN /\ fenced' \in BOOLEAN
      BY <1>2 DEF CheckDeadline, BridgeInv, Shapes, Session, Calls, eventVars
    <2> QED
      BY <2>1, Moved DEF Live
  <1> QED
    BY <1>1, <1>2

LEMMA NothingToReadInv ==
  ASSUME BridgeInv, NothingToRead
  PROVE  BridgeInv'
  <1>1. CASE proc # "alive"
    <2>1. End("failed", "exited", 0)
      BY <1>1 DEF NothingToRead
    <2> QED
      BY <2>1, StopInv DEF NothingToRead, Leaves, Statuses, Whys
  <1>2. CASE proc = "alive"
    <2>1. /\ sup = "read" /\ sup' = "top" /\ request = NoRequest
          /\ UNCHANGED <<request, cancelSent, worker, outcome, toAgent, toSupervisor, proc, agent>>
          /\ cancel' \in BOOLEAN /\ late' \in BOOLEAN /\ fenced' \in BOOLEAN
      BY <1>2 DEF NothingToRead, BridgeInv, Shapes, Session, Calls, eventVars
    <2> QED
      BY <2>1, Moved DEF Live
  <1> QED
    BY <1>1, <1>2

\* The process is started, or is not.
LEMMA StartInv ==
  ASSUME BridgeInv, Start
  PROVE  BridgeInv'
  <1>1. /\ sup = "off" /\ sup # "over" /\ UNCHANGED <<request, cancelSent, worker, eventVars, toSupervisor, agent>>
        /\ Shapes /\ Held /\ Places /\ Results /\ Session /\ Flow
    BY DEF Start, BridgeInv
  <1>2. ASSUME NEW status \in {"cancelled", "failed"}, NEW why \in {"before_start", "spawn"},
               End(status, why, 0), UNCHANGED toAgent
        PROVE  BridgeInv'
    BY <1>1, <1>2, StopInv DEF Leaves, Statuses, Whys
  <1>3. ASSUME sup' = "top", proc' = "alive", toAgent' = <<[type |-> "run"]>>, UNCHANGED outcome
        PROVE  BridgeInv'
    <2>1. /\ request' = request /\ cancelSent' = cancelSent /\ worker' = worker
          /\ outcome' = outcome /\ cancel' = cancel /\ late' = late /\ fenced' = fenced
          /\ toSupervisor' = toSupervisor /\ agent' = agent /\ sup' # "over"
      BY <1>1, <1>3 DEF eventVars
    <2>2. /\ toAgent' \in Seq(Messages) /\ Len(toAgent') = 1
          /\ \A i \in 1..Len(toAgent') : i = 1 /\ toAgent'[i].type = "run"
      BY <1>3 DEF Messages
    <2>3. toAgent = <<>> /\ agent.at = "idle"
      BY <1>1 DEF Places
    <2>4. ~Admitting /\ ~Admitting'
      BY <2>1, <2>3 DEF Admitting
    <2>5. Shapes' /\ Held' /\ Places' /\ Results'
      BY <1>1, <1>3, <2>1, <2>2
         DEF Shapes, Held, Places, Results, FinishedMeansDone, SupervisorPlaces, Live
    <2>6. PhaseOf(agent)' /\ Causes' /\ Orders' /\ Reports'
      BY <1>1, <1>3, <2>1, <2>2, <2>3
         DEF Session, PhaseOf, Causes, CauseAt, IsEvent, Orders, OrderAt, IsReply, Reports, ReportAt
    <2>7. Calls' /\ Turns'
      BY <1>1, <1>3, <2>1, <2>4 DEF Session, Calls, Turns, EndInFlight, IsEvent
    <2>8. Flow'
      BY <1>1, <2>1 DEF Flow, HeldCount
    <2> QED
      BY <2>1, <2>5, <2>6, <2>7, <2>8 DEF BridgeInv, Session, IsEvent
  <1> QED
    BY <1>2, <1>3 DEF Start

\* The cancellation is sent.
LEMMA SendCancelInv ==
  ASSUME BridgeInv, SendCancel
  PROVE  BridgeInv'
  <1>1. CASE proc # "alive"
    <2>1. End("failed", "broken_pipe", 0) /\ UNCHANGED <<request, cancelSent, worker, eventVars, toAgent, toSupervisor, agent>>
      BY <1>1 DEF SendCancel
    <2> QED
      BY <2>1, StopInv DEF SendCancel, Leaves, Statuses, Whys
  <1>2. CASE proc = "alive"
    <2> DEFINE message == [type |-> "cancel"]
    <2>1. /\ sup = "top" /\ sup' = sup /\ request' = request /\ worker' = worker
          /\ outcome' = outcome /\ cancel' = cancel /\ late' = late /\ fenced' = fenced
          /\ toSupervisor' = toSupervisor /\ agent' = agent /\ proc' = proc /\ cancelSent'
          /\ toAgent' = Append(toAgent, message)
      BY <1>2 DEF SendCancel, eventVars
    <2>2. /\ Shapes /\ Held /\ Places /\ Results /\ Session /\ Flow
      BY <2>1 DEF BridgeInv, Live
    <2>3. message \in Messages /\ message.type = "cancel"
      BY DEF Messages
    <2> HIDE DEF message
    <2>4. toAgent \in Seq(Messages)
      BY <2>2 DEF Shapes
    <2>5. /\ toAgent' \in Seq(Messages) /\ Len(toAgent') = Len(toAgent) + 1 /\ Len(toAgent) \in Nat
          /\ \A i \in 1..Len(toAgent) : i \in 1..Len(toAgent') /\ toAgent'[i] = toAgent[i]
          /\ \A i \in 1..Len(toAgent') : i \in 1..Len(toAgent) \/ toAgent'[i] = message
      <3>1. \A i \in 1..Len(toAgent') : i \in 1..Len(toAgent) \/ i = Len(toAgent) + 1
        BY <2>1, <2>3, <2>4, OneMore
      <3> QED
        BY <2>1, <2>3, <2>4, <3>1, OneMore
    <2>6. Admitting' <=> Admitting
      BY <2>1, <2>3, <2>5 DEF Admitting, IsReply
    <2>7. Shapes' /\ Held' /\ Places' /\ Results'
      BY <2>1, <2>2, <2>5 DEF Shapes, Held, Places, Results, FinishedMeansDone, Live
    <2>8. PhaseOf(agent)' /\ Causes' /\ Reports'
      BY <2>1, <2>2 DEF Session, PhaseOf, Causes, CauseAt, IsEvent, Reports, ReportAt
    <2>9. Orders'
      <3>1. ASSUME NEW i \in 1..Len(toAgent')
            PROVE  OrderAt(i)'
        <4>1. CASE i \in 1..Len(toAgent) /\ toAgent'[i] = toAgent[i]
          <5>1. OrderAt(i)
            BY <2>2, <4>1 DEF Session, Orders
          <5>2. \A j \in 1..Len(toAgent') : IsReply(j)' => j \in 1..Len(toAgent) /\ IsReply(j)
            BY <2>3, <2>5 DEF IsReply
          <5> QED
            BY <2>1, <4>1, <5>1, <5>2 DEF OrderAt, IsReply
        <4>2. CASE toAgent'[i] = message
          BY <2>1, <2>3, <4>2 DEF OrderAt, IsReply
        <4> QED
          BY <2>5, <4>1, <4>2
      <3> QED
        BY <3>1 DEF Orders
    <2>10. Calls' /\ Turns' /\ Flow'
      BY <2>1, <2>2, <2>6 DEF Session, Calls, Turns, EndInFlight, IsEvent, Flow, HeldCount
    <2> QED
      BY <2>1, <2>7, <2>8, <2>9, <2>10 DEF BridgeInv, Session, IsEvent
  <1> QED
    BY <1>1, <1>2

-----------------------------------------------------------------------------
(* The supervisor answers.                                                 *)

\* What is served, for a reply.
Replies == [type: {"rpc_result"}, ok: BOOLEAN, status: Statuses, inv: 0..MaxRounds]
Serves(reply) ==
  /\ worker' \in WorkerRow /\ Held' /\ ~worker'.protocol
  /\ worker'.finished = worker.finished /\ (worker.refused => worker'.refused)
  /\ HeldCount' = HeldCount /\ reply \in Replies
  /\ IF reply.ok /\ agent.at = "preparing"
     THEN worker'.inv = worker.inv + 1 /\ reply.inv = worker'.inv
     ELSE worker'.inv = worker.inv
  /\ ~reply.ok => worker'.refused /\ reply.status \in {"failed", "interrupted"}

LEMMA Serving ==
  ASSUME BridgeInv, sup \in {"rpc", "serve"}
  PROVE  /\ sup # "over" /\ Shapes /\ Held /\ Places /\ Results /\ Session /\ Flow
         /\ toSupervisor = <<>> /\ request.inv = agent.inv /\ worker.inv = agent.inv
         /\ agent.at \in Waiting /\ request.method = Asks[agent.at] /\ ~agent.closed
         /\ request # NoRequest
         /\ \A i \in 1..Len(toAgent) : ~IsReply(i)
         /\ ~Admitting /\ ~EndInFlight
  <1>1. /\ sup # "over" /\ sup # "crashed" /\ Shapes /\ Held /\ Places /\ Results /\ Session /\ Flow
    BY DEF BridgeInv, Live
  <1>2. request # NoRequest /\ ~agent.closed
    BY <1>1 DEF Session, Calls, Causes
  <1>3. /\ toSupervisor = <<>> /\ request.inv = agent.inv /\ worker.inv = agent.inv
        /\ agent.at \in Waiting /\ request.method = Asks[agent.at]
    BY <1>1, <1>2 DEF Session, Calls
  <1>4. \A i \in 1..Len(toAgent) : ~IsReply(i)
    BY <1>1, <1>2 DEF Session, Orders, OrderAt
  <1>5. ~Admitting
    BY <1>4 DEF Admitting
  <1>6. ~EndInFlight
    BY <1>3 DEF EndInFlight
  <1> QED
    BY <1>1, <1>2, <1>3, <1>4, <1>5, <1>6

\* BridgeInv over an answer: the RPC moves from the controller to the pipe.
LEMMA AnswerInv ==
  ASSUME BridgeInv, sup \in {"rpc", "serve"}, NEW reply, Answer(reply), Serves(reply),
         UNCHANGED <<cancelSent, eventVars, toSupervisor, agent>>
  PROVE  BridgeInv'
  <1>1. /\ sup # "over" /\ Shapes /\ Held /\ Places /\ Results /\ Session /\ Flow
        /\ toSupervisor = <<>> /\ worker.inv = agent.inv
        /\ agent.at \in Waiting /\ ~agent.closed
        /\ \A i \in 1..Len(toAgent) : ~IsReply(i)
    BY Serving
  <1>2. /\ cancelSent' = cancelSent /\ cancel' = cancel /\ late' = late /\ fenced' = fenced
        /\ toSupervisor' = toSupervisor /\ agent' = agent /\ request' = NoRequest
    BY DEF eventVars, Answer
  <1>3. worker.inv \in Nat /\ worker \in WorkerRow /\ agent \in AgentRow
    BY <1>1 DEF Shapes, WorkerRow
  <1>4. CASE proc # "alive"
    <2>1. End("failed", "broken_pipe", 0) /\ UNCHANGED toAgent
      BY <1>4 DEF Answer
    <2>2. Concludes("failed", "broken_pipe", 0)
      BY <1>1, <1>3, BridgeAssumption DEF Concludes, Serves, Statuses, Whys
    <2> QED
      BY <1>2, <2>1, <2>2, EndInv DEF Leaves
  <1>5. CASE proc = "alive"
    <2>1. /\ toAgent' = Append(toAgent, reply) /\ sup' = "top" /\ sup' # "over"
          /\ outcome' = outcome /\ proc' = proc
      BY <1>5 DEF Answer
    <2>2. reply \in Messages /\ reply.type = "rpc_result" /\ toAgent \in Seq(Messages)
      BY <1>1 DEF Serves, Replies, Messages, Shapes
    <2>3. /\ toAgent' \in Seq(Messages) /\ Len(toAgent') = Len(toAgent) + 1 /\ Len(toAgent) \in Nat
          /\ \A i \in 1..Len(toAgent) : toAgent'[i] = toAgent[i]
          /\ toAgent'[Len(toAgent) + 1] = reply
          /\ \A i \in 1..Len(toAgent') : i \in 1..Len(toAgent) \/ i = Len(toAgent) + 1
      BY <2>1, <2>2, OneMore
    <2>4. \A i \in 1..Len(toAgent') : IsReply(i)' => i = Len(toAgent') /\ toAgent'[i] = reply
      BY <1>1, <2>3 DEF IsReply
    <2>5. Admitting' <=> reply.ok /\ agent.at = "preparing"
      <3>1. PICK k \in 1..Len(toAgent') : toAgent'[k] = reply
        BY <2>3
      <3>2. Admitting' => reply.ok /\ agent.at = "preparing"
        BY <1>2, <2>4 DEF Admitting
      <3>3. reply.ok /\ agent.at = "preparing" => Admitting'
        BY <1>2, <2>2, <3>1 DEF Admitting, IsReply
      <3> QED
        BY <3>2, <3>3
    <2>6. Shapes' /\ Places' /\ Results'
      <3>1. Shapes'
        BY <1>1, <1>2, <2>1, <2>3 DEF Shapes, Serves, SupervisorPlaces, Live
      <3> QED
        BY <1>1, <1>2, <1>5, <2>1, <3>1 DEF Places, Results, FinishedMeansDone, Live, Serves
    <2>7. PhaseOf(agent)' /\ Causes' /\ Reports'
      BY <1>1, <1>2, <2>1 DEF Session, PhaseOf, Causes, CauseAt, IsEvent, Reports, ReportAt, Serves, Live
    <2>8. Orders'
      <3>1. ASSUME NEW i \in 1..Len(toAgent')
            PROVE  OrderAt(i)'
        <4>1. CASE i \in 1..Len(toAgent)
          <5>1. OrderAt(i) /\ toAgent'[i] = toAgent[i] /\ ~IsReply(i)
            BY <1>1, <2>3, <4>1 DEF Session, Orders
          <5> QED
            BY <1>2, <5>1 DEF OrderAt, IsReply
        <4>2. CASE i = Len(toAgent) + 1
          <5>1. toAgent'[i] = reply
            BY <2>3, <4>2
          <5>2. \A j \in 1..Len(toAgent') : IsReply(j)' => i = j
            BY <2>3, <2>4, <4>2
          <5>3. reply.ok /\ agent.at = "preparing" => reply.inv = worker'.inv
            BY DEF Serves
          <5>4. ~reply.ok => worker'.refused /\ reply.status \in {"failed", "interrupted"}
            BY DEF Serves
          <5> QED
            BY <1>1, <1>2, <2>2, <5>1, <5>2, <5>3, <5>4 DEF OrderAt, IsReply
        <4> QED
          BY <2>3, <4>1, <4>2
      <3> QED
        BY <3>1 DEF Orders
    <2>9. Calls'
      BY <1>1, <1>2, <2>1, <2>5 DEF Session, Calls, Serves
    <2>10. Turns'
      <3>1. worker.inv + 1 \notin worker.finished
        BY <1>1, <1>3 DEF Held
      <3> QED
        BY <1>1, <1>2, <2>1, <2>5, <3>1 DEF Session, Turns, EndInFlight, IsEvent, Serves
    <2>11. Flow'
      BY <1>1, <1>2 DEF Flow, Serves
    <2>12. Held' /\ agent'.inv <= worker'.inv
      BY <1>1, <1>2, <1>3 DEF Serves
    <2>13. Len(toSupervisor') = 0
      BY <1>1, <1>2
    <2> QED
      BY <2>1, <2>6, <2>7, <2>8, <2>9, <2>10, <2>11, <2>12, <2>13 DEF BridgeInv, Session
  <1> QED
    BY <1>4, <1>5

\* A refusal changes nothing of what is held.
Marked(w) ==
  /\ w \in WorkerRow /\ w.inv = worker.inv /\ w.finished = worker.finished
  /\ w.pending = worker.pending /\ w.log = worker.log /\ w.protocol = worker.protocol
  /\ worker.refused => w.refused

LEMMA Kept ==
  ASSUME BridgeInv, NEW w, Marked(w), worker' = w
  PROVE  Held' /\ HeldCount' = HeldCount /\ ~worker'.protocol
  <1>1. /\ worker'.inv = worker.inv /\ worker'.finished = worker.finished
        /\ worker'.pending = worker.pending /\ worker'.log = worker.log
        /\ worker'.protocol = worker.protocol
    BY DEF Marked
  <1>2. Held /\ ~worker.protocol
    BY DEF BridgeInv, Results
  <1>3. Held'
    BY <1>1, <1>2 DEF Held
  <1>4. HeldCount' = HeldCount /\ ~worker'.protocol
    BY <1>1, <1>2 DEF HeldCount
  <1> QED
    BY <1>3, <1>4

\* BridgeInv over a refusal.
LEMMA RefuseInv ==
  ASSUME BridgeInv, sup \in {"rpc", "serve"}, NEW w, Marked(w),
         NEW status \in {"failed", "interrupted"}, Refuse(w, status),
         UNCHANGED <<cancelSent, eventVars, toSupervisor, agent>>
  PROVE  BridgeInv'
  <1> DEFINE v == [w EXCEPT !.refused = TRUE]
             reply == Reply(FALSE, status, 0)
  <1>1. worker' = v /\ Answer(reply)
    BY DEF Refuse
  <1>2. /\ v \in WorkerRow /\ v.inv = w.inv /\ v.finished = w.finished /\ v.pending = w.pending
        /\ v.log = w.log /\ v.protocol = w.protocol /\ v.refused
    BY DEF Marked, WorkerRow
  <1>3. reply \in Replies /\ ~reply.ok /\ reply.status = status
    BY BridgeAssumption DEF Reply, Replies, Statuses
  <1> HIDE DEF v, reply
  <1>4. Marked(v)
    BY <1>2 DEF Marked
  <1>5. Serves(reply)
    BY <1>1, <1>2, <1>3, <1>4, Kept DEF Serves, Marked
  <1> QED
    BY <1>1, <1>5, AnswerInv

\* What the request is, from where the agent waits.
LEMMA AskedFor ==
  ASSUME NEW at \in Waiting
  PROVE  /\ Asks[at] = "prepare_request" <=> at = "preparing"
         /\ Asks[at] = "provider_payload" <=> at = "paying"
         /\ Asks[at] = "tool_call" <=> at = "tooling"
  BY DEF Waiting, Asks

\* The rows of a refusal are so marked.
LEMMA Markings ==
  ASSUME BridgeInv
  PROVE  /\ Marked(worker) /\ Marked(Disorder(TRUE))
         /\ Marked([worker EXCEPT !.budget = TRUE])
  <1>1. worker \in WorkerRow /\ ~worker.protocol
    BY DEF BridgeInv, Shapes, Results
  <1>2. Marked(worker)
    BY <1>1 DEF Marked
  <1>3. Marked(Disorder(TRUE))
    BY <1>1 DEF Marked, Disorder, WorkerRow
  <1>4. Marked([worker EXCEPT !.budget = TRUE])
    BY <1>1 DEF Marked, WorkerRow
  <1> QED
    BY <1>2, <1>3, <1>4

\* The check on entry.
LEMMA EnterRpcInv ==
  ASSUME BridgeInv, EnterRpc
  PROVE  BridgeInv'
  <1>1. CASE sup' = "serve" /\ UNCHANGED <<request, worker, outcome, toAgent, proc>>
    <2>1. /\ sup = "rpc" /\ request # NoRequest
          /\ UNCHANGED <<request, cancelSent, worker, outcome, toAgent, toSupervisor, proc, agent>>
          /\ cancel' \in BOOLEAN /\ late' \in BOOLEAN /\ fenced' \in BOOLEAN
      BY <1>1, Serving DEF EnterRpc, BridgeInv, Shapes, eventVars
    <2> QED
      BY <1>1, <2>1, Moved DEF Live
  <1>2. CASE Refuse(worker, "failed")
    BY <1>2, RefuseInv, Markings DEF EnterRpc
  <1> QED
    BY <1>1, <1>2 DEF EnterRpc

\* An answer that grants, and changes nothing.
LEMMA OkayInv ==
  ASSUME BridgeInv, sup \in {"rpc", "serve"}, agent.at # "preparing",
         worker' = worker, Answer(Reply(TRUE, "finished", 0)),
         UNCHANGED <<cancelSent, eventVars, toSupervisor, agent>>
  PROVE  BridgeInv'
  <1> DEFINE reply == Reply(TRUE, "finished", 0)
  <1>1. reply \in Replies /\ reply.ok /\ Answer(reply)
    BY BridgeAssumption DEF Reply, Replies, Statuses
  <1> HIDE DEF reply
  <1>2. Held' /\ HeldCount' = HeldCount /\ ~worker'.protocol
    BY Markings, Kept
  <1>3. Serves(reply)
    BY <1>1, <1>2 DEF Serves, BridgeInv, Shapes
  <1> QED
    BY <1>1, <1>3, AnswerInv

\* The calls that admit nothing.
LEMMA ServeInv ==
  ASSUME BridgeInv, ProviderPayload \/ ToolCall
  PROVE  BridgeInv'
  <1> DEFINE inOrder == request.inv = worker.inv /\ worker.inv \notin worker.finished
  <1>1. /\ sup = "serve" /\ UNCHANGED <<cancelSent, eventVars, toSupervisor, agent>>
        /\ request.method \in {"provider_payload", "tool_call"}
    BY DEF ProviderPayload, ToolCall
  <1>2. inOrder /\ agent.at # "preparing"
    <2>1. /\ agent.at \in Waiting /\ request.method = Asks[agent.at]
          /\ request.inv = worker.inv /\ worker.inv = agent.inv /\ Session
      BY <1>1, Serving
    <2>2. agent.at \in {"paying", "tooling"}
      BY <1>1, <2>1, AskedFor
    <2> QED
      BY <2>1, <2>2 DEF Session, Turns, InTurn
  <1>3. \/ Refuse(Disorder(inOrder), "failed")
        \/ Refuse([worker EXCEPT !.budget = TRUE], "interrupted")
        \/ UNCHANGED worker /\ Answer(Reply(TRUE, "finished", 0))
    BY DEF ProviderPayload, ToolCall
  <1>4. CASE Refuse(Disorder(inOrder), "failed")
    <2>1. Refuse(Disorder(TRUE), "failed")
      BY <1>2, <1>4 DEF Refuse, Disorder
    <2> QED
      BY <1>1, <2>1, RefuseInv, Markings
  <1>5. CASE Refuse([worker EXCEPT !.budget = TRUE], "interrupted")
    BY <1>1, <1>5, RefuseInv, Markings
  <1>6. CASE UNCHANGED worker /\ Answer(Reply(TRUE, "finished", 0))
    BY <1>1, <1>2, <1>6, OkayInv
  <1> QED
    BY <1>3, <1>4, <1>5, <1>6

-----------------------------------------------------------------------------
(* The supervisor reads and records.                                       *)

\* What recording events makes of the worker.
Captures(v, w, events) ==
  /\ v \in WorkerRow /\ v.inv = w.inv /\ v.pending = w.pending
  /\ v.refused = w.refused /\ v.protocol = w.protocol /\ v.budget = w.budget
  /\ Len(v.log) = Len(w.log) + Len(events) /\ Len(w.log) \in Nat /\ Len(events) \in Nat
  /\ \A i \in 1..Len(v.log) :
        \/ i \in 1..Len(w.log) /\ v.log[i] = w.log[i]
        \/ /\ i > Len(w.log) /\ i - Len(w.log) \in 1..Len(events)
           /\ v.log[i].n = events[i - Len(w.log)].n
           /\ v.log[i].inv = events[i - Len(w.log)].inv
           /\ v.log[i].under = w.inv
Logs(v, w, events) ==
  /\ Captures(v, w, events)
  /\ v.finished = IF \E i \in 1..Len(events) : events[i].kind = "turn_end"
                  THEN w.finished \cup {w.inv} ELSE w.finished

\* What Worker._event makes of the row.
LEMMA Recordings ==
  ASSUME NEW w \in WorkerRow, w.inv > 0, NEW events \in Seq(EventLines)
  PROVE  Logs(Recorded(w, events), w, events)
  <1> DEFINE r == Receipts(w, events)
             v == Recorded(w, events)
             over == \E i \in 1..Len(events) : events[i].kind = "turn_end"
  <1>1. Len(events) \in Nat /\ \A i \in 1..Len(events) : events[i] \in EventLines
    BY LenProperties, ElementOfSeq
  <1>2. DOMAIN events = 1..Len(events)
    BY LenProperties
  <1>3. \A i \in 1..Len(events) :
           [n |-> events[i].n, inv |-> events[i].inv, under |-> w.inv] \in ReceiptRow
    BY <1>1 DEF EventLines, ReceiptRow, WorkerRow
  <1>4. r = [i \in 1..Len(events) |-> [n |-> events[i].n, inv |-> events[i].inv, under |-> w.inv]]
    BY <1>2 DEF Receipts
  <1>5. r \in Seq(ReceiptRow) /\ Len(r) = Len(events)
    <2>1. r \in [1..Len(events) -> ReceiptRow]
      BY <1>3, <1>4
    <2> QED
      BY <1>1, <2>1, IsASeq, LenProperties
  <1>6. \A i \in 1..Len(events) :
           r[i].n = events[i].n /\ r[i].inv = events[i].inv /\ r[i].under = w.inv
    BY <1>4
  <1> HIDE DEF r
  <1>7. w.log \in Seq(ReceiptRow) /\ w.inv \in 1..MaxRounds
    BY DEF WorkerRow
  <1>8. w.log \o r \in Seq(ReceiptRow) /\ Joins(w.log \o r, w.log, r)
    BY <1>5, <1>7, Extended
  <1>9. /\ v.log = w.log \o r /\ v.inv = w.inv /\ v.pending = w.pending
        /\ v.refused = w.refused /\ v.protocol = w.protocol /\ v.budget = w.budget
        /\ v.finished = (IF over THEN w.finished \cup {w.inv} ELSE w.finished)
        /\ v \in WorkerRow
    BY <1>2, <1>7, <1>8 DEF Recorded, WorkerRow, r
  <1> HIDE DEF v
  <1>10. /\ Len(v.log) = Len(w.log) + Len(events) /\ Len(w.log) \in Nat
         /\ \A i \in 1..Len(v.log) :
               \/ i \in 1..Len(w.log) /\ v.log[i] = w.log[i]
               \/ i > Len(w.log) /\ i - Len(w.log) \in 1..Len(events) /\ v.log[i] = r[i - Len(w.log)]
    BY <1>5, <1>8, <1>9 DEF Joins
  <1>11. Logs(v, w, events)
    BY <1>1, <1>6, <1>9, <1>10 DEF Logs, Captures
  <1> QED
    BY <1>11 DEF v

\* The same without the finish that the store refuses.
LEMMA Receptions ==
  ASSUME NEW w \in WorkerRow, w.inv > 0, NEW events \in Seq(EventLines)
  PROVE  Captures(Received(w, events), w, events) /\ Received(w, events).finished = w.finished
  <1> DEFINE v == Received(w, events)
             u == Recorded(w, events)
  <1>1. Captures(u, w, events)
    BY Recordings DEF Logs
  <1>2. /\ u.log = w.log \o Receipts(w, events) /\ v.log = w.log \o Receipts(w, events)
        /\ v = [w EXCEPT !.log = w.log \o Receipts(w, events)]
    BY DEF Recorded, Received, WorkerRow
  <1> HIDE DEF v, u
  <1>3. u.log \in Seq(ReceiptRow)
    BY <1>1 DEF Captures, WorkerRow
  <1>4. /\ v \in WorkerRow /\ v.log = u.log /\ v.inv = w.inv /\ v.pending = w.pending
        /\ v.refused = w.refused /\ v.protocol = w.protocol /\ v.budget = w.budget
        /\ v.finished = w.finished
    BY <1>2, <1>3 DEF WorkerRow
  <1>5. Captures(v, w, events)
    BY <1>1, <1>4 DEF Captures
  <1> QED
    BY <1>4, <1>5 DEF v

\* The events that waited are captured under the new invocation.
LEMMA AdmittedHeld ==
  ASSUME BridgeInv, worker' = Admitted, worker.inv < MaxRounds,
         worker.inv > 0 => worker.inv \in worker.finished
  PROVE  /\ worker' \in WorkerRow /\ Held' /\ ~worker'.protocol
         /\ worker'.finished = worker.finished /\ (worker.refused => worker'.refused)
         /\ HeldCount' = HeldCount /\ worker'.inv = worker.inv + 1
  <1> DEFINE w == [worker EXCEPT !.inv = @ + 1, !.pending = <<>>]
             e == worker.pending
  <1>1. worker \in WorkerRow /\ Held /\ ~worker.protocol
    BY DEF BridgeInv, Shapes, Results
  <1>2. /\ worker.inv \in 0..MaxRounds /\ worker.inv \in Nat /\ worker.inv + 1 \in 0..MaxRounds
        /\ e \in Seq(EventLines) /\ worker.log \in Seq(ReceiptRow) /\ MaxRounds \in Nat
    BY <1>1, BridgeAssumption DEF WorkerRow
  <1>3. /\ w \in WorkerRow /\ w.inv = worker.inv + 1 /\ w.pending = <<>> /\ w.log = worker.log
        /\ w.finished = worker.finished /\ w.refused = worker.refused
        /\ w.protocol = worker.protocol /\ w.budget = worker.budget
    <2>1. PICK k \in 0..MaxRounds : k = worker.inv + 1
      BY <1>2
    <2>2. w = [worker EXCEPT !.inv = k, !.pending = <<>>]
      BY <2>1
    <2>3. <<>> \in Seq(EventLines)
      OBVIOUS
    <2> HIDE DEF w
    <2> QED
      BY <1>1, <2>1, <2>2, <2>3 DEF WorkerRow
  <1>4. worker' = Recorded(w, e)
    BY DEF Admitted
  <1> HIDE DEF w
  <1>5. Logs(worker', w, e)
    BY <1>2, <1>3, <1>4, Recordings
  <1>6. \A i \in 1..Len(e) : e[i].kind # "turn_end" /\ e[i].n = Len(worker.log) + i /\ e[i].inv = 0
    BY <1>1 DEF Held, EarlyKinds
  <1>7. /\ Len(worker.log) \in Nat /\ Len(e) \in Nat /\ Len(worker'.log) = Len(worker.log) + Len(e)
        /\ worker'.inv = worker.inv + 1 /\ worker'.pending = <<>>
        /\ worker'.finished = worker.finished /\ worker' \in WorkerRow
        /\ worker'.refused = worker.refused /\ worker'.protocol = worker.protocol
    BY <1>3, <1>5, <1>6 DEF Logs, Captures
  <1>8. ASSUME NEW i \in 1..Len(worker'.log)
        PROVE  /\ worker'.log[i].n = i
               /\ worker'.log[i].under = IF worker'.log[i].inv = 0 THEN 1 ELSE worker'.log[i].inv
    <2>1. CASE i \in 1..Len(worker.log) /\ worker'.log[i] = worker.log[i]
      BY <1>1, <2>1 DEF Held
    <2>2. CASE ~(i \in 1..Len(worker.log) /\ worker'.log[i] = worker.log[i])
      <3>1. /\ i - Len(worker.log) \in 1..Len(e) /\ i \in Nat
            /\ worker'.log[i].n = e[i - Len(worker.log)].n
            /\ worker'.log[i].inv = e[i - Len(worker.log)].inv
            /\ worker'.log[i].under = worker.inv + 1
        <4>1. \/ i \in 1..Len(w.log) /\ worker'.log[i] = w.log[i]
              \/ /\ i > Len(w.log) /\ i - Len(w.log) \in 1..Len(e)
                 /\ worker'.log[i].n = e[i - Len(w.log)].n
                 /\ worker'.log[i].inv = e[i - Len(w.log)].inv
                 /\ worker'.log[i].under = w.inv
          BY <1>5 DEF Logs, Captures
        <4> QED
          BY <1>3, <1>7, <2>2, <4>1
      <3>2. worker.inv = 0
        <4>1. Len(e) # 0
          BY <1>7, <3>1
        <4>2. e # <<>>
          BY <4>1
        <4> QED
          BY <1>1, <1>2, <4>2 DEF Held
      <3>3. e[i - Len(worker.log)].n = Len(worker.log) + (i - Len(worker.log))
            /\ e[i - Len(worker.log)].inv = 0
        BY <1>6, <3>1
      <3> QED
        BY <1>7, <3>1, <3>2, <3>3
    <2> QED
      BY <2>1, <2>2
  <1>9. /\ worker.finished \subseteq 1..(worker.inv + 1)
        /\ 1..worker.inv \subseteq worker.finished
    BY <1>1, <1>2 DEF Held
  <1>10. Held'
    <2>1. worker'.inv - 1 = worker.inv /\ worker'.inv # 0
      BY <1>2, <1>7
    <2>2. \A i \in 1..Len(worker'.pending) : FALSE
      BY <1>7
    <2> QED
      BY <1>7, <1>8, <1>9, <2>1, <2>2 DEF Held
  <1>11. HeldCount' = HeldCount
    <2>1. Len(worker'.pending) = 0
      BY <1>7
    <2> QED
      BY <1>7, <2>1 DEF HeldCount
  <1> QED
    BY <1>1, <1>7, <1>10, <1>11

\* The admission, granted or refused.
LEMMA PrepareRequestInv ==
  ASSUME BridgeInv, PrepareRequest
  PROVE  BridgeInv'
  <1>1. /\ sup = "serve" /\ UNCHANGED <<cancelSent, eventVars, toSupervisor, agent>>
        /\ request.method = "prepare_request"
    BY DEF PrepareRequest
  <1>2. AdmissionInOrder /\ agent.at = "preparing" /\ worker.inv < MaxRounds
    <2>1. /\ agent.at \in Waiting /\ request.method = Asks[agent.at]
          /\ request.inv = worker.inv /\ worker.inv = agent.inv /\ Session /\ Shapes
          /\ ~EndInFlight /\ ~agent.closed
      BY <1>1, Serving
    <2>2. agent.at = "preparing"
      BY <1>1, <2>1, AskedFor
    <2>3. agent.inv = agent.rounds /\ agent.rounds < MaxRounds
      BY <2>1, <2>2 DEF Session, PhaseOf, BetweenTurns
    <2> QED
      BY <2>1, <2>2, <2>3 DEF Session, Turns, TurnOver, BetweenTurns, AdmissionInOrder
  <1>3. \/ Refuse(Disorder(AdmissionInOrder), "failed")
        \/ Refuse([worker EXCEPT !.budget = TRUE], "interrupted")
        \/ worker' = Admitted /\ Answer(Reply(TRUE, "finished", worker.inv + 1))
    BY DEF PrepareRequest
  <1>4. CASE Refuse(Disorder(AdmissionInOrder), "failed")
    <2>1. Refuse(Disorder(TRUE), "failed")
      BY <1>2, <1>4 DEF Refuse, Disorder
    <2> QED
      BY <1>1, <2>1, RefuseInv, Markings
  <1>5. CASE Refuse([worker EXCEPT !.budget = TRUE], "interrupted")
    BY <1>1, <1>5, RefuseInv, Markings
  <1>6. CASE worker' = Admitted /\ Answer(Reply(TRUE, "finished", worker.inv + 1))
    <2> DEFINE reply == Reply(TRUE, "finished", worker.inv + 1)
    <2>1. worker.inv + 1 \in 0..MaxRounds
      BY <1>2, BridgeAssumption DEF BridgeInv, Shapes, WorkerRow
    <2>2. reply \in Replies /\ reply.ok /\ reply.inv = worker.inv + 1 /\ Answer(reply)
      BY <1>6, <2>1 DEF Reply, Replies, Statuses
    <2> HIDE DEF reply
    <2>3. worker.inv > 0 => worker.inv \in worker.finished
      BY <1>2 DEF AdmissionInOrder
    <2>4. Serves(reply)
      BY <1>2, <1>6, <2>2, <2>3, AdmittedHeld DEF Serves
    <2> QED
      BY <1>1, <2>2, <2>4, AnswerInv
  <1> QED
    BY <1>3, <1>4, <1>5, <1>6

\* Taking the first line takes the first event.
LEMMA CarriesTail ==
  ASSUME NEW s \in Seq(LineSet), s # <<>>, NEW m \in Nat, NEW n \in Nat, Carries(s, m, n)
  PROVE  IF Head(s).type = "event" THEN Head(s).n = m + 1 /\ Carries(Tail(s), m + 1, n)
         ELSE Carries(Tail(s), m, n)
  <1> DEFINE t == Tail(s)
  <1>1. /\ Len(t) = Len(s) - 1 /\ Len(s) \in Nat \ {0} /\ Head(s) = s[1] /\ 1 \in 1..Len(s)
        /\ \A i \in 1..Len(t) : i + 1 \in 1..Len(s) /\ t[i] = s[i + 1]
    BY Shortened
  <1> HIDE DEF t
  <1>2. \A i \in 1..Len(s) : s[i].type = "event" => s[i].n \in Nat
    BY ElementOfSeq, LineShapes DEF LineSet
  <1>3. ASSUME NEW k \in 1..Len(s), k # 1
        PROVE  k - 1 \in 1..Len(t) /\ t[k - 1] = s[k]
    <2>1. k - 1 \in 1..Len(t)
      BY <1>1, <1>3
    <2>2. (k - 1) + 1 = k
      BY <1>1
    <2> QED
      BY <1>1, <2>1, <2>2
  <1>4. \A i, j \in 1..Len(t) :
           t[i].type = "event" /\ t[j].type = "event" /\ i < j => t[i].n < t[j].n
    <2>1. ASSUME NEW i \in 1..Len(t), NEW j \in 1..Len(t),
                 t[i].type = "event", t[j].type = "event", i < j
          PROVE  t[i].n < t[j].n
      <3>1. i + 1 \in 1..Len(s) /\ j + 1 \in 1..Len(s) /\ i + 1 < j + 1
            /\ t[i] = s[i + 1] /\ t[j] = s[j + 1]
        BY <1>1, <2>1
      <3> QED
        BY <2>1, <3>1 DEF Carries
    <2> QED
      BY <2>1
  <1>5. CASE Head(s).type # "event"
    <2>1. \A k \in (m + 1)..n : \E i \in 1..Len(t) : t[i].type = "event" /\ t[i].n = k
      <3>1. ASSUME NEW k \in (m + 1)..n
            PROVE  \E i \in 1..Len(t) : t[i].type = "event" /\ t[i].n = k
        <4>1. PICK i \in 1..Len(s) : s[i].type = "event" /\ s[i].n = k
          BY DEF Carries
        <4> QED
          BY <1>1, <1>3, <1>5, <4>1
      <3> QED
        BY <3>1
    <2>2. \A i \in 1..Len(t) : t[i].type = "event" => t[i].n > m /\ t[i].n <= n
      BY <1>1 DEF Carries
    <2>3. Carries(t, m, n)
      BY <1>4, <2>1, <2>2 DEF Carries
    <2> QED
      BY <1>5, <2>3 DEF t
  <1>6. CASE Head(s).type = "event"
    <2>0. s[1].type = "event" /\ s[1].n > m /\ s[1].n <= n /\ s[1].n \in Nat
      BY <1>1, <1>2, <1>6 DEF Carries
    <2>1. \A i \in 1..Len(t) : t[i].type = "event" => t[i].n > s[1].n /\ t[i].n <= n /\ t[i].n \in Nat
      <3>1. ASSUME NEW i \in 1..Len(t), t[i].type = "event"
            PROVE  t[i].n > s[1].n /\ t[i].n <= n /\ t[i].n \in Nat
        <4>1. i + 1 \in 1..Len(s) /\ t[i] = s[i + 1] /\ 1 < i + 1
          BY <1>1
        <4>2. s[1].n < s[i + 1].n /\ s[i + 1].n <= n
          BY <1>1, <2>0, <3>1, <4>1 DEF Carries
        <4> QED
          BY <1>2, <2>0, <3>1, <4>1, <4>2
      <3> QED
        BY <3>1
    <2>2. s[1].n = m + 1
      <3>1. m + 1 \in (m + 1)..n
        BY <2>0
      <3>2. PICK i \in 1..Len(s) : s[i].type = "event" /\ s[i].n = m + 1
        BY <3>1 DEF Carries
      <3>3. CASE i = 1
        BY <3>2, <3>3
      <3>4. CASE i # 1
        <4>1. i - 1 \in 1..Len(t) /\ t[i - 1] = s[i]
          BY <1>3, <3>4
        <4>2. t[i - 1].n > s[1].n
          BY <2>1, <3>2, <4>1
        <4> QED
          BY <2>0, <3>2, <4>1, <4>2
      <3> QED
        BY <3>3, <3>4
    <2>3. \A k \in (m + 2)..n : \E i \in 1..Len(t) : t[i].type = "event" /\ t[i].n = k
      <3>1. ASSUME NEW k \in (m + 2)..n
            PROVE  \E i \in 1..Len(t) : t[i].type = "event" /\ t[i].n = k
        <4>1. PICK i \in 1..Len(s) : s[i].type = "event" /\ s[i].n = k
          BY DEF Carries
        <4>2. i # 1
          BY <2>2, <4>1
        <4> QED
          BY <1>3, <4>1, <4>2
      <3> QED
        BY <3>1
    <2>4. Carries(t, m + 1, n)
      <3>1. m + 1 <= n
        BY <2>0, <2>2
      <3>2. \A i \in 1..Len(t) : t[i].type = "event" => t[i].n > m + 1 /\ t[i].n <= n
        BY <2>1, <2>2
      <3>3. (m + 1) + 1 = m + 2
        OBVIOUS
      <3> QED
        BY <1>4, <2>3, <3>1, <3>2, <3>3 DEF Carries
    <2> QED
      BY <1>1, <1>6, <2>2, <2>4 DEF t
  <1> QED
    BY <1>5, <1>6

\* A pipe and what is left of it.
Shifts(t, s) ==
  /\ t \in Seq(LineSet) /\ Len(t) = Len(s) - 1 /\ Len(s) \in Nat \ {0}
  /\ \A i \in 1..Len(t) : i + 1 \in 1..Len(s) /\ t[i] = s[i + 1]
  /\ \A i \in 1..Len(s) : i = 1 \/ (i - 1 \in 1..Len(t) /\ t[i - 1] = s[i])

LEMMA Reading ==
  ASSUME BridgeInv, sup = "read", toSupervisor # <<>>
  PROVE  /\ sup # "over" /\ Shapes /\ Held /\ Places /\ Results /\ Session /\ Flow
         /\ request = NoRequest /\ ~agent.closed /\ worker.inv = agent.inv
         /\ \A i \in 1..Len(toAgent) : ~IsReply(i)
         /\ ~Admitting /\ agent.at # "idle"
         /\ Line = toSupervisor[1] /\ 1 \in 1..Len(toSupervisor) /\ Line \in LineSet
         /\ ReportAt(1) /\ CauseAt(1)
         /\ Shifts(Tail(toSupervisor), toSupervisor)
  <1>1. /\ sup # "over" /\ sup # "crashed" /\ Shapes /\ Held /\ Places /\ Results /\ Session /\ Flow
    BY DEF BridgeInv, Live
  <1>2. /\ request = NoRequest /\ ~agent.closed
        /\ \A i \in 1..Len(toAgent) : ~IsReply(i)
    BY <1>1 DEF Session, Calls, Causes, Orders, OrderAt
  <1>3. ~Admitting
    BY <1>2 DEF Admitting
  <1>4. worker.inv = agent.inv /\ agent.at # "idle"
    BY <1>1, <1>3 DEF Session, Calls
  <1>5. toSupervisor \in Seq(LineSet)
    BY <1>1, PipeShape
  <1>6. /\ Tail(toSupervisor) \in Seq(LineSet)
        /\ Len(Tail(toSupervisor)) = Len(toSupervisor) - 1 /\ Len(toSupervisor) \in Nat \ {0}
        /\ Head(toSupervisor) = toSupervisor[1] /\ 1 \in 1..Len(toSupervisor)
        /\ Head(toSupervisor) \in LineSet
        /\ \A i \in 1..Len(Tail(toSupervisor)) :
              i + 1 \in 1..Len(toSupervisor) /\ Tail(toSupervisor)[i] = toSupervisor[i + 1]
        /\ \A i \in 1..Len(toSupervisor) : i = 1 \/ i - 1 \in 1..Len(Tail(toSupervisor))
    BY <1>5, Shortened
  <1>7. ASSUME NEW i \in 1..Len(toSupervisor), i # 1
        PROVE  Tail(toSupervisor)[i - 1] = toSupervisor[i]
    <2>1. i - 1 \in 1..Len(Tail(toSupervisor)) /\ (i - 1) + 1 = i
      BY <1>6, <1>7
    <2> QED
      BY <1>6, <2>1
  <1>8. Shifts(Tail(toSupervisor), toSupervisor)
    BY <1>6, <1>7 DEF Shifts
  <1>9. ReportAt(1) /\ CauseAt(1)
    BY <1>1, <1>6 DEF Session, Reports, Causes
  <1> QED
    BY <1>1, <1>2, <1>3, <1>4, <1>6, <1>8, <1>9 DEF Line

\* An event has been taken from the pipe and is held.
Takes ==
  /\ worker' \in WorkerRow /\ Held' /\ HeldCount' = HeldCount + 1
  /\ worker'.inv = worker.inv /\ worker'.refused = worker.refused
  /\ worker'.protocol = worker.protocol
  /\ worker'.finished = IF Line.kind = "turn_end" /\ worker.inv > 0
                        THEN worker.finished \cup {worker.inv} ELSE worker.finished

\* BridgeInv over a line that is read and kept.
LEMMA TakeInv ==
  ASSUME BridgeInv, HasLine("event"), Takes, sup' = "top", toSupervisor' = Tail(toSupervisor),
         UNCHANGED <<request, cancelSent, outcome, eventVars, toAgent, proc, agent>>
  PROVE  BridgeInv'
  <1>0. sup = "read" /\ toSupervisor # <<>> /\ Line.type = "event"
    BY DEF HasLine
  <1>1. /\ sup # "over" /\ Shapes /\ Held /\ Places /\ Results /\ Session /\ Flow
        /\ request = NoRequest /\ ~agent.closed /\ worker.inv = agent.inv
        /\ ~Admitting /\ agent.at # "idle"
        /\ Line = toSupervisor[1] /\ 1 \in 1..Len(toSupervisor) /\ Line \in LineSet
        /\ ReportAt(1)
        /\ Shifts(Tail(toSupervisor), toSupervisor)
    BY <1>0, Reading
  <1>n. \A i \in 1..Len(toAgent) : ~IsReply(i)
    BY <1>0, Reading
  <1>2. /\ request' = request /\ cancelSent' = cancelSent /\ outcome' = outcome
        /\ cancel' = cancel /\ late' = late /\ fenced' = fenced /\ toAgent' = toAgent
        /\ proc' = proc /\ agent' = agent /\ sup' = "top" /\ sup' # "over"
    BY DEF eventVars
  <1>3. Shifts(toSupervisor', toSupervisor)
    BY <1>1
  <1>4. worker.inv \in Nat /\ HeldCount \in Nat /\ agent.emitted \in Nat /\ toSupervisor \in Seq(LineSet)
    BY <1>1, LenProperties, PipeShape DEF Shapes, WorkerRow, HeldCount, AgentRow
  <1>5. Shapes' /\ Places' /\ Results'
    <2>1. Shapes'
      BY <1>1, <1>2, <1>3 DEF Shapes, Takes, Shifts, LineSet, SupervisorPlaces, Live
    <2> QED
      BY <1>0, <1>1, <1>2, <2>1 DEF Places, Results, FinishedMeansDone, Live, Takes
  <1>6. ~Admitting'
    BY <1>2, <1>n DEF Admitting, IsReply
  <1>7. PhaseOf(agent)' /\ Orders' /\ Calls'
    BY <1>1, <1>2, <1>6, <1>n DEF Session, PhaseOf, Orders, OrderAt, IsReply, Calls, Takes
  <1>8. Causes'
    <2>1. ASSUME NEW i \in 1..Len(toSupervisor')
          PROVE  CauseAt(i)'
      <3>1. i + 1 \in 1..Len(toSupervisor) /\ toSupervisor'[i] = toSupervisor[i + 1] /\ CauseAt(i + 1)
        BY <1>1, <1>3 DEF Shifts, Session, Causes
      <3> QED
        BY <1>2, <3>1 DEF CauseAt, IsEvent, Takes
    <2> QED
      BY <1>0, <1>1, <1>2, <2>1 DEF Session, Causes, Takes
  <1>9. Reports'
    <2>1. ASSUME NEW i \in 1..Len(toSupervisor')
          PROVE  ReportAt(i)'
      <3>1. i + 1 \in 1..Len(toSupervisor) /\ toSupervisor'[i] = toSupervisor[i + 1] /\ ReportAt(i + 1)
        BY <1>1, <1>3 DEF Shifts, Session, Reports
      <3>2. i + 1 = Len(toSupervisor) => i = Len(toSupervisor')
        <4>1. Len(toSupervisor') = Len(toSupervisor) - 1 /\ Len(toSupervisor) \in Nat
          BY <1>3 DEF Shifts
        <4>2. i \in Int
          BY <4>1
        <4> QED
          BY <4>1, <4>2
      <3> QED
        BY <1>2, <3>1, <3>2 DEF ReportAt
    <2> QED
      BY <2>1 DEF Reports
  <1>10. Turns'
    <2>1. EndInFlight' => EndInFlight
      BY <1>3 DEF Shifts, EndInFlight, IsEvent
    <2>2. EndInFlight => EndInFlight' \/ Line.kind = "turn_end"
      <3>1. ASSUME NEW i \in 1..Len(toSupervisor), IsEvent(i), toSupervisor[i].kind = "turn_end"
            PROVE  EndInFlight' \/ Line.kind = "turn_end"
        <4>1. CASE i = 1
          BY <1>1, <3>1, <4>1
        <4>2. CASE i # 1
          <5>1. i - 1 \in 1..Len(toSupervisor') /\ toSupervisor'[i - 1] = toSupervisor[i]
            BY <1>3, <4>2 DEF Shifts
          <5> QED
            BY <3>1, <5>1 DEF EndInFlight, IsEvent
        <4> QED
          BY <4>1, <4>2
      <3> QED
        BY <3>1 DEF EndInFlight
    <2>3. Line.kind = "turn_end" => EndInFlight
      BY <1>0, <1>1 DEF EndInFlight, IsEvent
    <2>4. agent.at \in InTurn => agent.inv \notin worker'.finished /\ ~EndInFlight'
      BY <1>1, <2>1, <2>3 DEF Session, Turns, Takes
    <2>5. agent.inv > 0 /\ agent.at \in TurnOver =>
             agent.inv \in worker'.finished \/ EndInFlight' \/ agent.closed
      BY <1>1, <2>2 DEF Session, Turns, Takes
    <2> QED
      BY <1>2, <1>6, <2>4, <2>5 DEF Turns
  <1>11. Flow'
    <2>1. Carries(Tail(toSupervisor), HeldCount + 1, agent.emitted)
      BY <1>0, <1>1, <1>4, CarriesTail DEF Flow, Line
    <2> QED
      BY <1>2, <2>1 DEF Flow, Takes
  <1>12. \A i \in 1..Len(toSupervisor') : IsEvent(i)' =>
            toSupervisor'[i].n >= 1 /\ toSupervisor'[i].n <= agent'.emitted
    BY <1>2, <1>3 DEF BridgeInv, Shifts, IsEvent
  <1>13. Held' /\ agent'.inv <= worker'.inv
    BY <1>1, <1>2, <1>4 DEF Takes
  <1> QED
    BY <1>2, <1>5, <1>7, <1>8, <1>9, <1>10, <1>11, <1>12, <1>13 DEF BridgeInv, Session

\* The event of the line, and its number.
LEMMA EventLine ==
  ASSUME BridgeInv, HasLine("event")
  PROVE  /\ Line \in EventLines /\ Line.inv = worker.inv /\ Line.n = HeldCount + 1
         /\ Line.inv = 0 =>
              IF Line.kind \in EarlyKinds THEN Line.n <= 4 ELSE worker.refused \/ cancelSent
  <1>0. sup = "read" /\ toSupervisor # <<>> /\ Line.type = "event"
    BY DEF HasLine
  <1>1. /\ Line = toSupervisor[1] /\ Line \in LineSet /\ ReportAt(1) /\ CauseAt(1)
        /\ worker.inv = agent.inv /\ Shapes /\ Flow
    BY <1>0, Reading
  <1>2. Line \in EventLines
    BY <1>0, <1>1, LineShapes DEF LineSet
  <1>3. HeldCount \in Nat /\ agent.emitted \in Nat /\ toSupervisor \in Seq(LineSet)
    BY <1>1, LenProperties, PipeShape DEF Shapes, WorkerRow, HeldCount, AgentRow
  <1>4. Line.n = HeldCount + 1
    BY <1>0, <1>1, <1>3, CarriesTail DEF Flow, Line
  <1> QED
    BY <1>0, <1>1, <1>2, <1>4 DEF ReportAt, CauseAt, IsEvent

\* An event under an invocation is recorded next, whatever becomes of the turn.
LEMMA RecordHeld ==
  ASSUME BridgeInv, HasLine("event"), worker.inv > 0, Captures(worker', worker, <<Line>>),
         worker'.finished \in {worker.finished, worker.finished \cup {worker.inv}}
  PROVE  /\ worker' \in WorkerRow /\ Held' /\ HeldCount' = HeldCount + 1
         /\ worker'.inv = worker.inv /\ worker'.refused = worker.refused
         /\ worker'.protocol = worker.protocol
  <1> DEFINE e == <<Line>>
  <1>1. /\ Line \in EventLines /\ Line.inv = worker.inv /\ Line.n = HeldCount + 1
    BY EventLine
  <1>2. worker \in WorkerRow /\ Held
    BY DEF BridgeInv, Shapes
  <1>3. e \in Seq(EventLines) /\ Len(e) = 1 /\ e[1] = Line /\ \A i \in 1..Len(e) : i = 1
    BY <1>1
  <1>4. Captures(worker', worker, e)
    OBVIOUS
  <1> HIDE DEF e
  <1>5. worker.inv \in Nat /\ worker.inv # 0 /\ worker.pending = <<>> /\ Len(worker.pending) = 0
    BY <1>2 DEF WorkerRow, Held
  <1>6. /\ worker' \in WorkerRow /\ worker'.inv = worker.inv /\ worker'.pending = <<>>
        /\ worker'.refused = worker.refused /\ worker'.protocol = worker.protocol
        /\ Len(worker'.log) = Len(worker.log) + 1 /\ Len(worker.log) \in Nat
    BY <1>3, <1>4, <1>5 DEF Captures
  <1>7. HeldCount = Len(worker.log) /\ HeldCount' = HeldCount + 1 /\ HeldCount \in Nat
    <2>1. Len(worker'.pending) = 0
      BY <1>6
    <2>2. /\ HeldCount = Len(worker.log) + Len(worker.pending)
          /\ HeldCount' = Len(worker'.log) + Len(worker'.pending)
      BY DEF HeldCount
    <2>3. Len(worker.pending) = 0 /\ Len(worker.log) \in Nat /\ Len(worker'.log) = Len(worker.log) + 1
      BY <1>5, <1>6
    <2> QED
      BY ONLY <2>1, <2>2, <2>3
  <1>8. ASSUME NEW i \in 1..Len(worker'.log)
        PROVE  /\ worker'.log[i].n = i
               /\ worker'.log[i].under = IF worker'.log[i].inv = 0 THEN 1 ELSE worker'.log[i].inv
    <2>1. CASE i \in 1..Len(worker.log) /\ worker'.log[i] = worker.log[i]
      BY <1>2, <2>1 DEF Held
    <2>2. CASE ~(i \in 1..Len(worker.log) /\ worker'.log[i] = worker.log[i])
      <3>1. /\ i > Len(worker.log) /\ i - Len(worker.log) \in 1..Len(e)
            /\ worker'.log[i].n = e[i - Len(worker.log)].n
            /\ worker'.log[i].inv = e[i - Len(worker.log)].inv
            /\ worker'.log[i].under = worker.inv
        BY <1>4, <2>2 DEF Captures
      <3>2. i - Len(worker.log) = 1 /\ i \in Nat
        BY <1>3, <1>6, <3>1
      <3> QED
        BY <1>1, <1>3, <1>5, <1>6, <1>7, <3>1, <3>2
    <2> QED
      BY <2>1, <2>2
  <1>9. worker'.finished \subseteq 1..(worker.inv) /\ 1..(worker.inv - 1) \subseteq worker'.finished
    BY <1>2, <1>5, <1>6 DEF Held
  <1>10. Held'
    <2>1. \A i \in 1..Len(worker'.pending) : FALSE
      BY <1>6
    <2> QED
      BY <1>5, <1>6, <1>8, <1>9, <2>1 DEF Held
  <1> QED
    BY <1>6, <1>7, <1>10

\* When the turn ends with it, the invocation is finished.
LEMMA RecordTakes ==
  ASSUME BridgeInv, HasLine("event"), worker.inv > 0, worker' = Recorded(worker, <<Line>>)
  PROVE  Takes
  <1>1. Line \in EventLines /\ worker \in WorkerRow
    BY EventLine DEF BridgeInv, Shapes
  <1>2. Logs(worker', worker, <<Line>>)
    <2>1. <<Line>> \in Seq(EventLines)
      BY <1>1
    <2> QED
      BY <1>1, <2>1, Recordings
  <1>3. worker'.finished = IF Line.kind = "turn_end" /\ worker.inv > 0
                           THEN worker.finished \cup {worker.inv} ELSE worker.finished
    BY <1>2 DEF Logs
  <1> QED
    BY <1>2, <1>3, RecordHeld DEF Takes, Logs

\* An early event waits.
LEMMA PendTakes ==
  ASSUME BridgeInv, HasLine("event"), worker.inv = 0, Line.kind \in EarlyKinds,
         worker' = [worker EXCEPT !.pending = Append(@, Line)]
  PROVE  Takes
  <1> DEFINE p == Append(worker.pending, Line)
  <1>1. /\ Line \in EventLines /\ Line.inv = worker.inv /\ Line.n = HeldCount + 1
    BY EventLine
  <1>2. worker \in WorkerRow /\ Held
    BY DEF BridgeInv, Shapes
  <1>3. worker.pending \in Seq(EventLines) /\ worker.log = <<>> /\ Len(worker.log) = 0
    BY <1>2 DEF WorkerRow, Held
  <1>4. /\ p \in Seq(EventLines) /\ Len(p) = Len(worker.pending) + 1 /\ Len(worker.pending) \in Nat
        /\ \A i \in 1..Len(worker.pending) : p[i] = worker.pending[i]
        /\ p[Len(worker.pending) + 1] = Line
        /\ \A i \in 1..Len(p) : i \in 1..Len(worker.pending) \/ i = Len(worker.pending) + 1
    BY <1>1, <1>3, OneMore
  <1> HIDE DEF p
  <1>5. worker' = [worker EXCEPT !.pending = p]
    BY DEF p
  <1>6. /\ worker' \in WorkerRow /\ worker'.pending = p /\ worker'.log = worker.log
        /\ worker'.inv = worker.inv /\ worker'.finished = worker.finished
        /\ worker'.refused = worker.refused /\ worker'.protocol = worker.protocol
    BY <1>2, <1>4, <1>5 DEF WorkerRow
  <1>7. HeldCount = Len(worker.pending) /\ HeldCount' = HeldCount + 1
    <2>1. /\ HeldCount = Len(worker.log) + Len(worker.pending)
          /\ HeldCount' = Len(worker'.log) + Len(worker'.pending)
      BY DEF HeldCount
    <2>2. /\ Len(worker.log) = 0 /\ Len(worker'.log) = 0 /\ Len(worker.pending) \in Nat
          /\ Len(worker'.pending) = Len(worker.pending) + 1
      BY <1>3, <1>4, <1>6
    <2> QED
      BY ONLY <2>1, <2>2
  <1>8. ASSUME NEW i \in 1..Len(p)
        PROVE  p[i].n = Len(worker.log) + i /\ p[i].inv = 0 /\ p[i].kind \in EarlyKinds
    <2>1. CASE i \in 1..Len(worker.pending)
      BY <1>2, <1>4, <2>1 DEF Held
    <2>2. CASE i = Len(worker.pending) + 1
      BY <1>1, <1>3, <1>4, <1>7, <2>2
    <2> QED
      BY <1>4, <2>1, <2>2
  <1>9. Held'
    BY <1>2, <1>6, <1>8 DEF Held
  <1> QED
    BY <1>6, <1>7, <1>9 DEF Takes

\* Events are read.
LEMMA ReadEventInv ==
  ASSUME BridgeInv, ReadEvent
  PROVE  BridgeInv'
  <1>1. HasLine("event") /\ toSupervisor' = Tail(toSupervisor)
        /\ UNCHANGED <<request, cancelSent, eventVars, toAgent, agent>>
    BY DEF ReadEvent
  <1>2. CASE worker.inv > 0 /\ worker' = Recorded(worker, <<Line>>)
             /\ sup' = "top" /\ UNCHANGED <<outcome, proc>>
    BY <1>1, <1>2, RecordTakes, TakeInv
  <1>3. CASE /\ worker.inv = 0 /\ Line.kind \in EarlyKinds
             /\ worker' = [worker EXCEPT !.pending = Append(@, Line)]
             /\ sup' = "top" /\ UNCHANGED <<outcome, proc>>
    BY <1>1, <1>3, PendTakes, TakeInv
  <1>4. CASE /\ worker.inv = 0
             /\ Line.kind \in EarlyKinds => Len(worker.pending) >= PendingLimit
             /\ End("failed", "early_event", 0) /\ UNCHANGED worker
    <2>1. /\ Line.inv = 0 /\ Line.n = HeldCount + 1
          /\ IF Line.kind \in EarlyKinds THEN Line.n <= 4 ELSE worker.refused \/ cancelSent
      BY <1>1, <1>4, EventLine
    <2>2. HeldCount = Len(worker.pending) /\ Len(worker.pending) \in Nat
      BY <1>4, LenProperties DEF BridgeInv, Shapes, WorkerRow, Held, HeldCount
    <2>3. worker.refused \/ cancelSent
      BY <1>4, <2>1, <2>2, BridgeAssumption
    <2>4. sup # "over" /\ Leaves
      BY <1>1 DEF HasLine, Leaves
    <2> QED
      BY <1>1, <1>4, <2>3, <2>4, StopInv DEF Statuses, Whys
  <1>5. CASE /\ worker.inv > 0 /\ worker' = Received(worker, <<Line>>)
             /\ End("failed", "not_finished", 0)
    <2>1. Line \in EventLines /\ worker \in WorkerRow
      BY <1>1, EventLine DEF BridgeInv, Shapes
    <2>2. Captures(worker', worker, <<Line>>) /\ worker'.finished = worker.finished
      <3>1. <<Line>> \in Seq(EventLines)
        BY <2>1
      <3> QED
        BY <1>5, <2>1, <3>1, Receptions
    <2>3. /\ worker' \in WorkerRow /\ Held' /\ worker'.inv = worker.inv
          /\ worker'.protocol = worker.protocol
      BY <1>1, <1>5, <2>2, RecordHeld
    <2>4. Concludes("failed", "not_finished", 0)
      BY <2>3, BridgeAssumption DEF Concludes, BridgeInv, Results, Statuses, Whys
    <2>5. Leaves /\ request' \in RpcLines \cup {NoRequest}
      BY <1>1 DEF HasLine, Leaves, BridgeInv, Shapes
    <2> QED
      BY <1>1, <1>5, <2>4, <2>5, EndInv
  <1> QED
    BY <1>2, <1>3, <1>4, <1>5 DEF ReadEvent

\* A request is read.
LEMMA ReadRpcInv ==
  ASSUME BridgeInv, ReadRpc
  PROVE  BridgeInv'
  <1>0. sup = "read" /\ toSupervisor # <<>> /\ Line.type = "rpc"
    BY DEF ReadRpc, HasLine
  <1>1. /\ sup # "over" /\ Shapes /\ Held /\ Places /\ Results /\ Session /\ Flow
        /\ request = NoRequest /\ ~agent.closed /\ worker.inv = agent.inv
        /\ ~Admitting /\ agent.at # "idle"
        /\ Line = toSupervisor[1] /\ 1 \in 1..Len(toSupervisor) /\ Line \in LineSet
        /\ ReportAt(1)
        /\ Shifts(Tail(toSupervisor), toSupervisor)
    BY <1>0, Reading
  <1>n. \A i \in 1..Len(toAgent) : ~IsReply(i)
    BY <1>0, Reading
  <1>2. /\ request' = Line /\ cancelSent' = cancelSent /\ outcome' = outcome /\ worker' = worker
        /\ cancel' = cancel /\ late' = late /\ fenced' = fenced /\ toAgent' = toAgent
        /\ proc' = proc /\ agent' = agent /\ sup' = "rpc" /\ sup' # "over"
        /\ toSupervisor' = Tail(toSupervisor)
    BY DEF ReadRpc, eventVars
  <1>3. /\ Line \in RpcLines /\ Line # NoRequest /\ Line.inv = agent.inv
        /\ Len(toSupervisor) = 1 /\ agent.at \in Waiting /\ Line.method = Asks[agent.at]
    <2>1. Line \in RpcLines /\ Line # NoRequest
      BY <1>0, <1>1, LineShapes DEF LineSet, NoRequest
    <2> QED
      BY <1>0, <1>1, <2>1 DEF ReportAt
  <1>4. toSupervisor' \in Seq(LineSet) /\ Len(toSupervisor') = 0 /\ toSupervisor' = <<>>
    <2>1. toSupervisor' \in Seq(LineSet) /\ Len(toSupervisor') = 0
      BY <1>1, <1>2, <1>3 DEF Shifts
    <2> QED
      BY <2>1, EmptySeq
  <1>5. Shapes' /\ Held' /\ Places' /\ Results'
    <2>1. Shapes'
      BY <1>1, <1>2, <1>3, <1>4 DEF Shapes, LineSet, SupervisorPlaces, Live
    <2> QED
      BY <1>0, <1>1, <1>2, <2>1 DEF Held, Places, Results, FinishedMeansDone, Live
  <1>6. ~Admitting'
    BY <1>2, <1>n DEF Admitting, IsReply
  <1>7. PhaseOf(agent)' /\ Orders' /\ Calls'
    BY <1>1, <1>2, <1>3, <1>4, <1>6, <1>n DEF Session, PhaseOf, Orders, OrderAt, IsReply, Calls
  <1>8. Causes' /\ Reports'
    <2>1. \A i \in 1..Len(toSupervisor') : FALSE
      BY <1>4
    <2> QED
      BY <1>0, <1>1, <1>2, <2>1 DEF Session, Causes, Reports
  <1>9. Turns'
    <2>1. ~EndInFlight /\ ~EndInFlight'
      BY <1>0, <1>1, <1>3, <1>4 DEF EndInFlight, IsEvent
    <2> QED
      BY <1>1, <1>2, <1>6, <2>1 DEF Session, Turns
  <1>10. Flow'
    <2>1. HeldCount \in Nat /\ agent.emitted \in Nat /\ toSupervisor \in Seq(LineSet)
      BY <1>1, LenProperties, PipeShape DEF Shapes, WorkerRow, HeldCount, AgentRow
    <2>2. Carries(Tail(toSupervisor), HeldCount, agent.emitted)
      BY <1>0, <1>1, <2>1, CarriesTail DEF Flow, Line
    <2> QED
      BY <1>2, <2>2 DEF Flow, HeldCount
  <1>11. agent'.inv <= worker'.inv
    BY <1>2 DEF BridgeInv
  <1> QED
    BY <1>2, <1>4, <1>5, <1>7, <1>8, <1>9, <1>10, <1>11 DEF BridgeInv, Session

\* The result is read: what it says is true of the store.
LEMMA ReadResultInv ==
  ASSUME BridgeInv, ReadResult
  PROVE  BridgeInv'
  <1>0. sup = "read" /\ toSupervisor # <<>> /\ Line.type = "result"
    BY DEF ReadResult, HasLine
  <1>1. /\ sup # "over" /\ Shapes /\ Held /\ Places /\ Results /\ Session
        /\ request = NoRequest /\ ~agent.closed /\ worker.inv = agent.inv
        /\ Line = toSupervisor[1] /\ Line \in LineSet /\ ReportAt(1)
    BY <1>0, Reading
  <1>2. /\ Line \in ResultLines /\ Len(toSupervisor) = 1 /\ agent.at = "done"
        /\ Line.ok /\ Line.status = "finished" =>
              agent.stop \in {"stop", "blocked"} /\ Line.rounds = agent.inv
        /\ ~Line.ok => Line.status = "failed"
    BY <1>0, <1>1, LineShapes DEF LineSet, ReportAt
  <1>3. worker.finished = 1..(worker.inv)
    <2>1. ~EndInFlight
      BY <1>0, <1>1, <1>2 DEF EndInFlight, IsEvent
    <2>2. worker.inv \in Nat
      BY <1>1 DEF Shapes, WorkerRow
    <2>3. worker.inv > 0 => worker.inv \in worker.finished
      BY <1>1, <1>2, <2>1 DEF Session, Turns, TurnOver
    <2>4. worker.finished \subseteq 1..(worker.inv) /\ 1..(worker.inv - 1) \subseteq worker.finished
      BY <1>1 DEF Held
    <2>5. \A i \in 1..(worker.inv) : i \in worker.finished
      <3>1. ASSUME NEW i \in 1..(worker.inv)
            PROVE  i \in worker.finished
        <4>1. worker.inv > 0 /\ (i = worker.inv \/ i \in 1..(worker.inv - 1))
          BY <2>2
        <4> QED
          BY <2>3, <2>4, <4>1
      <3> QED
        BY <3>1
    <2> QED
      BY <2>4, <2>5
  <1>4. Line.status \in Statuses /\ Line.rounds \in 0..MaxRounds
    BY <1>2, LineShapes
  <1>5. /\ worker' = worker /\ UNCHANGED <<request, cancelSent, eventVars, toAgent, agent>>
        /\ worker' \in WorkerRow /\ Held' /\ ~worker'.protocol /\ agent.inv <= worker'.inv
        /\ request' \in RpcLines \cup {NoRequest} /\ Leaves
    BY <1>0, <1>1 DEF ReadResult, BridgeInv, Shapes, Held, Results, Leaves
  <1>6. CASE Line.ok
    <2> DEFINE status == IF worker.budget THEN "interrupted" ELSE Line.status
    <2>1. End(status, "result", Line.rounds)
      BY <1>6 DEF ReadResult
    <2>2. Concludes(status, "result", Line.rounds)
      BY <1>1, <1>2, <1>3, <1>4, <1>5, <1>6 DEF Concludes, Statuses, Whys
    <2> QED
      BY <1>5, <2>1, <2>2, EndInv
  <1>7. CASE ~Line.ok
    <2>1. End("failed", "agent_error", 0)
      BY <1>2, <1>7 DEF ReadResult
    <2> QED
      BY <1>1, <1>5, <2>1, StopInv DEF Statuses, Whys
  <1> QED
    BY <1>6, <1>7

-----------------------------------------------------------------------------
(* The invariant holds in every state.                                     *)

\* Nothing has happened yet.
LEMMA BridgeInit ==
  ASSUME Init
  PROVE  BridgeInv
  <1>1. /\ sup = "off" /\ request = NoRequest
        /\ cancel = FALSE /\ cancelSent = FALSE /\ late = FALSE /\ fenced = FALSE
        /\ worker \in WorkerRow /\ worker.inv = 0 /\ worker.finished = {}
        /\ worker.pending = <<>> /\ worker.log = <<>> /\ ~worker.protocol
        /\ outcome \in OutcomeRow /\ outcome.status = "none" /\ outcome.why = "none"
        /\ toAgent = <<>> /\ toSupervisor = <<>> /\ proc = "none"
        /\ agent \in AgentRow /\ agent.at = "idle" /\ agent.inv = 0 /\ agent.rounds = 0
        /\ ~agent.aborted /\ ~agent.closed /\ agent.err = "none" /\ agent.emitted = 0
    BY BridgeAssumption DEF Init, WorkerRow, OutcomeRow, Whys, AgentRow
  <1>2. Shapes
    <2>1. toAgent \in Seq(Messages)
      BY <1>1
    <2>2. toSupervisor \in Seq(EventLines \cup RpcLines \cup ResultLines)
      BY <1>1
    <2>3. late \in BOOLEAN /\ fenced \in BOOLEAN /\ cancel \in BOOLEAN /\ cancelSent \in BOOLEAN
      BY <1>1
    <2> QED
      BY <1>1, <2>1, <2>2, <2>3 DEF Shapes, SupervisorPlaces
  <1>3. HeldCount = 0 /\ Len(worker.log) = 0 /\ Len(worker.pending) = 0
        /\ Len(toAgent) = 0 /\ Len(toSupervisor) = 0
    BY <1>1 DEF HeldCount
  <1>4. Held /\ Places /\ Results
    BY <1>1, <1>3 DEF Held, Places, Results, FinishedMeansDone, Live
  <1>5. PhaseOf(agent) /\ Causes /\ Orders /\ Reports
    BY <1>1, <1>3 DEF PhaseOf, Causes, Orders, Reports, BetweenTurns, InTurn
  <1>6. Calls /\ Turns
    BY <1>1, <1>3 DEF Calls, Turns, Admitting, EndInFlight, InTurn
  <1>7. Flow
    BY <1>1, <1>3 DEF Flow, Carries
  <1> QED
    BY <1>1, <1>2, <1>3, <1>4, <1>5, <1>6, <1>7 DEF BridgeInv, Session

\* Nothing changes.
LEMMA BridgeStutter ==
  ASSUME BridgeInv, UNCHANGED vars
  PROVE  BridgeInv'
  <1>1. /\ UNCHANGED <<request, cancelSent, worker, outcome, toAgent, toSupervisor, proc, agent>>
        /\ sup' = sup /\ cancel' = cancel /\ late' = late /\ fenced' = fenced
    BY DEF vars, controllerVars, eventVars
  <1>2. CASE sup # "over"
    BY <1>1, <1>2, Moved DEF BridgeInv, Shapes, SupervisorPlaces, Session, Calls
  <1>3. CASE sup = "over"
    BY <1>1, <1>3 DEF BridgeInv, Shapes, Held, Places, Results, FinishedMeansDone, IsEvent, Live
  <1> QED
    BY <1>2, <1>3

\* Every step, by action.
LEMMA BridgeStep ==
  ASSUME BridgeInv, [Next]_vars
  PROVE  BridgeInv'
  <1>1. CASE Supervisor
    BY <1>1, SendCancelInv, CheckDeadlineInv, NothingToReadInv, ReadEventInv, ReadResultInv,
       ReadRpcInv, EnterRpcInv, PrepareRequestInv, ServeInv DEF Supervisor
  <1> QED
    BY <1>1, StartInv, AgentInv, EventsInv, DeathsInv, BridgeStutter DEF Next

\* The inductive invariant holds in every state of every run.
THEOREM BridgeInvariant == Spec => []BridgeInv
  BY BridgeInit, BridgeStep, PTL DEF Spec

\* Types, and the bound on invocations that only the agent counts: no run of
\* Worker._rpc and agent.mjs is admitted more often than max_rounds.
THEOREM BridgeTypeCorrect == Spec => []BridgeTypeOK
  <1>1. ASSUME BridgeInv
        PROVE  BridgeTypeOK
    <2>1. /\ sup \in Live \cup {"off", "over", "crashed"} /\ proc \in {"none", "alive", "dead"}
          /\ <<cancel, cancelSent, late, fenced>> \in BOOLEAN \X BOOLEAN \X BOOLEAN \X BOOLEAN
      BY <1>1 DEF BridgeInv, Shapes, SupervisorPlaces
    <2>2. /\ worker.inv \in 0..MaxRounds /\ worker.finished \subseteq 1..(worker.inv)
          /\ outcome.status \in Statuses \cup {"none"}
          /\ agent.at \in Active \cup {"idle", "done"} /\ agent.inv \in 0..(worker.inv)
      BY <1>1, BridgeAssumption DEF BridgeInv, Shapes, Held, WorkerRow, OutcomeRow, AgentRow
    <2>3. RpcLines \subseteq Lines /\ ResultLines \subseteq Lines
      BY DEF RpcLines, ResultLines, Lines
    <2>4. ASSUME NEW i \in 1..Len(toSupervisor)
          PROVE  toSupervisor[i] \in Lines
      <3>1. CASE IsEvent(i)
        <4>1. toSupervisor[i] \in EventLines
          BY <1>1, <3>1, PipeShape DEF BridgeInv
        <4>2. PICK l \in EventLines : l = toSupervisor[i]
          BY <4>1
        <4>3. l.n \in 1..(agent.emitted)
          BY <1>1, <3>1, <4>2 DEF BridgeInv, EventLines, Shapes, AgentRow
        <4>4. /\ l = [type |-> "event", kind |-> l.kind, inv |-> l.inv, n |-> l.n]
              /\ l.kind \in EarlyKinds \cup ModelKinds /\ l.inv \in 0..MaxRounds
          BY <4>2 DEF EventLines
        <4> QED
          BY <4>2, <4>3, <4>4 DEF Lines
      <3>2. CASE ~IsEvent(i)
        BY <1>1, <2>3, <3>2, PipeShape DEF BridgeInv, IsEvent
      <3> QED
        BY <3>1, <3>2
    <2>5. ToSet(toSupervisor) \subseteq Lines
      <3>1. ToSet(toSupervisor) = {toSupervisor[i] : i \in 1..Len(toSupervisor)}
        BY <1>1, PipeShape, LenProperties DEF ToSet, BridgeInv
      <3> QED
        BY <2>4, <3>1
    <2>6. request = NoRequest \/ request \in Lines
      BY <1>1, <2>3 DEF BridgeInv, Shapes
    <2> QED
      BY <2>1, <2>2, <2>5, <2>6 DEF BridgeTypeOK
  <1> QED
    BY <1>1, BridgeInvariant, PTL

\* The checks of _prepare_request, _provider_payload and _tool_call on the order
\* of RPCs never refuse the agent of bridge/agent.mjs, and _event meets a model
\* event before an admission only after a refusal or a cancellation.
THEOREM NoSpuriousRefusalHolds == Spec => []NoSpuriousRefusal
  <1>1. BridgeInv => NoSpuriousRefusal
    BY DEF BridgeInv, Results, NoSpuriousRefusal
  <1> QED
    BY <1>1, BridgeInvariant, PTL

\* A run that _run_once reports as finished has every admitted invocation
\* finished in the store and every round counted, uncancelled and in budget.
THEOREM FinishedMeansDoneHolds == Spec => []FinishedMeansDone
  <1>1. BridgeInv => FinishedMeansDone
    BY DEF BridgeInv, Results
  <1> QED
    BY <1>1, BridgeInvariant, PTL

-----------------------------------------------------------------------------
(* Capture.                                                                *)

\* A set of numbers has a smallest member.
LEMMA Smallest ==
  ASSUME NEW T \in SUBSET Nat, T # {}
  PROVE  \E m \in T : \A k \in T : m <= k
  <1> DEFINE R == OpToRel(<, Nat)
  <1>1. IsWellFoundedOn(R, Nat)
    BY NatLessThanWellFounded
  <1>2. \A k, m \in Nat : <<k, m>> \in R <=> k < m
    BY DEF OpToRel
  <1> HIDE DEF R
  <1>3. PICK m \in T : \A k \in T : <<k, m>> \notin R
    BY <1>1, WFMin
  <1>4. ASSUME NEW k \in T
        PROVE  m <= k
    <2>1. k \in Nat /\ m \in Nat /\ <<k, m>> \notin R
      BY <1>3
    <2>2. ~(k < m)
      BY <1>2, <2>1
    <2> QED
      BY <2>1, <2>2
  <1> QED
    BY <1>4

\* Induction over the numbers, for a set.
LEMMA Induct ==
  ASSUME NEW A \in SUBSET Nat, 0 \in A, \A n \in A : n + 1 \in A
  PROVE  A = Nat
  <1> SUFFICES ASSUME A # Nat PROVE FALSE
    OBVIOUS
  <1>1. PICK m \in Nat \ A : \A k \in Nat \ A : m <= k
    BY Smallest
  <1>2. m # 0 /\ m - 1 \in Nat /\ m - 1 \in A
    BY <1>1
  <1> QED
    BY <1>1, <1>2

\* What f computes at k, from what it has at k - 1.
Collects(f, k) ==
  IF k = 0 THEN <<>>
  ELSE IF toSupervisor[k].type = "event" THEN Append(f[k - 1], toSupervisor[k])
  ELSE f[k - 1]
Builds(f, n) == f = [k \in 0..n |-> Collects(f, k)]

\* A function that is built as InFlight is has the values it computes.
LEMMA Collected ==
  ASSUME NEW f, NEW n \in Nat, Builds(f, n), NEW k \in 0..n
  PROVE  f[k] = Collects(f, k)
  <1> DEFINE g == [i \in 0..n |-> Collects(f, i)]
  <1>1. f = g
    BY DEF Builds
  <1>2. g[k] = Collects(f, k)
    OBVIOUS
  <1> HIDE DEF g
  <1> QED
    BY <1>1, <1>2

\* There is such a function, up to any number.
LEMMA BuiltUpTo ==
  ASSUME NEW N \in Nat
  PROVE  \E f : Builds(f, N)
  <1> DEFINE A == {n \in Nat : \E f : Builds(f, n)}
  <1>1. 0 \in A
    <2> DEFINE f == [k \in 0..0 |-> <<>>]
    <2>1. Builds(f, 0)
      BY DEF Builds, Collects
    <2> QED
      BY <2>1
  <1>2. ASSUME NEW n \in A
        PROVE  n + 1 \in A
    <2>1. PICK f : Builds(f, n)
      OBVIOUS
    <2> DEFINE e == Collects(f, n + 1)
               g == [k \in 0..(n + 1) |-> IF k = n + 1 THEN e ELSE f[k]]
    <2>2. ASSUME NEW k \in 0..(n + 1)
          PROVE  g[k] = Collects(g, k)
      <3>1. CASE k = n + 1
        BY <3>1 DEF Collects
      <3>2. CASE k # n + 1
        <4>1. k \in 0..n /\ f[k] = Collects(f, k)
          BY <2>1, <3>2, Collected
        <4>2. g[k] = f[k] /\ (k # 0 => g[k - 1] = f[k - 1])
          BY <4>1
        <4> QED
          BY <4>1, <4>2 DEF Collects
      <3> QED
        BY <3>1, <3>2
    <2> HIDE DEF e
    <2>3. Builds(g, n + 1)
      BY <2>2 DEF Builds
    <2> QED
      BY <2>3
  <1> HIDE DEF A
  <1>3. A = Nat
    BY <1>1, <1>2, Induct DEF A
  <1> QED
    BY <1>3 DEF A

\* InFlight is the last value of one.
LEMMA InFlightBuilt ==
  ASSUME Shapes
  PROVE  \E f : Builds(f, Len(toSupervisor)) /\ InFlight = f[Len(toSupervisor)]
  <1>1. Len(toSupervisor) \in Nat
    BY PipeShape
  <1> DEFINE N == Len(toSupervisor)
             upTo == CHOOSE f : f = [k \in 0..N |->
                       IF k = 0 THEN <<>>
                       ELSE IF toSupervisor[k].type = "event" THEN Append(f[k - 1], toSupervisor[k])
                       ELSE f[k - 1]]
  <1>2. InFlight = upTo[N]
    BY Zenon DEF InFlight
  <1>3. Builds(upTo, N)
    BY <1>1, BuiltUpTo, ZenonT(30) DEF Builds, Collects
  <1> QED
    BY <1>2, <1>3

\* The events among the first k lines are c, the ones after them come later.
Gathers(c, k, m, n) ==
  /\ c \in Seq(EventLines) /\ m + Len(c) <= n
  /\ \A i \in 1..Len(c) : c[i].n = m + i
  /\ \A j \in 1..Len(toSupervisor) : IsEvent(j) =>
        IF j <= k THEN toSupervisor[j].n <= m + Len(c) ELSE toSupervisor[j].n > m + Len(c)

\* One more line: if it is an event, it is the next one.
LEMMA GathersNext ==
  ASSUME Shapes, NEW m \in Nat, NEW n \in Nat, Carries(toSupervisor, m, n),
         NEW k \in 1..Len(toSupervisor), NEW c, Gathers(c, k - 1, m, n)
  PROVE  /\ IsEvent(k) => Gathers(Append(c, toSupervisor[k]), k, m, n)
         /\ ~IsEvent(k) => Gathers(c, k, m, n)
  <1>0. /\ Len(toSupervisor) \in Nat /\ Len(c) \in Nat /\ c \in Seq(EventLines)
        /\ \A j \in 1..Len(toSupervisor) : IsEvent(j) => toSupervisor[j].n \in Nat
    BY PipeShape, LineShapes, LenProperties DEF Gathers
  <1>1. ASSUME ~IsEvent(k)
        PROVE  Gathers(c, k, m, n)
    BY <1>0, <1>1 DEF Gathers
  <1>2. ASSUME IsEvent(k)
        PROVE  Gathers(Append(c, toSupervisor[k]), k, m, n)
    <2>1. toSupervisor[k].n = m + Len(c) + 1
      <3>1. toSupervisor[k].n > m + Len(c) /\ toSupervisor[k].n <= n
        BY <1>0, <1>2 DEF Gathers, Carries, IsEvent
      <3>2. m + Len(c) + 1 \in (m + 1)..n
        BY <1>0, <1>2, <3>1
      <3>3. PICK j \in 1..Len(toSupervisor) : IsEvent(j) /\ toSupervisor[j].n = m + Len(c) + 1
        BY <3>2 DEF Carries, IsEvent
      <3>4. j >= k
        BY <1>0, <3>3 DEF Gathers
      <3>5. j = k
        <4>1. j > k => toSupervisor[k].n < toSupervisor[j].n
          BY <1>0, <1>2, <3>3 DEF Carries, IsEvent
        <4> QED
          BY <1>0, <1>2, <3>1, <3>3, <3>4, <4>1
      <3> QED
        BY <3>3, <3>5
    <2> DEFINE d == Append(c, toSupervisor[k])
    <2>2. /\ d \in Seq(EventLines) /\ Len(d) = Len(c) + 1 /\ d[Len(c) + 1] = toSupervisor[k]
          /\ \A i \in 1..Len(c) : d[i] = c[i]
          /\ \A i \in 1..Len(d) : i \in 1..Len(c) \/ i = Len(c) + 1
      BY <1>0, <1>2, PipeShape, OneMore
    <2> HIDE DEF d
    <2>3. ASSUME NEW i \in 1..Len(d)
          PROVE  d[i].n = m + i
      <3>1. CASE i \in 1..Len(c)
        BY <2>2, <3>1 DEF Gathers
      <3>2. CASE i = Len(c) + 1
        BY <1>0, <2>1, <2>2, <3>2
      <3> QED
        BY <2>2, <3>1, <3>2
    <2>4. m + Len(d) <= n
      BY <1>0, <1>2, <2>1, <2>2 DEF Carries, IsEvent
    <2>5. ASSUME NEW j \in 1..Len(toSupervisor), IsEvent(j)
          PROVE  IF j <= k THEN toSupervisor[j].n <= m + Len(d) ELSE toSupervisor[j].n > m + Len(d)
      <3>1. CASE j < k
        BY <1>0, <2>2, <2>5, <3>1 DEF Gathers
      <3>2. CASE j = k
        BY <1>0, <2>1, <2>2, <3>2
      <3>3. CASE j > k
        <4>1. toSupervisor[k].n < toSupervisor[j].n
          BY <1>0, <1>2, <2>5, <3>3 DEF Carries, IsEvent
        <4> QED
          BY <1>0, <2>1, <2>2, <2>5, <3>3, <4>1
      <3> QED
        BY <1>0, <3>1, <3>2, <3>3
    <2>6. Gathers(d, k, m, n)
      BY <2>2, <2>3, <2>4, <2>5 DEF Gathers
    <2> QED
      BY <2>6 DEF d
  <1> QED
    BY <1>1, <1>2

\* InFlight is the events of the pipe, counted from m.
LEMMA InFlightGathers ==
  ASSUME Shapes, NEW m \in Nat, NEW n \in Nat, Carries(toSupervisor, m, n)
  PROVE  Gathers(InFlight, Len(toSupervisor), m, n)
  <1> DEFINE N == Len(toSupervisor)
  <1>0. N \in Nat
    BY PipeShape
  <1>1. PICK f : Builds(f, N) /\ InFlight = f[N]
    BY InFlightBuilt
  <1> DEFINE A == {k \in Nat : k <= N => Gathers(f[k], k, m, n)}
  <1>2. 0 \in A
    <2>1. f[0] = <<>>
      BY <1>0, <1>1 DEF Builds, Collects
    <2>2. Gathers(<<>>, 0, m, n)
      <3>1. <<>> \in Seq(EventLines) /\ Len(<<>>) = 0
        OBVIOUS
      <3>2. \A j \in 1..N : IsEvent(j) => toSupervisor[j].n > m /\ ~(j <= 0)
        BY <1>0 DEF Carries, IsEvent
      <3> QED
        BY <3>1, <3>2 DEF Gathers, Carries
    <2> QED
      BY <2>1, <2>2
  <1>3. ASSUME NEW k \in A
        PROVE  k + 1 \in A
    <2> SUFFICES ASSUME k + 1 <= N
                 PROVE  Gathers(f[k + 1], k + 1, m, n)
      OBVIOUS
    <2>1. k + 1 \in 1..N /\ (k + 1) - 1 = k /\ Gathers(f[k], k, m, n)
      BY <1>0
    <2>2. f[k + 1] = IF IsEvent(k + 1) THEN Append(f[k], toSupervisor[k + 1]) ELSE f[k]
      <3>1. f[k + 1] = Collects(f, k + 1)
        BY <1>0, <1>1, <2>1, Collected
      <3> QED
        BY <2>1, <3>1 DEF Collects, IsEvent
    <2>3. /\ IsEvent(k + 1) => Gathers(Append(f[k], toSupervisor[k + 1]), k + 1, m, n)
          /\ ~IsEvent(k + 1) => Gathers(f[k], k + 1, m, n)
      BY <2>1, GathersNext
    <2> QED
      BY <2>2, <2>3
  <1> HIDE DEF A
  <1>4. A = Nat
    BY <1>2, <1>3, Induct DEF A
  <1> QED
    BY <1>0, <1>1, <1>4 DEF A

\* s counts q numbers on from p.
CountsOn(s, p, q) == s = [i \in 1..q |-> p + i]

\* Counting up to p, and on from there.
LEMMA CountedOn ==
  ASSUME NEW p \in Nat, NEW q \in Nat, NEW a, NEW b, CountsOn(a, 0, p), CountsOn(b, p, q)
  PROVE  CountsOn(a \o b, 0, p + q) /\ Len(a \o b) = p + q
  <1>0. a = [i \in 1..p |-> i] /\ b = [i \in 1..q |-> p + i]
    BY DEF CountsOn
  <1>1. /\ a \in Seq(Nat) /\ Len(a) = p
        /\ b \in Seq(Nat) /\ Len(b) = q
    <2>1. a \in [1..p -> Nat] /\ b \in [1..q -> Nat]
      BY <1>0
    <2> QED
      BY <2>1, IsASeq, LenProperties
  <1>2. a \o b \in Seq(Nat) /\ Joins(a \o b, a, b)
    BY <1>1, Extended
  <1> DEFINE u == a \o b
  <1>3. u \in Seq(Nat) /\ Joins(u, a, b)
    BY <1>2
  <1> HIDE DEF u
  <1>4. Len(u) = p + q
    BY <1>1, <1>3 DEF Joins
  <1>5. u \in [1..(p + q) -> Nat]
    BY <1>3, <1>4, LenProperties
  <1>6. ASSUME NEW i \in 1..(p + q)
        PROVE  u[i] = i
    <2>1. CASE i \in 1..p
      BY <1>0, <1>1, <1>3, <2>1 DEF Joins
    <2>2. CASE i \notin 1..p
      <3>1. i - p \in 1..q /\ u[i] = b[i - p]
        BY <1>1, <1>3, <1>4, <2>2 DEF Joins
      <3> QED
        BY <1>0, <3>1
    <2> QED
      BY <2>1, <2>2
  <1>7. u = [i \in 1..(p + q) |-> 0 + i]
    BY <1>5, <1>6
  <1> QED
    BY <1>4, <1>7 DEF u, CountsOn

\* What is recorded and what waits are 1, 2, ... up to HeldCount.
LEMMA HeldInOrder ==
  ASSUME Shapes, Held
  PROVE  /\ CountsOn(Numbers(worker.log) \o Numbers(worker.pending), 0, HeldCount)
         /\ Len(Numbers(worker.log) \o Numbers(worker.pending)) = HeldCount
         /\ HeldCount \in Nat
  <1> DEFINE a == Numbers(worker.log)
             b == Numbers(worker.pending)
             p == Len(worker.log)
             q == Len(worker.pending)
  <1>1. p \in Nat /\ q \in Nat
    BY LenProperties DEF Shapes, WorkerRow
  <1>2. CountsOn(a, 0, p)
    BY <1>1 DEF Numbers, Held, CountsOn
  <1>3. CountsOn(b, p, q)
    BY <1>1 DEF Numbers, Held, CountsOn
  <1>4. HeldCount = p + q
    BY DEF HeldCount
  <1> HIDE DEF a, b, p, q
  <1>5. CountsOn(a \o b, 0, p + q) /\ Len(a \o b) = p + q
    BY <1>1, <1>2, <1>3, CountedOn
  <1>6. CountsOn(a \o b, 0, HeldCount) /\ Len(a \o b) = HeldCount /\ HeldCount \in Nat
    BY <1>1, <1>4, <1>5
  <1> QED
    BY <1>6 DEF a, b

\* With what is in flight, up to the last event emitted.
LEMMA AllInOrder ==
  ASSUME BridgeInv, sup \in Live
  PROVE  CountsOn((Numbers(worker.log) \o Numbers(worker.pending)) \o Numbers(InFlight),
                  0, agent.emitted)
  <1> DEFINE held == Numbers(worker.log) \o Numbers(worker.pending)
  <1>1. CountsOn(held, 0, HeldCount) /\ HeldCount \in Nat
    BY HeldInOrder DEF BridgeInv
  <1>2. agent.emitted \in Nat /\ Carries(toSupervisor, HeldCount, agent.emitted)
    BY DEF BridgeInv, Shapes, AgentRow, Flow
  <1>3. Gathers(InFlight, Len(toSupervisor), HeldCount, agent.emitted)
    BY <1>1, <1>2, InFlightGathers DEF BridgeInv
  <1>4. Len(InFlight) \in Nat /\ Len(toSupervisor) \in Nat
    BY <1>3, LenProperties, PipeShape DEF Gathers, BridgeInv
  <1>5. CountsOn(Numbers(InFlight), HeldCount, Len(InFlight))
    <2>1. \A i \in 1..Len(InFlight) : InFlight[i].n = HeldCount + i
      BY <1>3 DEF Gathers
    <2> QED
      BY <2>1, Zenon DEF Numbers, CountsOn
  <1>6. HeldCount + Len(InFlight) = agent.emitted
    <2> HIDE DEF held
    <2>0. HeldCount + Len(InFlight) <= agent.emitted
      BY <1>3 DEF Gathers
    <2>1. SUFFICES ASSUME HeldCount + Len(InFlight) < agent.emitted
                   PROVE  FALSE
      BY <2>0, <1>1, <1>2, <1>4
    <2>2. agent.emitted \in (HeldCount + 1)..(agent.emitted)
      BY <1>1, <1>2, <1>4, <2>1
    <2>3. PICK i \in 1..Len(toSupervisor) : IsEvent(i) /\ toSupervisor[i].n = agent.emitted
      BY <1>2, <2>2 DEF Carries, IsEvent
    <2>4. agent.emitted <= HeldCount + Len(InFlight)
      BY <1>3, <1>4, <2>3 DEF Gathers
    <2> QED
      BY <1>1, <1>2, <1>4, <2>1, <2>4
  <1> HIDE DEF held
  <1>7. CountsOn(held \o Numbers(InFlight), 0, HeldCount + Len(InFlight))
    BY <1>1, <1>4, <1>5, CountedOn
  <1> QED
    BY <1>6, <1>7 DEF held

\* Worker._event captures every event once, in the order it was emitted and
\* under the invocation it was emitted in, however long the run and whatever
\* breaks it off.
THEOREM CaptureIsFaithfulHolds == Spec => []CaptureIsFaithful
  <1>1. ASSUME BridgeInv
        PROVE  CaptureIsFaithful
    <2>1. CapturedInOrder
      <3> DEFINE held == Numbers(worker.log) \o Numbers(worker.pending)
                 all == held \o Numbers(InFlight)
      <3>1. CountsOn(held, 0, Len(held))
        BY <1>1, HeldInOrder DEF BridgeInv
      <3>2. sup \in Live => CountsOn(all, 0, agent.emitted)
        BY <1>1, AllInOrder
      <3> HIDE DEF held, all
      <3>3. \A n : [i \in 1..n |-> 0 + i] = [i \in 1..n |-> i]
        OBVIOUS
      <3>4. /\ held = [i \in 1..Len(held) |-> i]
            /\ sup \in Live => all = [i \in 1..(agent.emitted) |-> i]
        BY <3>1, <3>2, <3>3, Zenon DEF CountsOn
      <3> QED
        BY <3>4, Zenon DEF CapturedInOrder, held, all
    <2>2. CapturedUnderInvocation
      BY <1>1 DEF CapturedUnderInvocation, BridgeInv, Held
    <2> QED
      BY <2>1, <2>2 DEF CaptureIsFaithful
  <1> QED
    BY <1>1, BridgeInvariant, PTL
=============================================================================
