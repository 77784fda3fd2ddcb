----------------------------- MODULE MCSessions -----------------------------
(* TLC instance of three components made of threads and processes: the     *)
(* bridge and its agent, the background jobs of the server, the session of *)
(* a terminal.  They share no variable: a behaviour is one of a single     *)
(* part.                                                                   *)
EXTENDS BridgeSession, ServerRun, TerminalLoss

VARIABLE part

SessionsInit ==
    /\ part \in {"bridge", "server", "terminal"}
    /\ Init /\ ServerInit /\ TerminalInit

SessionsNext ==
    /\ UNCHANGED part
    /\ \/ part = "bridge" /\ Next /\ UNCHANGED <<serverVars, terminalVars>>
       \/ part = "server" /\ ServerNext /\ UNCHANGED <<vars, terminalVars>>
       \/ part = "terminal" /\ TerminalNext /\ UNCHANGED <<vars, serverVars>>

SessionsSpec ==
    /\ SessionsInit /\ [][SessionsNext]_<<part, vars, serverVars, terminalVars>>
    /\ BridgeFairness /\ ServerFairness /\ TerminalFairness
=============================================================================
