---------------------------- MODULE TerminalLoss ----------------------------
(***************************************************************************)
(* The interactive command line and its renderer (goal_native/tui.py       *)
(* PiTerminal, cli.py _chat and _run_existing, bridge/terminal.mjs).       *)
(*                                                                         *)
(* Python's main thread reads submissions and runs goals; a Node process   *)
(* owns the terminal.  Two pipes join them: events and submissions.  A     *)
(* Ctrl-C is a SIGINT that Node sends while it takes the controller for    *)
(* busy.  If the renderer is lost, whoever notices first interrupts an     *)
(* armed run: Node itself in its last moments (it exits with 130 then),    *)
(* the thread that waits for its exit, or a write to the broken pipe.      *)
(*                                                                         *)
(* A pending SIGINT is taken by the main thread before its next step.      *)
(* Events that change nothing in the renderer are not kept in the pipe.    *)
(* Module WorkerRun has the steps of a run and of its Ctrl-C handler.      *)
(***************************************************************************)
EXTENDS Naturals, Sequences

CONSTANT MaxSubmits     \* bound on the submissions of a session

ASSUME SubmitAssumption == MaxSubmits \in Nat

VARIABLES
    chat,           \* where the main thread is
    ui,             \* the flags of PiTerminal
    sigint,         \* a SIGINT is pending in the main thread
    events,         \* the pipe to the renderer
    submissions,    \* the pipe from the renderer
    renderer,       \* the Node process
    observed        \* observer: how many submissions; renderer up when armed

terminalVars == <<chat, ui, sigint, events, submissions, renderer, observed>>

-----------------------------------------------------------------------------

\* A run that has begun and that nothing has interrupted.
InService == {"setup", "running"}

\* Where a KeyboardInterrupt leads from each place: cleared input, the two
\* Ctrl-C handlers of _run_existing, the end of the display, or out of _chat.
Unwound ==
    [outside |-> "outside", refresh |-> "cleared", prompt |-> "cleared", reading |-> "cleared",
     cleared |-> "leaving", starting |-> "leaving", arming |-> "leaving",
     armed |-> "leaving", setup |-> "cancelled", running |-> "fencing",
     fencing |-> "refencing", fenced |-> "refencing", cleanup |-> "refencing",
     refencing |-> "leaving",
     cancelled |-> "leaving", showing |-> "unshown", unshown |-> "leaving",
     disarming |-> "leaving", reporting |-> "leaving", failed |-> "leaving",
     leaving |-> "left", waiting |-> "left", left |-> "left"]

\* Where a broken pipe leads, which is an OSError there.
Broken(pc) == IF pc \in {"starting", "reporting"} THEN "failed" ELSE "leaving"

EventsOpen == renderer.at \in {"up", "closing"}

ChatKeeps == UNCHANGED <<sigint, submissions, renderer, observed>>

-----------------------------------------------------------------------------
(* PiTerminal.send, at most one interruption for the life of a renderer.   *)

Send(event, next) ==
    LET broken == ~ui.dropping /\ ~ui.dead /\ ~EventsOpen
        interrupts == (broken \/ (ui.dead /\ ~ui.dropping)) /\ ui.armed /\ ~ui.signalled
    IN  /\ ui' = [ui EXCEPT !.dead = @ \/ broken, !.signalled = @ \/ interrupts]
        /\ events' = IF event # "show" /\ EventsOpen /\ ~ui.dropping /\ ~ui.dead
                     THEN Append(events, event) ELSE events
        /\ chat' = IF interrupts THEN Unwound[chat]
                   ELSE IF broken /\ ~ui.armed THEN Broken(chat)
                   ELSE next

\* _interrupt_on_loss, called with the flags as they are to be.
InterruptOnLoss(flags) ==
    LET interrupts == flags.dead /\ flags.armed /\ ~flags.signalled IN
    /\ ui' = [flags EXCEPT !.signalled = @ \/ interrupts]
    /\ sigint' = (sigint \/ interrupts)

-----------------------------------------------------------------------------
(* The main thread.                                                        *)

\* PiTerminal.__enter__, up to the first prompt.
EnterTerminal ==
    /\ chat = "outside"
    /\ chat' = "refresh"
    /\ renderer' = [renderer EXCEPT !.at = "up"]
    /\ UNCHANGED <<ui, sigint, events, submissions, observed>>

TakeSigint ==
    /\ sigint /\ chat # "left"
    /\ sigint' = FALSE
    /\ chat' = Unwound[chat]
    /\ UNCHANGED <<ui, events, submissions, renderer, observed>>

\* refresh_goals, the prompt, "Input cleared", the lines around a run.
Show ==
    /\ \/ chat = "refresh" /\ Send("show", "prompt")
       \/ chat = "prompt" /\ Send("prompt", "reading")
       \/ chat = "cleared" /\ Send("show", "refresh")
       \/ chat = "starting" /\ Send("show", "arming")
       \/ chat = "reporting" /\ Send("show", "refresh")
       \/ chat = "failed" /\ Send("show", "refresh")
    /\ ChatKeeps

\* A line, or the end of the pipe; a line can be a command that runs nothing.
ReadLine ==
    /\ chat = "reading"
    /\ \/ /\ submissions # <<>>
          /\ submissions' = Tail(submissions)
          /\ chat' = IF Head(submissions) = "request" THEN "starting" ELSE "reporting"
       \/ /\ submissions = <<>> /\ renderer.at = "exited"
          /\ chat' = "leaving"
          /\ UNCHANGED submissions
    /\ UNCHANGED <<ui, sigint, events, renderer, observed>>

ArmRun ==
    /\ chat = "arming"
    /\ InterruptOnLoss([ui EXCEPT !.armed = TRUE])
    /\ chat' = "armed"
    /\ observed' = [observed EXCEPT !.up_when_armed = (renderer.at = "up")]
    /\ UNCHANGED <<events, submissions, renderer>>

BeginRun ==
    /\ \/ chat = "armed" /\ chat' = "setup"
       \/ chat = "setup" /\ chat' = "running"
    /\ UNCHANGED <<ui, events>> /\ ChatKeeps

\* An event of the agent is shown.
ShowEvent == chat = "running" /\ Send("show", "running") /\ ChatKeeps

\* The run ends by itself.
RunOver ==
    /\ chat \in InService
    /\ chat' = IF chat = "setup" THEN "showing" ELSE "cleanup"
    /\ UNCHANGED <<ui, events>> /\ ChatKeeps

\* The Ctrl-C handlers, and the cleanup after them or after the run.
FenceRun ==
    /\ \/ chat = "fencing" /\ chat' = "fenced"
       \/ chat = "fenced" /\ chat' = "cancelled"
       \/ chat = "cleanup" /\ chat' = "showing"
       \/ chat = "refencing" /\ chat' = "cancelled"
    /\ UNCHANGED <<ui, events>> /\ ChatKeeps

Abandoned == [ui EXCEPT !.armed = FALSE, !.dropping = TRUE]

\* The result of a cancelled run, and finish_display.
ShowResult ==
    /\ \/ /\ chat = "cancelled"
          /\ ui' = IF ui.dead THEN Abandoned ELSE ui
          /\ chat' = "showing"
          /\ UNCHANGED events
       \/ chat = "showing" /\ Send("show", "disarming")
       \/ /\ chat = "unshown"
          /\ ui' = IF ui.dead THEN Abandoned ELSE ui
          /\ chat' = IF ui.dead THEN "disarming" ELSE "leaving"
          /\ UNCHANGED events
       \/ /\ chat = "disarming"
          /\ ui' = [ui EXCEPT !.armed = FALSE]
          /\ chat' = "reporting"
          /\ UNCHANGED events
    /\ ChatKeeps

\* __exit__: the renderer is told to close and waited for, and killed if it
\* does not end.
Leave ==
    /\ \/ /\ chat = "leaving"
          /\ ui' = [ui EXCEPT !.armed = FALSE, !.dead = @ \/ ~EventsOpen]
          /\ events' = IF EventsOpen /\ ~ui.dead /\ ~ui.dropping
                       THEN Append(events, "close") ELSE events
          /\ chat' = "waiting"
          /\ UNCHANGED renderer
       \/ /\ chat = "waiting"
          /\ chat' = "left"
          /\ renderer' = IF renderer.at = "exited" THEN renderer
                         ELSE [renderer EXCEPT !.at = "exited", !.status = "killed"]
          /\ UNCHANGED <<ui, events>>
    /\ UNCHANGED <<sigint, submissions, observed>>

-----------------------------------------------------------------------------
(* The thread that waits for the renderer.                                 *)

\* Mutant of Watch: the loss is only noted.
NoteLoss ==
    /\ renderer.at = "exited" /\ ~ui.watched
    /\ ui' = [ui EXCEPT !.watched = TRUE, !.dead = TRUE]
    /\ UNCHANGED <<chat, sigint, events, submissions, renderer, observed>>

Watch ==
    /\ renderer.at = "exited" /\ ~ui.watched
    /\ LET flags == [ui EXCEPT !.watched = TRUE, !.dead = TRUE] IN
       IF renderer.status = "killed" THEN InterruptOnLoss(flags)
       ELSE /\ ui' = [flags EXCEPT !.signalled = @ \/ renderer.status = "interrupted"]
            /\ UNCHANGED sigint
    /\ UNCHANGED <<chat, events, submissions, renderer, observed>>

-----------------------------------------------------------------------------
(* The renderer.                                                           *)

\* The submission is written behind the back of the event loop, a signal at
\* once: the main thread may take the signal before the line.
Submit(line) ==
    /\ renderer.at = "up" /\ ~renderer.busy
    /\ observed.submits < MaxSubmits
    /\ observed' = [observed EXCEPT !.submits = @ + 1]
    /\ submissions' = Append(submissions, line)
    /\ renderer' = [renderer EXCEPT !.busy = TRUE]
    /\ UNCHANGED <<chat, ui, sigint, events>>

\* Ctrl-C, which clears the input where the controller is not busy.
PressCtrlC ==
    /\ renderer.at = "up"
    /\ LET signals == renderer.busy /\ ~renderer.stopping IN
       /\ renderer' = [renderer EXCEPT !.stopping = @ \/ signals]
       /\ sigint' = (sigint \/ (signals /\ chat # "left"))
    /\ UNCHANGED <<chat, ui, events, submissions, observed>>

\* close: of a hang-up, a SIGTERM, an error or the end of the pipe, or because
\* it was told to.
CloseRenderer(told) ==
    LET interrupts == ~told /\ renderer.busy /\ renderer.ready /\ chat # "left" IN
    /\ renderer' = [renderer EXCEPT !.at = "closing",
            !.status = IF interrupts THEN "interrupted" ELSE IF told THEN "told" ELSE "killed"]
    /\ sigint' = (sigint \/ interrupts)

HangUp ==
    /\ renderer.at = "up"
    /\ CloseRenderer(FALSE)
    /\ UNCHANGED <<chat, ui, events, submissions, observed>>

RenderEvent ==
    /\ renderer.at = "up" /\ events # <<>>
    /\ events' = Tail(events)
    /\ IF Head(events) = "close" THEN CloseRenderer(TRUE)
       ELSE /\ renderer' = [renderer EXCEPT !.ready = TRUE, !.busy = FALSE, !.stopping = FALSE]
            /\ UNCHANGED sigint
    /\ UNCHANGED <<chat, ui, submissions, observed>>

\* The pipe of events is closed, the submissions are flushed, Node exits.
EndRenderer ==
    /\ \/ renderer.at = "closing" /\ renderer' = [renderer EXCEPT !.at = "closed"]
       \/ renderer.at = "closed" /\ renderer' = [renderer EXCEPT !.at = "exited"]
    /\ UNCHANGED <<chat, ui, sigint, events, submissions, observed>>

\* A SIGKILL or a crash; what was not written yet is lost.
KillRenderer ==
    /\ renderer.at \in {"up", "closing", "closed"}
    /\ renderer' = [renderer EXCEPT !.at = "exited", !.status = "killed"]
    /\ \E left \in {submissions, <<>>} : submissions' = left
    /\ UNCHANGED <<chat, ui, sigint, events, observed>>

-----------------------------------------------------------------------------

TerminalInit ==
    /\ chat = "outside"
    /\ ui = [armed |-> FALSE, dead |-> FALSE, signalled |-> FALSE, dropping |-> FALSE,
             watched |-> FALSE]
    /\ sigint = FALSE
    /\ events = <<>> /\ submissions = <<>>
    /\ renderer = [at |-> "none", busy |-> TRUE, ready |-> FALSE, stopping |-> FALSE,
                   status |-> "none"]
    /\ observed = [submits |-> 0, up_when_armed |-> FALSE]

\* What the main thread does without the help of an agent.
ChatStep ==
    \/ TakeSigint
    \/ /\ ~sigint
       /\ Show \/ ReadLine \/ ArmRun \/ BeginRun \/ FenceRun \/ ShowResult \/ Leave

TerminalNext ==
    \/ EnterTerminal
    \/ ChatStep
    \/ ~sigint /\ (ShowEvent \/ RunOver)
    \/ Watch
    \/ \E line \in {"request", "command"} : Submit(line)
    \/ PressCtrlC \/ HangUp \/ RenderEvent \/ EndRenderer \/ KillRenderer

TerminalSpec == TerminalInit /\ [][TerminalNext]_terminalVars

\* The main thread and the watcher are scheduled.  Nothing is assumed of the
\* service of a run, which may wait for its provider, nor of the renderer.
TerminalFairness == WF_terminalVars(ChatStep) /\ WF_terminalVars(Watch)

LiveTerminalSpec == TerminalSpec /\ TerminalFairness

-----------------------------------------------------------------------------
(* Properties.                                                             *)

\* docs/ARCHITECTURE.md, "Python also watches renderer death and interrupts
\* active work": once the renderer is gone the session ends, without waiting
\* for the provider, wherever the loss finds it.  The exception is a run that
\* begins when the one interruption for the loss has been used up before it.
LossEndsSession ==
    (renderer.at = "exited") ~>
        \/ chat = "left"
        \/ /\ chat \in InService /\ ui.signalled /\ ~sigint
           /\ ~observed.up_when_armed

\* README.md, "In the Pi editor, Ctrl-C stops an active run or clears input":
\* while a run is in service, and every event is read, Ctrl-C is a signal.
CtrlCStopsRun ==
    chat \in InService /\ renderer.at = "up" /\ events = <<>> /\ ~sigint
        => renderer.busy /\ ~renderer.stopping
=============================================================================
