\* A Ctrl-C that the main thread takes while it waits for input.
SPECIFICATION TerminalSpec
CONSTANTS
    MaxSubmits = 1
CHECK_DEADLOCK FALSE
INVARIANTS
    CtrlCStopsRun
