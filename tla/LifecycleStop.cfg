\* One invocation after the other.
CONSTANTS
    Daemon = {d1, d2}
    Cli = {c1}
    None = None
    MaxFaults = 0
SPECIFICATION Spec
INVARIANT
    StopIsFinal
