\* One invocation.
CONSTANTS
    c1 = c1
    c2 = c2
    Call = {c1}
    CommandsOf <- MCCommands
    None = None
    RequestTimeout = 1
    CallTimeout = 3
    Lag = 1
SPECIFICATION Spec
INVARIANT
    NotRunningMeansNotDone
