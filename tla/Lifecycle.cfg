\* One `wa start' at a time and three daemons, in turn or in parallel (a start that
\* gives up leaves its daemon behind), one fault; anybody stops them.
CONSTANTS
    Daemon = {d1, d2, d3}
    Cli = {c1}
    None = None
    MaxFaults = 1
SPECIFICATION FairSpec
INVARIANTS
    TypeOK
    ReachableUnlessOverlapped
    ExitCleansUp
    StartFailsOnlyIfDisturbed
PROPERTY
    AskedToExit
