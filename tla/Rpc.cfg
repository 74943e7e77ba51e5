\* An invocation of any command and one of `wa stop', with time to spare for a local delay.
CONSTANTS
    c1 = c1
    c2 = c2
    Call = {c1, c2}
    CommandsOf <- MCCommands
    None = None
    RequestTimeout = 1
    CallTimeout = 3
    Lag = 1
SPECIFICATION FairSpec
INVARIANTS
    TypeOK
    DaemonAnswersFirst
    DownMeansDown
PROPERTIES
    RefinesCallContract
    CallsEnd
    HandlersEnd
