\* Two requests, of two rows each, and the event goroutine around a group that is renamed twice.
CONSTANTS
    g1 = g1
    q1 = q1
    q2 = q2
    Group = {g1}
    Request = {q1, q2}
    RowLists <- MCRowLists
    MaxRenames = 2
SPECIFICATION FairSpec
INVARIANTS
    TypeOK
    CacheNotOlderThanEvents
    AnswersNotOlderThanRequest
    OneNamePerResponse
PROPERTIES
    RefinesSubjectReads
    RequestsEnd
    CacheConverges
