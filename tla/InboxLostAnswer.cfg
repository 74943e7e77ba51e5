\* One reader and one fault: are only messages that were returned seen?
CONSTANTS
    alice = alice
    group = group
    bob = bob
    me = me
    r1 = r1
    r2 = r2
    AnyChat = AnyChat
    Me = me
    Chat <- MCChat
    Id <- MCId
    Sender <- MCSender
    SenderOf <- MCSenderOf
    DefaultLimit = 3
    DefaultChatsLimit = 2
    Reader = {r1}
    Requests <- MCRequests
    Time <- MCTime
    MaxFaults = 1
SPECIFICATION Spec
INVARIANT
    SeenMeansHanded
