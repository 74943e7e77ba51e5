\* One polling reader, three messages of a group, a logout and one fault.
CONSTANTS
    alice = alice
    group = group
    bob = bob
    me = me
    r1 = r1
    r2 = r2
    AnyChat = AnyChat
    Me = me
    Chat <- MCGroup
    Id <- MCGroupIds
    Sender <- MCSender
    SenderOf <- MCGroupSenderOf
    DefaultLimit = 3
    DefaultChatsLimit = 2
    Reader = {r1}
    Requests <- MCPolls
    Time <- MCTime
    MaxFaults = 1
SPECIFICATION FairSpec
INVARIANT
    ReceiptsOnRequest
PROPERTY
    UnreadDrains
