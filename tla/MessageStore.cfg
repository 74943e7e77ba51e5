\* Two chats with two messages each, two timestamps: ties, late arrivals,
\* re-deliveries and limits below the number of rows all occur.
CONSTANTS
    alice = alice
    bob = bob
    me = me
    user = user
    group = group
    At = At
    Separator = {plus}
    Server = {user, group}
    UserServer = user
    MinPhoneDigits = 2
    Invalid = Invalid
    AnyChat = AnyChat
    Me = me
    Chat <- MCChat
    Id <- MCId
    Sender <- MCSender
    SenderOf <- MCSenderOf
    DefaultLimit = 3
    DefaultChatsLimit = 1
    Time <- MCTime
    Limits <- MCLimits
SPECIFICATION Spec
INVARIANTS
    TypeOK
    ListIsNewestSuffix
    OverviewAgreesWithList
    ChatsAnswerToTheirNames
PROPERTY
    RedeliveryKeepsPlace
