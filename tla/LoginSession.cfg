\* Three login or login-qr requests at a time on one client, and a status request.
CONSTANTS
    Request = {r1, r2, r3}
    None = None
SPECIFICATION FairStatusSpec
INVARIANTS
    StatusTypeOK
    GuardIsExact
    ChannelIsRead
    ConnectedStatusHeld
PROPERTY
    GuardIsReleased
