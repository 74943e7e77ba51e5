\* A login and a login-qr at the same time.
CONSTANTS
    Request = {r1, r2}
    None = None
SPECIFICATION Spec
PROPERTY
    AbortSparesOthers
