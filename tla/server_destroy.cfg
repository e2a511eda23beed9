\* A silent client is dropped while its read is pending.
CONSTANTS
    Connections = {c1}
    NoConnection = NoConnection
    Updates <- NoUpdate
    MaxPosted = 1
    MaxMessages = 0
SPECIFICATION Spec
INVARIANT DestroyedAtRest
CHECK_DEADLOCK FALSE
