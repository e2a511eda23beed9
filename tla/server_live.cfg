\* The application keeps sending KeepAlives.
CONSTANTS
    Connections = {c1, c2}
    NoConnection = NoConnection
    Updates <- NoUpdate
    MaxPosted = 1
    MaxMessages = 1
SPECIFICATION FairSpec
PROPERTY SilentClientIsReported
CHECK_DEADLOCK FALSE
