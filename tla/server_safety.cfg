\* Two clients, walks, updates, stops, restarts and the destructor.
CONSTANTS
    Connections = {c1, c2}
    NoConnection = NoConnection
    Updates <- AnyUpdate
    MaxPosted = 1
    MaxMessages = 2
SPECIFICATION Spec
INVARIANTS TypeOK ListedOrReported MessagesKept
PROPERTIES WalkCleansUp QuietAfterStop
SYMMETRY Symmetry
CHECK_DEADLOCK FALSE
