\* Two sessions, of an orderly application and one that calls as it likes; connects fail, connections break.
CONSTANTS
    MaxSessions = 2
    MaxSends = 1
    MaxArrivals = 2
    Manners = {TRUE, FALSE}
SPECIFICATION FairSpec
INVARIANTS TypeOK OrderlySurvives
PROPERTIES OnlyCurrentSession WaitReturns DisconnectReturns
CHECK_DEADLOCK FALSE
