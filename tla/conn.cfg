\* Both ends send and answer, with and without an Init packet, the client may disconnect,
\* the connection may break.
CONSTANTS
    Bodies = {b}
    NoBody = NoBody
    InitBody = InitBody
    Payloads = {1}
    SendsInit = {TRUE, FALSE}
    Leavers = {"client"}
    MaxSends <- OneOne
SPECIFICATION FairSpec
INVARIANTS TypeOK OneOperation WritesTheFront QueueIsMoving InStep CountsAgree KeepsReading
PROPERTIES Channels AllArrives LossIsNoticed
CHECK_DEADLOCK FALSE
