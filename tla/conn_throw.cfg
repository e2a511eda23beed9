\* A handler calls Send() or WriteHeader() on a socket closed since.
CONSTANTS
    Bodies = {b}
    NoBody = NoBody
    InitBody = InitBody
    Payloads = {1}
    SendsInit = {FALSE}
    Leavers = {"client"}
    MaxSends <- OneOne
SPECIFICATION Spec
INVARIANT NoHandlerThrows
CHECK_DEADLOCK FALSE
