\* Bytes have four values, a length at most 15; the buffer is full at 24 bytes.
CONSTANTS
    Base = 4
    MaxBuffer = 24
    Values <- SomeValues
    MaxUnread = 3
SPECIFICATION Spec
INVARIANTS TypeOK StreamIntact ReadBack
