\* One reader, as PacketServer::Update: locks, check-then-take, FIFO, a sleeper is woken.
CONSTANTS
    Producers = {p1, p2}
    Consumers = {c1}
    Reads <- AllReads
    Items = {a, b}
    NoItem = NoItem
    NoThread = NoThread
    MaxLen = 2
SPECIFICATION FairSpec
INVARIANTS TypeOK NoLockCycle TakesFindAnItem
PROPERTIES FifoSpec LaterPushWakes
