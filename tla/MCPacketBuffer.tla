---------------------------- MODULE MCPacketBuffer ----------------------------
EXTENDS PacketBuffer

NumberOf(width, signed, n) == [type |-> [kind |-> "number", width |-> width, signed |-> signed], value |-> n]
SequenceOf(kind, width, s) == [type |-> [kind |-> kind, width |-> width, signed |-> FALSE], value |-> s]
Letters(n) == [i \in 1 .. n |-> i % Base]

\* Both ends of the signed types, every width, empty and longest strings, one too long.
SomeValues ==
    {NumberOf(1, FALSE, 3), NumberOf(1, TRUE, -2), NumberOf(2, TRUE, 7), NumberOf(2, TRUE, -8),
     NumberOf(4, TRUE, -1), NumberOf(4, FALSE, 228), NumberOf(8, FALSE, 65534), NumberOf(8, TRUE, -32768),
     SequenceOf("string", 1, << >>), SequenceOf("string", 1, Letters(2)),
     SequenceOf("string", 1, Letters(Max16 - 1)), SequenceOf("string", 1, Letters(Max16 + 1)),
     SequenceOf("vector", 1, <<3, 0>>), SequenceOf("vector", 2, <<14, 3>>),
     SequenceOf("array", 1, <<1, 2, 3>>),
     SequenceOf("locale", 1, <<0, 0, 0, 0>>), SequenceOf("locale", 1, <<1, 2, 3, 1>>), SequenceOf("block", 1, <<1, 0, 3>>)}
==============================================================================
