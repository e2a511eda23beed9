----------------------------- MODULE PacketBuffer -----------------------------
(****************************************************************************)
(* PacketBuffer.hpp: the bytes of a packet's body, from the operators <<    *)
(* that write it through the connection to the operators >> that read it.   *)
(*                                                                          *)
(* One program writes values and another reads values of the same types in  *)
(* the same order, as the Write() and the constructor of a packet do.  One  *)
(* buffer plays both: Transfer is what Connection does to a body on the     *)
(* way.  A reader may also start before the writer is done, as the test     *)
(* programs do.                                                             *)
(*                                                                          *)
(* A byte has Base values, so that uint16_t, Base^2, and uint32_t, kept to  *)
(* MaxBuffer, end where TLC can see it.  A float is the unsigned number     *)
(* with its bits.  The offset is never near the end of uint32_t.            *)
(****************************************************************************)
EXTENDS Integers, Sequences, SequencesExt

CONSTANTS Base,        \* bound: the values of a byte, 256
          MaxBuffer,   \* bound: the maximum of uint32_t
          Values,      \* the typed values that are written
          MaxUnread    \* bound: written only while fewer values are unread

Widths == {1, 2, 4, 8}
Bytes  == 0 .. Base - 1

\* The powers of Base, as many as the widest number has bytes.
Power[i \in 0 .. 8] == IF i = 0 THEN 1 ELSE Base * Power[i - 1]

Max16 == Power[2] - 1

(* A type: a number of `width` bytes, a string, an array or a vector of     *)
(* unsigned numbers of `width` bytes, a locale - two letters and two more   *)
(* or zeros, or four zeros - or a block of bytes, as a game name is.        *)
Kinds == {"number", "string", "array", "vector", "locale", "block"}
Types == [kind : Kinds, width : Widths, signed : BOOLEAN]

\* n is a number of so many bytes.
Fits(n, width, signed) ==
    n \in Int /\ IF signed THEN -Power[width] <= 2 * n /\ 2 * n < Power[width] ELSE 0 <= n /\ n < Power[width]

\* A value is one of its type.
HasItsType(x) ==
    /\ x.type \in Types
    /\ CASE x.type.kind = "number" -> Fits(x.value, x.type.width, x.type.signed)
         [] x.type.kind \in {"array", "vector"} -> x.value \in Seq(0 .. Power[x.type.width] - 1)
         [] OTHER -> x.type.width = 1 /\ x.value \in Seq(Bytes)
    /\ x.type.kind = "locale" => Len(x.value) = 4 /\ (x.value[1] = 0 => x.value = <<0, 0, 0, 0>>)

ASSUME BufferAssumption ==
    /\ Base \in Nat /\ Base > 1
    /\ MaxBuffer \in Nat
    /\ \A x \in Values : HasItsType(x)
    /\ MaxUnread \in Nat

VARIABLES m_Data, m_StartOffset,
          unread,      \* history: the values written and not yet read, in order
          cut,         \* whether the bytes of the last of them are not all there
          got          \* what the last step read: a value, too few bytes, "thrown", or "nothing"

vars == <<m_Data, m_StartOffset, unread, cut, got>>

Nothing == [outcome |-> "nothing"]
Thrown  == [outcome |-> "thrown"]
Short   == [outcome |-> "short"]
Got(written, read) == [outcome |-> "read", written |-> written, read |-> read]

Init == m_Data = << >> /\ m_StartOffset = 0 /\ unread = << >> /\ cut = FALSE /\ got = Nothing

\* The bytes that can still be read; none when the offset is past the end.
Contents == SubSeq(m_Data, m_StartOffset + 1, Len(m_Data))

------------------------------------------------------------------------------
(* Numbers and sequences as bytes. *)

\* Mutant: the bytes are not reduced to eight bits.
LittleEndianUnreduced(n, width) == [i \in 1 .. width |-> n \div Power[i - 1]]

\* htole*() and the bytes of the result; of a negative number, its two's complement.
LittleEndian(n, width) == [i \in 1 .. width |-> (n \div Power[i - 1]) % Base]

\* le*toh() of bytes read.
Unsigned(bytes) ==
    LET sum[i \in 0 .. Len(bytes)] == IF i = 0 THEN 0 ELSE sum[i - 1] + bytes[i] * Power[i - 1]
    IN  sum[Len(bytes)]

\* Mutant: operator>> of a signed type returns the unsigned number.
NumberUnsigned(bytes, signed) == Unsigned(bytes)

Number(bytes, signed) ==
    LET n == Unsigned(bytes)
        m == Power[Len(bytes)]
    IN  IF signed /\ 2 * n >= m THEN n - m ELSE n

Elements(ns, width) == FlattenSeq([i \in DOMAIN ns |-> LittleEndian(ns[i], width)])

\* What operator<< writes.
Encoded(x) ==
    CASE x.type.kind = "number" -> LittleEndian(x.value, x.type.width)
      [] x.type.kind = "array"  -> Elements(x.value, x.type.width)
      [] x.type.kind \in {"string", "vector"} ->
            LittleEndian(Len(x.value), 2) \o Elements(x.value, x.type.width)
      [] OTHER -> x.value

AllEncoded(xs) == FlattenSeq([i \in DOMAIN xs |-> Encoded(xs[i])])

\* The `count` numbers of `width` bytes that `bytes` fill, from the first on; those
\* they do not reach stay 0.
Filled(bytes, count, width) ==
    LET byte(i) == IF i <= Len(bytes) THEN bytes[i] ELSE 0
    IN  [k \in 1 .. count |-> Unsigned([j \in 1 .. width |-> byte((k - 1) * width + j)])]

------------------------------------------------------------------------------
(* Writing. *)

\* Mutant: m_StartOffset is not reset.
GrowKeepingOffset(bytes) ==
    /\ m_Data' = Contents \o bytes
    /\ UNCHANGED m_StartOffset

\* Every Write() begins with RemoveStartOffset().
Grow(bytes) ==
    /\ m_Data' = Contents \o bytes
    /\ m_StartOffset' = 0

Room == MaxBuffer - Len(Contents)

TooLong(x) == x.type.kind \in {"string", "vector"} /\ Len(x.value) > Max16

CanWrite == ~cut /\ Len(unread) < MaxUnread

Write(x) ==
    /\ CanWrite
    /\ ~TooLong(x) /\ Len(Encoded(x)) <= Room
    /\ Grow(Encoded(x))
    /\ unread' = Append(unread, x)
    /\ got' = Nothing
    /\ UNCHANGED cut

\* A length that does not fit throws at once and so does a block, a full buffer when it
\* is met.
WriteThrows(x) ==
    /\ CanWrite
    /\ \/ TooLong(x) /\ UNCHANGED <<m_Data, m_StartOffset>>
       \/ /\ ~TooLong(x) /\ Len(Encoded(x)) > Room
          /\ Grow(IF x.type.kind = "block" THEN << >> ELSE SubSeq(Encoded(x), 1, Room))
    /\ unread' = Append(unread, x)
    /\ cut' = TRUE
    /\ got' = Thrown

\* The body goes through Connection: its size is announced in 16 bits, and so many
\* bytes are received.
Transfer ==
    /\ ~cut /\ m_StartOffset = 0
    /\ Len(m_Data) > Max16
    /\ m_Data' = SubSeq(m_Data, 1, Len(m_Data) % (Max16 + 1))
    /\ cut' = TRUE
    /\ got' = Nothing
    /\ UNCHANGED <<m_StartOffset, unread>>

Clear ==
    /\ m_Data' = << >> /\ m_StartOffset' = 0
    /\ unread' = << >> /\ cut' = FALSE /\ got' = Nothing

------------------------------------------------------------------------------
(* Reading. *)

\* How many of `bytes` a read of a value like x asks for.  Of an array it is the
\* number of elements; of a locale that begins with zero, the two letters.
Asked(x, bytes) ==
    CASE x.type.kind = "number" -> x.type.width
      [] x.type.kind \in {"array", "block"} -> Len(x.value)
      [] x.type.kind \in {"string", "vector"} ->
            IF Len(bytes) < 2 THEN 2 ELSE 2 + Unsigned(SubSeq(bytes, 1, 2)) * x.type.width
      [] OTHER -> IF Len(bytes) >= 2 /\ bytes[1] = 0 THEN 2 ELSE 4

\* What the read returns, given the bytes it asked for.  A vector, empty before, is
\* first resized to as many elements as there are bytes.
Decoded(x, bytes) ==
    CASE x.type.kind = "number" -> Number(bytes, x.type.signed)
      [] x.type.kind = "array"  -> Filled(bytes, Len(x.value), x.type.width)
      [] x.type.kind = "string" -> SubSeq(bytes, 3, Len(bytes))
      [] x.type.kind = "vector" -> Filled(SubSeq(bytes, 3, Len(bytes)), Len(bytes) - 2, x.type.width)
      [] x.type.kind = "block"  -> bytes
      [] OTHER -> IF bytes[1] = 0 THEN <<0, 0, 0, 0>> ELSE bytes

\* How far the read moves on: a locale always by four bytes, skipping unread ones.
Used(x) == IF x.type.kind = "locale" THEN 4 ELSE Asked(x, Contents)

Enough == Len(Contents) >= Asked(Head(unread), Contents)

Read ==
    /\ unread # << >> /\ Enough
    /\ LET x == Head(unread)
       IN  /\ got' = Got(x, Decoded(x, SubSeq(Contents, 1, Asked(x, Contents))))
           /\ m_StartOffset' = m_StartOffset + Used(x)
    /\ unread' = Tail(unread)
    /\ UNCHANGED <<m_Data, cut>>

\* The bytes there were have been read, one by one, when it throws.
ReadThrows ==
    /\ unread # << >> /\ ~Enough /\ Head(unread).type.kind # "block"
    /\ m_StartOffset' = m_StartOffset + Len(Contents)
    /\ got' = Thrown
    /\ UNCHANGED <<m_Data, unread, cut>>

\* ReadArray() returns how many bytes it has read; a game name is filled up with zeros.
ReadShort ==
    /\ unread # << >> /\ ~Enough /\ Head(unread).type.kind = "block"
    /\ m_StartOffset' = m_StartOffset + Len(Contents)
    /\ unread' = Tail(unread)
    /\ got' = Short
    /\ UNCHANGED <<m_Data, cut>>

\* A PeekArray() of more bytes than uint32_t allows behind the offset.  (Past the end,
\* erase() in RemoveStartOffset() is undefined.)
PeekArray ==
    /\ m_StartOffset > 0 /\ m_StartOffset <= Len(m_Data)
    /\ Grow(<< >>)
    /\ got' = Nothing
    /\ UNCHANGED <<unread, cut>>

------------------------------------------------------------------------------
Next ==
    \/ \E x \in Values : Write(x) \/ WriteThrows(x)
    \/ Transfer \/ Clear \/ Read \/ ReadThrows \/ ReadShort \/ PeekArray

Spec == Init /\ [][Next]_vars

------------------------------------------------------------------------------
TypeOK ==
    /\ m_Data \in Seq(Bytes) /\ Len(m_Data) <= MaxBuffer
    /\ m_StartOffset \in Nat
    /\ unread \in Seq(Values) /\ Len(unread) <= MaxUnread
    /\ cut \in BOOLEAN
    /\ got.outcome \in {"nothing", "thrown", "short", "read"}

\* The bytes that are left are those of the values not yet read, in order, however
\* reads and writes alternate and whatever has been read, removed or thrown before;
\* of a body cut short they are the beginning.
StreamIntact ==
    IF cut THEN IsPrefix(Contents, AllEncoded(unread)) ELSE Contents = AllEncoded(unread)

\* The value x as operator>> returns it: a vector of elements wider than a byte has as
\* many elements as bytes, and those that were not written are 0.
WithZeros(x) ==
    IF x.type.kind = "vector" THEN x.value \o [i \in 1 .. Len(x.value) * (x.type.width - 1) |-> 0] ELSE x.value

\* What is read is what was written, but for the zeros behind a vector: of a body cut
\* short, a reader gets the right values, an exception or a count that is too low, never
\* a wrong value.
ReadBack == got.outcome = "read" => got.read = WithZeros(got.written)
==============================================================================
