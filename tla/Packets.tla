-------------------------------- MODULE Packets --------------------------------
(****************************************************************************)
(* What the packets of the library write, and what is read of them at the   *)
(* other end of a Connection: Init and Disconnect from a client, ServerInfo *)
(* and Kick from a server; and the look-up of a field in the server's JSON. *)
(*                                                                          *)
(* A body is a sequence of bytes; a char of a string is its byte.  One      *)
(* packet is on its way in a direction at a time, Connection shows that     *)
(* packets arrive in order and unchanged.  A Connection reads every body    *)
(* into the same buffer, which a packet without a body leaves as it is.     *)
(****************************************************************************)
EXTENDS LocaleInfo

CONSTANTS Names,        \* names the system's locale may have, as texts
          Plain,        \* locales another implementation sends as they are, as bytes
          Messages,     \* the messages of Kick packets
          Jsons,        \* the texts of ServerInfo packets
          Key,          \* the field the client looks up
          GameName,     \* 8 chars
          GameVersion,  \* 4 bytes
          MaxPackets    \* bound: packets sent by both ends together

\* The size of a body is announced in two bytes; a ServerInfo has 14 besides its text.
\* (PacketBuffer shows what becomes of a longer one.)
ASSUME PacketsAssumption ==
    /\ GameName \in [1 .. 8 -> Byte] /\ GameVersion \in [1 .. 4 -> Byte]
    /\ Names \subseteq Seq(Char) /\ Plain \subseteq [1 .. 4 -> Byte]
    /\ \A text \in Messages \cup Jsons : text \in Seq(Byte) /\ Len(text) + 14 < 65536
    /\ Key \in Seq(Byte)
    /\ MaxPackets \in Nat

Ends == {"client", "server"}
Peer(e) == IF e = "client" THEN "server" ELSE "client"

\* NextInitStep: ServerInfo, Join.  Kick::MessageType: Raw, Translatable.
Steps == {0, 1}
Raw   == 0
Types == {Raw, 1}
NoName == [i \in 1 .. 8 |-> 0]

InitPacket(locale, next) ==
    [id |-> "Init", name |-> GameName, version |-> GameVersion, locale |-> locale, next |-> next]
ServerInfo(json)    == [id |-> "ServerInfo", name |-> GameName, version |-> GameVersion, json |-> json]
Kick(type, message) == [id |-> "Kick", type |-> type, message |-> message]
Disconnect          == [id |-> "Disconnect"]
Nothing             == [id |-> "none"]
Thrown              == [id |-> "thrown"]

------------------------------------------------------------------------------
(* Write(). *)

\* Mutant: the higher byte of the length is lost.
StringBytes_Short(text) == <<Len(text) % 256, 0>> \o text

\* A string is its length in two bytes, the lower one first, then its chars.
StringBytes(text) == <<Len(text) % 256, Len(text) \div 256>> \o text

WriteInit(p)       == p.name \o p.version \o Written(p.locale) \o <<p.next>>
WriteServerInfo(p) == p.name \o p.version \o StringBytes(p.json)

WriteKick(p) == IF p.message = << >> THEN << >> ELSE <<p.type>> \o StringBytes(p.message)

Body(p) ==
    CASE p.id = "Init"       -> WriteInit(p)
      [] p.id = "ServerInfo" -> WriteServerInfo(p)
      [] p.id = "Kick"       -> WriteKick(p)
      [] p.id = "Disconnect" -> << >>

------------------------------------------------------------------------------
(* The constructors from a PacketBuffer.  They read from position at. *)

Bytes(body, at, n) == SubSeq(body, at, at + n - 1)
Has(body, at, n)   == at + n - 1 <= Len(body)
Uint16(body, at)   == body[at] + 256 * body[at + 1]
HasString(body, at) == Has(body, at, 2) /\ Has(body, at + 2, Uint16(body, at))
String(body, at)    == Bytes(body, at + 2, Uint16(body, at))

\* Mutant: after a bad language the country is not skipped.
AfterLocale_NoSkip(body, at) ==
    IF Read(Bytes(body, at, 4)) = NoLocale THEN at + 2 ELSE at + 4

\* The country is read, or after a bad language skipped.
AfterLocale(body, at) == at + 4

\* The game name is read into a copy: eight bytes are passed, the packet's stays zero.
ReadInit(body) ==
    LET at == 1 + 8 + 4
    IN  [id |-> "Init", name |-> NoName, version |-> Bytes(body, 1 + 8, 4),
         locale |-> Read(Bytes(body, at, 4)), next |-> body[AfterLocale(body, at)]]

ReadServerInfo(body) ==
    LET at == 1 + 8 + 4
    IN  IF Has(body, 1 + 8, 4) /\ HasString(body, at)
        THEN [id |-> "ServerInfo", name |-> NoName, version |-> Bytes(body, 1 + 8, 4), json |-> String(body, at)]
        ELSE Thrown

ReadKick(body) ==
    IF body = << >> THEN Kick(Raw, << >>)
    ELSE IF HasString(body, 2) THEN Kick(body[1], String(body, 2))
    ELSE Thrown

Packet(id, body) ==
    CASE id = "Init"       -> ReadInit(body)
      [] id = "ServerInfo" -> ReadServerInfo(body)
      [] id = "Kick"       -> ReadKick(body)
      [] id = "Disconnect" -> Disconnect

------------------------------------------------------------------------------
VARIABLES
    name,           \* of the client's system's locale
    sent,           \* sent[e]: the packet e has sent last
    count,          \* how many packets have been sent
    wire,           \* wire[e]: the header's ID and the body on the way from e, or Nothing
    m_WipInMessage, \* the body e has read last
    received,       \* the packet e has made of it
    json,           \* the text SimpleJsonParse() searches
    valueStart,     \* its position there, or 0 while it is not searching
    value           \* what it has found, at first nothing

sendVars == <<sent, count, wire>>
readVars == <<m_WipInMessage, received>>
jsonVars == <<json, valueStart, value>>
vars == <<name, sendVars, readVars, jsonVars>>

Init ==
    /\ name \in Names
    /\ sent = [e \in Ends |-> Nothing]
    /\ count = 0
    /\ wire = [e \in Ends |-> Nothing]
    /\ m_WipInMessage = [e \in Ends |-> << >>]
    /\ received = [e \in Ends |-> Nothing]
    /\ json = << >> /\ valueStart = 0 /\ value = << >>

CanSend(e) == wire[e] = Nothing /\ count < MaxPackets

SendBody(e, p, body) ==
    /\ count' = count + 1
    /\ sent' = [sent EXCEPT ![e] = p]
    /\ wire' = [wire EXCEPT ![e] = [id |-> p.id, body |-> body]]
    /\ UNCHANGED <<name, readVars, jsonVars>>

Send(e, p) == SendBody(e, p, Body(p))

\* PacketClient::Connect(); the status request differs in the next step.
SendInit ==
    /\ CanSend("client")
    /\ \E next \in Steps : Send("client", InitPacket(Current(name), next))

\* Another implementation of the protocol, which does not normalise its locale.
SendPlainInit ==
    /\ CanSend("client")
    /\ \E bytes \in Plain, next \in Steps :
           SendBody("client", InitPacket(Read(bytes), next), GameName \o GameVersion \o bytes \o <<next>>)

SendDisconnect == CanSend("client") /\ Send("client", Disconnect)
SendServerInfo == CanSend("server") /\ \E j \in Jsons : Send("server", ServerInfo(j))
SendKick == CanSend("server") /\ \E type \in Types, message \in Messages : Send("server", Kick(type, message))

\* A Connection lets no other Init packet through than one of this size.
InitSize == 17

\* ReadHeader(), ReadBody() if there is one, and the constructor for the ID.  After an
\* Init packet the server's end does not read on, an exception ends it.
Receive(e) ==
    LET w == wire[Peer(e)]
        body == IF w.body = << >> THEN m_WipInMessage[e] ELSE w.body
    IN  /\ w # Nothing
        /\ e = "server" => received[e].id \notin {"Init", "thrown"}
        /\ wire' = [wire EXCEPT ![Peer(e)] = Nothing]
        /\ m_WipInMessage' = [m_WipInMessage EXCEPT ![e] = body]
        /\ received' = [received EXCEPT ![e] =
               IF w.id = "Init" /\ Len(w.body) # InitSize THEN Thrown ELSE Packet(w.id, body)]
        /\ UNCHANGED <<name, sent, count, jsonVars>>

------------------------------------------------------------------------------
(* SimpleJsonParse<std::string>(), a character of the text at a time. *)

Quote == 34
Backslash == 92
Colon == 58
Space == 32
Skipped == {Colon, Space, 10, 13, 9}     \* and the other white space

jsonKey == <<Quote>> \o Key \o <<Quote>>
Occurs(at) == Has(json, at, Len(jsonKey)) /\ Bytes(json, at, Len(jsonKey)) = jsonKey
OccursFirst(at) == Occurs(at) /\ \A i \in 1 .. at - 1 : ~Occurs(i)
Index == CHOOSE at \in DOMAIN json : OccursFirst(at)

Return(found) == value' = found /\ valueStart' = 0

Ask ==
    /\ received["client"].id = "ServerInfo"
    /\ valueStart = 0
    /\ json' = received["client"].json
    /\ value' = << >>
    /\ valueStart' = -1
    /\ UNCHANGED <<name, sendVars, readVars>>

\* Mutant: the room behind the key is not looked at.
FindKey_NoRoom ==
    /\ valueStart = -1
    /\ IF \E at \in DOMAIN json : Occurs(at)
       THEN valueStart' = Index + Len(jsonKey) + 1 /\ UNCHANGED value
       ELSE Return(<< >>)
    /\ UNCHANGED <<name, sendVars, readVars, json>>

\* The search for the key begins the search for its value, if there is room for one.
\* One character after the key is passed whatever it is.
FindKey ==
    /\ valueStart = -1
    /\ IF /\ Len(jsonKey) + 3 < Len(json)
          /\ \E at \in DOMAIN json : OccursFirst(at)
          /\ Index - 1 + Len(jsonKey) + 3 < Len(json)
       THEN valueStart' = Index + Len(jsonKey) + 1 /\ UNCHANGED value
       ELSE Return(<< >>)
    /\ UNCHANGED <<name, sendVars, readVars, json>>

\* The break leaves only the switch.
OnQuote == valueStart' = valueStart + 1 /\ UNCHANGED value

FindValue ==
    /\ valueStart > 0
    /\ \/ /\ valueStart <= Len(json) /\ json[valueStart] \in Skipped
          /\ valueStart' = valueStart + 1 /\ UNCHANGED value
       \/ /\ valueStart <= Len(json) /\ json[valueStart] = Quote
          /\ OnQuote
       \/ /\ ~(valueStart <= Len(json) /\ json[valueStart] \in Skipped \cup {Quote})
          /\ Return(<< >>)
    /\ UNCHANGED <<name, sendVars, readVars, json>>

------------------------------------------------------------------------------
Next ==
    \/ SendInit \/ SendPlainInit \/ SendDisconnect \/ SendServerInfo \/ SendKick
    \/ \E e \in Ends : Receive(e)
    \/ Ask \/ FindKey \/ FindValue

Spec == Init /\ [][Next]_vars

------------------------------------------------------------------------------
AnyPacket ==
    [id : {"none", "thrown", "Disconnect"}]
        \cup [id : {"Init"}, name : [1 .. 8 -> Byte], version : [1 .. 4 -> Byte], locale : Locales, next : Byte]
        \cup [id : {"ServerInfo"}, name : [1 .. 8 -> Byte], version : [1 .. 4 -> Byte], json : Seq(Byte)]
        \cup [id : {"Kick"}, type : Byte, message : Seq(Byte)]

TypeOK ==
    /\ name \in Names
    /\ sent \in [Ends -> AnyPacket] /\ received \in [Ends -> AnyPacket]
    /\ count \in 0 .. MaxPackets
    /\ wire \in [Ends -> {Nothing} \cup [id : {"Init", "Disconnect", "ServerInfo", "Kick"}, body : Seq(Byte)]]
    /\ m_WipInMessage \in [Ends -> Seq(Byte)]
    /\ json \in Seq(Byte) /\ valueStart \in -1 .. Len(json) + 1
    /\ value \in Seq(Byte)

\* What e has made of the packet its peer has sent last, when it has been received.
Arrived(e, id) == wire[Peer(e)] = Nothing /\ sent[Peer(e)].id = id

\* The server takes Init packets of one size only, and throws on another: every locale
\* is written in as many bytes, and so no client of this library makes it throw.
InitHasItsSize == received["server"] # Thrown

\* The next step and the version arrive whatever the locale before them is: after a
\* language it does not accept the reader skips the country.
NextArrives ==
    LET p == sent["client"]
        q == received["server"]
    IN  (Arrived("server", "Init") /\ q.id = "Init") => q.next = p.next /\ q.version = p.version

\* The server can print the locale it has received, and what it prints and what it
\* writes is read as the same locale; a valid one is printed as the client prints it.
LocaleArrives ==
    LET p == sent["client"]
        q == received["server"]
    IN  (Arrived("server", "Init") /\ q.id = "Init") =>
            /\ IsValid(q.locale)
            /\ Parsed(Printed(q.locale)) = q.locale
            /\ Read(Written(q.locale)) = q.locale
            /\ IsValid(p.locale) => Printed(q.locale) = Printed(p.locale)

\* Texts arrive, long ones too, and the type of a Kick if it has a message.
TextsArrive ==
    LET p == sent["server"]
        q == received["client"]
    IN  /\ Arrived("client", "ServerInfo") => q.id = "ServerInfo" /\ q.json = p.json
        /\ (Arrived("client", "Kick") /\ p.message # << >>) => q = p

\* "Looks for this pattern inside JSON: "key": "value"": when the search is over, a field
\* whose value is at least one character long has been found.
FieldFound ==
    \A at \in DOMAIN json, n \in 1 .. Len(json) :
        LET from == at + Len(jsonKey)
            v == Bytes(json, from + 3, n)
        IN  (/\ valueStart = 0
             /\ OccursFirst(at) /\ Has(json, from, n + 4)
             /\ Bytes(json, from, n + 4) = <<Colon, Space, Quote>> \o v \o <<Quote>>
             /\ \A i \in DOMAIN v : v[i] \notin {Quote, Backslash}) => value = v
================================================================================
