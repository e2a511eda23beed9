------------------------------ MODULE Connection ------------------------------
(****************************************************************************)
(* Util/Connection.hpp: the two ends of one TCP connection, the client's    *)
(* ("client", owned by PacketClient) and the server's ("server", owned by   *)
(* PacketServer).                                                           *)
(*                                                                          *)
(* Each end has application threads, which call Send() and Disconnect(),    *)
(* and one io thread, which runs asio's handlers one at a time: the posted  *)
(* lambdas in order, and the completion handlers of the reads, the writes   *)
(* and the connect.  An operation completes ("ok" or "error") some time     *)
(* before its handler runs, so everything else can happen in between.  A    *)
(* packet crosses the wire as a header and, if it has a body, a body.       *)
(*                                                                          *)
(* asio and the kernel are external: the operations of one kind on a socket *)
(* complete in order, close() makes the pending ones fail, an operation     *)
(* started on a closed socket fails, and a connect that fails leaves the    *)
(* socket open.  An exception that leaves a handler ends the process.       *)
(****************************************************************************)
EXTENDS Naturals, Sequences, Functions

CONSTANTS Bodies,      \* the bodies of application packets
          NoBody,      \* the body of a packet without one
          InitBody,    \* the body of an Init packet
          Payloads,    \* the payloads of KeepAlive packets: clock readings
          SendsInit,   \* {TRUE}: ConnectToServer is given an Init packet; {FALSE}: null; or both
          Leavers,     \* bound: the sides whose application calls Disconnect()
          MaxSends     \* bound: MaxSends[e] packets are sent by the application at e

Sides == {"client", "server"}
Peer(e) == IF e = "client" THEN "server" ELSE "client"

ASSUME ConnectionAssumption ==
    /\ NoBody \notin Bodies \cup Payloads \cup {InitBody}
    /\ Payloads \subseteq Nat \ {0}
    /\ SendsInit \subseteq BOOLEAN
    /\ Leavers \subseteq Sides
    /\ MaxSends \in [Sides -> Nat]

(* A packet: its header ID and its body.  Header.Size is 0 exactly when the *)
(* body is NoBody.                                                          *)
Ids        == {"Data", "KeepAlive", "Init"}
AnyBody    == Bodies \cup Payloads \cup {NoBody, InitBody}
Packets    == [id : Ids, body : AnyBody]
Data       == {m \in Packets : m.id = "Data" /\ m.body \in Bodies \cup {NoBody}}
InitPacket == [id |-> "Init", body |-> InitBody]

\* m_WipInMessage, and a packet in the incoming queue; size tells Header.Size # 0.
Incoming == [id : Ids \cup {"none"}, size : BOOLEAN, body : AnyBody]

\* A lambda posted to the io thread: one of Disconnect(), or one of Send() with its packet.
CloseLambda == [id |-> "close", body |-> NoBody]

VARIABLES
    m_Socket,              \* "new" (not open yet), "open" or "closed"
    m_IsConnecting,
    connect,               \* the client's async_connect and its handler
    io,                    \* the io thread: "running", "returned" or "terminated"
    link,                  \* the TCP connection: "none", "up" or "down"
    wire,                  \* wire[e]: what e has written and its peer has not read
    posted,                \* the lambdas posted to the io thread and not yet run
    m_MessagesOut,
    writes,                \* the async_write operations in progress, oldest first
    m_SentPacketCount,
    reads,                 \* the async_read operations in progress, oldest first
    m_WipInMessage,
    m_MessagesIn,          \* everything pushed to the incoming queue
    m_ReceivedPacketCount,
    m_LastKeepAliveValue,  \* of the server's end
    m_LastKeepAlive,       \* of the server's end: "recent", or "epoch", which is long ago
    sent                   \* history: the packets passed to Send()

linkVars  == <<m_Socket, m_IsConnecting, connect, io, link>>
outVars   == <<m_MessagesOut, writes, m_SentPacketCount>>
inVars    == <<reads, m_WipInMessage, m_MessagesIn, m_ReceivedPacketCount>>
aliveVars == <<m_LastKeepAliveValue, m_LastKeepAlive>>
appVars   == <<posted, sent>>
vars      == <<linkVars, wire, outVars, inVars, aliveVars, appVars>>

Init ==
    /\ m_Socket = [e \in Sides |-> "new"]
    /\ m_IsConnecting = [e \in Sides |-> FALSE]
    /\ connect = "none"
    /\ io = [e \in Sides |-> "running"]
    /\ link = "none"
    /\ wire = [e \in Sides |-> << >>]
    /\ posted = [e \in Sides |-> << >>]
    /\ m_MessagesOut = [e \in Sides |-> << >>]
    /\ writes = [e \in Sides |-> << >>]
    /\ m_SentPacketCount = [e \in Sides |-> 0]
    /\ reads = [e \in Sides |-> << >>]
    /\ m_WipInMessage = [e \in Sides |-> [id |-> "none", size |-> FALSE, body |-> NoBody]]
    /\ m_MessagesIn = [e \in Sides |-> << >>]
    /\ m_ReceivedPacketCount = [e \in Sides |-> 0]
    /\ m_LastKeepAliveValue = 0
    /\ m_LastKeepAlive = "recent"
    /\ sent = [e \in Sides |-> << >>]

IsConnected(e) == m_Socket[e] = "open" /\ ~m_IsConnecting[e]

Running(e) == io[e] # "terminated"

\* The io thread of e is between two handlers.
IoFree(e) == io[e] = "running" /\ (e = "client" => connect # "sending")

------------------------------------------------------------------------------
(* asio. *)

\* An operation just started on e; it fails at once if the socket is closed.
Outcome(e) == IF m_Socket[e] = "open" THEN "pending" ELSE "error"
ReadOp(e, stage) == [stage |-> stage, result |-> Outcome(e)]
WriteOp(e, stage, m) == [stage |-> stage, packet |-> m, result |-> Outcome(e)]

Cancelled(ops) ==
    [i \in DOMAIN ops |-> IF ops[i].result = "pending" THEN [ops[i] EXCEPT !.result = "error"] ELSE ops[i]]

Broken == IF link = "up" THEN "down" ELSE link

\* m_Socket.close(), given what remains of the operations of e.
Close(e, remainingWrites, remainingReads) ==
    /\ m_Socket' = [m_Socket EXCEPT ![e] = "closed"]
    /\ writes' = [writes EXCEPT ![e] = Cancelled(remainingWrites)]
    /\ reads' = [reads EXCEPT ![e] = Cancelled(remainingReads)]
    /\ link' = Broken
    /\ UNCHANGED <<m_IsConnecting, connect, io>>

\* An exception leaves a handler, io_context::run() and the thread.
Terminate(e) ==
    /\ io' = [io EXCEPT ![e] = "terminated"]
    /\ link' = Broken
    /\ UNCHANGED <<m_Socket, m_IsConnecting, connect>>

Pending(ops) == ops # << >> /\ Head(ops).result = "pending"
Completed(ops, result) == ops # << >> /\ Head(ops).result = result

\* The oldest operation completes.
Complete(ops, result) == [ops EXCEPT ![1].result = result]

------------------------------------------------------------------------------
(* Connecting. *)

ConnectToServer ==
    /\ connect = "none"
    /\ connect' = "pending"
    /\ m_IsConnecting' = [m_IsConnecting EXCEPT !["client"] = TRUE]
    /\ m_Socket' = [m_Socket EXCEPT !["client"] = "open"]
    /\ UNCHANGED <<io, link, wire, outVars, inVars, aliveVars, appVars>>

ConnectSucceeds ==
    /\ connect = "pending"
    /\ connect' = "ok"
    /\ link' = "up"
    /\ UNCHANGED <<m_Socket, m_IsConnecting, io, wire, outVars, inVars, aliveVars, appVars>>

ConnectFails ==
    /\ connect = "pending"
    /\ connect' = "error"
    /\ UNCHANGED <<m_Socket, m_IsConnecting, io, link, wire, outVars, inVars, aliveVars, appVars>>

\* The handler of async_connect clears m_IsConnecting first ...
ConnectHandlerBegins ==
    /\ IoFree("client")
    /\ connect \in {"ok", "error"}
    /\ connect' = IF connect = "ok" THEN "sending" ELSE "done"
    /\ m_IsConnecting' = [m_IsConnecting EXCEPT !["client"] = FALSE]
    /\ UNCHANGED <<m_Socket, io, link, wire, outVars, inVars, aliveVars, appVars>>

\* What a Send() that does not throw does.
Post(e, m) ==
    /\ posted' = [posted EXCEPT ![e] = Append(@, m)]
    /\ sent' = [sent EXCEPT ![e] = Append(@, m)]

\* ... then sends the Init packet, if there is one, and reads.
ConnectHandlerEnds ==
    /\ connect = "sending"
    /\ connect' = "done"
    /\ \/ TRUE \in SendsInit /\ Post("client", InitPacket)
       \/ FALSE \in SendsInit /\ UNCHANGED appVars
    /\ reads' = [reads EXCEPT !["client"] = Append(@, ReadOp("client", "header"))]
    /\ UNCHANGED <<m_Socket, m_IsConnecting, io, link, wire, outVars, aliveVars>>
    /\ UNCHANGED <<m_WipInMessage, m_MessagesIn, m_ReceivedPacketCount>>

\* PacketServer accepts the connection: Connection(), then ConnectToClient().
ConnectToClient ==
    /\ link # "none"
    /\ m_Socket["server"] = "new"
    /\ m_Socket' = [m_Socket EXCEPT !["server"] = "open"]
    /\ reads' = [reads EXCEPT !["server"] = Append(@, [stage |-> "header", result |-> "pending"])]
    /\ UNCHANGED <<m_IsConnecting, connect, io, link, wire, outVars, aliveVars, appVars>>
    /\ UNCHANGED <<m_WipInMessage, m_MessagesIn, m_ReceivedPacketCount>>

------------------------------------------------------------------------------
(* The application threads. *)

\* Send() throws when not connected, and changes nothing.
Send(e, m) ==
    /\ Running(e)
    /\ IsConnected(e)
    /\ Len(sent[e]) < MaxSends[e]
    /\ Post(e, m)
    /\ UNCHANGED <<linkVars, wire, outVars, inVars, aliveVars>>

\* Send() of a Ping by PacketServer::SendKeepAlive; the clock does not go back.
SendKeepAlive(p) ==
    /\ Running("server")
    /\ IsConnected("server")
    /\ Len(sent["server"]) < MaxSends["server"]
    /\ p >= m_LastKeepAliveValue
    /\ m_LastKeepAliveValue' = p
    /\ Post("server", [id |-> "KeepAlive", body |-> p])
    /\ UNCHANGED <<linkVars, wire, outVars, inVars, m_LastKeepAlive>>

\* Bound: no second Disconnect() while the lambda of one is waiting to run.
Disconnect(e) ==
    /\ e \in Leavers
    /\ Running(e)
    /\ IsConnected(e)
    /\ CloseLambda \notin Range(posted[e])
    /\ posted' = [posted EXCEPT ![e] = Append(@, CloseLambda)]
    /\ UNCHANGED <<linkVars, wire, outVars, inVars, aliveVars, sent>>

------------------------------------------------------------------------------
(* The io thread: posted lambdas and the handlers of async_write. *)

\* WriteHeader() with `out` queued and `rest` the writes still in progress.
WriteHeader(e, out, rest) ==
    \/ /\ IsConnected(e)
       /\ writes' = [writes EXCEPT ![e] = Append(rest, WriteOp(e, "header", Head(out)))]
       /\ UNCHANGED linkVars
    \/ /\ ~IsConnected(e)
       /\ writes' = [writes EXCEPT ![e] = rest]
       /\ Terminate(e)

\* Mutant: bWritingMessage is not looked at.
RunSendAlwaysWrites(e) ==
    /\ IoFree(e)
    /\ posted[e] # << >> /\ Head(posted[e]) # CloseLambda
    /\ posted' = [posted EXCEPT ![e] = Tail(@)]
    /\ m_MessagesOut' = [m_MessagesOut EXCEPT ![e] = Append(@, Head(posted[e]))]
    /\ WriteHeader(e, m_MessagesOut'[e], writes[e])
    /\ UNCHANGED <<wire, m_SentPacketCount, inVars, aliveVars, sent>>

\* Mutant: push_front() for push_back().
RunSendInFront(e) ==
    /\ IoFree(e)
    /\ posted[e] # << >> /\ Head(posted[e]) # CloseLambda
    /\ posted' = [posted EXCEPT ![e] = Tail(@)]
    /\ m_MessagesOut' = [m_MessagesOut EXCEPT ![e] = <<Head(posted[e])>> \o @]
    /\ IF m_MessagesOut[e] = << >>
       THEN WriteHeader(e, m_MessagesOut'[e], writes[e])
       ELSE UNCHANGED <<writes, linkVars>>
    /\ UNCHANGED <<wire, m_SentPacketCount, inVars, aliveVars, sent>>

RunSend(e) ==
    /\ IoFree(e)
    /\ posted[e] # << >> /\ Head(posted[e]) # CloseLambda
    /\ posted' = [posted EXCEPT ![e] = Tail(@)]
    /\ m_MessagesOut' = [m_MessagesOut EXCEPT ![e] = Append(@, Head(posted[e]))]
    /\ IF m_MessagesOut[e] = << >>
       THEN WriteHeader(e, m_MessagesOut'[e], writes[e])
       ELSE UNCHANGED <<writes, linkVars>>
    /\ UNCHANGED <<wire, m_SentPacketCount, inVars, aliveVars, sent>>

RunDisconnect(e) ==
    /\ IoFree(e)
    /\ posted[e] # << >> /\ Head(posted[e]) = CloseLambda
    /\ posted' = [posted EXCEPT ![e] = Tail(@)]
    /\ Close(e, writes[e], reads[e])
    /\ UNCHANGED <<wire, m_MessagesOut, m_SentPacketCount, aliveVars, sent>>
    /\ UNCHANGED <<m_WipInMessage, m_MessagesIn, m_ReceivedPacketCount>>

HasBody(m) == m.body # NoBody

\* Mutant: WriteHeader() for WriteBody().
OnHeaderWrittenAgain(e) ==
    /\ IoFree(e)
    /\ Completed(writes[e], "ok") /\ Head(writes[e]).stage = "header"
    /\ HasBody(Head(m_MessagesOut[e]))
    /\ writes' = [writes EXCEPT ![e] = Append(Tail(@), WriteOp(e, "header", Head(m_MessagesOut[e])))]
    /\ UNCHANGED <<linkVars, wire, m_MessagesOut, m_SentPacketCount, inVars, aliveVars, appVars>>

\* The header is out, the packet at the front of the queue has a body: WriteBody().
OnHeaderWritten(e) ==
    /\ IoFree(e)
    /\ Completed(writes[e], "ok") /\ Head(writes[e]).stage = "header"
    /\ HasBody(Head(m_MessagesOut[e]))
    /\ writes' = [writes EXCEPT ![e] = Append(Tail(@), WriteOp(e, "body", Head(m_MessagesOut[e])))]
    /\ UNCHANGED <<linkVars, wire, m_MessagesOut, m_SentPacketCount, inVars, aliveVars, appVars>>

\* Mutant: the packets queued meanwhile are left where they are.
OnMessageWrittenStops(e) ==
    /\ IoFree(e)
    /\ Completed(writes[e], "ok")
    /\ Head(writes[e]).stage = "header" => ~HasBody(Head(m_MessagesOut[e]))
    /\ m_MessagesOut' = [m_MessagesOut EXCEPT ![e] = Tail(@)]
    /\ m_SentPacketCount' = [m_SentPacketCount EXCEPT ![e] = @ + 1]
    /\ writes' = [writes EXCEPT ![e] = Tail(@)]
    /\ UNCHANGED <<linkVars, wire, inVars, aliveVars, appVars>>

\* Mutant: a packet without a body is not counted.
OnMessageWrittenUncounted(e) ==
    /\ IoFree(e)
    /\ Completed(writes[e], "ok")
    /\ Head(writes[e]).stage = "header" => ~HasBody(Head(m_MessagesOut[e]))
    /\ m_MessagesOut' = [m_MessagesOut EXCEPT ![e] = Tail(@)]
    /\ m_SentPacketCount' = [m_SentPacketCount EXCEPT ![e] = IF Head(writes[e]).stage = "body" THEN @ + 1 ELSE @]
    /\ IF m_MessagesOut'[e] # << >>
       THEN WriteHeader(e, m_MessagesOut'[e], Tail(writes[e]))
       ELSE writes' = [writes EXCEPT ![e] = Tail(@)] /\ UNCHANGED linkVars
    /\ UNCHANGED <<wire, inVars, aliveVars, appVars>>

\* The packet is out: count it, and go on with the next one.
OnMessageWritten(e) ==
    /\ IoFree(e)
    /\ Completed(writes[e], "ok")
    /\ Head(writes[e]).stage = "header" => ~HasBody(Head(m_MessagesOut[e]))
    /\ m_MessagesOut' = [m_MessagesOut EXCEPT ![e] = Tail(@)]
    /\ m_SentPacketCount' = [m_SentPacketCount EXCEPT ![e] = @ + 1]
    /\ IF m_MessagesOut'[e] # << >>
       THEN WriteHeader(e, m_MessagesOut'[e], Tail(writes[e]))
       ELSE writes' = [writes EXCEPT ![e] = Tail(@)] /\ UNCHANGED linkVars
    /\ UNCHANGED <<wire, inVars, aliveVars, appVars>>

OnWriteFailed(e) ==
    /\ IoFree(e)
    /\ Completed(writes[e], "error")
    /\ Close(e, Tail(writes[e]), reads[e])
    /\ UNCHANGED <<wire, m_MessagesOut, m_SentPacketCount, aliveVars, appVars>>
    /\ UNCHANGED <<m_WipInMessage, m_MessagesIn, m_ReceivedPacketCount>>

------------------------------------------------------------------------------
(* The io thread: the handlers of async_read. *)

\* Mutant: the received packet is passed on with its Header.Size.
WipWithSize(e) == m_WipInMessage[e]

\* What has been read, as the packet it stands for.
Wip(e) == [id |-> m_WipInMessage[e].id, body |-> m_WipInMessage[e].body]

OnHeaderRead(e) ==
    /\ IoFree(e)
    /\ Completed(reads[e], "ok") /\ Head(reads[e]).stage = "header"
    /\ m_WipInMessage[e].size
    /\ reads' = [reads EXCEPT ![e] = Append(Tail(@), ReadOp(e, "body"))]
    /\ UNCHANGED <<linkVars, wire, outVars, aliveVars, appVars>>
    /\ UNCHANGED <<m_WipInMessage, m_MessagesIn, m_ReceivedPacketCount>>

\* A whole packet is there: its body has been read, or its header announced none.
MessageRead(e) ==
    /\ IoFree(e)
    /\ Completed(reads[e], "ok")
    /\ Head(reads[e]).stage = "header" => ~m_WipInMessage[e].size
    /\ m_ReceivedPacketCount' = [m_ReceivedPacketCount EXCEPT ![e] = @ + 1]
    /\ UNCHANGED <<wire, outVars, m_WipInMessage>>

\* Mutant: the call of ReadHeader() is missing.
PushOnly(e) ==
    /\ m_MessagesIn' = [m_MessagesIn EXCEPT ![e] = Append(@, m_WipInMessage[e])]
    /\ reads' = [reads EXCEPT ![e] = Tail(@)]
    /\ UNCHANGED linkVars

\* The end of AddToIncomingMessageQueue(): queue the packet, read the next one.
PushAndReadNext(e) ==
    /\ m_MessagesIn' = [m_MessagesIn EXCEPT ![e] = Append(@, m_WipInMessage[e])]
    /\ reads' = [reads EXCEPT ![e] = Append(Tail(@), ReadOp(e, "header"))]
    /\ UNCHANGED linkVars

\* Any packet without a meaning of its own; an Init packet has one for a server only.
OnDataRead(e) ==
    /\ MessageRead(e)
    /\ Wip(e).id # "KeepAlive" /\ ~(Wip(e).id = "Init" /\ e = "server")
    /\ PushAndReadNext(e)
    /\ UNCHANGED <<aliveVars, appVars>>

\* The client answers a KeepAlive before anything else; Send() throws when closed.
OnPing ==
    /\ MessageRead("client")
    /\ Wip("client").id = "KeepAlive"
    /\ \/ /\ IsConnected("client")
          /\ Post("client", Wip("client"))
          /\ PushAndReadNext("client")
       \/ /\ ~IsConnected("client")
          /\ reads' = [reads EXCEPT !["client"] = Tail(@)]
          /\ Terminate("client")
          /\ UNCHANGED <<appVars, m_MessagesIn>>
    /\ UNCHANGED aliveVars

\* The server wants the payload it sent last; any other one drops the client in the
\* next SendKeepAlive().
OnPong ==
    /\ MessageRead("server")
    /\ Wip("server").id = "KeepAlive"
    /\ m_LastKeepAlive' = IF Wip("server").body = m_LastKeepAliveValue THEN "recent" ELSE "epoch"
    /\ PushAndReadNext("server")
    /\ UNCHANGED <<m_LastKeepAliveValue, appVars>>

\* The server returns from an Init packet without queueing it and without reading on.
OnInit ==
    /\ MessageRead("server")
    /\ Wip("server").id = "Init"
    /\ reads' = [reads EXCEPT !["server"] = Tail(@)]
    /\ UNCHANGED <<linkVars, m_MessagesIn, aliveVars, appVars>>

\* Mutant: a failed read is logged, and the socket left open.
OnReadFailedIgnored(e) ==
    /\ IoFree(e)
    /\ Completed(reads[e], "error")
    /\ reads' = [reads EXCEPT ![e] = Tail(@)]
    /\ UNCHANGED <<linkVars, wire, outVars, aliveVars, appVars>>
    /\ UNCHANGED <<m_WipInMessage, m_MessagesIn, m_ReceivedPacketCount>>

OnReadFailed(e) ==
    /\ IoFree(e)
    /\ Completed(reads[e], "error")
    /\ Close(e, writes[e], Tail(reads[e]))
    /\ UNCHANGED <<wire, m_MessagesOut, m_SentPacketCount, aliveVars, appVars>>
    /\ UNCHANGED <<m_WipInMessage, m_MessagesIn, m_ReceivedPacketCount>>

\* io_context::run() returns when nothing is outstanding; a server always accepts.
IoReturns ==
    /\ io["client"] = "running"
    /\ connect = "done"
    /\ posted["client"] = << >> /\ writes["client"] = << >> /\ reads["client"] = << >>
    /\ io' = [io EXCEPT !["client"] = "returned"]
    /\ UNCHANGED <<m_Socket, m_IsConnecting, connect, link, wire, outVars, inVars, aliveVars, appVars>>

------------------------------------------------------------------------------
(* The kernel and the network. *)

Writes(e, result) ==
    /\ Running(e) /\ Pending(writes[e])
    /\ writes' = [writes EXCEPT ![e] = Complete(@, result)]
    /\ UNCHANGED <<linkVars, m_MessagesOut, m_SentPacketCount, inVars, aliveVars, appVars>>

\* The kernel takes the bytes; they get nowhere once the connection is down.
WriteSucceeds(e) ==
    /\ link # "none"
    /\ Writes(e, "ok")
    /\ wire' = IF link = "up"
               THEN [wire EXCEPT ![e] = Append(@, [part |-> Head(writes[e]).stage, packet |-> Head(writes[e]).packet])]
               ELSE wire

\* The connection is down, or there never was one because the connect has failed.
WriteFails(e) == Writes(e, "error") /\ link # "up" /\ UNCHANGED wire

Reads(e, result) ==
    /\ Running(e) /\ Pending(reads[e])
    /\ reads' = [reads EXCEPT ![e] = Complete(@, result)]
    /\ UNCHANGED <<linkVars, outVars, m_MessagesIn, m_ReceivedPacketCount, aliveVars, appVars>>

\* asio fills the buffer inside m_WipInMessage: the header, or the body.
ReadSucceeds(e) ==
    /\ wire[Peer(e)] # << >>
    /\ Reads(e, "ok")
    /\ wire' = [wire EXCEPT ![Peer(e)] = Tail(@)]
    /\ LET p == Head(wire[Peer(e)]).packet
       IN  m_WipInMessage' =
             IF Head(reads[e]).stage = "header"
             THEN [m_WipInMessage EXCEPT ![e].id = p.id, ![e].size = HasBody(p)]
             ELSE [m_WipInMessage EXCEPT ![e].body = p.body]

ReadFails(e) ==
    /\ link = "down" /\ wire[Peer(e)] = << >>
    /\ Reads(e, "error")
    /\ UNCHANGED <<wire, m_WipInMessage>>

LinkBreaks ==
    /\ link = "up"
    /\ link' = "down"
    /\ UNCHANGED <<m_Socket, m_IsConnecting, connect, io, wire, outVars, inVars, aliveVars, appVars>>

\* What is still on its way when a connection goes down may be lost.
WireLost(e) ==
    /\ link = "down" /\ wire[e] # << >>
    /\ wire' = [wire EXCEPT ![e] = << >>]
    /\ UNCHANGED <<linkVars, outVars, inVars, aliveVars, appVars>>

------------------------------------------------------------------------------
Connecting == ConnectToServer \/ ConnectSucceeds \/ ConnectFails \/ ConnectToClient

Application(e) == Disconnect(e) \/ \E m \in Data : Send(e, m)

\* The handlers both ends have, and those only one of them has.
Handlers(e) ==
    \/ RunSend(e) \/ RunDisconnect(e)
    \/ OnHeaderWritten(e) \/ OnMessageWritten(e) \/ OnWriteFailed(e)
    \/ OnHeaderRead(e) \/ OnDataRead(e) \/ OnReadFailed(e)
ClientHandlers == ConnectHandlerBegins \/ ConnectHandlerEnds \/ OnPing \/ IoReturns
ServerHandlers == OnPong \/ OnInit

IoThread(e) ==
    Handlers(e) \/ (e = "client" /\ ClientHandlers) \/ (e = "server" /\ ServerHandlers)

Kernel(e) == WriteSucceeds(e) \/ WriteFails(e) \/ ReadSucceeds(e) \/ ReadFails(e)

Next ==
    \/ Connecting
    \/ \E e \in Sides : Application(e) \/ Handlers(e) \/ Kernel(e) \/ WireLost(e)
    \/ \E p \in Payloads : SendKeepAlive(p)
    \/ ClientHandlers
    \/ ServerHandlers
    \/ LinkBreaks

Spec == Init /\ [][Next]_vars

\* The io threads, the acceptor and the kernel make progress.  No application has to
\* send or disconnect, and no connection has to break.
Fairness ==
    /\ WF_vars(ConnectSucceeds \/ ConnectFails)
    /\ WF_vars(ConnectToClient)
    /\ \A e \in Sides : WF_vars(IoThread(e)) /\ WF_vars(Kernel(e))

FairSpec == Spec /\ Fairness

------------------------------------------------------------------------------
Outcomes == {"pending", "ok", "error"}
Stages   == {"header", "body"}

WriteOps == [stage : Stages, packet : Packets, result : Outcomes]
ReadOps  == [stage : Stages, result : Outcomes]

TypeOK ==
    /\ m_Socket \in [Sides -> {"new", "open", "closed"}]
    /\ m_IsConnecting \in [Sides -> BOOLEAN]
    /\ connect \in {"none", "pending", "ok", "error", "sending", "done"}
    /\ io \in [Sides -> {"running", "returned", "terminated"}]
    /\ link \in {"none", "up", "down"}
    /\ wire \in [Sides -> Seq([part : Stages, packet : Packets])]
    /\ posted \in [Sides -> Seq(Packets \cup {CloseLambda})]
    /\ m_MessagesOut \in [Sides -> Seq(Packets)]
    /\ writes \in [Sides -> Seq(WriteOps)]
    /\ m_SentPacketCount \in [Sides -> Nat]
    /\ reads \in [Sides -> Seq(ReadOps)]
    /\ m_WipInMessage \in [Sides -> Incoming]
    /\ m_MessagesIn \in [Sides -> Seq(Incoming)]
    /\ m_ReceivedPacketCount \in [Sides -> Nat]
    /\ m_LastKeepAliveValue \in Payloads \cup {0}
    /\ m_LastKeepAlive \in {"recent", "epoch"}
    /\ sent \in [Sides -> Seq(Packets)]

\* asio forbids a second async_write, or async_read, on a socket while one is in
\* progress: bytes of two packets would mix.  Nothing but the emptiness of
\* m_MessagesOut, and who calls ReadHeader() when, keeps the code from doing so.
OneOperation == \A e \in Sides : Len(writes[e]) <= 1 /\ Len(reads[e]) <= 1

\* The bytes asio is writing belong to the packet at the front of m_MessagesOut, as
\* the handlers that peek and pop it assume; the queue is not empty then.
WritesTheFront ==
    \A e \in Sides : \A i \in DOMAIN writes[e] :
        m_MessagesOut[e] # << >> /\ writes[e][i].packet = Head(m_MessagesOut[e])

\* A queue that is not empty is being written: RunSend relies on it when it only
\* queues its packet, or the packet would wait for ever.
QueueIsMoving ==
    \A e \in Sides :
        (m_MessagesOut[e] # << >> /\ IsConnected(e) /\ Running(e)) => writes[e] # << >>

\* Reader and writer agree on where packets begin: a header is read where a header
\* was written, and a body, of the packet whose header came last, where a body was.
InStep ==
    \A e \in Sides :
        (Pending(reads[e]) /\ wire[Peer(e)] # << >>) =>
            LET next == Head(wire[Peer(e)])
            IN  /\ next.part = Head(reads[e]).stage
                /\ next.part = "body" => m_WipInMessage[e].id = next.packet.id

\* The statistics agree: what was counted as received had been sent, and but for the
\* packet whose handler has not run yet, counted as sent.
CountsAgree == \A e \in Sides : m_ReceivedPacketCount[Peer(e)] <= m_SentPacketCount[e] + 1

\* The handler of async_connect is through, the accepted connection is set up.
Established(e) ==
    IsConnected(e) /\ io[e] = "running" /\ link # "none" /\ (e = "client" => connect = "done")

\* The server has counted an Init packet as received and not queued it.
InitConsumed == m_ReceivedPacketCount["server"] > Len(m_MessagesIn["server"])

\* Until its socket is closed a side listens to its peer ("We must now prime the asio
\* context to receive the next message"): nothing but an Init packet makes it stop.
KeepsReading ==
    \A e \in Sides : Established(e) => reads[e] # << >> \/ (e = "server" /\ InitConsumed)

\* No handler of a connection lets an exception out, which would end the process.
NoHandlerThrows == link # "none" => \A e \in Sides : Running(e)

\* A connection that is down is noticed: the socket gets closed, unless an Init packet
\* has made the server stop reading.  A link that is down stays so.
LossIsNoticed ==
    \A e \in Sides : []<>(link # "down" \/ m_Socket[e] # "open" \/ (e = "server" /\ InitConsumed))

\* As long as the connection stays up everything sent is received, the answers to
\* KeepAlives included, unless an Init packet has made the server stop reading.
AllArrives ==
    \A e \in Sides :
        []<>(m_ReceivedPacketCount[Peer(e)] = Len(sent[e]) \/ link # "up" \/ (e = "client" /\ InitConsumed))

------------------------------------------------------------------------------
(* Each direction is a MessageChannel of packets with their bodies.  Of a    *)
(* packet received with size 0 only the ID counts: the queued one has the   *)
(* body of the packet read before it.                                       *)
Received(e) ==
    [i \in DOMAIN m_MessagesIn[e] |->
        LET m == m_MessagesIn[e][i] IN [id |-> m.id, body |-> IF m.size THEN m.body ELSE NoBody]]

ToServer == INSTANCE MessageChannel
    WITH sent <- sent["client"], delivered <- Received("server")
ToClient == INSTANCE MessageChannel
    WITH sent <- sent["server"], delivered <- Received("client")

\* Packets arrive in the order of the calls of Send(), none twice, none skipped, and each
\* with the body it was sent with, unless that was empty.
Channels == ToServer!Spec /\ ToClient!Spec
==============================================================================
