----------------------------- MODULE PacketClient -----------------------------
(****************************************************************************)
(* PacketClient.hpp: the life of a client over several sessions.            *)
(*                                                                          *)
(* An application thread calls Connect(), WaitForConnect(), Send(),         *)
(* Disconnect() or DisconnectWithError(), and the destructor; another       *)
(* thread, or the same, takes packets from Incoming().  Connect() makes a   *)
(* Connection and a thread that runs the io_context; Disconnect() stops the *)
(* io_context, joins the thread and gives the Connection up without         *)
(* destroying it.  Sessions are numbered by their Connect().                *)
(*                                                                          *)
(* Of a Connection this module keeps what the client sees of it: its        *)
(* socket, m_IsConnecting, the handlers pending in the io_context, and the  *)
(* packets it has sent and read; Connection is its detailed model.          *)
(*                                                                          *)
(* asio is external: run() returns when the io_context is stopped or has no *)
(* work left, which also stops it, and returns at once while it is stopped; *)
(* handlers that were pending stay so.  A std::thread that is joinable when *)
(* it is assigned to or destroyed ends the process, and so does an          *)
(* exception that leaves a handler or a destructor.                         *)
(****************************************************************************)
EXTENDS Naturals, Sequences

CONSTANTS MaxSessions,  \* bound: the application calls Connect() so often
          MaxSends,     \* bound: it sends so many packets in a session
          MaxArrivals,  \* bound: so many packets arrive in a session
          Manners       \* whether the application is orderly: it waits after Connect(),
                        \*   and calls it again only after Disconnect()

ASSUME ClientAssumption ==
    /\ MaxSessions \in Nat /\ MaxSends \in Nat /\ MaxArrivals \in Nat
    /\ Manners \subseteq BOOLEAN

Sessions == 1 .. MaxSessions
NoConnection == 0

VARIABLES
    session,         \* the sessions begun so far
    m_Connection,    \* the session whose Connection the client owns, or none
    m_ThreadContext, \* "none" (not joinable), "running", or "returned" from run()
    stopped,         \* the io_context has been stopped
    io,              \* the session whose connect handler is in the middle, or none
    posted,          \* the lambdas of Send() not yet run: session and packet
    m_Socket,        \* of each session's Connection: "none", "open" or "closed"
    m_IsConnecting,
    connect,         \* its async_connect and the handler of it
    reading,         \* its async_read is pending
    link,            \* the TCP connection of a session: "none", "up" or "down"
    arrived,         \* how many packets of a session have been received
    m_MessagesOut,   \* is the session's queue "empty", being "written", or "stuck"
    sent,            \* all packets ever put there, in order
    ReceiveQueue,    \* the received packets, each as its session
    m_LastDisconnectInfo,
    orderly,         \* the application's manners
    user,            \* the call the application is in
    dying,           \* ... on behalf of the destructor
    ended            \* the process has been terminated

outVars        == <<m_MessagesOut, sent>>
connectionVars == <<m_Socket, m_IsConnecting, connect, reading, link, arrived, outVars>>
contextVars    == <<m_ThreadContext, stopped, io, posted>>
clientVars     == <<session, m_Connection, m_LastDisconnectInfo>>
userVars       == <<orderly, user, dying>>
vars == <<connectionVars, contextVars, clientVars, userVars, ReceiveQueue, ended>>

Init ==
    /\ session = 0 /\ m_Connection = NoConnection
    /\ m_ThreadContext = "none" /\ stopped = FALSE /\ io = NoConnection /\ posted = << >>
    /\ m_Socket = [s \in Sessions |-> "none"]
    /\ m_IsConnecting = [s \in Sessions |-> FALSE]
    /\ connect = [s \in Sessions |-> "none"]
    /\ reading = [s \in Sessions |-> FALSE]
    /\ link = [s \in Sessions |-> "none"]
    /\ arrived = [s \in Sessions |-> 0]
    /\ m_MessagesOut = [s \in Sessions |-> "empty"]
    /\ sent = [s \in Sessions |-> << >>]
    /\ ReceiveQueue = << >>
    /\ m_LastDisconnectInfo = "Unknown"
    /\ orderly \in Manners
    /\ user = "idle" /\ dying = FALSE /\ ended = FALSE

IsConnecting == m_Connection # NoConnection /\ m_IsConnecting[m_Connection]
IsConnected  == m_Connection # NoConnection /\ m_Socket[m_Connection] = "open" /\ ~IsConnecting

Joinable == m_ThreadContext # "none"

\* The application may make another call.
UserFree == user = "idle" /\ ~dying /\ ~ended

------------------------------------------------------------------------------
(* The application. *)

MayConnect == UserFree /\ session < MaxSessions /\ (orderly => m_Connection = NoConnection)

\* The address cannot be resolved: Connect() catches the exception.
Connect_Unresolved ==
    /\ MayConnect
    /\ m_LastDisconnectInfo' = "ConnectionError"
    /\ UNCHANGED <<connectionVars, contextVars, session, m_Connection, userVars, ReceiveQueue, ended>>

\* Mutant: a Connection the client has is kept.
Own_KeepsOld(s) == m_Connection' = IF m_Connection = NoConnection THEN s ELSE m_Connection

\* The client's Connection is that of session s.
Own(s) == m_Connection' = s

\* Mutant: the io_context is restarted.
StartThread_Restarts ==
    /\ stopped' = FALSE
    /\ m_ThreadContext' = IF Joinable THEN m_ThreadContext ELSE "running"
    /\ ended' = Joinable

\* A joinable thread cannot be assigned to.
StartThread ==
    /\ m_ThreadContext' = IF Joinable THEN m_ThreadContext ELSE "running"
    /\ ended' = Joinable
    /\ UNCHANGED stopped

\* The Connection and its async_connect, then the thread.  m_CurrentStatus is
\* Disconnected for ever, so the first check of Connect() is void.
Connect ==
    /\ MayConnect
    /\ LET s == session + 1
       IN  /\ session' = s
           /\ Own(s)
           /\ m_Socket' = [m_Socket EXCEPT ![s] = "open"]
           /\ m_IsConnecting' = [m_IsConnecting EXCEPT ![s] = TRUE]
           /\ connect' = [connect EXCEPT ![s] = "pending"]
    /\ StartThread
    /\ user' = IF orderly THEN "waiting" ELSE "idle"
    /\ UNCHANGED <<io, posted, reading, link, arrived, outVars, m_LastDisconnectInfo, orderly, dying, ReceiveQueue>>

WaitForConnect ==
    /\ UserFree
    /\ user' = "waiting"
    /\ UNCHANGED <<connectionVars, contextVars, clientVars, orderly, dying, ReceiveQueue, ended>>

WaitForConnect_Returns ==
    /\ user = "waiting" /\ ~ended
    /\ IsConnected \/ ~IsConnecting
    /\ user' = "idle"
    /\ UNCHANGED <<connectionVars, contextVars, clientVars, orderly, dying, ReceiveQueue, ended>>

Post(s, packet) == posted' = Append(posted, [session |-> s, packet |-> packet])

SentOf(s) == Len(sent[s]) + Len(SelectSeq(posted, LAMBDA l : l.session = s))

\* Without a Connection Send() is undefined; it throws while not connected.
Send ==
    /\ UserFree
    /\ IsConnected
    /\ SentOf(m_Connection) < MaxSends
    /\ Post(m_Connection, "Data")
    /\ UNCHANGED <<connectionVars, m_ThreadContext, stopped, io, clientVars, userVars, ReceiveQueue, ended>>

\* Disconnect() and DisconnectWithError() differ in a text.  Not connected, they
\* return at once; the destructor goes on to destroy the members.
Disconnect ==
    /\ UserFree
    /\ user' = IF IsConnected THEN "leaving" ELSE "idle"
    /\ UNCHANGED <<connectionVars, contextVars, clientVars, orderly, dying, ReceiveQueue, ended>>

Destroy ==
    /\ UserFree
    /\ dying' = TRUE
    /\ user' = IF IsConnected THEN "leaving" ELSE "idle"
    /\ UNCHANGED <<connectionVars, contextVars, clientVars, orderly, ReceiveQueue, ended>>

\* Send() asks IsConnected() again, and throws, out of a destructor too.
Disconnect_Sends ==
    /\ user = "leaving" /\ ~ended
    /\ \/ /\ IsConnected
          /\ Post(m_Connection, "Disconnect")
          /\ user' = "stopping"
          /\ UNCHANGED ended
       \/ /\ ~IsConnected
          /\ user' = "idle"
          /\ ended' = dying
          /\ UNCHANGED posted
    /\ UNCHANGED <<connectionVars, m_ThreadContext, stopped, io, clientVars, orderly, dying, ReceiveQueue>>

\* Mutant: the call of stop() is missing.
Disconnect_StopsNot ==
    /\ user = "stopping" /\ ~ended
    /\ user' = "joining"
    /\ UNCHANGED <<connectionVars, contextVars, clientVars, orderly, dying, ReceiveQueue, ended>>

Disconnect_Stops ==
    /\ user = "stopping" /\ ~ended
    /\ stopped' = TRUE
    /\ user' = "joining"
    /\ UNCHANGED <<connectionVars, m_ThreadContext, io, posted, clientVars, orderly, dying, ReceiveQueue, ended>>

\* Mutant: the thread is not joined.
Disconnect_JoinsNot ==
    /\ user = "joining" /\ ~ended
    /\ m_Connection' = NoConnection
    /\ m_LastDisconnectInfo' = "ClientRequest"
    /\ user' = "idle"
    /\ UNCHANGED <<connectionVars, contextVars, session, orderly, dying, ReceiveQueue, ended>>

\* join() returns when the thread has; then the Connection is released.
Disconnect_Joins ==
    /\ user = "joining" /\ ~ended
    /\ m_ThreadContext # "running"
    /\ m_ThreadContext' = "none"
    /\ m_Connection' = NoConnection
    /\ m_LastDisconnectInfo' = "ClientRequest"
    /\ user' = "idle"
    /\ UNCHANGED <<connectionVars, stopped, io, posted, session, orderly, dying, ReceiveQueue, ended>>

\* The members are destroyed, m_ThreadContext among them.
Destroyed ==
    /\ dying /\ user = "idle" /\ ~ended
    /\ user' = "gone"
    /\ ended' = Joinable
    /\ UNCHANGED <<connectionVars, contextVars, clientVars, orderly, dying, ReceiveQueue>>

\* A reader of Incoming().
Take ==
    /\ ~ended /\ user # "gone"
    /\ ReceiveQueue # << >>
    /\ ReceiveQueue' = Tail(ReceiveQueue)
    /\ UNCHANGED <<connectionVars, contextVars, clientVars, userVars, ended>>

Inside == WaitForConnect_Returns \/ Disconnect_Sends \/ Disconnect_Stops \/ Disconnect_Joins \/ Destroyed

------------------------------------------------------------------------------
(* The io thread. *)

IoFree == m_ThreadContext = "running" /\ ~stopped /\ io = NoConnection /\ ~ended

\* Mutant: only a connect that succeeds ends m_IsConnecting.
OnConnect_ClearsLate(s) ==
    /\ IoFree
    /\ connect[s] \in {"ok", "error"}
    /\ connect' = [connect EXCEPT ![s] = "done"]
    /\ m_IsConnecting' = [m_IsConnecting EXCEPT ![s] = connect[s] = "error"]
    /\ io' = IF connect[s] = "ok" THEN s ELSE NoConnection
    /\ UNCHANGED <<m_Socket, reading, link, arrived, outVars, m_ThreadContext, stopped, posted>>
    /\ UNCHANGED <<clientVars, userVars, ReceiveQueue, ended>>

\* The handler of async_connect clears m_IsConnecting, whatever the outcome ...
OnConnect_Clears(s) ==
    /\ IoFree
    /\ connect[s] \in {"ok", "error"}
    /\ connect' = [connect EXCEPT ![s] = "done"]
    /\ m_IsConnecting' = [m_IsConnecting EXCEPT ![s] = FALSE]
    /\ io' = IF connect[s] = "ok" THEN s ELSE NoConnection
    /\ UNCHANGED <<m_Socket, reading, link, arrived, outVars, m_ThreadContext, stopped, posted>>
    /\ UNCHANGED <<clientVars, userVars, ReceiveQueue, ended>>

\* ... and after a success sends the Init packet and reads.
OnConnect_Sends ==
    /\ io # NoConnection /\ ~ended
    /\ Post(io, "Init")
    /\ reading' = [reading EXCEPT ![io] = TRUE]
    /\ io' = NoConnection
    /\ UNCHANGED <<m_Socket, m_IsConnecting, connect, link, arrived, outVars, m_ThreadContext, stopped>>
    /\ UNCHANGED <<clientVars, userVars, ReceiveQueue, ended>>

\* The lambda of Send() queues the packet; to an empty queue it calls WriteHeader(),
\* which throws on a closed socket.
RunSend ==
    /\ IoFree
    /\ posted # << >>
    /\ posted' = Tail(posted)
    /\ LET l == Head(posted)
           s == l.session
           idle == m_MessagesOut[s] = "empty"
       IN  /\ sent' = [sent EXCEPT ![s] = Append(@, l.packet)]
           /\ m_MessagesOut' = [m_MessagesOut EXCEPT ![s] = IF idle THEN "written" ELSE @]
           /\ ended' = (idle /\ m_Socket[s] = "closed")
    /\ UNCHANGED <<m_Socket, m_IsConnecting, connect, reading, link, arrived>>
    /\ UNCHANGED <<m_ThreadContext, stopped, io, clientVars, userVars, ReceiveQueue>>

OnWritten(s) ==
    /\ IoFree
    /\ m_MessagesOut[s] = "written" /\ link[s] = "up"
    /\ m_MessagesOut' = [m_MessagesOut EXCEPT ![s] = "empty"]
    /\ UNCHANGED <<m_Socket, m_IsConnecting, connect, reading, link, arrived, sent>>
    /\ UNCHANGED <<contextVars, clientVars, userVars, ReceiveQueue, ended>>

\* What has not been written stays in the queue.
OnWriteFailed(s) ==
    /\ IoFree
    /\ m_MessagesOut[s] = "written"
    /\ link[s] # "up" \/ m_Socket[s] = "closed"
    /\ m_MessagesOut' = [m_MessagesOut EXCEPT ![s] = "stuck"]
    /\ m_Socket' = [m_Socket EXCEPT ![s] = "closed"]
    /\ UNCHANGED <<m_IsConnecting, connect, reading, link, arrived, sent>>
    /\ UNCHANGED <<contextVars, clientVars, userVars, ReceiveQueue, ended>>

OnRead(s) ==
    /\ IoFree
    /\ reading[s] /\ link[s] = "up" /\ m_Socket[s] = "open"
    /\ arrived[s] < MaxArrivals
    /\ arrived' = [arrived EXCEPT ![s] = @ + 1]
    /\ ReceiveQueue' = Append(ReceiveQueue, s)
    /\ UNCHANGED <<m_Socket, m_IsConnecting, connect, reading, link, outVars>>
    /\ UNCHANGED <<contextVars, clientVars, userVars, ended>>

OnReadFailed(s) ==
    /\ IoFree
    /\ reading[s]
    /\ link[s] = "down" \/ m_Socket[s] = "closed"
    /\ reading' = [reading EXCEPT ![s] = FALSE]
    /\ m_Socket' = [m_Socket EXCEPT ![s] = "closed"]
    /\ UNCHANGED <<m_IsConnecting, connect, link, arrived, outVars>>
    /\ UNCHANGED <<contextVars, clientVars, userVars, ReceiveQueue, ended>>

NoWork ==
    /\ posted = << >>
    /\ \A s \in Sessions :
           connect[s] \in {"none", "done"} /\ ~reading[s] /\ m_MessagesOut[s] # "written"

RunReturns ==
    /\ m_ThreadContext = "running" /\ io = NoConnection /\ ~ended
    /\ stopped \/ NoWork
    /\ m_ThreadContext' = "returned"
    /\ stopped' = TRUE
    /\ UNCHANGED <<connectionVars, io, posted, clientVars, userVars, ReceiveQueue, ended>>

IoThread ==
    \/ OnConnect_Sends \/ RunSend \/ RunReturns
    \/ \E s \in Sessions : 
           OnConnect_Clears(s) \/ OnRead(s) \/ OnReadFailed(s) \/ OnWritten(s) \/ OnWriteFailed(s)

------------------------------------------------------------------------------
(* The network. *)

ConnectCompletes(s) ==
    /\ connect[s] = "pending" /\ ~ended
    /\ \/ connect' = [connect EXCEPT ![s] = "ok"] /\ link' = [link EXCEPT ![s] = "up"]
       \/ connect' = [connect EXCEPT ![s] = "error"] /\ UNCHANGED link
    /\ UNCHANGED <<m_Socket, m_IsConnecting, reading, arrived, outVars>>
    /\ UNCHANGED <<contextVars, clientVars, userVars, ReceiveQueue, ended>>

LinkBreaks(s) ==
    /\ link[s] = "up" /\ ~ended
    /\ link' = [link EXCEPT ![s] = "down"]
    /\ UNCHANGED <<m_Socket, m_IsConnecting, connect, reading, arrived, outVars>>
    /\ UNCHANGED <<contextVars, clientVars, userVars, ReceiveQueue, ended>>

------------------------------------------------------------------------------
Next ==
    \/ Connect_Unresolved \/ Connect \/ WaitForConnect \/ Send \/ Disconnect \/ Destroy
    \/ Inside
    \/ Take
    \/ IoThread
    \/ \E s \in Sessions : ConnectCompletes(s) \/ LinkBreaks(s)

Spec == Init /\ [][Next]_vars

\* A call that is not blocked goes on, the io thread runs, a connect has an outcome.
Fairness ==
    /\ WF_vars(Inside)
    /\ WF_vars(IoThread)
    /\ \A s \in Sessions : WF_vars(ConnectCompletes(s))

FairSpec == Spec /\ Fairness

------------------------------------------------------------------------------
PacketKinds == {"Init", "Data", "Disconnect"}

TypeOK ==
    /\ session \in 0 .. MaxSessions
    /\ m_Connection \in {NoConnection, session}
    /\ m_ThreadContext \in {"none", "running", "returned"}
    /\ stopped \in BOOLEAN
    /\ io \in Sessions \cup {NoConnection}
    /\ posted \in Seq([session : Sessions, packet : PacketKinds])
    /\ m_Socket \in [Sessions -> {"none", "open", "closed"}]
    /\ m_IsConnecting \in [Sessions -> BOOLEAN]
    /\ connect \in [Sessions -> {"none", "pending", "ok", "error", "done"}]
    /\ reading \in [Sessions -> BOOLEAN]
    /\ link \in [Sessions -> {"none", "up", "down"}]
    /\ arrived \in [Sessions -> 0 .. MaxArrivals]
    /\ m_MessagesOut \in [Sessions -> {"empty", "written", "stuck"}]
    /\ sent \in [Sessions -> Seq(PacketKinds)]
    /\ ReceiveQueue \in Seq(Sessions)
    /\ m_LastDisconnectInfo \in {"Unknown", "ConnectionError", "ClientRequest"}
    /\ user \in {"idle", "waiting", "leaving", "stopping", "joining", "gone"}
    /\ orderly \in BOOLEAN
    /\ dying \in BOOLEAN
    /\ ended \in BOOLEAN

\* When Disconnect() has returned no packet comes in any more, and later only those of
\* the session that is current then: the io thread has been joined, and the handlers
\* that an old session left behind in the io_context never run.
OnlyCurrentSession == [][Len(ReceiveQueue') > Len(ReceiveQueue) => ReceiveQueue'[Len(ReceiveQueue')] = m_Connection]_vars

\* An orderly application that connects, waits, disconnects or destroys the client does
\* not have its process ended, unless it has lost a connection.
OrderlySurvives == (orderly /\ ended) => \E s \in Sessions : m_Socket[s] = "closed"

\* WaitForConnect() returns, with a connection or without, unless the io_context has
\* been stopped before: by the Disconnect() of an earlier session.
WaitReturns == (user = "waiting" /\ ~stopped) ~> (user # "waiting" \/ ended)

\* Disconnect() returns, though the io thread has a read pending that never ends.
DisconnectReturns == (user = "joining") ~> (user # "joining" \/ ended)

==============================================================================
