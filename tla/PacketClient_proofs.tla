------------------------- MODULE PacketClient_proofs -------------------------
(****************************************************************************)
(* For any number of sessions, sends and arrivals: types; no packet of an   *)
(* old session comes in; an orderly application that has lost no connection *)
(* is not ended.                                                            *)
(****************************************************************************)
EXTENDS PacketClient, TLAPS

\* What Append, Head and Tail do to the type of a queue.
LEMMA QueueType ==
    ASSUME NEW S, NEW q \in Seq(S)
    PROVE  /\ \A e \in S : Append(q, e) \in Seq(S)
           /\ q # << >> => Head(q) \in S /\ Tail(q) \in Seq(S)
    OBVIOUS

------------------------------------------------------------------------------
(* The types of the variables, by the part of the client they belong to: an *)
(* action disturbs one or two parts, and the others stay as they were.      *)

ClientTypes ==
    /\ session \in 0 .. MaxSessions
    /\ m_Connection \in {NoConnection, session}
    /\ m_LastDisconnectInfo \in {"Unknown", "ConnectionError", "ClientRequest"}

ContextTypes ==
    /\ m_ThreadContext \in {"none", "running", "returned"}
    /\ stopped \in BOOLEAN
    /\ io \in Sessions \cup {NoConnection}
    /\ posted \in Seq([session : Sessions, packet : PacketKinds])

ConnectTypes ==
    /\ m_IsConnecting \in [Sessions -> BOOLEAN]
    /\ connect \in [Sessions -> {"none", "pending", "ok", "error", "done"}]

SocketTypes ==
    /\ m_Socket \in [Sessions -> {"none", "open", "closed"}]
    /\ reading \in [Sessions -> BOOLEAN]

LinkTypes ==
    /\ link \in [Sessions -> {"none", "up", "down"}]
    /\ arrived \in [Sessions -> 0 .. MaxArrivals]

OutTypes ==
    /\ m_MessagesOut \in [Sessions -> {"empty", "written", "stuck"}]
    /\ sent \in [Sessions -> Seq(PacketKinds)]

UserTypes ==
    /\ user \in {"idle", "waiting", "leaving", "stopping", "joining", "gone"}
    /\ orderly \in BOOLEAN
    /\ dying \in BOOLEAN

EndTypes ==
    /\ ReceiveQueue \in Seq(Sessions)
    /\ ended \in BOOLEAN

Types == /\ ClientTypes /\ ContextTypes /\ ConnectTypes /\ SocketTypes
         /\ LinkTypes /\ OutTypes /\ UserTypes /\ EndTypes

LEMMA TypeParts == (TypeOK <=> Types) /\ (TypeOK' <=> Types')
BY DEF TypeOK, Types, ClientTypes, ContextTypes, ConnectTypes, SocketTypes, LinkTypes, OutTypes, UserTypes, EndTypes

\* A part that an action leaves alone keeps its types.
LEMMA PartsStay ==
    ASSUME TypeOK
    PROVE  /\ UNCHANGED clientVars => ClientTypes'
           /\ UNCHANGED contextVars => ContextTypes'
           /\ UNCHANGED <<m_IsConnecting, connect>> => ConnectTypes'
           /\ UNCHANGED <<m_Socket, reading>> => SocketTypes'
           /\ UNCHANGED <<link, arrived>> => LinkTypes'
           /\ UNCHANGED outVars => OutTypes'
           /\ UNCHANGED userVars => UserTypes'
           /\ UNCHANGED <<ReceiveQueue, ended>> => EndTypes'
<1>1. UNCHANGED clientVars => ClientTypes'
    BY TypeParts DEF Types, clientVars, ClientTypes
<1>2. UNCHANGED contextVars => ContextTypes'
    BY TypeParts DEF Types, contextVars, ContextTypes
<1>3. UNCHANGED <<m_IsConnecting, connect>> => ConnectTypes'
    BY TypeParts DEF Types, ConnectTypes
<1>4. UNCHANGED <<m_Socket, reading>> => SocketTypes'
    BY TypeParts DEF Types, SocketTypes
<1>5. UNCHANGED <<link, arrived>> => LinkTypes'
    BY TypeParts DEF Types, LinkTypes
<1>6. UNCHANGED outVars => OutTypes'
    BY TypeParts DEF Types, outVars, OutTypes
<1>7. UNCHANGED userVars => UserTypes'
    BY TypeParts DEF Types, userVars, UserTypes
<1>8. UNCHANGED <<ReceiveQueue, ended>> => EndTypes'
    BY TypeParts DEF Types, EndTypes
<1> QED
    BY <1>1, <1>2, <1>3, <1>4, <1>5, <1>6, <1>7, <1>8

\* An action that leaves all the sessions' Connections alone.
LEMMA ConnectionsStay ==
    ASSUME TypeOK, UNCHANGED connectionVars
    PROVE  ConnectTypes' /\ SocketTypes' /\ LinkTypes' /\ OutTypes'
BY PartsStay DEF connectionVars, outVars

LEMMA PostTypes ==
    ASSUME ContextTypes, NEW s \in Sessions, NEW k \in PacketKinds, Post(s, k)
    PROVE  posted' \in Seq([session : Sessions, packet : PacketKinds])
<1>1. [session |-> s, packet |-> k] \in [session : Sessions, packet : PacketKinds]
    OBVIOUS
<1>2. posted \in Seq([session : Sessions, packet : PacketKinds])
    BY DEF ContextTypes
<1> QED
    BY <1>1, <1>2, QueueType DEF Post

LEMMA ApplicationKeepsTypes ==
    ASSUME TypeOK,
           \/ Connect_Unresolved \/ Connect \/ WaitForConnect \/ Send \/ Disconnect \/ Destroy \/ Take \/ Inside
    PROVE  TypeOK'
<1> USE ClientAssumption DEF Sessions, NoConnection, Types
<1>1. Types
    BY TypeParts
<1> SUFFICES Types'
    BY TypeParts
<1>2. CASE Connect_Unresolved
    <2>1. ClientTypes'
        BY <1>1, <1>2 DEF Connect_Unresolved, ClientTypes
    <2> QED
        BY <1>2, <2>1, PartsStay, ConnectionsStay DEF Connect_Unresolved
<1>3. CASE Connect
    <2>1. ClientTypes'
        BY <1>1, <1>3 DEF Connect, MayConnect, Own, ClientTypes
    <2>2. ContextTypes' /\ EndTypes'
        BY <1>1, <1>3 DEF Connect, StartThread, Joinable, ContextTypes, EndTypes
    <2>3. ConnectTypes'
        BY <1>1, <1>3 DEF Connect, ConnectTypes
    <2>4. SocketTypes'
        BY <1>1, <1>3 DEF Connect, SocketTypes
    <2>5. UserTypes'
        BY <1>1, <1>3 DEF Connect, UserTypes
    <2>6. LinkTypes' /\ OutTypes'
        BY <1>3, PartsStay DEF Connect
    <2> QED
        BY <2>1, <2>2, <2>3, <2>4, <2>5, <2>6
<1>4. CASE Send
    <2>1. m_Connection \in Sessions
        BY <1>1, <1>4 DEF Send, IsConnected, ClientTypes
    <2>2. "Data" \in PacketKinds
        BY DEF PacketKinds
    <2>3. posted' \in Seq([session : Sessions, packet : PacketKinds])
        BY <1>1, <1>4, <2>1, <2>2, PostTypes DEF Send
    <2>4. ContextTypes'
        BY <1>1, <1>4, <2>3 DEF Send, ContextTypes
    <2> QED
        BY <1>4, <2>4, PartsStay, ConnectionsStay DEF Send
<1>5. CASE WaitForConnect \/ Disconnect \/ Destroy \/ WaitForConnect_Returns
    <2>1. UserTypes'
        BY <1>1, <1>5 DEF WaitForConnect, Disconnect, Destroy, WaitForConnect_Returns, UserTypes
    <2> QED
        BY <1>5, <2>1, PartsStay, ConnectionsStay DEF WaitForConnect, Disconnect, Destroy, WaitForConnect_Returns
<1>6. CASE Disconnect_Sends
    <2>1. UserTypes' /\ EndTypes'
        BY <1>1, <1>6 DEF Disconnect_Sends, UserTypes, EndTypes
    <2>2. posted' \in Seq([session : Sessions, packet : PacketKinds])
        <3>1. CASE IsConnected
            <4>1. m_Connection \in Sessions
                BY <1>1, <3>1 DEF IsConnected, ClientTypes
            <4>2. "Disconnect" \in PacketKinds
                BY DEF PacketKinds
            <4> QED
                BY <1>1, <1>6, <3>1, <4>1, <4>2, PostTypes DEF Disconnect_Sends
        <3>2. CASE ~IsConnected
            BY <1>1, <1>6, <3>2 DEF Disconnect_Sends, ContextTypes
        <3> QED
            BY <3>1, <3>2
    <2>3. ContextTypes'
        BY <1>1, <1>6, <2>2 DEF Disconnect_Sends, ContextTypes
    <2> QED
        BY <1>6, <2>1, <2>3, PartsStay, ConnectionsStay DEF Disconnect_Sends
<1>7. CASE Disconnect_Stops
    <2>1. ContextTypes' /\ UserTypes'
        BY <1>1, <1>7 DEF Disconnect_Stops, ContextTypes, UserTypes
    <2> QED
        BY <1>7, <2>1, PartsStay, ConnectionsStay DEF Disconnect_Stops
<1>8. CASE Disconnect_Joins
    <2>1. ClientTypes' /\ ContextTypes' /\ UserTypes'
        BY <1>1, <1>8 DEF Disconnect_Joins, ClientTypes, ContextTypes, UserTypes
    <2> QED
        BY <1>8, <2>1, PartsStay, ConnectionsStay DEF Disconnect_Joins
<1>9. CASE Destroyed
    <2>1. UserTypes' /\ EndTypes'
        BY <1>1, <1>9 DEF Destroyed, Joinable, UserTypes, EndTypes
    <2> QED
        BY <1>9, <2>1, PartsStay, ConnectionsStay DEF Destroyed
<1>10. CASE Take
    <2>1. EndTypes'
        BY <1>1, <1>10, QueueType DEF Take, EndTypes
    <2> QED
        BY <1>10, <2>1, PartsStay, ConnectionsStay DEF Take
<1> QED
    BY <1>2, <1>3, <1>4, <1>5, <1>6, <1>7, <1>8, <1>9, <1>10 DEF Inside

LEMMA IoThreadKeepsTypes ==
    ASSUME TypeOK, IoThread
    PROVE  TypeOK'
<1> USE DEF Sessions, NoConnection, Types
<1>1. Types
    BY TypeParts
<1> SUFFICES Types'
    BY TypeParts
<1>2. CASE OnConnect_Sends
    <2>1. io \in Sessions /\ "Init" \in PacketKinds
        BY <1>1, <1>2 DEF OnConnect_Sends, ContextTypes, PacketKinds
    <2>2. posted' \in Seq([session : Sessions, packet : PacketKinds])
        BY <1>1, <1>2, <2>1, PostTypes DEF OnConnect_Sends
    <2>3. ContextTypes' /\ SocketTypes'
        BY <1>1, <1>2, <2>2 DEF OnConnect_Sends, ContextTypes, SocketTypes
    <2> QED
        BY <1>2, <2>3, PartsStay DEF OnConnect_Sends
<1>3. CASE RunSend
    <2> DEFINE s == Head(posted).session
               idle == m_MessagesOut[s] = "empty"
    <2>1. /\ Head(posted) \in [session : Sessions, packet : PacketKinds]
          /\ Tail(posted) \in Seq([session : Sessions, packet : PacketKinds])
        BY <1>1, <1>3, QueueType DEF RunSend, ContextTypes
    <2>2. s \in Sessions /\ Head(posted).packet \in PacketKinds
        BY <2>1
    <2>3. /\ sent' = [sent EXCEPT ![s] = Append(sent[s], Head(posted).packet)]
          /\ m_MessagesOut' = [m_MessagesOut EXCEPT ![s] = IF idle THEN "written" ELSE @]
          /\ ended' = (idle /\ m_Socket[s] = "closed")
        BY <1>3 DEF RunSend
    <2>4. ContextTypes'
        BY <1>1, <1>3, <2>1 DEF RunSend, ContextTypes
    <2> HIDE DEF s
    <2>5. sent' \in [Sessions -> Seq(PacketKinds)]
        <3>1. sent \in [Sessions -> Seq(PacketKinds)] /\ sent[s] \in Seq(PacketKinds)
            BY <1>1, <2>2 DEF OutTypes
        <3>2. Append(sent[s], Head(posted).packet) \in Seq(PacketKinds)
            BY <2>2, <3>1, QueueType
        <3> QED
            BY <2>3, <3>1, <3>2
    <2>6. m_MessagesOut' \in [Sessions -> {"empty", "written", "stuck"}]
        BY <1>1, <2>3 DEF OutTypes
    <2>7. OutTypes'
        BY <2>5, <2>6 DEF OutTypes
    <2>8. EndTypes'
        BY <1>1, <1>3, <2>3 DEF RunSend, EndTypes
    <2> QED
        BY <1>3, <2>4, <2>7, <2>8, PartsStay DEF RunSend
<1>4. CASE RunReturns
    <2>1. ContextTypes'
        BY <1>1, <1>4 DEF RunReturns, ContextTypes
    <2> QED
        BY <1>4, <2>1, PartsStay, ConnectionsStay DEF RunReturns
<1>5. ASSUME NEW s \in Sessions, OnConnect_Clears(s) PROVE Types'
    <2>1. ContextTypes' /\ ConnectTypes'
        BY <1>1, <1>5 DEF OnConnect_Clears, ContextTypes, ConnectTypes
    <2> QED
        BY <1>5, <2>1, PartsStay DEF OnConnect_Clears
<1>6. ASSUME NEW s \in Sessions, OnRead(s) PROVE Types'
    <2>1. LinkTypes'
        BY <1>1, <1>6, ClientAssumption DEF OnRead, LinkTypes
    <2>2. EndTypes'
        BY <1>1, <1>6, QueueType DEF OnRead, EndTypes
    <2> QED
        BY <1>6, <2>1, <2>2, PartsStay DEF OnRead
<1>7. ASSUME NEW s \in Sessions, OnReadFailed(s) PROVE Types'
    <2>1. SocketTypes'
        BY <1>1, <1>7 DEF OnReadFailed, SocketTypes
    <2> QED
        BY <1>7, <2>1, PartsStay DEF OnReadFailed
<1>8. ASSUME NEW s \in Sessions, OnWritten(s) PROVE Types'
    <2>1. OutTypes'
        BY <1>1, <1>8 DEF OnWritten, OutTypes
    <2> QED
        BY <1>8, <2>1, PartsStay DEF OnWritten
<1>9. ASSUME NEW s \in Sessions, OnWriteFailed(s) PROVE Types'
    <2>1. OutTypes' /\ SocketTypes'
        BY <1>1, <1>9 DEF OnWriteFailed, OutTypes, SocketTypes
    <2> QED
        BY <1>9, <2>1, PartsStay DEF OnWriteFailed
<1> QED
    BY <1>2, <1>3, <1>4, <1>5, <1>6, <1>7, <1>8, <1>9 DEF IoThread

LEMMA NetworkKeepsTypes ==
    ASSUME TypeOK, NEW s \in Sessions, ConnectCompletes(s) \/ LinkBreaks(s)
    PROVE  TypeOK'
<1>1. ConnectTypes /\ LinkTypes
    BY TypeParts DEF Types
<1>2. CASE ConnectCompletes(s)
    <2>1. ConnectTypes' /\ LinkTypes'
        BY <1>1, <1>2 DEF ConnectCompletes, ConnectTypes, LinkTypes
    <2> QED
        BY <1>2, <2>1, PartsStay, TypeParts DEF ConnectCompletes, Types
<1>3. CASE LinkBreaks(s)
    <2>1. LinkTypes'
        BY <1>1, <1>3 DEF LinkBreaks, LinkTypes
    <2> QED
        BY <1>3, <2>1, PartsStay, TypeParts DEF LinkBreaks, Types
<1> QED
    BY <1>2, <1>3

\* The values of all variables stay in their types.
THEOREM TypeCorrect == Spec => []TypeOK
<1>1. Init => TypeOK
    <2> SUFFICES ASSUME Init PROVE TypeOK
        OBVIOUS
    <2> USE ClientAssumption DEF Init, Sessions, NoConnection
    <2>1. ClientTypes /\ ContextTypes
        <3>1. posted \in Seq([session : Sessions, packet : PacketKinds])
            OBVIOUS
        <3>2. session \in 0 .. MaxSessions /\ m_Connection \in {NoConnection, session}
            OBVIOUS
        <3> QED
            BY <3>1, <3>2 DEF ClientTypes, ContextTypes
    <2>2. ConnectTypes /\ SocketTypes
        BY DEF ConnectTypes, SocketTypes
    <2>3. LinkTypes /\ OutTypes
        BY DEF LinkTypes, OutTypes
    <2>4. UserTypes /\ EndTypes
        <3>1. ReceiveQueue \in Seq(Sessions)
            OBVIOUS
        <3>2. orderly \in BOOLEAN
            BY Zenon
        <3> QED
            BY <3>1, <3>2 DEF UserTypes, EndTypes
    <2> QED
        BY <2>1, <2>2, <2>3, <2>4, TypeParts DEF Types
<1>2. TypeOK /\ [Next]_vars => TypeOK'
    <2> SUFFICES ASSUME TypeOK, [Next]_vars PROVE TypeOK'
        OBVIOUS
    <2>1. CASE UNCHANGED vars
        BY <2>1, PartsStay, ConnectionsStay, TypeParts DEF vars, Types
    <2> QED
        BY <2>1, ApplicationKeepsTypes, IoThreadKeepsTypes, NetworkKeepsTypes DEF Next
<1> QED BY <1>1, <1>2, PTL DEF Spec

------------------------------------------------------------------------------
(* What keeps old sessions out.  The io_context is stopped before a second  *)
(* session can begin: by Disconnect(), or by run() having returned.  So a   *)
(* handler runs only in the first session, and that is the current one.     *)

SessionInv ==
    /\ ~ended => (m_ThreadContext = "none" <=> m_Connection = NoConnection)
    /\ (~ended /\ ~stopped) => session \in {0, 1} /\ m_Connection = session
    /\ user = "joining" => stopped
    /\ io <= session
    /\ \A s \in Sessions : reading[s] \/ connect[s] # "none" => s <= session

LEMMA SessionInvariant == Spec => []SessionInv
<1> USE ClientAssumption DEF TypeOK, Sessions, NoConnection, SessionInv
<1>1. Init => SessionInv
    BY DEF Init
<1>2. TypeOK /\ SessionInv /\ [Next]_vars => SessionInv'
    <2> SUFFICES ASSUME TypeOK, SessionInv, [Next]_vars PROVE SessionInv'
        OBVIOUS
    <2> USE DEF vars, connectionVars, contextVars, clientVars, userVars, outVars
    <2>1. CASE Connect_Unresolved
        BY <2>1 DEF Connect_Unresolved, MayConnect, UserFree
    <2>2. CASE Connect
        <3>1. ~ended /\ user = "idle" /\ session < MaxSessions
            BY <2>2 DEF Connect, MayConnect, UserFree
        <3>2. session' = session + 1 /\ m_Connection' = session' /\ UNCHANGED <<stopped, io, reading>>
            BY <2>2 DEF Connect, Own, StartThread
        <3>3. ~ended' => m_ThreadContext = "none" /\ m_ThreadContext' = "running"
            BY <2>2 DEF Connect, StartThread, Joinable
        <3>4. m_Connection' # NoConnection
            BY <3>2
        <3>5. (~ended' /\ ~stopped') => session' = 1
            BY <3>1, <3>2, <3>3
        <3>6. \A s \in Sessions : connect'[s] = IF s = session' THEN "pending" ELSE connect[s]
            BY <2>2, <3>2 DEF Connect
        <3>7. user' # "joining"
            BY <2>2 DEF Connect
        <3>8. \A s \in Sessions : reading'[s] \/ connect'[s] # "none" => s <= session'
            BY <3>2, <3>6
        <3> QED BY <3>2, <3>3, <3>4, <3>5, <3>7, <3>8
    <2>3. CASE WaitForConnect
        BY <2>3 DEF WaitForConnect, UserFree
    <2>4. CASE Send
        BY <2>4 DEF Send, UserFree
    <2>5. CASE Disconnect
        BY <2>5 DEF Disconnect, UserFree, IsConnected, IsConnecting
    <2>6. CASE Destroy
        BY <2>6 DEF Destroy, UserFree, IsConnected, IsConnecting
    <2>7. CASE WaitForConnect_Returns
        BY <2>7 DEF WaitForConnect_Returns, IsConnected
    <2>8. CASE Disconnect_Sends
        BY <2>8 DEF Disconnect_Sends, IsConnected
    <2>9. CASE Disconnect_Stops
        BY <2>9 DEF Disconnect_Stops
    <2>10. CASE Disconnect_Joins
        BY <2>10 DEF Disconnect_Joins
    <2>11. CASE Destroyed
        BY <2>11 DEF Destroyed, Joinable
    <2>12. CASE Take
        BY <2>12 DEF Take
    <2>13. CASE OnConnect_Sends
        BY <2>13 DEF OnConnect_Sends
    <2>14. CASE RunSend
        <3>1. ~ended
            BY <2>14 DEF RunSend, IoFree
        <3>2. UNCHANGED <<m_ThreadContext, m_Connection, stopped, session, user, io, reading, connect>>
            BY <2>14 DEF RunSend
        <3> QED BY <3>1, <3>2
    <2>15. CASE RunReturns
        BY <2>15 DEF RunReturns
    <2>16. ASSUME NEW s \in Sessions, OnConnect_Clears(s) PROVE SessionInv'
        BY <2>16 DEF OnConnect_Clears
    <2>17. ASSUME NEW s \in Sessions, OnRead(s) PROVE SessionInv'
        BY <2>17 DEF OnRead
    <2>18. ASSUME NEW s \in Sessions, OnReadFailed(s) PROVE SessionInv'
        BY <2>18 DEF OnReadFailed
    <2>19. ASSUME NEW s \in Sessions, OnWritten(s) PROVE SessionInv'
        BY <2>19 DEF OnWritten
    <2>20. ASSUME NEW s \in Sessions, OnWriteFailed(s) PROVE SessionInv'
        BY <2>20 DEF OnWriteFailed
    <2>21. ASSUME NEW s \in Sessions, ConnectCompletes(s) PROVE SessionInv'
        BY <2>21 DEF ConnectCompletes
    <2>22. ASSUME NEW s \in Sessions, LinkBreaks(s) PROVE SessionInv'
        BY <2>22 DEF LinkBreaks
    <2>23. CASE UNCHANGED vars
        BY <2>23
    <2> QED
        BY <2>1, <2>2, <2>3, <2>4, <2>5, <2>6, <2>7, <2>8, <2>9, <2>10, <2>11, <2>12,
           <2>13, <2>14, <2>15, <2>16, <2>17, <2>18, <2>19, <2>20, <2>21, <2>22, <2>23
           DEF Next, Inside, IoThread
<1> QED BY <1>1, <1>2, TypeCorrect, PTL DEF Spec

\* No packet of an old session comes in: OnRead() of the current one only.
THEOREM NoOldPackets == Spec => OnlyCurrentSession
<1>1. TypeOK /\ SessionInv /\ [Next]_vars
        => [Len(ReceiveQueue') > Len(ReceiveQueue) => ReceiveQueue'[Len(ReceiveQueue')] = m_Connection]_vars
    <2> SUFFICES ASSUME TypeOK, SessionInv, [Next]_vars, Len(ReceiveQueue') > Len(ReceiveQueue)
                 PROVE  ReceiveQueue'[Len(ReceiveQueue')] = m_Connection
        OBVIOUS
    <2>1. PICK s \in Sessions : OnRead(s)
        <3> USE DEF vars, connectionVars, contextVars, clientVars, userVars, outVars
        <3>1. CASE UNCHANGED ReceiveQueue
            BY <3>1
        <3>2. CASE Take
            BY <3>2 DEF Take, TypeOK
        <3> QED
            BY <3>1, <3>2 DEF Next, Inside, IoThread, Connect_Unresolved, Connect, WaitForConnect, Send, Disconnect,
               Destroy, WaitForConnect_Returns, Disconnect_Sends, Disconnect_Stops, Disconnect_Joins, Destroyed,
               OnConnect_Sends, RunSend, RunReturns, OnConnect_Clears, OnReadFailed, OnWritten, OnWriteFailed,
               ConnectCompletes, LinkBreaks
    <2>2. ReceiveQueue'[Len(ReceiveQueue')] = s
        BY <2>1 DEF OnRead, TypeOK
    <2>3. s = m_Connection
        BY <2>1 DEF OnRead, IoFree, SessionInv, Sessions, TypeOK
    <2> QED BY <2>2, <2>3
<1> QED BY <1>1, TypeCorrect, SessionInvariant, PTL DEF Spec, OnlyCurrentSession

------------------------------------------------------------------------------
(* Why an orderly application survives.  It is never in the middle of a     *)
(* connect but in WaitForConnect(), so a Disconnect() or a destructor that  *)
(* finds the client not connected has lost its socket or has no Connection, *)
(* and then no thread either.                                               *)

OrderlyInv ==
    /\ m_Connection # NoConnection => m_Socket[m_Connection] # "none"
    /\ user = "leaving" => m_Connection # NoConnection
    /\ dying => user # "waiting"
    /\ orderly /\ user # "waiting" => ~IsConnecting
    /\ (orderly /\ dying /\ user = "idle" /\ ~ended)
        => (m_Connection = NoConnection \/ m_Socket[m_Connection] = "closed")
    /\ OrderlySurvives

\* The process of an orderly application that has lost no connection is not ended.
THEOREM OrderlyIsSafe == Spec => []OrderlySurvives
<1> USE ClientAssumption DEF TypeOK, Sessions, NoConnection, OrderlyInv, OrderlySurvives, IsConnecting
<1>1. Init => OrderlyInv
    BY DEF Init
<1>2. TypeOK /\ SessionInv /\ OrderlyInv /\ [Next]_vars => OrderlyInv'
    <2> SUFFICES ASSUME TypeOK, SessionInv, OrderlyInv, [Next]_vars PROVE OrderlyInv'
        OBVIOUS
    <2> USE DEF vars, connectionVars, contextVars, clientVars, userVars, outVars
    <2>1. CASE Connect_Unresolved
        BY <2>1 DEF Connect_Unresolved, MayConnect, UserFree
    <2>2. CASE Connect
        <3>1. ~ended /\ ~dying /\ session < MaxSessions /\ (orderly => m_Connection = NoConnection)
            BY <2>2 DEF Connect, MayConnect, UserFree
        <3>2. session' = session + 1 /\ m_Connection' = session' /\ UNCHANGED <<orderly, dying>>
            BY <2>2 DEF Connect, Own
        <3>3. m_Socket'[session'] = "open"
            BY <2>2, <3>1, <3>2 DEF Connect
        <3>4. orderly => ~ended'
            BY <2>2, <3>1 DEF Connect, StartThread, Joinable, SessionInv
        <3>5. user' = IF orderly THEN "waiting" ELSE "idle"
            BY <2>2 DEF Connect
        <3> QED BY <3>1, <3>2, <3>3, <3>4, <3>5
    <2>3. CASE WaitForConnect
        BY <2>3 DEF WaitForConnect, UserFree
    <2>4. CASE Send
        BY <2>4 DEF Send, UserFree
    <2>5. CASE Disconnect
        BY <2>5 DEF Disconnect, UserFree, IsConnected, IsConnecting
    <2>6. CASE Destroy
        BY <2>6 DEF Destroy, UserFree, IsConnected, IsConnecting
    <2>7. CASE WaitForConnect_Returns
        BY <2>7 DEF WaitForConnect_Returns, IsConnected
    <2>8. CASE Disconnect_Sends
        BY <2>8 DEF Disconnect_Sends, IsConnected
    <2>9. CASE Disconnect_Stops
        BY <2>9 DEF Disconnect_Stops
    <2>10. CASE Disconnect_Joins
        BY <2>10 DEF Disconnect_Joins
    <2>11. CASE Destroyed
        BY <2>11 DEF Destroyed, Joinable, SessionInv
    <2>12. CASE Take
        BY <2>12 DEF Take
    <2>13. CASE OnConnect_Sends
        BY <2>13 DEF OnConnect_Sends
    <2>14. CASE RunSend
        <3>1. ~ended /\ posted # << >>
            BY <2>14 DEF RunSend, IoFree
        <3>2. UNCHANGED <<m_Connection, m_Socket, m_IsConnecting, user, dying, orderly>>
            BY <2>14 DEF RunSend
        <3>3. Head(posted) \in [session : Sessions, packet : PacketKinds]
            BY <3>1, QueueType
        <3>4. ended' => m_Socket[Head(posted).session] = "closed"
            BY <2>14 DEF RunSend
        <3>5. OrderlySurvives'
            BY <3>2, <3>3, <3>4
        <3> QED BY <3>1, <3>2, <3>5
    <2>15. CASE RunReturns
        BY <2>15 DEF RunReturns
    <2>16. ASSUME NEW s \in Sessions, OnConnect_Clears(s) PROVE OrderlyInv'
        BY <2>16 DEF OnConnect_Clears
    <2>17. ASSUME NEW s \in Sessions, OnRead(s) PROVE OrderlyInv'
        BY <2>17 DEF OnRead
    <2>18. ASSUME NEW s \in Sessions, OnReadFailed(s) PROVE OrderlyInv'
        BY <2>18 DEF OnReadFailed
    <2>19. ASSUME NEW s \in Sessions, OnWritten(s) PROVE OrderlyInv'
        BY <2>19 DEF OnWritten
    <2>20. ASSUME NEW s \in Sessions, OnWriteFailed(s) PROVE OrderlyInv'
        BY <2>20 DEF OnWriteFailed
    <2>21. ASSUME NEW s \in Sessions, ConnectCompletes(s) PROVE OrderlyInv'
        BY <2>21 DEF ConnectCompletes
    <2>22. ASSUME NEW s \in Sessions, LinkBreaks(s) PROVE OrderlyInv'
        BY <2>22 DEF LinkBreaks
    <2>23. CASE UNCHANGED vars
        BY <2>23
    <2> QED
        BY <2>1, <2>2, <2>3, <2>4, <2>5, <2>6, <2>7, <2>8, <2>9, <2>10, <2>11, <2>12,
           <2>13, <2>14, <2>15, <2>16, <2>17, <2>18, <2>19, <2>20, <2>21, <2>22, <2>23
           DEF Next, Inside, IoThread
<1> QED BY <1>1, <1>2, TypeCorrect, SessionInvariant, PTL DEF Spec
==============================================================================
