----------------------------- MODULE PacketServer -----------------------------
(****************************************************************************)
(* PacketServer.hpp: the registry of connections and the two threads that   *)
(* share it.                                                                *)
(*                                                                          *)
(* The io thread accepts connections, adds them to m_Connections and runs   *)
(* the handlers of each Connection.  One application thread calls Start(),  *)
(* Stop(), Send_AllClients(), SendKeepAlive(), Update() and the destructor; *)
(* it walks m_Connections without a lock, one entry at a time.              *)
(*                                                                          *)
(* Of a Connection (see Connection.tla) only its socket and the handlers it *)
(* still waits for are kept.  Handlers hold a raw `this`: a Connection      *)
(* lives as long as a shared_ptr to it, which is in m_Connections, in a     *)
(* queued message, or in the hands of one of the two threads.  The          *)
(* application keeps none of its own and its callbacks do not call the      *)
(* server.  The incoming queue is a plain sequence, as FifoQueue.tla        *)
(* allows with one reader.                                                  *)
(*                                                                          *)
(* When the program does something undefined, `undefined` tells and nothing *)
(* is claimed of what follows.                                              *)
(****************************************************************************)
EXTENDS Naturals, Sequences, FiniteSets, SequencesExt

CONSTANTS Connections,   \* the connections clients make
          NoConnection,  \* a null Connection_ptr
          Updates,       \* the arguments Update() is called with
          MaxPosted,     \* bound: sends only when fewer than this wait at each connection
          MaxMessages    \* bound: the packets that arrive

ASSUME ServerAssumption ==
    /\ NoConnection \notin Connections
    /\ Updates \subseteq [maximumMessages : Nat \ {0}, waitForMessage : BOOLEAN]
    /\ MaxPosted \in Nat /\ MaxMessages \in Nat

Messages == [from : Connections, compressed : BOOLEAN]

VARIABLES
    io,               \* the io thread: "off", "running", "stopped" or "terminated"
    joinable,         \* whether m_ThreadContext is joinable
    accepting,        \* the connection the accept handler is busy with
    m_Connections,
    socket,           \* "none" (not accepted yet), "open" or "closed"
    reading,          \* the async_read: "none", "pending", or "completed" and its handler not run yet
    posted,           \* the Sends whose lambda and write handlers have not run yet
    overdue,          \* whether LastKeepAlive() is longer ago than KeepAliveMaxDelay
    m_MessageInQueue,
    user,             \* the call the application is in, and the entry it has reached
    invalidClientExists,
    inHand,           \* the messages Update() has popped and not handed over
    left,             \* how many more messages Update() takes
    told,             \* history: the arguments of OnClientDisconnect()
    approved,         \* history: the connections added to m_Connections
    arrived,          \* history: the packets queued, compressed ones excepted
    handled,          \* history: the messages passed to OnMessage()
    undefined         \* whether something undefined has happened

ioVars   == <<io, joinable, accepting, socket, reading, overdue, approved>>
loopVars == <<user, invalidClientExists, told>>
msgVars  == <<m_MessageInQueue, inHand, left, arrived, handled>>
vars     == <<ioVars, m_Connections, posted, loopVars, msgVars, undefined>>

Idle == [call |-> "idle", at |-> 1]

Init ==
    /\ io = "off" /\ joinable = FALSE
    /\ accepting = NoConnection
    /\ m_Connections = << >>
    /\ socket = [c \in Connections |-> "none"]
    /\ reading = [c \in Connections |-> "none"]
    /\ posted = [c \in Connections |-> 0]
    /\ overdue = [c \in Connections |-> FALSE]
    /\ m_MessageInQueue = << >> /\ inHand = << >> /\ left = 0
    /\ user = Idle /\ invalidClientExists = FALSE
    /\ told = << >> /\ approved = {}
    /\ arrived = << >> /\ handled = << >>
    /\ undefined = FALSE

Elements(s) == {s[i] : i \in DOMAIN s}

\* The sequence s without its entries in S; the others keep their order.
Without(s, S) ==
    LET kept[i \in 0 .. Len(s)] ==
            IF i = 0 THEN << >> ELSE IF s[i] \in S THEN kept[i - 1] ELSE Append(kept[i - 1], s[i])
    IN  kept[Len(s)]

\* A shared_ptr to c is left somewhere, so its destructor has not run.
Alive(c) ==
    \/ c \in Elements(m_Connections)
    \/ \E m \in Elements(m_MessageInQueue) \cup Elements(inHand) : m.from = c
    \/ accepting = c

IsConnected(c) == socket[c] = "open"

\* Mutant: only the null pointer is looked for.
UsableIfAny(c) == c # NoConnection

\* What both loops ask of an entry: a connection, and connected.  (Of the connections of
\* a server, IsConnecting() is never true.)
Usable(c) == c # NoConnection /\ IsConnected(c)

\* The process is alive and has done nothing undefined.
Defined == ~undefined /\ io # "terminated"

\* Each thread between two things to do.
UserFree == Defined /\ user = Idle
IoFree   == Defined /\ io = "running" /\ accepting = NoConnection

\* The application thread is between two entries of m_Connections.
Walking == user.call \in {"drop", "check", "send"}

------------------------------------------------------------------------------
(* Start(), Stop() and the destructor. *)

\* A context that was stopped is not restarted: its run() returns at once.  The thread of
\* an earlier Start() that is still to be joined must not be assigned to: std::terminate().
Start ==
    /\ UserFree
    /\ joinable' = TRUE
    /\ \/ joinable /\ io' = "terminated"
       \/ ~joinable /\ io' = IF io = "off" THEN "running" ELSE io
    /\ UNCHANGED <<accepting, socket, reading, overdue, approved>>
    /\ UNCHANGED <<m_Connections, posted, loopVars, msgVars, undefined>>

\* stop() lets no further handler begin; one that is running goes on ...
StopContext(call) ==
    /\ UserFree
    /\ io' = "stopped"
    /\ user' = [call |-> call, at |-> 1]
    /\ UNCHANGED <<joinable, accepting, socket, reading, overdue, approved>>
    /\ UNCHANGED <<m_Connections, posted, invalidClientExists, told, msgVars, undefined>>

Stop    == StopContext("stop")
Destroy == StopContext("destroy")

\* Mutant: the io thread is not joined.
Stop_JoinsNot ==
    /\ Defined /\ user.call = "stop"
    /\ joinable' = FALSE
    /\ user' = Idle
    /\ UNCHANGED <<io, accepting, socket, reading, overdue, approved>>
    /\ UNCHANGED <<m_Connections, posted, invalidClientExists, told, msgVars, undefined>>

\* ... and join() waits for it.
Stop_Joins ==
    /\ Defined /\ user.call = "stop" /\ accepting = NoConnection
    /\ joinable' = FALSE
    /\ user' = Idle
    /\ UNCHANGED <<io, accepting, socket, reading, overdue, approved>>
    /\ UNCHANGED <<m_Connections, posted, invalidClientExists, told, msgVars, undefined>>

\* The destructor stops the server, then destroys the members: the io_context before the
\* connections in m_Connections and in the queue, whose sockets still use it.
Destroyed ==
    /\ Defined /\ user.call = "destroy" /\ accepting = NoConnection
    /\ joinable' = FALSE
    /\ user' = [user EXCEPT !.call = "gone"]
    /\ undefined' = \E c \in Connections : Alive(c)
    /\ UNCHANGED <<io, accepting, socket, reading, overdue, approved>>
    /\ UNCHANGED <<m_Connections, posted, invalidClientExists, told, msgVars>>

------------------------------------------------------------------------------
(* The io thread: the handler of async_accept. *)

Accept(c) ==
    /\ IoFree
    /\ socket[c] = "none"
    /\ socket' = [socket EXCEPT ![c] = "open"]
    /\ accepting' = c
    /\ UNCHANGED <<io, joinable, reading, overdue, approved>>
    /\ UNCHANGED <<m_Connections, posted, loopVars, msgVars, undefined>>

AcceptingNew(c) == Defined /\ accepting = c /\ c \notin approved

\* OnClientConnect() said no: the last shared_ptr goes, nothing is pending.
Deny(c) ==
    /\ AcceptingNew(c)
    /\ accepting' = NoConnection
    /\ socket' = [socket EXCEPT ![c] = "closed"]
    /\ UNCHANGED <<io, joinable, reading, overdue, approved>>
    /\ UNCHANGED <<m_Connections, posted, loopVars, msgVars, undefined>>

\* push_back() invalidates the iterators of an application thread on its walk.
Approve(c) ==
    /\ AcceptingNew(c)
    /\ m_Connections' = Append(m_Connections, c)
    /\ approved' = approved \cup {c}
    /\ undefined' = Walking
    /\ UNCHANGED <<io, joinable, accepting, socket, reading, overdue>>
    /\ UNCHANGED <<posted, loopVars, msgVars>>

ConnectToClient(c) ==
    /\ Defined /\ accepting = c /\ c \in approved
    /\ accepting' = NoConnection
    /\ reading' = [reading EXCEPT ![c] = "pending"]
    /\ UNCHANGED <<io, joinable, socket, overdue, approved>>
    /\ UNCHANGED <<m_Connections, posted, loopVars, msgVars, undefined>>

------------------------------------------------------------------------------
(* The io thread: the handlers of a Connection. *)

\* A handler of c can run; c is still there.
HandlerOf(c) == IoFree /\ Alive(c)

\* The handler of a Connection that has been destroyed touches its members.
HandlerOfDestroyed(c) ==
    /\ IoFree /\ ~Alive(c)
    /\ reading[c] # "none" \/ posted[c] > 0
    /\ undefined' = TRUE
    /\ UNCHANGED <<ioVars, m_Connections, posted, loopVars, msgVars>>

\* A packet has been read; that the socket may be closed before the handler runs does not
\* change what it finds.
ReadCompletes(c) ==
    /\ HandlerOf(c) /\ reading[c] = "pending" /\ IsConnected(c)
    /\ reading' = [reading EXCEPT ![c] = "completed"]
    /\ UNCHANGED <<io, joinable, accepting, socket, overdue, approved>>
    /\ UNCHANGED <<m_Connections, posted, loopVars, msgVars, undefined>>

ReadHandlerOf(c) == HandlerOf(c) /\ reading[c] = "completed"

\* The handler queues the packet and reads on, which fails at once on a closed socket.
Queue(c, compressed) ==
    /\ ReadHandlerOf(c)
    /\ Len(arrived) < MaxMessages /\ Len(m_MessageInQueue) < MaxMessages
    /\ LET m == [from |-> c, compressed |-> compressed]
       IN  /\ m_MessageInQueue' = Append(m_MessageInQueue, m)
           /\ arrived' = IF compressed THEN arrived ELSE Append(arrived, m)
    /\ reading' = [reading EXCEPT ![c] = "pending"]
    /\ UNCHANGED <<io, joinable, accepting, socket, approved>>
    /\ UNCHANGED <<m_Connections, posted, loopVars, inHand, left, handled, undefined>>

PacketArrives(c, compressed) == Queue(c, compressed) /\ UNCHANGED overdue

\* A KeepAlive is queued too, after it was taken for the answer to the last Ping or not.
PongArrives(c) ==
    /\ Queue(c, FALSE)
    /\ \E wrong \in BOOLEAN : overdue' = [overdue EXCEPT ![c] = wrong]

\* After an Init packet the server's end does not read on.
InitArrives(c) ==
    /\ ReadHandlerOf(c)
    /\ reading' = [reading EXCEPT ![c] = "none"]
    /\ UNCHANGED <<io, joinable, accepting, socket, overdue, approved>>
    /\ UNCHANGED <<m_Connections, posted, loopVars, msgVars, undefined>>

\* The read has failed, or the packet has a body and is compressed.
ReadFails(c) ==
    /\ HandlerOf(c) /\ reading[c] # "none"
    /\ reading' = [reading EXCEPT ![c] = "none"]
    /\ socket' = [socket EXCEPT ![c] = "closed"]
    /\ UNCHANGED <<io, joinable, accepting, overdue, approved>>
    /\ UNCHANGED <<m_Connections, posted, loopVars, msgVars, undefined>>

\* What was sent goes out, or the write fails and its handler closes the socket.
SendIsWritten(c) ==
    /\ HandlerOf(c) /\ posted[c] > 0
    /\ posted' = [posted EXCEPT ![c] = @ - 1]
    /\ socket' \in {socket, [socket EXCEPT ![c] = "closed"]}
    /\ UNCHANGED <<io, joinable, accepting, reading, overdue, approved>>
    /\ UNCHANGED <<m_Connections, loopVars, msgVars, undefined>>

\* WriteHeader() throws when the lambda of Send() finds the socket closed.
SendThrows(c) ==
    /\ HandlerOf(c) /\ posted[c] > 0 /\ ~IsConnected(c)
    /\ io' = "terminated"
    /\ UNCHANGED <<joinable, accepting, socket, reading, overdue, approved>>
    /\ UNCHANGED <<m_Connections, posted, loopVars, msgVars, undefined>>

\* KeepAliveMaxDelay passes without an answer.
TimePasses(c) ==
    /\ Defined /\ c \in approved /\ ~overdue[c]
    /\ overdue' = [overdue EXCEPT ![c] = TRUE]
    /\ UNCHANGED <<io, joinable, accepting, socket, reading, approved>>
    /\ UNCHANGED <<m_Connections, posted, loopVars, msgVars, undefined>>

------------------------------------------------------------------------------
(* The application thread: Send_AllClients() and SendKeepAlive(). *)

CanSend == \A c \in Connections : posted[c] < MaxPosted

\* Both walk from the first entry.
Call(loop) ==
    /\ UserFree /\ CanSend
    /\ user' = [call |-> loop, at |-> 1]
    /\ invalidClientExists' = FALSE
    /\ UNCHANGED <<ioVars, m_Connections, posted, told, msgVars, undefined>>

Send_AllClients == Call("check")
SendKeepAlive   == Call("drop")

In(loop) == Defined /\ user.call = loop /\ user.at <= Len(m_Connections)
Entry == m_Connections[user.at]
GoOn(loop) == user' = [call |-> loop, at |-> user.at + 1]

\* Mutant: reset() is forgotten.
DropNot ==
    /\ told' = Append(told, Entry)
    /\ UNCHANGED m_Connections
    /\ invalidClientExists' = TRUE

\* Mutant: invalidClientExists is not set.
DropUnflagged ==
    /\ told' = Append(told, Entry)
    /\ m_Connections' = [m_Connections EXCEPT ![user.at] = NoConnection]
    /\ UNCHANGED invalidClientExists

\* The entry is of no use any more: tell the application, and reset() it.
Drop ==
    /\ told' = Append(told, Entry)
    /\ m_Connections' = [m_Connections EXCEPT ![user.at] = NoConnection]
    /\ invalidClientExists' = TRUE

KeepAlive_Drops ==
    /\ In("drop")
    /\ ~(Usable(Entry) /\ ~overdue[Entry])
    /\ Drop
    /\ GoOn("drop")
    /\ UNCHANGED <<ioVars, posted, msgVars, undefined>>

KeepAlive_Keeps ==
    /\ In("drop")
    /\ Usable(Entry) /\ ~overdue[Entry]
    /\ GoOn("drop")
    /\ UNCHANGED <<ioVars, m_Connections, posted, invalidClientExists, told, msgVars, undefined>>

Send_Drops ==
    /\ In("check")
    /\ ~Usable(Entry)
    /\ Drop
    /\ GoOn("check")
    /\ UNCHANGED <<ioVars, posted, msgVars, undefined>>

\* The entry is connected: Connection::Send(packet) is called, unless it is
\* ignoredClient ...
Send_Checks ==
    /\ In("check")
    /\ Usable(Entry)
    /\ user' = [user EXCEPT !.call = "send"]
    /\ UNCHANGED <<ioVars, m_Connections, posted, invalidClientExists, told, msgVars, undefined>>

Send_Ignores ==
    /\ In("send")
    /\ GoOn("check")
    /\ UNCHANGED <<ioVars, m_Connections, posted, invalidClientExists, told, msgVars, undefined>>

\* ... and asks IsConnected() again.
Send_Posts ==
    /\ In("send") /\ IsConnected(Entry)
    /\ posted' = [posted EXCEPT ![Entry] = @ + 1]
    /\ GoOn("check")
    /\ UNCHANGED <<ioVars, m_Connections, invalidClientExists, told, msgVars, undefined>>

\* It throws out of Send_AllClients(), past the clean-up at its end.
Send_Throws ==
    /\ In("send") /\ ~IsConnected(Entry)
    /\ user' = Idle /\ invalidClientExists' = FALSE
    /\ UNCHANGED <<ioVars, m_Connections, posted, told, msgVars, undefined>>

\* The end of a loop: erase the entries that were reset.
RemoveDead ==
    m_Connections' = IF invalidClientExists THEN Without(m_Connections, {NoConnection}) ELSE m_Connections

\* SendKeepAlive() ends with a call of Send_AllClients().
LoopEnds ==
    /\ Defined
    /\ user.call \in {"drop", "check"} /\ user.at > Len(m_Connections)
    /\ RemoveDead
    /\ invalidClientExists' = FALSE
    /\ user' = IF user.call = "drop" THEN [call |-> "check", at |-> 1] ELSE Idle
    /\ UNCHANGED <<ioVars, posted, told, msgVars, undefined>>

------------------------------------------------------------------------------
(* The application thread: Update(). *)

Update(u) ==
    /\ UserFree
    /\ user' = [call |-> IF u.waitForMessage THEN "wait" ELSE "update", at |-> 1]
    /\ left' = u.maximumMessages
    /\ UNCHANGED <<ioVars, m_Connections, posted, invalidClientExists, told>>
    /\ UNCHANGED <<m_MessageInQueue, inHand, arrived, handled, undefined>>

Update_Waits ==
    /\ Defined /\ user.call = "wait" /\ m_MessageInQueue # << >>
    /\ user' = [user EXCEPT !.call = "update"]
    /\ UNCHANGED <<ioVars, m_Connections, posted, invalidClientExists, told, msgVars, undefined>>

\* Mutant: one message more than maximumMessages.
Update_TakesOneMore ==
    /\ Defined /\ user.call = "update" /\ inHand = << >>
    /\ m_MessageInQueue # << >>
    /\ m_MessageInQueue' = Tail(m_MessageInQueue)
    /\ inHand' = <<Head(m_MessageInQueue)>> /\ left' = left - 1
    /\ UNCHANGED <<ioVars, m_Connections, posted, loopVars, arrived, handled, undefined>>

\* Mutant: pop_back() for pop_front().
Update_TakesLast ==
    /\ Defined /\ user.call = "update" /\ inHand = << >>
    /\ left > 0 /\ m_MessageInQueue # << >>
    /\ m_MessageInQueue' = Front(m_MessageInQueue)
    /\ inHand' = <<Last(m_MessageInQueue)>> /\ left' = left - 1
    /\ UNCHANGED <<ioVars, m_Connections, posted, loopVars, arrived, handled, undefined>>

\* A compressed packet is popped, and an exception thrown.
Update_Takes ==
    /\ Defined /\ user.call = "update" /\ inHand = << >>
    /\ left > 0 /\ m_MessageInQueue # << >>
    /\ m_MessageInQueue' = Tail(m_MessageInQueue)
    /\ IF Head(m_MessageInQueue).compressed
       THEN user' = Idle /\ left' = 0 /\ UNCHANGED inHand
       ELSE inHand' = <<Head(m_MessageInQueue)>> /\ left' = left - 1 /\ UNCHANGED user
    /\ UNCHANGED <<ioVars, m_Connections, posted, invalidClientExists, told, arrived, handled, undefined>>

\* OnMessage(), then the parser and OnPacket().
Update_Hands ==
    /\ Defined /\ inHand # << >>
    /\ handled' = handled \o inHand
    /\ inHand' = << >>
    /\ UNCHANGED <<ioVars, m_Connections, posted, loopVars, m_MessageInQueue, left, arrived, undefined>>

Update_Ends ==
    /\ Defined /\ user.call = "update" /\ inHand = << >>
    /\ left = 0 \/ m_MessageInQueue = << >>
    /\ user' = Idle /\ left' = 0
    /\ UNCHANGED <<ioVars, m_Connections, posted, invalidClientExists, told>>
    /\ UNCHANGED <<m_MessageInQueue, inHand, arrived, handled, undefined>>

------------------------------------------------------------------------------
Accepting(c)    == Deny(c) \/ Approve(c) \/ ConnectToClient(c)
SendHandlers(c) == SendIsWritten(c) \/ SendThrows(c)
ReadHandler(c)  ==
    \/ ReadCompletes(c) \/ ReadFails(c) \/ InitArrives(c) \/ PongArrives(c)
    \/ \E z \in BOOLEAN : PacketArrives(c, z)

\* The steps of the application inside a call.
InCall ==
    \/ KeepAlive_Drops \/ KeepAlive_Keeps \/ Send_Drops \/ Send_Checks \/ Send_Ignores
    \/ Send_Posts \/ Send_Throws \/ LoopEnds
    \/ Update_Waits \/ Update_Takes \/ Update_Hands \/ Update_Ends
    \/ Stop_Joins \/ Destroyed

Calls ==
    \/ Start \/ Stop \/ Destroy \/ Send_AllClients \/ SendKeepAlive
    \/ \E u \in Updates : Update(u)

Next ==
    \/ \E c \in Connections :
          \/ Accept(c) \/ Accepting(c) \/ SendHandlers(c) \/ ReadHandler(c)
          \/ HandlerOfDestroyed(c) \/ TimePasses(c)
    \/ InCall
    \/ Calls

Spec == Init /\ [][Next]_vars

\* The io thread runs its handlers in turn, a call of the application goes on, and the
\* application keeps calling SendKeepAlive(), whatever else it does.
Fairness ==
    /\ \A c \in Connections : WF_vars(Accepting(c)) /\ WF_vars(SendHandlers(c))
    /\ WF_vars(InCall)
    /\ SF_vars(SendKeepAlive)

FairSpec == Spec /\ Fairness

------------------------------------------------------------------------------
TypeOK ==
    /\ io \in {"off", "running", "stopped", "terminated"}
    /\ joinable \in BOOLEAN
    /\ accepting \in Connections \cup {NoConnection}
    /\ m_Connections \in Seq(Connections \cup {NoConnection})
    /\ socket \in [Connections -> {"none", "open", "closed"}]
    /\ reading \in [Connections -> {"none", "pending", "completed"}]
    /\ posted \in [Connections -> 0 .. MaxPosted]
    /\ overdue \in [Connections -> BOOLEAN]
    /\ m_MessageInQueue \in Seq(Messages)
    /\ user \in [call : {"idle", "drop", "check", "send", "wait", "update", "stop", "destroy", "gone"},
                 at : Nat \ {0}]
    /\ invalidClientExists \in BOOLEAN
    /\ inHand \in Seq(Messages) /\ left \in Nat
    /\ told \in Seq(Connections \cup {NoConnection})
    /\ approved \subseteq Connections
    /\ arrived \in Seq(Messages) /\ handled \in Seq(Messages)
    /\ undefined \in BOOLEAN

\* No client is forgotten and none is reported twice: an approved connection is in
\* m_Connections or has been passed to OnClientDisconnect(), exactly once, even when
\* an exception has cut a walk short.
ListedOrReported ==
    \A c \in Connections :
        Cardinality({i \in DOMAIN (m_Connections \o told) : (m_Connections \o told)[i] = c})
            = IF c \in approved THEN 1 ELSE 0

\* "Remove dead clients, all in one go": a walk that comes to its end leaves no null
\* entry, not even one an earlier walk has left.
WalkCleansUp == [][LoopEnds => NoConnection \notin Elements(m_Connections')]_vars

\* Update() hands every packet to OnMessage(), in the order of arrival and once; only
\* the compressed ones get lost.
MessagesKept ==
    handled \o inHand \o Without(m_MessageInQueue, {m \in Messages : m.compressed}) = arrived

\* A client that does not answer, or has gone, is reported and dropped.
SilentClientIsReported ==
    \A c \in Connections :
        (c \in approved /\ (overdue[c] \/ ~IsConnected(c)))
            ~> (c \in Elements(told) \/ ~(overdue[c] \/ ~IsConnected(c)) \/ io # "running" \/ undefined)

\* From the return of Stop() until the next Start() the server is at rest: no client is
\* added, no packet is queued and no socket is read or closed.
QuietAfterStop ==
    [][~joinable => /\ UNCHANGED <<approved, socket, reading>>
                    /\ Len(m_MessageInQueue') <= Len(m_MessageInQueue)]_vars

\* A connection goes out of scope only with no pending tasks.
DestroyedAtRest ==
    \A c \in Connections : (c \in approved /\ ~Alive(c)) => (reading[c] = "none" /\ posted[c] = 0)
==============================================================================
