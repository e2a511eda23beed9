------------------------------- MODULE KeepAlive -------------------------------
(****************************************************************************)
(* The timing of KeepAlives between one client and its server.              *)
(*                                                                          *)
(* The application of the server calls PacketServer::SendKeepAlive(), which *)
(* drops a client it has not heard from for KeepAliveMaxDelay and sends the *)
(* others a Ping with the time in seconds.  PacketClient answers a Ping     *)
(* with the same payload as it comes.  The server's end of the connection   *)
(* compares the answer with the payload it sent last, if it still reads: an *)
(* Init packet, which PacketClient sends before anything else, is the last  *)
(* packet it reads.  Connection has the same handlers without time,         *)
(* PacketServer the same walk.                                              *)
(*                                                                          *)
(* What the code leaves to its environment are constants: how far apart     *)
(* the calls of SendKeepAlive() are and how long an answer takes.  The      *)
(* clock of the server is never set; a call takes no time.                  *)
(****************************************************************************)
EXTENDS Naturals, Sequences

CONSTANTS Second,             \* ticks of the clock in a second
          KeepAliveMaxDelay,
          PeriodMin,          \* two calls of SendKeepAlive() are at least this
          PeriodMax,          \*   and at most this far apart
          RoundTrip,          \* a prompt answer takes at most this long
          SendsInit,          \* {TRUE}: the client is a PacketClient; {FALSE}: its Connection
                              \*   was given no Init packet; or both
          Start,              \* when the connection was accepted
          MaxTime             \* bound: the clock stops here

ASSUME KeepAliveAssumption ==
    /\ Second \in Nat \ {0}
    /\ KeepAliveMaxDelay \in Nat
    /\ PeriodMin \in Nat /\ PeriodMax \in Nat
    /\ RoundTrip \in Nat
    /\ SendsInit \subseteq BOOLEAN
    /\ Start \in Nat /\ Start > KeepAliveMaxDelay + PeriodMax
    /\ MaxTime \in Nat

\* TimePoint_t(), which is long ago: 1970.
Epoch == 0

VARIABLES
    now,                   \* the clock
    called,                \* when SendKeepAlive() was called last
    m_LastKeepAliveValue, m_LastKeepAlive,
    pings, pongs,          \* the KeepAlives on their way, and when the server sent them
    init,                  \* the Init packet: "none", "sent", or "read" by the server
    prompt,                \* client and network have kept to RoundTrip so far
    heard,                 \* history: when an answer came in last
    listed                 \* the client is in m_Connections

vars == <<now, called, m_LastKeepAliveValue, m_LastKeepAlive, pings, pongs, init, prompt, heard, listed>>

Init ==
    /\ now = Start
    /\ called \in (Start - PeriodMax) .. Start
    /\ m_LastKeepAliveValue = 0
    /\ m_LastKeepAlive = Start
    /\ pings = << >> /\ pongs = << >>
    /\ \E sends \in SendsInit : init = IF sends THEN "sent" ELSE "none"
    /\ prompt = TRUE
    /\ heard = Start
    /\ listed = TRUE

------------------------------------------------------------------------------
Seconds(t) == t \div Second

\* Mutant: the payload in ticks.
PayloadInTicks(t) == t

\* Ping(): the payload is the time in seconds.
Payload(t) == Seconds(t)

\* Mutant: <= for <.
TooOldOrEqual(t) == t + KeepAliveMaxDelay <= now

\* LastKeepAlive() < oldestKeepAlive.
TooOld(t) == t + KeepAliveMaxDelay < now

Call ==
    /\ listed
    /\ now >= called + PeriodMin
    /\ called' = now

SendKeepAlive_Drops ==
    /\ Call
    /\ TooOld(m_LastKeepAlive)
    /\ listed' = FALSE
    /\ UNCHANGED <<now, m_LastKeepAliveValue, m_LastKeepAlive, pings, pongs, init, prompt, heard>>

\* Mutant: sending counts as hearing.
SendKeepAlive_PingsAndRenews ==
    /\ Call
    /\ ~TooOld(m_LastKeepAlive)
    /\ pings' = Append(pings, [payload |-> Payload(now), sentAt |-> now])
    /\ m_LastKeepAliveValue' = Payload(now)
    /\ m_LastKeepAlive' = now
    /\ UNCHANGED <<now, pongs, init, prompt, heard, listed>>

SendKeepAlive_Pings ==
    /\ Call
    /\ ~TooOld(m_LastKeepAlive)
    /\ pings' = Append(pings, [payload |-> Payload(now), sentAt |-> now])
    /\ m_LastKeepAliveValue' = Payload(now)
    /\ UNCHANGED <<now, m_LastKeepAlive, pongs, init, prompt, heard, listed>>

\* The client sends the payload back.
OnPing ==
    /\ pings # << >>
    /\ pongs' = Append(pongs, Head(pings))
    /\ pings' = Tail(pings)
    /\ UNCHANGED <<now, called, m_LastKeepAliveValue, m_LastKeepAlive, init, prompt, heard, listed>>

\* After an Init packet the server's end does not call ReadHeader() again.
OnInit ==
    /\ listed /\ init = "sent"
    /\ init' = "read"
    /\ UNCHANGED <<now, called, m_LastKeepAliveValue, m_LastKeepAlive, pings, pongs, prompt, heard, listed>>

\* The server takes an answer for the one to its last Ping, or sees that it is not.  The
\* client has sent its Init packet, if any, before it answers.
OnPong ==
    /\ listed /\ pongs # << >>
    /\ init = "none"
    /\ m_LastKeepAlive' = IF Head(pongs).payload = m_LastKeepAliveValue THEN now ELSE Epoch
    /\ heard' = now
    /\ pongs' = Tail(pongs)
    /\ UNCHANGED <<now, called, m_LastKeepAliveValue, pings, init, prompt, listed>>

\* From now on answers may come late or never.
SlowsDown ==
    /\ prompt
    /\ prompt' = FALSE
    /\ UNCHANGED <<now, called, m_LastKeepAliveValue, m_LastKeepAlive, pings, pongs, init, heard, listed>>

InTime(messages) == \A i \in DOMAIN messages : now < messages[i].sentAt + RoundTrip

\* The clock waits for the call that is due, and for prompt packets: Pings, the Init
\* packet, and answers if the server reads them.
Tick ==
    /\ now < MaxTime
    /\ listed => now < called + PeriodMax
    /\ prompt => /\ InTime(pings)
                 /\ init = "sent" => now < Start + RoundTrip
                 /\ init = "none" => InTime(pongs)
    /\ now' = now + 1
    /\ UNCHANGED <<called, m_LastKeepAliveValue, m_LastKeepAlive, pings, pongs, init, prompt, heard, listed>>

Next == SendKeepAlive_Drops \/ SendKeepAlive_Pings \/ OnPing \/ OnInit \/ OnPong \/ SlowsDown \/ Tick

Spec == Init /\ [][Next]_vars

------------------------------------------------------------------------------
KeepAlives == [payload : Nat, sentAt : Nat]

TypeOK ==
    /\ now \in Nat
    /\ called \in 0 .. now
    /\ m_LastKeepAliveValue \in Nat
    /\ m_LastKeepAliveValue <= Seconds(now)
    /\ m_LastKeepAlive \in 0 .. now
    /\ pings \in Seq(KeepAlives) /\ pongs \in Seq(KeepAlives)
    /\ init \in {"none", "sent", "read"}
    /\ prompt \in BOOLEAN
    /\ heard \in 0 .. now
    /\ listed \in BOOLEAN

\* Each Ping is answered before the next, if SendKeepAlive() is called no less often than
\* every KeepAliveMaxDelay.
Timely == RoundTrip < PeriodMin /\ PeriodMax <= KeepAliveMaxDelay

\* A client that answers in time is never dropped as long as the server reads its answers,
\* which it does until an Init packet: neither for its age nor for an answer that is
\* compared with the wrong payload.
PromptClientKept == Timely => (prompt /\ init = "none" => listed)

\* A client that is not heard from any more is dropped within KeepAliveMaxDelay and one
\* period of its last answer, whatever that answer was and however many Pings are still sent.
SilentDroppedInTime == listed => now <= heard + KeepAliveMaxDelay + PeriodMax
==============================================================================
