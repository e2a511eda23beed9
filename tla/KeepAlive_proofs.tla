--------------------------- MODULE KeepAlive_proofs ---------------------------
(****************************************************************************)
(* That a prompt client is kept while the server reads its answers, and a   *)
(* silent one dropped in time, for any periods, delays and resolution of    *)
(* the payload.                                                             *)
(****************************************************************************)
EXTENDS KeepAlive, TLAPS

\* Whole seconds do not go back, and a payload is one of them.
LEMMA SecondsGrow ==
    ASSUME NEW t \in Nat
    PROVE  Seconds(t) \in Nat /\ Seconds(t + 1) \in Nat /\ Seconds(t) <= Seconds(t + 1)
  <1>1. Second \in Nat \ {0}
    BY KeepAliveAssumption
  <1> DEFINE q == t \div Second
             p == (t + 1) \div Second
  <1>2. q \in Nat /\ p \in Nat /\ Second * q <= t /\ t + 1 < Second * (p + 1)
    BY <1>1, SMTT(30)
  <1>3. Second * q < Second * (p + 1)
    BY <1>1, <1>2
  <1>4. q < p + 1
    BY <1>1, <1>2, <1>3, SMTT(30)
  <1> QED
    BY <1>2, <1>4 DEF Seconds

LEMMA Constants ==
    /\ Second \in Nat \ {0} /\ KeepAliveMaxDelay \in Nat
    /\ PeriodMin \in Nat /\ PeriodMax \in Nat /\ RoundTrip \in Nat /\ MaxTime \in Nat
    /\ Start \in Nat /\ Start > KeepAliveMaxDelay + PeriodMax
  BY KeepAliveAssumption

\* The types in TypeOK hold of every reachable state.
THEOREM TypeCorrect == Spec => []TypeOK
  <1>1. Init => TypeOK
    BY Constants, SecondsGrow DEF Init, TypeOK
  <1>2. TypeOK /\ [Next]_vars => TypeOK'
    <2> SUFFICES ASSUME TypeOK, [Next]_vars PROVE TypeOK'
      OBVIOUS
    <2> USE Constants DEF TypeOK
    <2>1. CASE SendKeepAlive_Drops
      <3>1. listed' \in BOOLEAN
        BY <2>1 DEF SendKeepAlive_Drops
      <3>2. Seconds(now) \in Nat
        BY SecondsGrow
      <3> QED
        BY <2>1, <3>1, <3>2 DEF SendKeepAlive_Drops, Call
    <2>2. CASE SendKeepAlive_Pings
      <3>1. Seconds(now) \in Nat
        BY SecondsGrow
      <3>2. [payload |-> Seconds(now), sentAt |-> now] \in KeepAlives
        BY <3>1 DEF KeepAlives
      <3> QED
        BY <2>2, <3>1, <3>2 DEF SendKeepAlive_Pings, Call, Payload
    <2>3. CASE OnPing
      <3>1. Head(pings) \in KeepAlives /\ Tail(pings) \in Seq(KeepAlives)
        BY <2>3 DEF OnPing
      <3> QED
        BY <2>3, <3>1 DEF OnPing
    <2>8. CASE OnInit
      BY <2>8 DEF OnInit
    <2>4. CASE OnPong
      <3>1. Tail(pongs) \in Seq(KeepAlives)
        BY <2>4 DEF OnPong
      <3> QED
        BY <2>4, <3>1 DEF OnPong, Epoch
    <2>5. CASE SlowsDown
      BY <2>5 DEF SlowsDown
    <2>6. CASE Tick
      <3>1. Seconds(now + 1) \in Nat /\ Seconds(now) \in Nat /\ Seconds(now) <= Seconds(now + 1)
        BY SecondsGrow
      <3> QED
        BY <2>6, <3>1 DEF Tick
    <2>7. CASE UNCHANGED vars
      BY <2>7 DEF vars
    <2> QED
      BY <2>1, <2>2, <2>3, <2>4, <2>5, <2>6, <2>7, <2>8 DEF Next
  <1> QED
    BY <1>1, <1>2, PTL DEF Spec

------------------------------------------------------------------------------
(* Silence.  Whoever is in the registry had been heard from when            *)
(* SendKeepAlive() was called last.                                         *)
SilenceInv ==
    /\ m_LastKeepAlive <= heard
    /\ listed => called <= heard + KeepAliveMaxDelay /\ now <= called + PeriodMax

\* SilentDroppedInTime holds whatever the constants are.
THEOREM SilentClientDropped == Spec => []SilentDroppedInTime
  <1>1. Init => SilenceInv
    BY Constants DEF Init, SilenceInv
  <1>2. TypeOK /\ SilenceInv /\ [Next]_vars => SilenceInv'
    <2> SUFFICES ASSUME TypeOK, SilenceInv, [Next]_vars PROVE SilenceInv'
      OBVIOUS
    <2> USE Constants DEF TypeOK, SilenceInv
    <2>1. CASE SendKeepAlive_Drops
      BY <2>1 DEF SendKeepAlive_Drops, Call
    <2>2. CASE SendKeepAlive_Pings
      BY <2>2 DEF SendKeepAlive_Pings, Call, TooOld
    <2>3. CASE OnPing
      BY <2>3 DEF OnPing
    <2>8. CASE OnInit
      BY <2>8 DEF OnInit
    <2>4. CASE OnPong
      BY <2>4 DEF OnPong, Epoch
    <2>5. CASE SlowsDown
      BY <2>5 DEF SlowsDown
    <2>6. CASE Tick
      BY <2>6 DEF Tick
    <2>7. CASE UNCHANGED vars
      BY <2>7 DEF vars
    <2> QED
      BY <2>1, <2>2, <2>3, <2>4, <2>5, <2>6, <2>7, <2>8 DEF Next
  <1>3. TypeOK /\ SilenceInv => SilentDroppedInTime
    BY Constants DEF TypeOK, SilenceInv, SilentDroppedInTime
  <1> QED
    BY <1>1, <1>2, <1>3, TypeCorrect, PTL DEF Spec

------------------------------------------------------------------------------
(* Promptness.  While all answers are prompt and the server reads them, at  *)
(* most one KeepAlive is on its way: the one of the last call, whose        *)
(* payload the server remembers.  When there is none, the last call has     *)
(* been answered.                                                           *)
OnItsWay(k) == k.sentAt = called /\ k.payload = m_LastKeepAliveValue

PromptInv ==
    (Timely /\ prompt /\ init = "none") =>
        /\ listed
        /\ now <= called + PeriodMax
        /\ \/ pings = << >> /\ pongs = << >> /\ m_LastKeepAlive >= called
           \/ pings = << >> /\ Len(pongs) = 1 /\ OnItsWay(pongs[1]) /\ now <= called + RoundTrip
           \/ pongs = << >> /\ Len(pings) = 1 /\ OnItsWay(pings[1]) /\ now <= called + RoundTrip

\* PromptClientKept holds whatever the constants are: a client that answers in time is not
\* dropped if its connection was given no Init packet.
THEOREM PromptClientIsKept == Spec => []PromptClientKept
  <1>1. Init => PromptInv
    BY Constants DEF Init, PromptInv
  <1>2. TypeOK /\ PromptInv /\ [Next]_vars => PromptInv'
    <2> SUFFICES ASSUME TypeOK, PromptInv, [Next]_vars, Timely, prompt', init' = "none"
                 PROVE  PromptInv'
      BY DEF PromptInv
    <2>1. prompt /\ init = "none"
      BY DEF Next, vars, SendKeepAlive_Drops, SendKeepAlive_Pings, OnPing, OnInit, OnPong,
             SlowsDown, Tick
    <2> USE <2>1, Constants DEF TypeOK, PromptInv, Timely
    <2>2. Call => pings = << >> /\ pongs = << >> /\ m_LastKeepAlive >= called /\ ~TooOld(m_LastKeepAlive)
      BY DEF Call, TooOld
    <2>3. CASE SendKeepAlive_Drops
      BY <2>2, <2>3 DEF SendKeepAlive_Drops
    <2>4. CASE SendKeepAlive_Pings
      <3>1. pings' = <<[payload |-> Payload(now), sentAt |-> now]>> /\ pongs' = << >>
        BY <2>2, <2>4 DEF SendKeepAlive_Pings
      <3> QED
        BY <2>4, <3>1 DEF SendKeepAlive_Pings, Call, OnItsWay
    <2>5. CASE OnPing
      <3>1. pongs = << >> /\ Len(pings) = 1 /\ OnItsWay(pings[1]) /\ now <= called + RoundTrip
        BY <2>5 DEF OnPing
      <3>2. pings' = << >> /\ pongs' = <<pings[1]>>
        BY <2>5, <3>1 DEF OnPing
      <3> QED
        BY <2>5, <3>1, <3>2 DEF OnPing, OnItsWay
    <2>10. CASE OnInit
      BY <2>10 DEF OnInit
    <2>6. CASE OnPong
      <3>1. pings = << >> /\ Len(pongs) = 1 /\ OnItsWay(pongs[1])
        BY <2>6 DEF OnPong
      <3>2. pings' = << >> /\ pongs' = << >> /\ m_LastKeepAlive' = now
        BY <2>6, <3>1 DEF OnPong, OnItsWay
      <3> QED
        BY <2>6, <3>2 DEF OnPong
    <2>7. CASE SlowsDown
      BY <2>7 DEF SlowsDown
    <2>8. CASE Tick
      <3>1. pongs # << >> => now < pongs[1].sentAt + RoundTrip
        BY <2>8 DEF Tick, InTime
      <3>2. pings # << >> => now < pings[1].sentAt + RoundTrip
        BY <2>8 DEF Tick, InTime
      <3> QED
        BY <2>8, <3>1, <3>2 DEF Tick, OnItsWay
    <2>9. CASE UNCHANGED vars
      BY <2>9 DEF vars, OnItsWay
    <2> QED
      BY <2>3, <2>4, <2>5, <2>6, <2>7, <2>8, <2>9, <2>10 DEF Next
  <1>3. PromptInv => PromptClientKept
    BY DEF PromptInv, PromptClientKept
  <1> QED
    BY <1>1, <1>2, <1>3, TypeCorrect, PTL DEF Spec
==============================================================================
