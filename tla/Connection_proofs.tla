--------------------------- MODULE Connection_proofs ---------------------------
(****************************************************************************)
(* What holds of Connection for all packets, payloads and bounds: its       *)
(* types, that asio is never given two reads or two writes of one socket at *)
(* a time, that the bytes being written are those of the packet at the      *)
(* front of the queue, and that a queue with packets in it is being         *)
(* written as long as the connection lives.                                 *)
(****************************************************************************)
EXTENDS Connection, SequenceTheorems, TLAPS

\* A side that has not been connected yet: an async_connect whose handler has not
\* begun, or a connection not yet accepted.
Fresh(e) ==
    IF e = "client" THEN connect \in {"none", "pending", "ok", "error"}
                    ELSE m_Socket["server"] = "new"

\* Nothing happens at a side before it is connected, and the client reads only when
\* the handler of async_connect has ended.
FreshInv ==
    /\ \A e \in Sides : Fresh(e) =>
          /\ posted[e] = << >> /\ m_MessagesOut[e] = << >>
          /\ writes[e] = << >> /\ reads[e] = << >>
          /\ ~IsConnected(e)
    /\ connect = "sending" => reads["client"] = << >>

CInv == TypeOK /\ FreshInv /\ OneOperation /\ WritesTheFront /\ QueueIsMoving

USE DEF Sides

------------------------------------------------------------------------------
(* Sequences of length at most one, and operations. *)

LEMMA TailOfOne ==
    ASSUME NEW S, NEW s \in Seq(S), s # << >>, Len(s) <= 1
    PROVE  Tail(s) = << >>
OBVIOUS

LEMMA HeadAndTail ==
    ASSUME NEW S, NEW s \in Seq(S), s # << >>
    PROVE  Head(s) \in S /\ Tail(s) \in Seq(S)
OBVIOUS

LEMMA AppendToEmpty ==
    ASSUME NEW S, NEW s \in Seq(S), NEW x \in S, s = << >>
    PROVE  /\ Append(s, x) \in Seq(S)
           /\ Len(Append(s, x)) <= 1
           /\ Append(s, x)[1] = x
           /\ Append(s, x) # << >>
           /\ DOMAIN Append(s, x) = {1}
OBVIOUS

LEMMA HeadOfAppend ==
    ASSUME NEW S, NEW s \in Seq(S), NEW x \in S
    PROVE  /\ Append(s, x) \in Seq(S)
           /\ Append(s, x) # << >>
           /\ s # << >> => Head(Append(s, x)) = Head(s)
BY AppendProperties, HeadTailAppend

LEMMA WriteOpResult ==
    ASSUME NEW w \in WriteOps, NEW r \in Outcomes
    PROVE  [w EXCEPT !.result = r] \in WriteOps /\ [w EXCEPT !.result = r].packet = w.packet
BY DEF WriteOps

LEMMA ReadOpResult ==
    ASSUME NEW w \in ReadOps, NEW r \in Outcomes
    PROVE  [w EXCEPT !.result = r] \in ReadOps
BY DEF ReadOps

LEMMA CancelledWrites ==
    ASSUME NEW ops \in Seq(WriteOps)
    PROVE  /\ Cancelled(ops) \in Seq(WriteOps)
           /\ DOMAIN Cancelled(ops) = DOMAIN ops
           /\ Len(Cancelled(ops)) = Len(ops)
           /\ \A i \in DOMAIN ops : Cancelled(ops)[i].packet = ops[i].packet
<1>1. \A i \in DOMAIN ops : ops[i] \in WriteOps
    OBVIOUS
<1>2. \A i \in DOMAIN ops : /\ [ops[i] EXCEPT !.result = "error"] \in WriteOps
                            /\ [ops[i] EXCEPT !.result = "error"].packet = ops[i].packet
    BY <1>1, WriteOpResult DEF Outcomes
<1>3. DOMAIN ops = 1 .. Len(ops) /\ Len(ops) \in Nat
    OBVIOUS
<1> QED
    BY <1>1, <1>2, <1>3 DEF Cancelled

LEMMA CancelledReads ==
    ASSUME NEW ops \in Seq(ReadOps)
    PROVE  Cancelled(ops) \in Seq(ReadOps) /\ Len(Cancelled(ops)) = Len(ops)
<1>1. \A i \in DOMAIN ops : ops[i] \in ReadOps
    OBVIOUS
<1>2. \A i \in DOMAIN ops : [ops[i] EXCEPT !.result = "error"] \in ReadOps
    BY <1>1, ReadOpResult DEF Outcomes
<1>3. DOMAIN ops = 1 .. Len(ops) /\ Len(ops) \in Nat
    OBVIOUS
<1> QED
    BY <1>1, <1>2, <1>3 DEF Cancelled

LEMMA CompleteWrites ==
    ASSUME NEW ops \in Seq(WriteOps), ops # << >>, NEW r \in Outcomes
    PROVE  /\ Complete(ops, r) \in Seq(WriteOps)
           /\ DOMAIN Complete(ops, r) = DOMAIN ops
           /\ Len(Complete(ops, r)) = Len(ops)
           /\ \A i \in DOMAIN ops : Complete(ops, r)[i].packet = ops[i].packet
<1>1. ops[1] \in WriteOps
    OBVIOUS
<1>2. [ops[1] EXCEPT !.result = r] \in WriteOps /\ [ops[1] EXCEPT !.result = r].packet = ops[1].packet
    BY <1>1, WriteOpResult
<1>3. Complete(ops, r) = [ops EXCEPT ![1] = [ops[1] EXCEPT !.result = r]]
    BY DEF Complete
<1> QED
    BY <1>2, <1>3

LEMMA CompleteReads ==
    ASSUME NEW ops \in Seq(ReadOps), ops # << >>, NEW r \in Outcomes
    PROVE  Complete(ops, r) \in Seq(ReadOps) /\ Len(Complete(ops, r)) = Len(ops)
<1>1. ops[1] \in ReadOps
    OBVIOUS
<1>2. [ops[1] EXCEPT !.result = r] \in ReadOps
    BY <1>1, ReadOpResult
<1>3. Complete(ops, r) = [ops EXCEPT ![1] = [ops[1] EXCEPT !.result = r]]
    BY DEF Complete
<1> QED
    BY <1>2, <1>3

LEMMA NoOps == << >> \in Seq(WriteOps) /\ << >> \in Seq(ReadOps)
OBVIOUS

LEMMA NewOps ==
    ASSUME NEW e \in Sides, NEW stage \in Stages, NEW m \in Packets
    PROVE  ReadOp(e, stage) \in ReadOps /\ WriteOp(e, stage, m) \in WriteOps
           /\ WriteOp(e, stage, m).packet = m
BY DEF ReadOp, WriteOp, ReadOps, WriteOps, Outcome, Outcomes

\* What TypeOK says of one side.
LEMMA TypesAt ==
    ASSUME TypeOK, NEW e \in Sides
    PROVE  /\ m_MessagesOut[e] \in Seq(Packets)
           /\ posted[e] \in Seq(Packets \cup {CloseLambda})
           /\ writes[e] \in Seq(WriteOps)
           /\ reads[e] \in Seq(ReadOps)
           /\ m_WipInMessage[e] \in Incoming
           /\ m_MessagesIn[e] \in Seq(Incoming)
<1>1. m_MessagesOut[e] \in Seq(Packets) /\ posted[e] \in Seq(Packets \cup {CloseLambda})
    BY DEF TypeOK
<1>2. writes[e] \in Seq(WriteOps) /\ reads[e] \in Seq(ReadOps)
    BY DEF TypeOK
<1>3. m_WipInMessage[e] \in Incoming /\ m_MessagesIn[e] \in Seq(Incoming)
    BY DEF TypeOK
<1> QED
    BY <1>1, <1>2, <1>3

LEMMA CountsAt ==
    ASSUME TypeOK, NEW e \in Sides
    PROVE  m_SentPacketCount[e] + 1 \in Nat /\ m_ReceivedPacketCount[e] + 1 \in Nat
<1>1. m_SentPacketCount[e] \in Nat /\ m_ReceivedPacketCount[e] \in Nat
    BY DEF TypeOK
<1> QED
    BY <1>1

------------------------------------------------------------------------------
(* The invariant. *)

LEMMA CInit == Init => CInv
<1> SUFFICES ASSUME Init PROVE CInv
    OBVIOUS
<1>1. TypeOK
    BY DEF Init, TypeOK, Incoming, AnyBody
<1>2. FreshInv /\ OneOperation /\ WritesTheFront /\ QueueIsMoving
    BY DEF Init, FreshInv, Fresh, IsConnected, OneOperation, WritesTheFront, QueueIsMoving
<1> QED
    BY <1>1, <1>2 DEF CInv

\* The parts of the invariant that are not about types.
Rest == FreshInv /\ OneOperation /\ WritesTheFront /\ QueueIsMoving

LEMMA CConnecting ==
    ASSUME CInv, Connecting
    PROVE  CInv'
<1> USE DEF CInv
<1>1. CASE ConnectToServer
    <2>1. TypeOK'
        BY <1>1 DEF ConnectToServer, TypeOK, outVars, inVars, aliveVars, appVars
    <2>2. FreshInv'
        BY <1>1 DEF ConnectToServer, TypeOK, FreshInv, Fresh, IsConnected, outVars, inVars, appVars
    <2>3. (OneOperation /\ WritesTheFront /\ QueueIsMoving)'
        BY <1>1 DEF ConnectToServer, TypeOK, IsConnected, Running, OneOperation, WritesTheFront,
                    QueueIsMoving, FreshInv, Fresh, outVars, inVars
    <2> QED
        BY <2>1, <2>2, <2>3
<1>2. CASE ConnectSucceeds
    <2>1. TypeOK'
        BY <1>2 DEF ConnectSucceeds, TypeOK, outVars, inVars, aliveVars, appVars
    <2>2. FreshInv'
        BY <1>2 DEF ConnectSucceeds, TypeOK, FreshInv, Fresh, IsConnected, outVars, inVars, appVars
    <2>3. (OneOperation /\ WritesTheFront /\ QueueIsMoving)'
        BY <1>2 DEF ConnectSucceeds, IsConnected, Running, OneOperation, WritesTheFront,
                    QueueIsMoving, outVars, inVars
    <2> QED
        BY <2>1, <2>2, <2>3
<1>3. CASE ConnectFails
    <2>1. TypeOK'
        BY <1>3 DEF ConnectFails, TypeOK, outVars, inVars, aliveVars, appVars
    <2>2. FreshInv'
        BY <1>3 DEF ConnectFails, TypeOK, FreshInv, Fresh, IsConnected, outVars, inVars, appVars
    <2>3. (OneOperation /\ WritesTheFront /\ QueueIsMoving)'
        BY <1>3 DEF ConnectFails, IsConnected, Running, OneOperation, WritesTheFront,
                    QueueIsMoving, outVars, inVars
    <2> QED
        BY <2>1, <2>2, <2>3
<1>4. CASE ConnectToClient
    <2>1. reads["server"] = << >> /\ m_MessagesOut["server"] = << >>
        BY <1>4 DEF ConnectToClient, FreshInv, Fresh
    <2>2. TypeOK'
        <3>1. [stage |-> "header", result |-> "pending"] \in ReadOps
            BY DEF ReadOps, Stages, Outcomes
        <3>2. reads' \in [Sides -> Seq(ReadOps)]
            BY <1>4, <3>1 DEF ConnectToClient, TypeOK
        <3> QED
            BY <1>4, <3>2 DEF ConnectToClient, TypeOK, outVars, aliveVars, appVars
    <2>3. FreshInv'
        BY <1>4 DEF ConnectToClient, TypeOK, FreshInv, Fresh, IsConnected, outVars, appVars
    <2>4. (OneOperation /\ WritesTheFront /\ QueueIsMoving)'
        BY <1>4, <2>1 DEF ConnectToClient, TypeOK, IsConnected, Running, OneOperation,
                          WritesTheFront, QueueIsMoving, outVars
    <2> QED
        BY <2>2, <2>3, <2>4
<1> QED
    BY <1>1, <1>2, <1>3, <1>4 DEF Connecting

LEMMA PostType ==
    ASSUME TypeOK, NEW e \in Sides, NEW m \in Packets, Post(e, m)
    PROVE  /\ posted' \in [Sides -> Seq(Packets \cup {CloseLambda})]
           /\ sent' \in [Sides -> Seq(Packets)]
<1>1. posted[e] \in Seq(Packets \cup {CloseLambda}) /\ sent[e] \in Seq(Packets)
    BY DEF TypeOK
<1>2. Append(posted[e], m) \in Seq(Packets \cup {CloseLambda}) /\ Append(sent[e], m) \in Seq(Packets)
    BY <1>1
<1> QED
    BY <1>2 DEF Post, TypeOK

LEMMA CApplication ==
    ASSUME CInv, NEW e \in Sides, Application(e)
    PROVE  CInv'
<1> USE DEF CInv
<1>1. ASSUME NEW m \in Data, Send(e, m)
      PROVE  CInv'
    <2>1. m \in Packets
        BY DEF Data
    <2>2. TypeOK'
        BY <1>1, <2>1, PostType DEF Send, TypeOK, linkVars, outVars, inVars, aliveVars
    <2>3. Rest'
        BY <1>1 DEF Rest, Send, Post, TypeOK, FreshInv, Fresh, IsConnected, Running, OneOperation,
                    WritesTheFront, QueueIsMoving, linkVars, outVars, inVars
    <2> QED
        BY <2>2, <2>3 DEF Rest
<1>2. CASE Disconnect(e)
    <2>1. TypeOK'
        <3>1. posted[e] \in Seq(Packets \cup {CloseLambda})
            BY DEF TypeOK
        <3>2. Append(posted[e], CloseLambda) \in Seq(Packets \cup {CloseLambda})
            BY <3>1
        <3> QED
            BY <1>2, <3>2 DEF Disconnect, TypeOK, linkVars, outVars, inVars, aliveVars
    <2>2. Rest'
        BY <1>2 DEF Rest, Disconnect, TypeOK, FreshInv, Fresh, IsConnected, Running, OneOperation,
                    WritesTheFront, QueueIsMoving, linkVars, outVars, inVars
    <2> QED
        BY <2>1, <2>2 DEF Rest
<1> QED
    BY <1>1, <1>2 DEF Application

LEMMA CSendKeepAlive ==
    ASSUME CInv, NEW p \in Payloads, SendKeepAlive(p)
    PROVE  CInv'
<1> USE DEF CInv
<1>1. [id |-> "KeepAlive", body |-> p] \in Packets
    BY DEF Packets, Ids, AnyBody
<1>2. TypeOK'
    BY <1>1, PostType DEF SendKeepAlive, TypeOK, linkVars, outVars, inVars
<1>3. Rest'
    BY DEF Rest, SendKeepAlive, Post, TypeOK, FreshInv, Fresh, IsConnected, Running, OneOperation,
           WritesTheFront, QueueIsMoving, linkVars, outVars, inVars
<1> QED
    BY <1>2, <1>3 DEF Rest

\* The state of a side whose io thread starts to write the queue `out`, its previous
\* operation being over, satisfies the invariant.
LEMMA CWriteHeader ==
    ASSUME CInv, NEW e \in Sides, NEW out \in Seq(Packets), out # << >>,
           ~Fresh(e), m_MessagesOut' = [m_MessagesOut EXCEPT ![e] = out],
           WriteHeader(e, out, << >>),
           UNCHANGED reads, posted' \in [Sides -> Seq(Packets \cup {CloseLambda})],
           \A d \in Sides : d # e => posted'[d] = posted[d]
    PROVE  /\ writes' \in [Sides -> Seq(WriteOps)]
           /\ Rest'
<1> USE DEF CInv
<1>1. Head(out) \in Packets
    OBVIOUS
<1>2. WriteOp(e, "header", Head(out)) \in WriteOps /\ WriteOp(e, "header", Head(out)).packet = Head(out)
    BY <1>1, NewOps DEF Stages
<1>3. CASE IsConnected(e)
    <2> DEFINE one == Append(<< >>, WriteOp(e, "header", Head(out)))
    <2>1. /\ one \in Seq(WriteOps) /\ Len(one) <= 1 /\ DOMAIN one = {1}
          /\ one[1].packet = Head(out) /\ one # << >>
        BY <1>2, NoOps, AppendToEmpty
    <2>2. writes' = [writes EXCEPT ![e] = one] /\ UNCHANGED linkVars
        BY <1>3 DEF WriteHeader
    <2> HIDE DEF one
    <2>4. writes' \in [Sides -> Seq(WriteOps)]
        BY <2>1, <2>2 DEF TypeOK
    <2>5. FreshInv'
        BY <2>2 DEF TypeOK, FreshInv, Fresh, IsConnected, linkVars
    <2>6. OneOperation'
        <3> HIDE DEF Sides
        <3>1. \A d \in Sides : writes'[d] = (IF d = e THEN one ELSE writes[d]) /\ reads'[d] = reads[d]
            BY <2>2 DEF TypeOK
        <3> QED
            BY <2>1, <3>1 DEF OneOperation
    <2>7. WritesTheFront'
        BY <2>1, <2>2 DEF TypeOK, WritesTheFront
    <2>8. QueueIsMoving'
        BY <2>1, <2>2 DEF TypeOK, QueueIsMoving, IsConnected, Running, linkVars
    <2> QED
        BY <2>4, <2>5, <2>6, <2>7, <2>8 DEF Rest
<1>4. CASE ~IsConnected(e)
    <2>1. writes' = [writes EXCEPT ![e] = << >>] /\ Terminate(e)
        BY <1>4 DEF WriteHeader
    <2>2. writes' \in [Sides -> Seq(WriteOps)]
        BY <2>1, NoOps DEF TypeOK
    <2>3. FreshInv'
        BY <2>1 DEF Terminate, TypeOK, FreshInv, Fresh, IsConnected
    <2> HIDE DEF Sides
    <2>7. /\ \A d \in Sides : writes'[d] = (IF d = e THEN << >> ELSE writes[d]) /\ reads'[d] = reads[d]
          /\ \A d \in Sides : d # e => m_MessagesOut'[d] = m_MessagesOut[d]
        BY <2>1 DEF TypeOK
    <2>8. Len(<< >>) = 0 /\ DOMAIN << >> = {}
        OBVIOUS
    <2>4. OneOperation'
        BY <2>7, <2>8 DEF OneOperation
    <2>5. WritesTheFront'
        BY <2>7, <2>8 DEF WritesTheFront
    <2>6. QueueIsMoving'
        BY <2>1 DEF Terminate, TypeOK, QueueIsMoving, IsConnected, Running
    <2> QED
        BY <2>2, <2>3, <2>4, <2>5, <2>6 DEF Rest
<1> QED
    BY <1>3, <1>4

LinkTypes ==
    /\ m_Socket \in [Sides -> {"new", "open", "closed"}]
    /\ m_IsConnecting \in [Sides -> BOOLEAN]
    /\ connect \in {"none", "pending", "ok", "error", "sending", "done"}
    /\ io \in [Sides -> {"running", "returned", "terminated"}]
    /\ link \in {"none", "up", "down"}

\* WriteHeader() leaves the connection as it is, or ends the process.
LEMMA WriteHeaderLink ==
    ASSUME CInv, NEW e \in Sides, NEW out, WriteHeader(e, out, << >>)
    PROVE  LinkTypes'
<1>1. LinkTypes
    BY DEF CInv, TypeOK, LinkTypes
<1>2. CASE UNCHANGED linkVars
    BY <1>1, <1>2 DEF LinkTypes, linkVars
<1>3. CASE Terminate(e)
    BY <1>1, <1>3 DEF LinkTypes, Terminate, Broken
<1> QED
    BY <1>2, <1>3 DEF WriteHeader

LEMMA CRunSend ==
    ASSUME CInv, NEW e \in Sides, RunSend(e)
    PROVE  CInv'
<1> USE DEF CInv
<1> DEFINE m == Head(posted[e])
           out == Append(m_MessagesOut[e], m)
<1>1. m \in Packets /\ Tail(posted[e]) \in Seq(Packets \cup {CloseLambda})
    <2>1. posted[e] \in Seq(Packets \cup {CloseLambda}) /\ posted[e] # << >> /\ m # CloseLambda
        BY DEF RunSend, TypeOK
    <2>2. m \in Packets \cup {CloseLambda}
        BY <2>1
    <2> QED
        BY <2>1, <2>2
<1>2. out \in Seq(Packets) /\ out # << >> /\ (m_MessagesOut[e] # << >> => Head(out) = Head(m_MessagesOut[e]))
    BY <1>1, TypesAt, HeadOfAppend
<1>3. ~Fresh(e)
    BY DEF RunSend, FreshInv
<1>4. /\ m_MessagesOut' = [m_MessagesOut EXCEPT ![e] = out]
      /\ posted' = [posted EXCEPT ![e] = Tail(@)]
      /\ UNCHANGED <<wire, m_SentPacketCount, inVars, aliveVars, sent>>
    BY DEF RunSend
<1> HIDE DEF out, m
<1>5. posted' \in [Sides -> Seq(Packets \cup {CloseLambda})]
    BY <1>1, <1>4 DEF TypeOK
<1>6. CASE m_MessagesOut[e] = << >>
    <2>1. writes[e] = << >>
        <3>1. writes[e] \in Seq(WriteOps)
            BY TypesAt
        <3>2. writes[e] # << >> => 1 \in DOMAIN writes[e]
            BY <3>1
        <3> QED
            BY <1>6, <3>2 DEF WritesTheFront
    <2>2. WriteHeader(e, out, << >>)
        BY <1>4, <1>6, <2>1 DEF RunSend, TypeOK
    <2>3. writes' \in [Sides -> Seq(WriteOps)] /\ Rest'
        BY <1>2, <1>3, <1>4, <1>5, <2>2, CWriteHeader DEF inVars, TypeOK
    <2>4. TypeOK'
        <3>1. LinkTypes'
            BY <2>2, WriteHeaderLink
        <3>2. m_MessagesOut' \in [Sides -> Seq(Packets)]
            BY <1>2, <1>4 DEF TypeOK
        <3> QED
            BY <1>4, <1>5, <2>3, <3>1, <3>2 DEF TypeOK, LinkTypes, inVars, aliveVars
    <2> QED
        BY <2>3, <2>4 DEF Rest
<1>7. CASE m_MessagesOut[e] # << >>
    <2>1. UNCHANGED <<writes, linkVars>>
        BY <1>7 DEF RunSend
    <2>2. TypeOK'
        BY <1>2, <1>4, <1>5, <2>1 DEF TypeOK, linkVars, inVars, aliveVars
    <2>3. FreshInv'
        BY <1>3, <1>4, <2>1 DEF TypeOK, FreshInv, Fresh, IsConnected, linkVars, inVars
    <2>4. OneOperation'
        BY <1>4, <2>1 DEF OneOperation, inVars
    <2>5. WritesTheFront'
        BY <1>2, <1>4, <1>7, <2>1 DEF TypeOK, WritesTheFront
    <2>6. QueueIsMoving'
        BY <1>4, <1>7, <2>1 DEF TypeOK, QueueIsMoving, IsConnected, Running, linkVars
    <2> QED
        BY <2>2, <2>3, <2>4, <2>5, <2>6
<1> QED
    BY <1>6, <1>7

LEMMA COnHeaderWritten ==
    ASSUME CInv, NEW e \in Sides, OnHeaderWritten(e)
    PROVE  CInv'
<1> USE DEF CInv
<1>1. writes[e] \in Seq(WriteOps) /\ writes[e] # << >> /\ Len(writes[e]) <= 1
    BY DEF OnHeaderWritten, Completed, TypeOK, OneOperation
<1>2. Tail(writes[e]) = << >>
    BY <1>1, TailOfOne
<1>3. m_MessagesOut[e] # << >> /\ ~Fresh(e)
    BY <1>1 DEF WritesTheFront, FreshInv
<1>4. Head(m_MessagesOut[e]) \in Packets
    BY <1>3, TypesAt, HeadAndTail
<1> DEFINE w == WriteOp(e, "body", Head(m_MessagesOut[e]))
           one == Append(<< >>, w)
<1>5. w \in WriteOps /\ w.packet = Head(m_MessagesOut[e])
    BY <1>4, NewOps DEF Stages
<1>6. /\ writes' = [writes EXCEPT ![e] = one]
      /\ UNCHANGED <<linkVars, wire, m_MessagesOut, m_SentPacketCount, inVars, aliveVars, appVars>>
    BY <1>2 DEF OnHeaderWritten
<1>7. one \in Seq(WriteOps) /\ Len(one) <= 1 /\ DOMAIN one = {1} /\ one[1] = w /\ one # << >>
    BY <1>5, NoOps, AppendToEmpty
<1> HIDE DEF one, w
<1>8. TypeOK'
    BY <1>6, <1>7 DEF TypeOK, linkVars, inVars, aliveVars, appVars
<1>9. FreshInv'
    BY <1>3, <1>6 DEF TypeOK, FreshInv, Fresh, IsConnected, linkVars, inVars, appVars
<1>10. QueueIsMoving'
    BY <1>6, <1>7 DEF TypeOK, QueueIsMoving, IsConnected, Running, linkVars
<1> HIDE DEF Sides
<1>11. \A d \in Sides : writes'[d] = (IF d = e THEN one ELSE writes[d]) /\ reads'[d] = reads[d]
    BY <1>6 DEF TypeOK, inVars
<1>12. OneOperation'
    BY <1>7, <1>11 DEF OneOperation
<1>13. WritesTheFront'
    BY <1>3, <1>5, <1>6, <1>7, <1>11 DEF WritesTheFront
<1> QED
    BY <1>8, <1>9, <1>10, <1>12, <1>13

LEMMA COnMessageWritten ==
    ASSUME CInv, NEW e \in Sides, OnMessageWritten(e)
    PROVE  CInv'
<1> USE DEF CInv
<1>1. writes[e] \in Seq(WriteOps) /\ writes[e] # << >> /\ Len(writes[e]) <= 1
    BY DEF OnMessageWritten, Completed, TypeOK, OneOperation
<1>2. Tail(writes[e]) = << >>
    BY <1>1, TailOfOne
<1>3. m_MessagesOut[e] # << >> /\ ~Fresh(e)
    BY <1>1 DEF WritesTheFront, FreshInv
<1> DEFINE out == Tail(m_MessagesOut[e])
<1>4. out \in Seq(Packets)
    BY <1>3, TypesAt, HeadAndTail
<1>5. /\ m_MessagesOut' = [m_MessagesOut EXCEPT ![e] = out]
      /\ m_SentPacketCount' = [m_SentPacketCount EXCEPT ![e] = @ + 1]
      /\ UNCHANGED <<wire, inVars, aliveVars, appVars>>
    BY DEF OnMessageWritten
<1> HIDE DEF out
<1>6. m_SentPacketCount' \in [Sides -> Nat]
    <2>1. m_SentPacketCount[e] + 1 \in Nat
        BY CountsAt
    <2> QED
        BY <1>5, <2>1 DEF TypeOK
<1>7. CASE out # << >>
    <2>1. WriteHeader(e, out, << >>)
        BY <1>2, <1>5, <1>7 DEF OnMessageWritten, TypeOK
    <2>2. writes' \in [Sides -> Seq(WriteOps)] /\ Rest'
        BY <1>3, <1>4, <1>5, <1>7, <2>1, CWriteHeader DEF inVars, appVars, TypeOK
    <2>3. TypeOK'
        <3>1. LinkTypes'
            BY <2>1, WriteHeaderLink
        <3>2. m_MessagesOut' \in [Sides -> Seq(Packets)]
            BY <1>4, <1>5 DEF TypeOK
        <3> QED
            BY <1>5, <1>6, <2>2, <3>1, <3>2 DEF TypeOK, LinkTypes, inVars, aliveVars, appVars
    <2> QED
        BY <2>2, <2>3 DEF Rest
<1>8. CASE out = << >>
    <2>1. writes' = [writes EXCEPT ![e] = << >>] /\ UNCHANGED linkVars
        BY <1>2, <1>5, <1>8 DEF OnMessageWritten, TypeOK
    <2>2. TypeOK'
        <3>1. writes' \in [Sides -> Seq(WriteOps)]
            BY <2>1, NoOps DEF TypeOK
        <3>2. m_MessagesOut' \in [Sides -> Seq(Packets)]
            BY <1>4, <1>5 DEF TypeOK
        <3> QED
            BY <1>5, <1>6, <2>1, <3>1, <3>2 DEF TypeOK, linkVars, inVars, aliveVars, appVars
    <2>3. FreshInv'
        BY <1>3, <1>5, <2>1 DEF TypeOK, FreshInv, Fresh, IsConnected, linkVars, inVars, appVars
    <2>4. QueueIsMoving'
        BY <1>5, <1>8, <2>1 DEF TypeOK, QueueIsMoving, IsConnected, Running, linkVars
    <2> HIDE DEF Sides
    <2>5. /\ \A d \in Sides : writes'[d] = (IF d = e THEN << >> ELSE writes[d]) /\ reads'[d] = reads[d]
          /\ \A d \in Sides : d # e => m_MessagesOut'[d] = m_MessagesOut[d]
        BY <1>5, <2>1 DEF TypeOK, inVars
    <2>6. Len(<< >>) = 0 /\ DOMAIN << >> = {}
        OBVIOUS
    <2>7. OneOperation'
        BY <2>5, <2>6 DEF OneOperation
    <2>8. WritesTheFront'
        BY <2>5, <2>6 DEF WritesTheFront
    <2> QED
        BY <2>2, <2>3, <2>4, <2>7, <2>8
<1> QED
    BY <1>7, <1>8

\* A side whose socket has been closed, with the operations `ws` and `rs` left over.
LEMMA CClose ==
    ASSUME CInv, NEW e \in Sides, ~Fresh(e),
           NEW ws \in Seq(WriteOps), ws = writes[e] \/ ws = << >>,
           NEW rs \in Seq(ReadOps), Len(rs) <= 1, e = "client" /\ connect = "sending" => rs = << >>,
           Close(e, ws, rs),
           UNCHANGED m_MessagesOut, posted' \in [Sides -> Seq(Packets \cup {CloseLambda})],
           \A d \in Sides : d # e => posted'[d] = posted[d]
    PROVE  /\ m_Socket' \in [Sides -> {"new", "open", "closed"}]
           /\ writes' \in [Sides -> Seq(WriteOps)]
           /\ reads' \in [Sides -> Seq(ReadOps)]
           /\ link' \in {"none", "up", "down"}
           /\ UNCHANGED <<m_IsConnecting, connect, io>>
           /\ Rest'
<1> USE DEF CInv
<1> DEFINE cw == Cancelled(ws)
           cr == Cancelled(rs)
<1>1. /\ cw \in Seq(WriteOps) /\ DOMAIN cw = DOMAIN ws /\ Len(cw) = Len(ws)
      /\ \A i \in DOMAIN ws : cw[i].packet = ws[i].packet
    BY CancelledWrites
<1>2. cr \in Seq(ReadOps) /\ Len(cr) = Len(rs)
    BY CancelledReads
<1>3. rs = << >> => cr = << >>
    BY <1>2
<1>4. /\ m_Socket' = [m_Socket EXCEPT ![e] = "closed"]
      /\ writes' = [writes EXCEPT ![e] = cw]
      /\ reads' = [reads EXCEPT ![e] = cr]
      /\ link' = Broken
      /\ UNCHANGED <<m_IsConnecting, connect, io>>
    BY DEF Close
<1>5. Len(<< >>) = 0 /\ DOMAIN << >> = {}
    OBVIOUS
<1>6. Len(ws) <= 1
    BY <1>5 DEF OneOperation
<1>7. \A i \in DOMAIN ws : m_MessagesOut[e] # << >> /\ ws[i].packet = Head(m_MessagesOut[e])
    BY <1>5 DEF WritesTheFront
<1> HIDE DEF cw, cr
<1>8. /\ m_Socket' \in [Sides -> {"new", "open", "closed"}]
      /\ writes' \in [Sides -> Seq(WriteOps)]
      /\ reads' \in [Sides -> Seq(ReadOps)]
      /\ link' \in {"none", "up", "down"}
    BY <1>1, <1>2, <1>4 DEF TypeOK, Broken
<1>9. FreshInv'
    BY <1>3, <1>4 DEF TypeOK, FreshInv, Fresh, IsConnected
<1>10. QueueIsMoving'
    BY <1>4 DEF TypeOK, QueueIsMoving, IsConnected, Running
<1> HIDE DEF Sides
<1>11. \A d \in Sides : /\ writes'[d] = IF d = e THEN cw ELSE writes[d]
                        /\ reads'[d] = IF d = e THEN cr ELSE reads[d]
    BY <1>4 DEF TypeOK
<1>12. OneOperation'
    BY <1>1, <1>2, <1>6, <1>11 DEF OneOperation
<1>13. WritesTheFront'
    <2>1. \A i \in DOMAIN cw : m_MessagesOut[e] # << >> /\ cw[i].packet = Head(m_MessagesOut[e])
        BY <1>1, <1>7
    <2> QED
        BY <2>1, <1>11 DEF WritesTheFront
<1> QED
    BY <1>4, <1>8, <1>9, <1>10, <1>12, <1>13 DEF Rest

LEMMA CClosing ==
    ASSUME CInv, NEW e \in Sides, RunDisconnect(e) \/ OnWriteFailed(e) \/ OnReadFailed(e)
    PROVE  CInv'
<1> USE DEF CInv
<1>1. /\ writes[e] \in Seq(WriteOps) /\ Len(writes[e]) <= 1
      /\ reads[e] \in Seq(ReadOps) /\ Len(reads[e]) <= 1
      /\ e = "client" /\ connect = "sending" => reads[e] = << >>
    BY DEF TypeOK, OneOperation, FreshInv
<1>2. CASE RunDisconnect(e)
    <2>1. ~Fresh(e) /\ Tail(posted[e]) \in Seq(Packets \cup {CloseLambda})
        <3>1. posted[e] # << >>
            BY <1>2 DEF RunDisconnect
        <3> QED
            BY <3>1, TypesAt, HeadAndTail DEF FreshInv
    <2>2. posted' = [posted EXCEPT ![e] = Tail(@)]
        BY <1>2 DEF RunDisconnect
    <2>3. posted' \in [Sides -> Seq(Packets \cup {CloseLambda})] /\ \A d \in Sides : d # e => posted'[d] = posted[d]
        BY <2>1, <2>2 DEF TypeOK
    <2>4. Close(e, writes[e], reads[e]) /\ UNCHANGED m_MessagesOut
        BY <1>2 DEF RunDisconnect
    <2>5. /\ m_Socket' \in [Sides -> {"new", "open", "closed"}]
          /\ writes' \in [Sides -> Seq(WriteOps)]
          /\ reads' \in [Sides -> Seq(ReadOps)]
          /\ link' \in {"none", "up", "down"}
          /\ UNCHANGED <<m_IsConnecting, connect, io>>
          /\ Rest'
        BY <1>1, <2>1, <2>3, <2>4, CClose
    <2>6. TypeOK'
        BY <1>2, <2>3, <2>5 DEF RunDisconnect, TypeOK, aliveVars
    <2> QED
        BY <2>5, <2>6 DEF Rest
<1>3. CASE OnWriteFailed(e)
    <2>1. writes[e] # << >> /\ ~Fresh(e)
        BY <1>3 DEF OnWriteFailed, Completed, FreshInv
    <2>2. Tail(writes[e]) = << >>
        BY <1>1, <2>1, TailOfOne
    <2>3. Close(e, << >>, reads[e]) /\ UNCHANGED <<m_MessagesOut, posted>>
        BY <1>3, <2>2 DEF OnWriteFailed, appVars
    <2>4. /\ m_Socket' \in [Sides -> {"new", "open", "closed"}]
          /\ writes' \in [Sides -> Seq(WriteOps)]
          /\ reads' \in [Sides -> Seq(ReadOps)]
          /\ link' \in {"none", "up", "down"}
          /\ UNCHANGED <<m_IsConnecting, connect, io>>
          /\ Rest'
        BY <1>1, <2>1, <2>3, NoOps, CClose DEF TypeOK
    <2>5. TypeOK'
        BY <1>3, <2>4 DEF OnWriteFailed, TypeOK, aliveVars, appVars
    <2> QED
        BY <2>4, <2>5 DEF Rest
<1>4. CASE OnReadFailed(e)
    <2>1. reads[e] # << >> /\ ~Fresh(e)
        BY <1>4 DEF OnReadFailed, Completed, FreshInv
    <2>2. Tail(reads[e]) = << >>
        BY <1>1, <2>1, TailOfOne
    <2>3. Close(e, writes[e], << >>) /\ UNCHANGED <<m_MessagesOut, posted>>
        BY <1>4, <2>2 DEF OnReadFailed, appVars
    <2>4. Len(<< >>) <= 1
        OBVIOUS
    <2>5. /\ m_Socket' \in [Sides -> {"new", "open", "closed"}]
          /\ writes' \in [Sides -> Seq(WriteOps)]
          /\ reads' \in [Sides -> Seq(ReadOps)]
          /\ link' \in {"none", "up", "down"}
          /\ UNCHANGED <<m_IsConnecting, connect, io>>
          /\ Rest'
        BY <1>1, <2>1, <2>3, <2>4, NoOps, CClose DEF TypeOK
    <2>6. TypeOK'
        BY <1>4, <2>5 DEF OnReadFailed, TypeOK, aliveVars, appVars
    <2> QED
        BY <2>5, <2>6 DEF Rest
<1> QED
    BY <1>2, <1>3, <1>4

\* A step that gives side e the reads `rs`, posts at most there, and leaves the writing
\* and the socket alone; its io thread may have died of it.
LEMMA CRead ==
    ASSUME CInv, NEW e \in Sides, ~Fresh(e),
           NEW rs \in Seq(ReadOps), Len(rs) <= 1, e = "client" => connect' # "sending",
           reads' = [reads EXCEPT ![e] = rs],
           UNCHANGED <<m_MessagesOut, writes, m_Socket, m_IsConnecting>>,
           connect' = connect \/ (e = "client" /\ connect' = "done"),
           \A d \in Sides : io'[d] = io[d] \/ io'[d] = "terminated",
           \A d \in Sides : d # e => posted'[d] = posted[d]
    PROVE  reads' \in [Sides -> Seq(ReadOps)] /\ Rest'
<1> USE DEF CInv
<1>1. reads' \in [Sides -> Seq(ReadOps)]
    BY DEF TypeOK
<1>2. FreshInv'
    BY DEF TypeOK, FreshInv, Fresh, IsConnected
<1>3. WritesTheFront'
    BY DEF WritesTheFront
<1>4. QueueIsMoving'
    BY DEF QueueIsMoving, IsConnected, Running
<1> HIDE DEF Sides
<1>5. \A d \in Sides : reads'[d] = IF d = e THEN rs ELSE reads[d]
    BY DEF TypeOK
<1>6. OneOperation'
    BY <1>5 DEF OneOperation
<1> QED
    BY <1>1, <1>2, <1>3, <1>4, <1>6 DEF Rest

\* What the handlers of async_read start from.
LEMMA CReadHandler ==
    ASSUME CInv, NEW e \in Sides, IoFree(e), Completed(reads[e], "ok")
    PROVE  /\ reads[e] # << >> /\ Tail(reads[e]) = << >> /\ ~Fresh(e)
           /\ e = "client" => connect # "sending"
           /\ m_WipInMessage[e] \in Incoming
<1>1. reads[e] \in Seq(ReadOps) /\ reads[e] # << >> /\ Len(reads[e]) <= 1
    BY DEF CInv, Completed, TypeOK, OneOperation
<1>2. Tail(reads[e]) = << >>
    BY <1>1, TailOfOne
<1> QED
    BY <1>1, <1>2 DEF CInv, FreshInv, IoFree, TypeOK

LEMMA COneRead ==
    ASSUME NEW e \in Sides, NEW stage \in Stages
    PROVE  Append(<< >>, ReadOp(e, stage)) \in Seq(ReadOps) /\ Len(Append(<< >>, ReadOp(e, stage))) <= 1
<1>1. ReadOp(e, stage) \in ReadOps
    BY DEF ReadOp, ReadOps, Outcome, Outcomes
<1> QED
    BY <1>1, NoOps, AppendToEmpty

LEMMA COnHeaderRead ==
    ASSUME CInv, NEW e \in Sides, OnHeaderRead(e)
    PROVE  CInv'
<1> USE DEF CInv
<1>1. Tail(reads[e]) = << >> /\ ~Fresh(e) /\ (e = "client" => connect # "sending")
    BY CReadHandler DEF OnHeaderRead
<1> DEFINE rs == Append(<< >>, ReadOp(e, "body"))
<1>2. rs \in Seq(ReadOps) /\ Len(rs) <= 1
    BY COneRead DEF Stages
<1>3. /\ reads' = [reads EXCEPT ![e] = rs]
      /\ UNCHANGED <<linkVars, wire, outVars, aliveVars, appVars>>
      /\ UNCHANGED <<m_WipInMessage, m_MessagesIn, m_ReceivedPacketCount>>
    BY <1>1 DEF OnHeaderRead
<1> HIDE DEF rs
<1>4. reads' \in [Sides -> Seq(ReadOps)] /\ Rest'
    BY <1>1, <1>2, <1>3, CRead DEF linkVars, outVars, appVars
<1>5. TypeOK'
    BY <1>3, <1>4 DEF TypeOK, linkVars, outVars, aliveVars, appVars
<1> QED
    BY <1>4, <1>5 DEF Rest

\* The end of AddToIncomingMessageQueue(), with the packet it queues.
LEMMA CPush ==
    ASSUME CInv, NEW e \in Sides, MessageRead(e), PushAndReadNext(e),
           \A d \in Sides : d # e => posted'[d] = posted[d]
    PROVE  /\ reads' \in [Sides -> Seq(ReadOps)]
           /\ m_MessagesIn' \in [Sides -> Seq(Incoming)]
           /\ m_ReceivedPacketCount' \in [Sides -> Nat]
           /\ UNCHANGED <<linkVars, wire, outVars, m_WipInMessage>>
           /\ Rest'
<1> USE DEF CInv
<1>1. /\ Tail(reads[e]) = << >> /\ ~Fresh(e) /\ (e = "client" => connect # "sending")
      /\ m_WipInMessage[e] \in Incoming
    BY CReadHandler DEF MessageRead
<1> DEFINE rs == Append(<< >>, ReadOp(e, "header"))
<1>2. rs \in Seq(ReadOps) /\ Len(rs) <= 1
    BY COneRead DEF Stages
<1>3. reads' = [reads EXCEPT ![e] = rs] /\ UNCHANGED <<linkVars, wire, outVars, m_WipInMessage>>
    BY <1>1 DEF PushAndReadNext, MessageRead
<1> HIDE DEF rs
<1>4. reads' \in [Sides -> Seq(ReadOps)] /\ Rest'
    BY <1>1, <1>2, <1>3, CRead DEF linkVars, outVars
<1>5. m_MessagesIn' \in [Sides -> Seq(Incoming)]
    <2>1. Append(m_MessagesIn[e], m_WipInMessage[e]) \in Seq(Incoming)
        BY <1>1, TypesAt, AppendProperties
    <2> QED
        BY <2>1 DEF PushAndReadNext, TypeOK
<1>6. m_ReceivedPacketCount' \in [Sides -> Nat]
    <2>1. m_ReceivedPacketCount[e] + 1 \in Nat
        BY CountsAt
    <2> QED
        BY <2>1 DEF MessageRead, TypeOK
<1> QED
    BY <1>3, <1>4, <1>5, <1>6

LEMMA COnDataRead ==
    ASSUME CInv, NEW e \in Sides, OnDataRead(e)
    PROVE  CInv'
<1>1. MessageRead(e) /\ PushAndReadNext(e) /\ UNCHANGED <<aliveVars, appVars>>
    BY DEF OnDataRead
<1>2. /\ reads' \in [Sides -> Seq(ReadOps)]
      /\ m_MessagesIn' \in [Sides -> Seq(Incoming)]
      /\ m_ReceivedPacketCount' \in [Sides -> Nat]
      /\ UNCHANGED <<linkVars, wire, outVars, m_WipInMessage>>
      /\ Rest'
    BY <1>1, CPush DEF appVars
<1>3. TypeOK'
    BY <1>1, <1>2 DEF CInv, TypeOK, linkVars, outVars, aliveVars, appVars
<1> QED
    BY <1>2, <1>3 DEF CInv, Rest

\* A packet that is neither queued nor followed by another read.
LEMMA CDrop ==
    ASSUME CInv, NEW e \in Sides, MessageRead(e), reads' = [reads EXCEPT ![e] = Tail(@)],
           UNCHANGED <<m_Socket, m_IsConnecting, connect, posted>>,
           \A d \in Sides : io'[d] = io[d] \/ io'[d] = "terminated"
    PROVE  /\ reads' \in [Sides -> Seq(ReadOps)]
           /\ m_ReceivedPacketCount' \in [Sides -> Nat]
           /\ UNCHANGED <<wire, outVars, m_WipInMessage>>
           /\ Rest'
<1> USE DEF CInv
<1>1. Tail(reads[e]) = << >> /\ ~Fresh(e) /\ (e = "client" => connect # "sending")
    BY CReadHandler DEF MessageRead
<1>2. reads' = [reads EXCEPT ![e] = << >>] /\ UNCHANGED <<wire, outVars, m_WipInMessage>>
    BY <1>1 DEF MessageRead
<1>3. << >> \in Seq(ReadOps) /\ Len(<< >>) <= 1
    BY NoOps
<1>4. reads' \in [Sides -> Seq(ReadOps)] /\ Rest'
    BY <1>1, <1>2, <1>3, CRead DEF outVars
<1>5. m_ReceivedPacketCount' \in [Sides -> Nat]
    <2>1. m_ReceivedPacketCount[e] + 1 \in Nat
        BY CountsAt
    <2> QED
        BY <2>1 DEF MessageRead, TypeOK
<1> QED
    BY <1>2, <1>4, <1>5

LEMMA COnPing ==
    ASSUME CInv, OnPing
    PROVE  CInv'
<1> USE DEF CInv
<1>1. MessageRead("client") /\ UNCHANGED aliveVars
    BY DEF OnPing
<1>2. CASE Post("client", Wip("client")) /\ PushAndReadNext("client")
    <2>1. Wip("client") \in Packets
        BY DEF OnPing, Wip, TypeOK, Incoming, Packets, Ids
    <2>2. /\ posted' \in [Sides -> Seq(Packets \cup {CloseLambda})]
          /\ sent' \in [Sides -> Seq(Packets)]
        BY <1>2, <2>1, PostType
    <2>3. \A d \in Sides : d # "client" => posted'[d] = posted[d]
        BY <1>2 DEF Post, TypeOK
    <2>4. /\ reads' \in [Sides -> Seq(ReadOps)]
          /\ m_MessagesIn' \in [Sides -> Seq(Incoming)]
          /\ m_ReceivedPacketCount' \in [Sides -> Nat]
          /\ UNCHANGED <<linkVars, wire, outVars, m_WipInMessage>>
          /\ Rest'
        BY <1>1, <1>2, <2>3, CPush
    <2>5. TypeOK'
        BY <1>1, <2>2, <2>4 DEF TypeOK, linkVars, outVars, aliveVars
    <2> QED
        BY <2>4, <2>5 DEF Rest
<1>3. CASE /\ reads' = [reads EXCEPT !["client"] = Tail(@)]
           /\ Terminate("client")
           /\ UNCHANGED <<appVars, m_MessagesIn>>
    <2>1. /\ UNCHANGED <<m_Socket, m_IsConnecting, connect, posted, sent, m_MessagesIn>>
          /\ io' = [io EXCEPT !["client"] = "terminated"]
          /\ link' \in {"none", "up", "down"}
        BY <1>3 DEF Terminate, Broken, TypeOK, appVars
    <2>2. \A d \in Sides : io'[d] = io[d] \/ io'[d] = "terminated"
        BY <2>1 DEF TypeOK
    <2>3. /\ reads' \in [Sides -> Seq(ReadOps)]
          /\ m_ReceivedPacketCount' \in [Sides -> Nat]
          /\ UNCHANGED <<wire, outVars, m_WipInMessage>>
          /\ Rest'
        BY <1>1, <1>3, <2>1, <2>2, CDrop
    <2>4. TypeOK'
        BY <1>1, <2>1, <2>3 DEF TypeOK, outVars, aliveVars
    <2> QED
        BY <2>3, <2>4 DEF Rest
<1> QED
    BY <1>2, <1>3 DEF OnPing

LEMMA COnPong ==
    ASSUME CInv, OnPong
    PROVE  CInv'
<1>1. /\ MessageRead("server") /\ PushAndReadNext("server")
      /\ UNCHANGED <<m_LastKeepAliveValue, appVars>>
      /\ m_LastKeepAlive' \in {"recent", "epoch"}
    BY DEF OnPong
<1>2. /\ reads' \in [Sides -> Seq(ReadOps)]
      /\ m_MessagesIn' \in [Sides -> Seq(Incoming)]
      /\ m_ReceivedPacketCount' \in [Sides -> Nat]
      /\ UNCHANGED <<linkVars, wire, outVars, m_WipInMessage>>
      /\ Rest'
    BY <1>1, CPush DEF appVars
<1>3. TypeOK'
    BY <1>1, <1>2 DEF CInv, TypeOK, linkVars, outVars, appVars
<1> QED
    BY <1>2, <1>3 DEF CInv, Rest

LEMMA COnInit ==
    ASSUME CInv, OnInit
    PROVE  CInv'
<1>1. /\ MessageRead("server")
      /\ reads' = [reads EXCEPT !["server"] = Tail(@)]
      /\ UNCHANGED <<linkVars, m_MessagesIn, aliveVars, appVars>>
    BY DEF OnInit
<1>2. /\ reads' \in [Sides -> Seq(ReadOps)]
      /\ m_ReceivedPacketCount' \in [Sides -> Nat]
      /\ UNCHANGED <<wire, outVars, m_WipInMessage>>
      /\ Rest'
    BY <1>1, CDrop DEF linkVars, appVars
<1>3. TypeOK'
    BY <1>1, <1>2 DEF CInv, TypeOK, linkVars, outVars, aliveVars, appVars
<1> QED
    BY <1>2, <1>3 DEF CInv, Rest

LEMMA CConnectHandler ==
    ASSUME CInv, ConnectHandlerBegins \/ ConnectHandlerEnds \/ IoReturns
    PROVE  CInv'
<1> USE DEF CInv
<1>1. CASE ConnectHandlerBegins
    <2>1. TypeOK'
        BY <1>1 DEF ConnectHandlerBegins, TypeOK, outVars, inVars, aliveVars, appVars
    <2>2. FreshInv'
        BY <1>1 DEF ConnectHandlerBegins, TypeOK, FreshInv, Fresh, IsConnected, outVars, inVars, appVars
    <2>3. (OneOperation /\ WritesTheFront /\ QueueIsMoving)'
        BY <1>1 DEF ConnectHandlerBegins, TypeOK, FreshInv, Fresh, IsConnected, Running,
                    OneOperation, WritesTheFront, QueueIsMoving, outVars, inVars
    <2> QED
        BY <2>1, <2>2, <2>3
<1>2. CASE ConnectHandlerEnds
    <2> DEFINE rs == Append(<< >>, ReadOp("client", "header"))
    <2>1. ~Fresh("client") /\ reads["client"] = << >>
        BY <1>2 DEF ConnectHandlerEnds, FreshInv, Fresh
    <2>2. rs \in Seq(ReadOps) /\ Len(rs) <= 1
        BY COneRead DEF Stages
    <2>3. /\ reads' = [reads EXCEPT !["client"] = rs]
          /\ connect' = "done"
          /\ UNCHANGED <<m_Socket, m_IsConnecting, io, link, wire, outVars, aliveVars>>
          /\ UNCHANGED <<m_WipInMessage, m_MessagesIn, m_ReceivedPacketCount>>
        BY <1>2, <2>1 DEF ConnectHandlerEnds
    <2>4. /\ posted' \in [Sides -> Seq(Packets \cup {CloseLambda})]
          /\ sent' \in [Sides -> Seq(Packets)]
          /\ \A d \in Sides : d # "client" => posted'[d] = posted[d]
        <3>1. InitPacket \in Packets
            BY DEF InitPacket, Packets, Ids, AnyBody
        <3>2. CASE Post("client", InitPacket)
            BY <3>1, <3>2, PostType DEF Post, TypeOK
        <3>3. CASE UNCHANGED appVars
            BY <3>3 DEF appVars, TypeOK
        <3> QED
            BY <1>2, <3>2, <3>3 DEF ConnectHandlerEnds
    <2> HIDE DEF rs
    <2>5. reads' \in [Sides -> Seq(ReadOps)] /\ Rest'
        BY <2>1, <2>2, <2>3, <2>4, CRead DEF outVars
    <2>6. TypeOK'
        BY <2>3, <2>4, <2>5 DEF TypeOK, outVars, aliveVars
    <2> QED
        BY <2>5, <2>6 DEF Rest
<1>3. CASE IoReturns
    <2>1. TypeOK'
        BY <1>3 DEF IoReturns, TypeOK, outVars, inVars, aliveVars, appVars
    <2>2. (FreshInv /\ OneOperation /\ WritesTheFront)'
        BY <1>3 DEF IoReturns, FreshInv, Fresh, IsConnected, OneOperation, WritesTheFront,
                    outVars, inVars, appVars
    <2>3. QueueIsMoving'
        BY <1>3 DEF IoReturns, TypeOK, QueueIsMoving, IsConnected, Running, outVars
    <2> QED
        BY <2>1, <2>2, <2>3
<1> QED
    BY <1>1, <1>2, <1>3

LEMMA CWrites ==
    ASSUME CInv, NEW e \in Sides, NEW r \in {"ok", "error"}, Writes(e, r)
    PROVE  /\ writes' \in [Sides -> Seq(WriteOps)]
           /\ Rest'
<1> USE DEF CInv
<1> DEFINE ws == Complete(writes[e], r)
<1>1. writes[e] \in Seq(WriteOps) /\ writes[e] # << >>
    BY DEF Writes, Pending, TypeOK
<1>2. /\ ws \in Seq(WriteOps) /\ DOMAIN ws = DOMAIN writes[e] /\ Len(ws) = Len(writes[e])
      /\ \A i \in DOMAIN ws : ws[i].packet = writes[e][i].packet
    BY <1>1, CompleteWrites DEF Outcomes
<1>3. ws # << >> /\ ~Fresh(e)
    BY <1>1, <1>2 DEF FreshInv
<1>4. /\ writes' = [writes EXCEPT ![e] = ws]
      /\ UNCHANGED <<linkVars, m_MessagesOut, m_SentPacketCount, inVars, aliveVars, appVars>>
    BY DEF Writes
<1> HIDE DEF ws
<1>5. writes' \in [Sides -> Seq(WriteOps)]
    BY <1>2, <1>4 DEF TypeOK
<1>6. FreshInv'
    BY <1>3, <1>4 DEF TypeOK, FreshInv, Fresh, IsConnected, linkVars, inVars, appVars
<1>7. QueueIsMoving'
    BY <1>3, <1>4 DEF TypeOK, QueueIsMoving, IsConnected, Running, linkVars
<1> HIDE DEF Sides
<1>8. \A d \in Sides : writes'[d] = (IF d = e THEN ws ELSE writes[d]) /\ reads'[d] = reads[d]
    BY <1>4 DEF TypeOK, inVars
<1>9. OneOperation'
    BY <1>2, <1>8 DEF OneOperation
<1>10. WritesTheFront'
    BY <1>2, <1>4, <1>8 DEF WritesTheFront
<1> QED
    BY <1>5, <1>6, <1>7, <1>9, <1>10 DEF Rest

LEMMA CReads ==
    ASSUME CInv, NEW e \in Sides, NEW r \in {"ok", "error"}, Reads(e, r)
    PROVE  /\ reads' \in [Sides -> Seq(ReadOps)]
           /\ Rest'
<1> USE DEF CInv
<1> DEFINE rs == Complete(reads[e], r)
<1>1. reads[e] \in Seq(ReadOps) /\ reads[e] # << >> /\ Len(reads[e]) <= 1
    BY DEF Reads, Pending, TypeOK, OneOperation
<1>2. rs \in Seq(ReadOps) /\ Len(rs) <= 1
    BY <1>1, CompleteReads DEF Outcomes
<1>3. ~Fresh(e) /\ (e = "client" => connect # "sending")
    BY <1>1 DEF FreshInv
<1>4. /\ reads' = [reads EXCEPT ![e] = rs]
      /\ UNCHANGED <<linkVars, outVars, m_MessagesIn, m_ReceivedPacketCount, aliveVars, appVars>>
    BY DEF Reads
<1> HIDE DEF rs
<1> QED
    BY <1>2, <1>3, <1>4, CRead DEF linkVars, outVars, appVars

LEMMA CKernel ==
    ASSUME CInv, NEW e \in Sides, Kernel(e)
    PROVE  CInv'
<1> USE DEF CInv
<1>1. CASE WriteSucceeds(e)
    <2>1. Writes(e, "ok")
        BY <1>1 DEF WriteSucceeds
    <2>2. writes' \in [Sides -> Seq(WriteOps)] /\ Rest'
        BY <2>1, CWrites
    <2>3. wire' \in [Sides -> Seq([part : Stages, packet : Packets])]
        <3>1. Head(writes[e]) \in WriteOps
            BY <2>1, TypesAt, HeadAndTail DEF Writes, Pending
        <3>2. [part |-> Head(writes[e]).stage, packet |-> Head(writes[e]).packet]
                  \in [part : Stages, packet : Packets]
            BY <3>1 DEF WriteOps
        <3>3. wire[e] \in Seq([part : Stages, packet : Packets])
            BY DEF TypeOK
        <3>4. Append(wire[e], [part |-> Head(writes[e]).stage, packet |-> Head(writes[e]).packet])
                  \in Seq([part : Stages, packet : Packets])
            BY <3>2, <3>3
        <3>5. CASE link = "up"
            BY <1>1, <3>4, <3>5 DEF WriteSucceeds, TypeOK
        <3>6. CASE link # "up"
            BY <1>1, <3>6 DEF WriteSucceeds, TypeOK
        <3> QED
            BY <3>5, <3>6
    <2>4. TypeOK'
        BY <2>1, <2>2, <2>3 DEF Writes, TypeOK, linkVars, inVars, aliveVars, appVars
    <2> QED
        BY <2>2, <2>4 DEF Rest
<1>2. CASE WriteFails(e)
    <2>1. Writes(e, "error") /\ UNCHANGED wire
        BY <1>2 DEF WriteFails
    <2>2. writes' \in [Sides -> Seq(WriteOps)] /\ Rest'
        BY <2>1, CWrites
    <2>3. TypeOK'
        BY <2>1, <2>2 DEF Writes, TypeOK, linkVars, inVars, aliveVars, appVars
    <2> QED
        BY <2>2, <2>3 DEF Rest
<1>3. CASE ReadSucceeds(e)
    <2> DEFINE p == Head(wire[Peer(e)]).packet
    <2>1. Reads(e, "ok") /\ wire[Peer(e)] # << >> /\ wire' = [wire EXCEPT ![Peer(e)] = Tail(@)]
        BY <1>3 DEF ReadSucceeds
    <2>2. reads' \in [Sides -> Seq(ReadOps)] /\ Rest'
        BY <2>1, CReads
    <2>3. Peer(e) \in Sides
        BY DEF Peer
    <2>4. wire[Peer(e)] \in Seq([part : Stages, packet : Packets])
        BY <2>3 DEF TypeOK
    <2>5. p \in Packets /\ Tail(wire[Peer(e)]) \in Seq([part : Stages, packet : Packets])
        <3>1. /\ Head(wire[Peer(e)]) \in [part : Stages, packet : Packets]
              /\ Tail(wire[Peer(e)]) \in Seq([part : Stages, packet : Packets])
            BY <2>1, <2>4, HeadAndTail
        <3> QED
            BY <3>1
    <2>6. wire' \in [Sides -> Seq([part : Stages, packet : Packets])]
        BY <2>1, <2>3, <2>5 DEF TypeOK
    <2>7. m_WipInMessage' \in [Sides -> Incoming]
        <3>1. /\ m_WipInMessage[e] \in Incoming
              /\ p.id \in Ids \cup {"none"} /\ p.body \in AnyBody /\ HasBody(p) \in BOOLEAN
            BY <2>5 DEF TypeOK, Packets, HasBody
        <3>2. CASE Head(reads[e]).stage = "header"
            <4>1. m_WipInMessage' = [m_WipInMessage EXCEPT ![e].id = p.id, ![e].size = HasBody(p)]
                BY <1>3, <3>2 DEF ReadSucceeds
            <4>2. m_WipInMessage' = [m_WipInMessage EXCEPT ![e] = [m_WipInMessage[e] EXCEPT !.id = p.id, !.size = HasBody(p)]]
                BY <4>1 DEF TypeOK
            <4>3. [m_WipInMessage[e] EXCEPT !.id = p.id, !.size = HasBody(p)] \in Incoming
                BY <3>1 DEF Incoming
            <4> QED
                BY <4>2, <4>3 DEF TypeOK
        <3>3. CASE Head(reads[e]).stage # "header"
            <4>1. m_WipInMessage' = [m_WipInMessage EXCEPT ![e].body = p.body]
                BY <1>3, <3>3 DEF ReadSucceeds
            <4>2. m_WipInMessage' = [m_WipInMessage EXCEPT ![e] = [m_WipInMessage[e] EXCEPT !.body = p.body]]
                BY <4>1 DEF TypeOK
            <4>3. [m_WipInMessage[e] EXCEPT !.body = p.body] \in Incoming
                BY <3>1 DEF Incoming
            <4> QED
                BY <4>2, <4>3 DEF TypeOK
        <3> QED
            BY <3>2, <3>3
    <2>8. TypeOK'
        BY <2>1, <2>2, <2>6, <2>7 DEF Reads, TypeOK, linkVars, outVars, aliveVars, appVars
    <2> QED
        BY <2>2, <2>8 DEF Rest
<1>4. CASE ReadFails(e)
    <2>1. Reads(e, "error") /\ UNCHANGED <<wire, m_WipInMessage>>
        BY <1>4 DEF ReadFails
    <2>2. reads' \in [Sides -> Seq(ReadOps)] /\ Rest'
        BY <2>1, CReads
    <2>3. TypeOK'
        BY <2>1, <2>2 DEF Reads, TypeOK, linkVars, outVars, aliveVars, appVars
    <2> QED
        BY <2>2, <2>3 DEF Rest
<1> QED
    BY <1>1, <1>2, <1>3, <1>4 DEF Kernel

LEMMA CNetwork ==
    ASSUME CInv, LinkBreaks \/ (\E e \in Sides : WireLost(e))
    PROVE  CInv'
<1> USE DEF CInv
<1>1. CASE LinkBreaks
    <2>1. TypeOK'
        BY <1>1 DEF LinkBreaks, TypeOK, outVars, inVars, aliveVars, appVars
    <2>2. Rest'
        BY <1>1 DEF LinkBreaks, Rest, FreshInv, Fresh, IsConnected, Running, OneOperation,
                    WritesTheFront, QueueIsMoving, outVars, inVars, appVars
    <2> QED
        BY <2>1, <2>2 DEF Rest
<1>2. ASSUME NEW e \in Sides, WireLost(e) PROVE CInv'
    <2>1. TypeOK'
        <3>1. wire' = [wire EXCEPT ![e] = << >>] /\ wire \in [Sides -> Seq([part : Stages, packet : Packets])]
            BY <1>2 DEF WireLost, TypeOK
        <3>2. << >> \in Seq([part : Stages, packet : Packets])
            OBVIOUS
        <3>3. wire' \in [Sides -> Seq([part : Stages, packet : Packets])]
            BY <3>1, <3>2
        <3> QED
            BY <1>2, <3>3 DEF WireLost, TypeOK, linkVars, outVars, inVars, aliveVars, appVars
    <2>2. Rest'
        BY <1>2 DEF WireLost, Rest, FreshInv, Fresh, IsConnected, Running, OneOperation,
                    WritesTheFront, QueueIsMoving, linkVars, outVars, inVars, appVars
    <2> QED
        BY <2>1, <2>2 DEF Rest
<1> QED
    BY <1>1, <1>2

LEMMA CNext == CInv /\ [Next]_vars => CInv'
<1> SUFFICES ASSUME CInv, [Next]_vars PROVE CInv'
    OBVIOUS
<1>1. CASE Connecting
    BY <1>1, CConnecting
<1>2. ASSUME NEW e \in Sides, Application(e) PROVE CInv'
    BY <1>2, CApplication
<1>3. ASSUME NEW e \in Sides, Handlers(e) PROVE CInv'
    BY <1>3, CRunSend, CClosing, COnHeaderWritten, COnMessageWritten, COnHeaderRead, COnDataRead
       DEF Handlers
<1>4. ASSUME NEW e \in Sides, Kernel(e) PROVE CInv'
    BY <1>4, CKernel
<1>5. ASSUME NEW p \in Payloads, SendKeepAlive(p) PROVE CInv'
    BY <1>5, CSendKeepAlive
<1>6. CASE ClientHandlers
    BY <1>6, CConnectHandler, COnPing DEF ClientHandlers
<1>7. CASE ServerHandlers
    BY <1>7, COnPong, COnInit DEF ServerHandlers
<1>8. CASE LinkBreaks \/ (\E e \in Sides : WireLost(e))
    BY <1>8, CNetwork
<1>9. CASE UNCHANGED vars
    BY <1>9 DEF vars, linkVars, outVars, inVars, aliveVars, appVars, CInv, TypeOK, FreshInv, Fresh,
                IsConnected, Running, OneOperation, WritesTheFront, QueueIsMoving
<1> QED
    BY <1>1, <1>2, <1>3, <1>4, <1>5, <1>6, <1>7, <1>8, <1>9 DEF Next

LEMMA CAlways == Spec => []CInv
BY CInit, CNext, PTL DEF Spec

------------------------------------------------------------------------------
\* The types of the state of both ends, for all packets, payloads and bounds.
THEOREM TypeCorrect == Spec => []TypeOK
<1>1. CInv => TypeOK
    BY DEF CInv
<1> QED
    BY <1>1, CAlways, PTL

\* WriteHeader(), WriteBody(), ReadHeader() and ReadBody() never give asio a second
\* write or a second read of a socket, however sends, answers, closes and failures mix.
THEOREM OneOperationAtATime == Spec => []OneOperation
<1>1. CInv => OneOperation
    BY DEF CInv
<1> QED
    BY <1>1, CAlways, PTL

\* The buffer given to async_write belongs to the front of m_MessagesOut until the
\* handler runs, and so does what the handler peeks and pops.
THEOREM WritesFromTheFront == Spec => []WritesTheFront
<1>1. CInv => WritesTheFront
    BY DEF CInv
<1> QED
    BY <1>1, CAlways, PTL

\* "If the queue has a message in it, then we must assume that it is in the process of
\* asynchronously being written": true as long as the socket is open, so no packet
\* is left behind in the queue of a live connection.
THEOREM QueueKeepsMoving == Spec => []QueueIsMoving
<1>1. CInv => QueueIsMoving
    BY DEF CInv
<1> QED
    BY <1>1, CAlways, PTL
==============================================================================
