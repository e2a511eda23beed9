------------------------ MODULE ThreadSafeQueue_proofs ------------------------
(****************************************************************************)
(* What holds of ThreadSafeQueue for every set of threads and items: its    *)
(* types, its locking discipline and, when one thread reads (as in          *)
(* PacketServer::Update), that check-then-take is sound and that the locks  *)
(* make the queue a plain double-ended queue.                               *)
(****************************************************************************)
EXTENDS ThreadSafeQueue, TLAPS

Critical    == {"begin", "end", "lockPushed", "notify", "unlockPushed", "unlock"}
InPushed    == {"notify", "unlockPushed", "wait", "unlockWait"}
InNotify    == {"lockPushed", "notify", "unlockPushed"}
InWait      == {"waitLock", "wait", "asleep", "unlockWait"}
Started     == {"lock", "begin", "end"}

\* The program counters say who holds which mutex, and the deque does not change
\* under a thread that is working on it.
LockInv ==
    \A t \in Threads :
        /\ m_MutesQueue = t <=> pc[t] \in Critical
        /\ m_MutexItemPushed = t <=> pc[t] \in InPushed
        /\ pc[t] = "end" => copy[t] = m_Data

\* Which calls reach which labels, and who makes them.
OpInv ==
    \A t \in Threads :
        /\ pc[t] \in InNotify => op[t] \in Pushes
        /\ pc[t] \in InWait => op[t] = "wait"
        /\ t \in Producers => pc[t] = "idle" \/ op[t] \in Pushes
        /\ t \in Consumers => op[t] \notin Pushes
        /\ (pc[t] \in Started /\ op[t] \in Pushes) => arg[t] \in Items

\* What a reader learnt from empty(), wait() or a peek stays true until it takes.
SawInv ==
    \A t \in Consumers :
        /\ pc[t] = "ready" => m_Data # << >>
        /\ (pc[t] \in Started /\ op[t] \in Takes \cup Peeks) => m_Data # << >>
        /\ (pc[t] = "unlock" /\ op[t] \in Peeks) => m_Data # << >>
        /\ (pc[t] = "unlock" /\ op[t] \in {"size", "wait"} /\ ret[t] # 0) => m_Data # << >>

LInv == TypeOK /\ LockInv /\ OpInv

\* At most one thread reads.
OneReader == \A c, d \in Consumers : c = d

------------------------------------------------------------------------------
\* A call leaves a sequence of items behind, whatever it was given.
LEMMA AfterType ==
    ASSUME NEW o \in Calls, NEW i, NEW s \in Seq(Items), o \in Pushes => i \in Items
    PROVE  After(o, i, s) \in Seq(Items)
<1>1. CASE o \in Pushes
    BY <1>1 DEF After, Pushes
<1>2. CASE o \in Takes
    BY <1>2 DEF After, Takes
<1>3. CASE o \notin Pushes \cup Takes
    BY <1>3 DEF After, Pushes, Takes
<1> QED
    BY <1>1, <1>2, <1>3

\* A call returns an item, a length, nothing, or leaves the last result alone.
LEMMA ResultType ==
    ASSUME NEW o \in Calls, NEW s \in Seq(Items), NEW r \in Items \cup {NoItem} \cup Nat
    PROVE  Result(o, s, r) \in Items \cup {NoItem} \cup Nat
<1>1. s # << >> => Head(s) \in Items /\ s[Len(s)] \in Items
    OBVIOUS
<1>2. Len(s) \in Nat
    OBVIOUS
<1> QED
    BY <1>1, <1>2 DEF Result

LEMMA LInvInit == Init => LInv
BY QueueAssumption
   DEF Init, LInv, TypeOK, LockInv, OpInv, Threads, Critical, InPushed, InNotify, InWait,
       Started, Pushes, Takes, Peeks, Calls

\* One step of one thread inside a call.
LEMMA LInvInside ==
    ASSUME LInv, NEW t \in Threads, Inside(t)
    PROVE  LInv'
<1> USE QueueAssumption DEF LInv, LockInv, OpInv, Threads, At, Goto
<1> USE DEF Critical, InPushed, InNotify, InWait, Started
<1>1. CASE LockQueue(t)
    BY <1>1 DEF LockQueue, TypeOK
<1>2. CASE Begin(t)
    BY <1>2 DEF Begin, TypeOK
<1>3. CASE End(t)
    <2>1. m_Data' \in Seq(Items) /\ ret' \in [Threads -> Items \cup {NoItem} \cup Nat]
        <3>1. op[t] \in Calls /\ copy[t] \in Seq(Items) /\ ret[t] \in Items \cup {NoItem} \cup Nat
            BY DEF TypeOK
        <3>2. op[t] \in Pushes => arg[t] \in Items
            BY <1>3 DEF End
        <3>3. After(op[t], arg[t], copy[t]) \in Seq(Items)
            BY <3>1, <3>2, AfterType
        <3>4. Result(op[t], copy[t], ret[t]) \in Items \cup {NoItem} \cup Nat
            BY <3>1, ResultType
        <3> QED
            BY <1>3, <3>3, <3>4 DEF End, TypeOK
    <2>2. TypeOK'
        BY <1>3, <2>1 DEF End, TypeOK
    <2>3. LockInv'
        BY <1>3 DEF End, TypeOK
    <2>4. OpInv'
        BY <1>3 DEF End, TypeOK, Pushes
    <2> QED
        BY <2>2, <2>3, <2>4
<1>4. CASE UnlockQueue(t)
    <2>1. AfterUnlock(t) \in {"waitLock", "ready", "idle"}
        BY DEF AfterUnlock
    <2>2. AfterUnlock(t) = "waitLock" => op[t] = "wait"
        BY DEF AfterUnlock
    <2>3. op[t] \in Pushes => AfterUnlock(t) = "idle"
        BY DEF AfterUnlock, Pushes, Peeks
    <2> QED
        BY <1>4, <2>1, <2>2, <2>3 DEF UnlockQueue, TypeOK
<1>5. CASE LockItemPushed(t)
    BY <1>5 DEF LockItemPushed, TypeOK
<1>6. CASE NotifyOne(t)
    BY <1>6 DEF NotifyOne, TypeOK
<1>7. CASE UnlockItemPushed(t)
    BY <1>7 DEF UnlockItemPushed, TypeOK
<1>8. CASE LockForWait(t)
    BY <1>8 DEF LockForWait, TypeOK
<1>9. CASE Sleep(t)
    <2>1. t \in Consumers
        BY <1>9 DEF Sleep, Pushes
    <2> QED
        BY <1>9, <2>1 DEF Sleep, TypeOK
<1>10. CASE Wake(t)
    BY <1>10 DEF Wake, TypeOK
<1>11. CASE UnlockAfterWait(t)
    BY <1>11 DEF UnlockAfterWait, TypeOK, Pushes
<1> QED
    BY <1>1, <1>2, <1>3, <1>4, <1>5, <1>6, <1>7, <1>8, <1>9, <1>10, <1>11 DEF Inside

LEMMA LInvNext == LInv /\ [Next]_vars => LInv'
<1> SUFFICES ASSUME LInv, [Next]_vars PROVE LInv'
    OBVIOUS
<1>1. ASSUME NEW t \in Producers, NEW o \in Pushes, NEW i \in Items, Push(t, o, i)
      PROVE  LInv'
    BY <1>1, QueueAssumption
       DEF Push, At, Goto, LInv, TypeOK, LockInv, OpInv, Threads, Calls,
           Critical, InPushed, InNotify, InWait, Started
<1>2. ASSUME NEW t \in Consumers, NEW o \in Reads, Call(t, o)
      PROVE  LInv'
    <2>1. TypeOK'
        BY <1>2, QueueAssumption DEF Call, Goto, LInv, TypeOK, Threads
    <2>2. LockInv'
        BY <1>2, QueueAssumption
           DEF Call, At, Goto, LInv, TypeOK, LockInv, Threads, Critical, InPushed
    <2>3. OpInv'
        BY <1>2, QueueAssumption
           DEF Call, Pushes, At, Goto, LInv, TypeOK, OpInv, Threads, InNotify, InWait, Started
    <2> QED
        BY <2>1, <2>2, <2>3 DEF LInv
<1>3. ASSUME NEW t \in Consumers, SpuriousWake(t)
      PROVE  LInv'
    BY <1>3 DEF SpuriousWake, LInv, TypeOK, LockInv, OpInv
<1>4. ASSUME NEW t \in Threads, Inside(t)
      PROVE  LInv'
    BY <1>4, LInvInside
<1>5. CASE UNCHANGED vars
    BY <1>5 DEF vars, LInv, TypeOK, LockInv, OpInv
<1> QED
    BY <1>1, <1>2, <1>3, <1>4, <1>5 DEF Next, PushSome, CallSome

\* The types of the queue's state, for any threads, items and bound.
THEOREM TypeCorrect == Spec => []TypeOK
<1>1. LInv => TypeOK
    BY DEF LInv
<1> QED
    BY <1>1, LInvInit, LInvNext, PTL DEF Spec

\* No thread blocks on m_MutesQueue while it holds m_MutexItemPushed, so a push,
\* which takes them in the order m_MutesQueue, m_MutexItemPushed, cannot deadlock.
THEOREM LockOrder == Spec => []NoLockCycle
<1>1. LInv => NoLockCycle
    BY DEF LInv, LockInv, NoLockCycle, At, InPushed
<1> QED
    BY <1>1, LInvInit, LInvNext, PTL DEF Spec

------------------------------------------------------------------------------
(* One reader. *)

SInv == LInv /\ SawInv

\* A push leaves an item behind, and only a take or clear() can leave nothing.
LEMMA AfterNotEmpty ==
    ASSUME NEW o \in Calls, NEW i, NEW s \in Seq(Items), o \in Pushes => i \in Items,
           o \in Pushes \/ (o \in Peeks \cup {"size", "wait"} /\ s # << >>)
    PROVE  After(o, i, s) # << >>
<1>1. CASE o = "push_back"
    BY <1>1 DEF After, Pushes
<1>2. CASE o = "push_front"
    BY <1>2 DEF After, Pushes
<1>3. CASE o \notin Pushes
    <2>1. After(o, i, s) = s
        BY <1>3 DEF After, Pushes, Peeks
    <2> QED
        BY <1>3, <2>1
<1> QED
    BY <1>1, <1>2, <1>3 DEF Pushes

\* empty() reports 0 exactly for the empty deque.
LEMMA SizeResult ==
    ASSUME NEW o \in {"size", "wait"}, NEW s \in Seq(Items), NEW r, Result(o, s, r) # 0
    PROVE  s # << >>
BY DEF Result

LEMMA SInvInit == Init => SInv
BY LInvInit DEF SInv, SawInv, Init, Started, Threads

LEMMA SawInside ==
    ASSUME OneReader, SInv, NEW t \in Threads, Inside(t)
    PROVE  SawInv'
<1> USE QueueAssumption DEF SInv, LInv, TypeOK, SawInv, OpInv, Threads, At, Goto, Started
<1>1. CASE End(t)
    <2>1. op[t] \in Calls /\ copy[t] \in Seq(Items) /\ copy[t] = m_Data
        BY <1>1 DEF End, LockInv
    <2>2. m_Data' = After(op[t], arg[t], copy[t])
        BY <1>1 DEF End
    <2>3. \A u \in Threads \ {t} : pc[u] \notin {"end", "unlock"}
        BY <1>1, <2>1 DEF End, LockInv, Critical
    <2>4. CASE t \in Producers
        <3>1. op[t] \in Pushes /\ arg[t] \in Items
            BY <1>1, <2>4 DEF End
        <3>2. m_Data' # << >>
            BY <2>1, <2>2, <3>1, AfterNotEmpty
        <3> QED
            BY <3>2
    <2>5. CASE t \in Consumers
        <3>1. \A u \in Consumers : u = t
            BY <2>5 DEF OneReader
        <3>2. pc'[t] = "unlock" /\ op'[t] = op[t] /\ op[t] \notin Pushes
            BY <1>1, <2>5 DEF End
        <3>3. op[t] \in Peeks => m_Data' # << >>
            <4>1. op[t] \in Peeks => copy[t] # << >>
                BY <1>1, <2>1, <2>5 DEF End
            <4> QED
                BY <2>1, <2>2, <3>2, <4>1, AfterNotEmpty
        <3>4. (op[t] \in {"size", "wait"} /\ ret'[t] # 0) => m_Data' # << >>
            <4>1. ret'[t] = Result(op[t], copy[t], ret[t])
                BY <1>1 DEF End
            <4>2. (op[t] \in {"size", "wait"} /\ ret'[t] # 0) => copy[t] # << >>
                BY <2>1, <4>1, SizeResult
            <4> QED
                BY <2>1, <2>2, <3>2, <4>2, AfterNotEmpty
        <3> QED
            BY <3>1, <3>2, <3>3, <3>4
    <2> QED
        BY <2>4, <2>5
<1>2. CASE UnlockQueue(t)
    <2>1. CASE AfterUnlock(t) = "ready"
        <3>1. op[t] \in Peeks \/ (op[t] \in {"size", "wait"} /\ ret[t] # 0)
            BY <2>1 DEF AfterUnlock
        <3>2. t \in Consumers => m_Data # << >>
            BY <1>2, <3>1 DEF UnlockQueue
        <3> QED
            BY <1>2, <3>2, <2>1 DEF UnlockQueue
    <2>2. CASE AfterUnlock(t) # "ready"
        <3>1. AfterUnlock(t) \in {"waitLock", "idle"}
            BY <2>2 DEF AfterUnlock
        <3> QED
            BY <1>2, <3>1 DEF UnlockQueue
    <2> QED
        BY <2>1, <2>2
<1>3. CASE LockQueue(t)
    BY <1>3 DEF LockQueue
<1>4. CASE Begin(t)
    BY <1>4 DEF Begin
<1>5. CASE LockItemPushed(t)
    BY <1>5 DEF LockItemPushed
<1>6. CASE NotifyOne(t)
    BY <1>6 DEF NotifyOne
<1>7. CASE UnlockItemPushed(t)
    <2>1. t \notin Consumers
        BY <1>7 DEF UnlockItemPushed, InNotify
    <2> QED
        BY <1>7, <2>1 DEF UnlockItemPushed
<1>8. CASE LockForWait(t)
    BY <1>8 DEF LockForWait
<1>9. CASE Sleep(t)
    BY <1>9 DEF Sleep
<1>10. CASE Wake(t)
    BY <1>10 DEF Wake
<1>11. CASE UnlockAfterWait(t)
    <2>1. op[t] = "wait"
        BY <1>11 DEF UnlockAfterWait, InWait
    <2>2. op[t] \notin Takes \cup Peeks
        BY <2>1 DEF Takes, Peeks
    <2> QED
        BY <1>11, <2>2 DEF UnlockAfterWait
<1> QED
    BY <1>1, <1>2, <1>3, <1>4, <1>5, <1>6, <1>7, <1>8, <1>9, <1>10, <1>11 DEF Inside

LEMMA SInvNext == OneReader /\ SInv /\ [Next]_vars => SInv'
<1> SUFFICES ASSUME OneReader, SInv, [Next]_vars PROVE SawInv'
    BY LInvNext DEF SInv
<1>1. ASSUME NEW t \in Producers, NEW o \in Pushes, NEW i \in Items, Push(t, o, i)
      PROVE  SawInv'
    <2>1. t \notin Consumers
        BY QueueAssumption
    <2> QED
        BY <1>1, <2>1 DEF Push, At, Goto, SInv, LInv, TypeOK, SawInv, Threads, Started
<1>2. ASSUME NEW t \in Consumers, NEW o \in Reads, Call(t, o)
      PROVE  SawInv'
    <2>1. CASE o \in Takes \cup Peeks
        <3>1. pc[t] = "ready"
            BY <1>2, <2>1 DEF Call, At, Takes, Peeks
        <3> QED
            BY <1>2, <3>1 DEF Call, At, Goto, SInv, LInv, TypeOK, SawInv, Threads, Started
    <2>2. CASE o \notin Takes \cup Peeks
        BY <1>2, <2>2 DEF Call, At, Goto, SInv, LInv, TypeOK, SawInv, Threads, Started
    <2> QED
        BY <2>1, <2>2
<1>3. ASSUME NEW t \in Consumers, SpuriousWake(t)
      PROVE  SawInv'
    BY <1>3 DEF SpuriousWake, SInv, SawInv
<1>4. ASSUME NEW t \in Threads, Inside(t)
      PROVE  SawInv'
    BY <1>4, SawInside
<1>5. CASE UNCHANGED vars
    BY <1>5 DEF vars, SInv, SawInv
<1> QED
    BY <1>1, <1>2, <1>3, <1>4, <1>5 DEF Next, PushSome, CallSome

LEMMA SInvTakes == SInv => TakesFindAnItem
BY QueueAssumption
   DEF SInv, LInv, LockInv, OpInv, SawInv, TakesFindAnItem, At, Started, Threads,
       Pushes, Takes, Peeks

\* Whatever a single reader was told by empty() or wait(), after m_MutesQueue has
\* been released and pushes of any number of threads came in between, its take or
\* peek finds an item.
THEOREM CheckThenTake ==
    ASSUME OneReader
    PROVE  Spec => []TakesFindAnItem
<1>1. SInv /\ [Next]_vars => SInv'
    BY SInvNext
<1> QED
    BY <1>1, SInvInit, SInvTakes, PTL DEF Spec

------------------------------------------------------------------------------
(* The refinement: of all the steps a call is made of, only "end" shows. *)

\* What the deque and the result of the caller look like after the "end" step is
\* one call of the plain queue.
LEMMA EndImplements ==
    ASSUME SInv, NEW t \in Threads, End(t)
    PROVE  Fifo!Next
<1>1. op[t] \in Calls /\ copy[t] = m_Data /\ m_Data \in Seq(Items) /\ ret \in [Threads -> Items \cup {NoItem} \cup Nat]
    BY DEF End, At, SInv, LInv, TypeOK, LockInv
<1>2. m_Data' = After(op[t], arg[t], m_Data) /\ ret' = [ret EXCEPT ![t] = Result(op[t], m_Data, ret[t])]
    BY <1>1 DEF End
<1>3. op[t] \in Pushes => arg[t] \in Items
    BY DEF End, At, SInv, LInv, OpInv, Started
<1>4. op[t] \in Takes \cup Peeks => m_Data # << >>
    BY <1>1, SInvTakes DEF TakesFindAnItem, End
<1>5. CASE op[t] \in Pushes
    <2>1. Result(op[t], m_Data, ret[t]) = ret[t]
        BY <1>5 DEF Result, Pushes
    <2>2. ret' = ret
        BY <1>1, <1>2, <2>1
    <2>3. Fifo!PushBack(arg[t]) \/ Fifo!PushFront(arg[t])
        BY <1>2, <1>5, <2>2 DEF After, Pushes, Fifo!PushBack, Fifo!PushFront
    <2> QED
        BY <1>3, <1>5, <2>3 DEF Fifo!Next
<1>6. CASE op[t] \in Takes
    <2>1. Fifo!PopFront(t) \/ Fifo!PopBack(t)
        BY <1>2, <1>4, <1>6
           DEF After, Result, Takes, Fifo!PopFront, Fifo!PopBack, Fifo!Returns
    <2> QED
        BY <2>1 DEF Fifo!Next, Threads, Fifo!PopFront, Fifo!PopBack
<1>7. CASE op[t] \in Peeks
    <2>1. Fifo!Peek(t)
        BY <1>2, <1>4, <1>7 DEF After, Result, Peeks, Fifo!Peek, Fifo!Returns
    <2> QED
        BY <2>1 DEF Fifo!Next
<1>8. CASE op[t] \in {"size", "wait"}
    <2>1. Fifo!Size(t)
        BY <1>2, <1>8 DEF After, Result, Fifo!Size, Fifo!Returns
    <2> QED
        BY <2>1 DEF Fifo!Next
<1>9. CASE op[t] = "clear"
    <2>1. Result(op[t], m_Data, ret[t]) = ret[t]
        BY <1>9 DEF Result
    <2>2. Fifo!Clear
        BY <1>1, <1>2, <1>9, <2>1 DEF After, Fifo!Clear
    <2> QED
        BY <2>2 DEF Fifo!Next
<1> QED
    BY <1>1, <1>5, <1>6, <1>7, <1>8, <1>9 DEF Calls

LEMMA StepImplements ==
    ASSUME SInv, [Next]_vars
    PROVE  [Fifo!Next]_(Fifo!fifoVars)
<1>1. ASSUME NEW t \in Threads, End(t)
      PROVE  Fifo!Next
    BY <1>1, EndImplements
<1>2. ASSUME NEW t \in Threads, Inside(t), ~End(t)
      PROVE  UNCHANGED <<m_Data, ret>>
    BY <1>2
       DEF Inside, LockQueue, Begin, UnlockQueue, LockItemPushed, NotifyOne,
           UnlockItemPushed, LockForWait, Sleep, Wake, UnlockAfterWait
<1>3. ASSUME NEW t \in Producers, NEW o \in Pushes, NEW i \in Items, Push(t, o, i)
      PROVE  UNCHANGED <<m_Data, ret>>
    BY <1>3 DEF Push
<1>4. ASSUME NEW t \in Consumers, NEW o \in Reads, Call(t, o)
      PROVE  UNCHANGED <<m_Data, ret>>
    BY <1>4 DEF Call
<1>5. CASE UNCHANGED vars
    BY <1>5 DEF vars, Fifo!fifoVars
<1>6. ASSUME NEW t \in Consumers, SpuriousWake(t)
      PROVE  UNCHANGED <<m_Data, ret>>
    BY <1>6 DEF SpuriousWake
<1> QED
    BY <1>1, <1>2, <1>3, <1>4, <1>5, <1>6 DEF Next, PushSome, CallSome, Fifo!fifoVars

\* With one reader the queue with its mutexes, its condition variable and its
\* half-done calls implements the plain double-ended queue of FifoQueue: no push is
\* lost, no item is delivered twice or out of order, nothing is taken from nothing.
THEOREM Implements ==
    ASSUME OneReader
    PROVE  Spec => FifoSpec
<1>1. Init => Fifo!Init
    BY DEF Init, Fifo!Init
<1>2. SInv /\ [Next]_vars => SInv'
    BY SInvNext
<1>3. SInv /\ [Next]_vars => [Fifo!Next]_(Fifo!fifoVars)
    BY StepImplements
<1> QED
    BY <1>1, <1>2, <1>3, SInvInit, PTL DEF Spec, FifoSpec, Fifo!Spec
==============================================================================
