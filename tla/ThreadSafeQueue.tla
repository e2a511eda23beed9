--------------------------- MODULE ThreadSafeQueue ---------------------------
(****************************************************************************)
(* Util/ThreadSafeQueue.hpp at the grain of its two mutexes and its         *)
(* condition variable.                                                      *)
(*                                                                          *)
(* Every call but wait() locks m_MutesQueue, works on the deque and unlocks *)
(* it; a push also locks m_MutexItemPushed, still holding m_MutesQueue, to  *)
(* notify.  wait() alternates empty() with a sleep on m_ItemPushed, and     *)
(* holds no lock in between.  A call on std::deque is not atomic: a thread  *)
(* reads the deque in one step ("begin") and writes the result of its call  *)
(* in a later one ("end"), so two calls that overlap would lose an update.  *)
(*                                                                          *)
(* Producers push: the io thread, from Connection::AddToIncomingMessage-    *)
(* Queue.  Consumers follow the only protocol the repository uses, in       *)
(* PacketServer::Update and in the readers of PacketClient::Incoming(): ask *)
(* whether the queue is empty, or wait(), and only then take an item.       *)
(****************************************************************************)
EXTENDS Naturals, Sequences, FiniteSets, TLC

CONSTANTS Producers,  \* threads that push
          Consumers,  \* threads that look, take, wait and clear
          Reads,      \* the calls the consumers make
          Items,      \* the items pushed
          NoItem,     \* no item
          NoThread,   \* "unlocked"
          MaxLen      \* bound: a producer pauses at this length; while a thread sleeps,
                      \* at this plus the number of threads, so that a push is not kept back

Threads == Producers \cup Consumers

Pushes == {"push_back", "push_front"}
Takes  == {"pop_front", "pop_back"}
Peeks  == {"peek_front", "peek_back"}
Calls  == Pushes \cup Takes \cup Peeks \cup {"size", "clear", "wait"}

ASSUME QueueAssumption ==
    /\ Producers \cap Consumers = {}
    /\ Reads \subseteq Calls \ Pushes
    /\ NoThread \notin Threads
    /\ MaxLen \in Nat

VARIABLES m_Data,            \* the deque
          m_MutesQueue,      \* the thread holding it, or NoThread
          m_MutexItemPushed, \* the thread holding it, or NoThread
          m_ItemPushed,      \* the threads asleep on the condition variable
          pc,                \* where each thread is; "ready": it saw an item and may take one
          op,                \* the call it is in
          arg,               \* the item it is pushing
          copy,              \* the deque as its call found it
          ret                \* what its last call returned

vars == <<m_Data, m_MutesQueue, m_MutexItemPushed, m_ItemPushed, pc, op, arg, copy, ret>>

\* The deque after call o on s.  Taking from an empty deque is undefined in C++.
After(o, i, s) ==
    CASE o = "push_back"  -> Append(s, i)
      [] o = "push_front" -> <<i>> \o s
      [] o = "pop_front"  -> IF s = << >> THEN s ELSE Tail(s)
      [] o = "pop_back"   -> IF s = << >> THEN s ELSE SubSeq(s, 1, Len(s) - 1)
      [] o = "clear"      -> << >>
      [] OTHER            -> s

\* Mutant: size() counts from the item taken last.
ResultOffByOne(o, s, r) ==
    IF o \in {"size", "wait"} THEN Len(s) - 1 ELSE IF s = << >> THEN NoItem ELSE Head(s)

\* What call o on s returns, r being the previous result of the caller.
\* "size" stands for size() and for empty(), which is size() = 0; wait() runs empty().
Result(o, s, r) ==
    CASE o \in {"pop_front", "peek_front"} -> IF s = << >> THEN NoItem ELSE Head(s)
      [] o \in {"pop_back", "peek_back"}   -> IF s = << >> THEN NoItem ELSE s[Len(s)]
      [] o \in {"size", "wait"}            -> Len(s)
      [] OTHER                             -> r

Init ==
    /\ m_Data = << >>
    /\ m_MutesQueue = NoThread
    /\ m_MutexItemPushed = NoThread
    /\ m_ItemPushed = {}
    /\ pc = [t \in Threads |-> "idle"]
    /\ op = [t \in Threads |-> "size"]
    /\ arg = [t \in Threads |-> NoItem]
    /\ copy = [t \in Threads |-> << >>]
    /\ ret = [t \in Threads |-> NoItem]

At(t, label)   == pc[t] = label
Goto(t, label) == pc' = [pc EXCEPT ![t] = label]

------------------------------------------------------------------------------
(* Entering a call. *)

Push(t, o, i) ==
    /\ At(t, "idle")
    /\ \/ Len(m_Data) < MaxLen
       \/ m_ItemPushed # {} /\ Len(m_Data) < MaxLen + Cardinality(Threads)
    /\ op' = [op EXCEPT ![t] = o]
    /\ arg' = [arg EXCEPT ![t] = i]
    /\ Goto(t, "lock")
    /\ UNCHANGED <<m_Data, m_MutesQueue, m_MutexItemPushed, m_ItemPushed, copy, ret>>

Call(t, o) ==
    /\ \/ At(t, "idle") /\ o \in {"size", "clear", "wait"}
       \/ At(t, "ready")
    /\ op' = [op EXCEPT ![t] = o]
    /\ Goto(t, "lock")
    /\ UNCHANGED <<m_Data, m_MutesQueue, m_MutexItemPushed, m_ItemPushed, arg, copy, ret>>

------------------------------------------------------------------------------
(* The critical section of m_MutesQueue. *)

\* Mutant: a call that does not take the lock.
LockQueueNot(t) ==
    /\ At(t, "lock")
    /\ Goto(t, "begin")
    /\ UNCHANGED <<m_Data, m_MutesQueue, m_MutexItemPushed, m_ItemPushed, op, arg, copy, ret>>

LockQueue(t) ==
    /\ At(t, "lock")
    /\ m_MutesQueue = NoThread
    /\ m_MutesQueue' = t
    /\ Goto(t, "begin")
    /\ UNCHANGED <<m_Data, m_MutexItemPushed, m_ItemPushed, op, arg, copy, ret>>

Begin(t) ==
    /\ At(t, "begin")
    /\ copy' = [copy EXCEPT ![t] = m_Data]
    /\ Goto(t, "end")
    /\ UNCHANGED <<m_Data, m_MutesQueue, m_MutexItemPushed, m_ItemPushed, op, arg, ret>>

End(t) ==
    /\ At(t, "end")
    /\ m_Data' = After(op[t], arg[t], copy[t])
    /\ ret' = [ret EXCEPT ![t] = Result(op[t], copy[t], @)]
    /\ arg' = [arg EXCEPT ![t] = NoItem]
    /\ copy' = [copy EXCEPT ![t] = << >>]
    /\ Goto(t, IF op[t] \in Pushes THEN "lockPushed" ELSE "unlock")
    /\ UNCHANGED <<m_MutesQueue, m_MutexItemPushed, m_ItemPushed, op>>

LockItemPushed(t) ==
    /\ At(t, "lockPushed")
    /\ m_MutexItemPushed = NoThread
    /\ m_MutexItemPushed' = t
    /\ Goto(t, "notify")
    /\ UNCHANGED <<m_Data, m_MutesQueue, m_ItemPushed, op, arg, copy, ret>>

\* Mutant: a push that forgets to notify.
NotifyNobody(t) ==
    /\ At(t, "notify")
    /\ Goto(t, "unlockPushed")
    /\ UNCHANGED <<m_Data, m_MutesQueue, m_MutexItemPushed, m_ItemPushed, op, arg, copy, ret>>

\* notify_one() wakes one sleeper, any of them, or nobody.
NotifyOne(t) ==
    /\ At(t, "notify")
    /\ IF m_ItemPushed = {}
       THEN UNCHANGED m_ItemPushed
       ELSE \E s \in m_ItemPushed : m_ItemPushed' = m_ItemPushed \ {s}
    /\ Goto(t, "unlockPushed")
    /\ UNCHANGED <<m_Data, m_MutesQueue, m_MutexItemPushed, op, arg, copy, ret>>

UnlockItemPushed(t) ==
    /\ At(t, "unlockPushed")
    /\ m_MutexItemPushed' = NoThread
    /\ Goto(t, "unlock")
    /\ UNCHANGED <<m_Data, m_MutesQueue, m_ItemPushed, op, arg, copy, ret>>

\* Mutant: the answer of empty() is not looked at.
AfterUnlockUnchecked(t) ==
    CASE op[t] = "wait" /\ ret[t] = 0       -> "waitLock"
      [] op[t] \in Peeks \cup {"size", "wait"} -> "ready"
      [] OTHER                             -> "idle"

\* Where a call that has just left the critical section goes on: wait() leaves its
\* loop or goes to sleep, a consumer that saw or peeked an item may take it.
AfterUnlock(t) ==
    CASE op[t] = "wait" /\ ret[t] = 0              -> "waitLock"
      [] op[t] \in {"size", "wait"} /\ ret[t] # 0  -> "ready"
      [] op[t] \in Peeks                           -> "ready"
      [] OTHER                                     -> "idle"

UnlockQueue(t) ==
    /\ At(t, "unlock")
    /\ m_MutesQueue' = NoThread
    /\ Goto(t, AfterUnlock(t))
    /\ UNCHANGED <<m_Data, m_MutexItemPushed, m_ItemPushed, op, arg, copy, ret>>

------------------------------------------------------------------------------
(* The body of the loop of wait(), entered when empty() said so. *)

LockForWait(t) ==
    /\ At(t, "waitLock")
    /\ m_MutexItemPushed = NoThread
    /\ m_MutexItemPushed' = t
    /\ Goto(t, "wait")
    /\ UNCHANGED <<m_Data, m_MutesQueue, m_ItemPushed, op, arg, copy, ret>>

\* m_ItemPushed.wait(ul): release the mutex and fall asleep, in one step.
Sleep(t) ==
    /\ At(t, "wait")
    /\ m_MutexItemPushed' = NoThread
    /\ m_ItemPushed' = m_ItemPushed \cup {t}
    /\ Goto(t, "asleep")
    /\ UNCHANGED <<m_Data, m_MutesQueue, op, arg, copy, ret>>

\* C++ lets a condition variable wake without being notified.
SpuriousWake(t) ==
    /\ t \in m_ItemPushed
    /\ m_ItemPushed' = m_ItemPushed \ {t}
    /\ UNCHANGED <<m_Data, m_MutesQueue, m_MutexItemPushed, pc, op, arg, copy, ret>>

\* wait(ul) returns only with the mutex locked again.
Wake(t) ==
    /\ At(t, "asleep")
    /\ t \notin m_ItemPushed
    /\ m_MutexItemPushed = NoThread
    /\ m_MutexItemPushed' = t
    /\ Goto(t, "unlockWait")
    /\ UNCHANGED <<m_Data, m_MutesQueue, m_ItemPushed, op, arg, copy, ret>>

\* Mutant: ul is declared outside the loop, so empty() runs with the mutex held.
UnlockAfterWaitNot(t) ==
    /\ At(t, "unlockWait")
    /\ Goto(t, "lock")
    /\ UNCHANGED <<m_Data, m_MutesQueue, m_MutexItemPushed, m_ItemPushed, op, arg, copy, ret>>

\* ul goes out of scope, then the loop asks empty() again.
UnlockAfterWait(t) ==
    /\ At(t, "unlockWait")
    /\ m_MutexItemPushed' = NoThread
    /\ Goto(t, "lock")
    /\ UNCHANGED <<m_Data, m_MutesQueue, m_ItemPushed, op, arg, copy, ret>>

------------------------------------------------------------------------------
\* The steps a thread takes on its own once it is inside a call.
Inside(t) ==
    \/ LockQueue(t) \/ Begin(t) \/ End(t) \/ UnlockQueue(t)
    \/ LockItemPushed(t) \/ NotifyOne(t) \/ UnlockItemPushed(t)
    \/ LockForWait(t) \/ Sleep(t) \/ Wake(t) \/ UnlockAfterWait(t)

PushSome(t) == \E o \in Pushes, i \in Items : Push(t, o, i)
CallSome(t) == \E o \in Reads : Call(t, o)

Next ==
    \/ \E t \in Producers : PushSome(t)
    \/ \E t \in Consumers : CallSome(t) \/ SpuriousWake(t)
    \/ \E t \in Threads : Inside(t)

Spec == Init /\ [][Next]_vars

\* A thread inside a call keeps running, and the peers keep sending: a producer
\* that can push does.  Nothing makes a consumer call, or wake without a notify.
Fairness ==
    /\ \A t \in Threads : WF_vars(Inside(t))
    /\ \A t \in Producers : WF_vars(PushSome(t))

FairSpec == Spec /\ Fairness

------------------------------------------------------------------------------
TypeOK ==
    /\ m_Data \in Seq(Items)
    /\ m_MutesQueue \in Threads \cup {NoThread}
    /\ m_MutexItemPushed \in Threads \cup {NoThread}
    /\ m_ItemPushed \subseteq Consumers
    /\ pc \in [Threads -> {"idle", "ready", "lock", "begin", "end", "lockPushed", "notify",
                           "unlockPushed", "unlock", "waitLock", "wait", "asleep", "unlockWait"}]
    /\ op \in [Threads -> Calls]
    /\ arg \in [Threads -> Items \cup {NoItem}]
    /\ copy \in [Threads -> Seq(Items)]
    /\ ret \in [Threads -> Items \cup {NoItem} \cup Nat]

\* No lock cycle: a thread that blocks on m_MutesQueue never holds m_MutexItemPushed.
\* A push takes the second mutex while holding the first, so one caller doing it the
\* other way round - wait() calling empty() inside its lock, say - could deadlock it.
NoLockCycle == \A t \in Threads : At(t, "lock") => m_MutexItemPushed # t

\* A consumer about to take or peek finds an item there, although the empty() or
\* wait() that told it so has long released m_MutesQueue.
TakesFindAnItem ==
    \A t \in Threads : (At(t, "end") /\ op[t] \in Takes \cup Peeks) => copy[t] # << >>

\* A thread asleep in wait() is woken by a later push at the latest, even when the
\* push it was waiting for went by between its empty() and its sleep.
LaterPushWakes == \A t \in Consumers : (t \in m_ItemPushed) ~> (t \notin m_ItemPushed)

\* The locks, the copies and the interleavings are invisible: each call takes effect
\* at one instant (its "end" step) on a plain double-ended queue.
Fifo == INSTANCE FifoQueue WITH queue <- m_Data
FifoSpec == Fifo!Spec
==============================================================================
