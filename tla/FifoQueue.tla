------------------------------ MODULE FifoQueue ------------------------------
(****************************************************************************)
(* What Util::ThreadSafeQueue promises the threads that share it: every     *)
(* call takes effect on one double-ended queue at one instant, nothing is   *)
(* lost, duplicated or reordered, and an item is only ever taken from a     *)
(* queue that holds one.  There are no locks here and no waiting;           *)
(* ThreadSafeQueue.tla is shown to implement this.                          *)
(****************************************************************************)
EXTENDS Naturals, Sequences

CONSTANTS Threads,   \* the threads sharing the queue
          Items,     \* what can be queued
          NoItem     \* "no value returned yet"

VARIABLES queue,     \* the items, oldest first
          ret        \* ret[t]: what the last value-returning call of t returned

fifoVars == <<queue, ret>>

Init == queue = << >> /\ ret = [t \in Threads |-> NoItem]

Returns(t, v) == ret' = [ret EXCEPT ![t] = v]

PushBack(i)  == queue' = Append(queue, i) /\ UNCHANGED ret
PushFront(i) == queue' = <<i>> \o queue /\ UNCHANGED ret

PopFront(t) ==
    /\ queue # << >>
    /\ Returns(t, Head(queue))
    /\ queue' = Tail(queue)

PopBack(t) ==
    /\ queue # << >>
    /\ Returns(t, queue[Len(queue)])
    /\ queue' = SubSeq(queue, 1, Len(queue) - 1)

Peek(t) ==
    /\ queue # << >>
    /\ Returns(t, Head(queue)) \/ Returns(t, queue[Len(queue)])
    /\ UNCHANGED queue

Size(t) == Returns(t, Len(queue)) /\ UNCHANGED queue

Clear == queue' = << >> /\ UNCHANGED ret

Next ==
    \/ \E i \in Items : PushBack(i) \/ PushFront(i)
    \/ \E t \in Threads : PopFront(t) \/ PopBack(t) \/ Peek(t) \/ Size(t)
    \/ Clear

Spec == Init /\ [][Next]_fifoVars
==============================================================================
