------------------------ MODULE PacketServer_proofs ------------------------
(****************************************************************************)
(* Proofs about PacketServer.tla: the registry of connections keeps each    *)
(* approved client exactly once, a walk that ends leaves no null entry, the *)
(* messages are handed over in order and once, and a stopped server is at   *)
(* rest.                                                                    *)
(****************************************************************************)
EXTENDS PacketServer, FiniteSetTheorems, WellFoundedInduction, TLAPS

------------------------------------------------------------------------------
(* Induction on natural numbers, over a set of them. *)

LEMMA Smallest ==
    ASSUME NEW T, T \subseteq Nat, T # {}
    PROVE  \E x \in T : \A y \in T : x <= y
<1> DEFINE R == OpToRel(<, Nat)
<1>1. \A x, y \in Nat : y < x => <<y, x>> \in R
    BY DEF OpToRel
<1>2. IsWellFoundedOn(R, Nat)
    BY NatLessThanWellFounded DEF R
<1> HIDE DEF R
<1>3. PICK x \in T : \A y \in T : ~(<<y, x>> \in R)
    BY <1>2, WFMin
<1>4. \A y \in T : ~(y < x)
    BY <1>1, <1>3, Zenon
<1> QED
    BY <1>4

LEMMA Induction ==
    ASSUME NEW n \in Nat, NEW T, 0 \in T, \A i \in 1 .. n : i - 1 \in T => i \in T
    PROVE  \A i \in 0 .. n : i \in T
<1> DEFINE Out == {i \in 0 .. n : i \notin T}
<1>1. CASE Out # {}
    <2>1. PICK x \in Out : \A y \in Out : x <= y
        <3>1. Out \subseteq Nat
            OBVIOUS
        <3> HIDE DEF Out
        <3> QED
            BY <1>1, <3>1, Smallest
    <2>2. x \in 1 .. n /\ x - 1 \in 0 .. n
        OBVIOUS
    <2>3. x - 1 \notin Out
        BY <2>1, <2>2
    <2> QED
        BY <2>2, <2>3
<1> QED
    BY <1>1

------------------------------------------------------------------------------
(* Without(s, S), entry by entry. *)

Kept(s, S) ==
    CHOOSE kept : kept = [i \in 0 .. Len(s) |->
                             IF i = 0 THEN << >>
                             ELSE IF s[i] \in S THEN kept[i - 1] ELSE Append(kept[i - 1], s[i])]

LEMMA WithoutIsKept == \A s, S : Without(s, S) = Kept(s, S)[Len(s)]
BY DEF Without, Kept

LEMMA KeptSteps ==
    ASSUME NEW A, NEW s \in Seq(A), NEW S
    PROVE  /\ Kept(s, S)[0] = << >>
           /\ \A i \in 1 .. Len(s) :
                 Kept(s, S)[i] = IF s[i] \in S THEN Kept(s, S)[i - 1] ELSE Append(Kept(s, S)[i - 1], s[i])
<1> DEFINE Step(f, i) == IF i = 0 THEN << >>
                         ELSE IF s[i] \in S THEN f[i - 1] ELSE Append(f[i - 1], s[i])
           T == {n \in 0 .. Len(s) : \E f : f = [i \in 0 .. n |-> Step(f, i)]}
<1>1. Len(s) \in Nat
    OBVIOUS
<1>2. 0 \in T
    <2>1. [i \in 0 .. 0 |-> << >>] = [i \in 0 .. 0 |-> Step([j \in 0 .. 0 |-> << >>], i)]
        OBVIOUS
    <2> HIDE DEF Step
    <2> QED
        BY <1>1, <2>1
<1>3. ASSUME NEW n \in 1 .. Len(s), n - 1 \in T PROVE n \in T
    <2>1. PICK f : f = [i \in 0 .. n - 1 |-> Step(f, i)]
        BY <1>3
    <2> DEFINE g == [i \in 0 .. n |-> IF i = n THEN Step(f, n) ELSE f[i]]
    <2>2. \A i \in 0 .. n : i # 0 => i - 1 \in 0 .. n - 1 /\ g[i - 1] = f[i - 1]
        OBVIOUS
    <2>3. \A i \in 0 .. n : i # n => i \in 0 .. n - 1 /\ f[i] = Step(f, i)
        <3>1. \A i \in 0 .. n - 1 : f[i] = Step(f, i)
            BY <2>1
        <3> QED
            BY <3>1
    <2>4. \A i \in 0 .. n : Step(g, i) = Step(f, i)
        BY <2>2
    <2>5. \A i \in 0 .. n : g[i] = Step(g, i)
        BY <2>3, <2>4
    <2>6. g = [i \in 0 .. n |-> Step(g, i)]
        BY <2>5
    <2>7. n \in 0 .. Len(s)
        OBVIOUS
    <2> HIDE DEF Step, g
    <2> QED
        BY <2>6, <2>7
<1>4. Len(s) \in T
    <2> HIDE DEF T
    <2>1. \A i \in 0 .. Len(s) : i \in T
        BY <1>1, <1>2, <1>3, Induction
    <2> QED
        BY <1>1, <2>1
<1>5. Kept(s, S) = [i \in 0 .. Len(s) |-> Step(Kept(s, S), i)]
    BY <1>4 DEF Kept
<1>6. \A i \in 0 .. Len(s) : Kept(s, S)[i] = Step(Kept(s, S), i)
    <2> HIDE DEF Step
    <2> QED
        BY <1>5
<1>7. 0 \in 0 .. Len(s) /\ \A i \in 1 .. Len(s) : i \in 0 .. Len(s) /\ i # 0
    BY <1>1
<1> QED
    BY <1>6, <1>7

LEMMA KeptType ==
    ASSUME NEW A, NEW s \in Seq(A), NEW S
    PROVE  \A i \in 0 .. Len(s) : Kept(s, S)[i] \in Seq(A)
<1> DEFINE T == {i \in 0 .. Len(s) : Kept(s, S)[i] \in Seq(A)}
<1>1. Len(s) \in Nat /\ \A i \in 1 .. Len(s) : i - 1 \in 0 .. Len(s) /\ i \in 0 .. Len(s) /\ s[i] \in A
    OBVIOUS
<1>2. 0 \in T
    <2>1. Kept(s, S)[0] = << >> /\ << >> \in Seq(A) /\ 0 \in 0 .. Len(s)
        BY <1>1, KeptSteps
    <2> QED
        BY <2>1
<1>3. ASSUME NEW i \in 1 .. Len(s), i - 1 \in T PROVE i \in T
    <2>1. Kept(s, S)[i] = IF s[i] \in S THEN Kept(s, S)[i - 1] ELSE Append(Kept(s, S)[i - 1], s[i])
        BY KeptSteps
    <2>2. Kept(s, S)[i - 1] \in Seq(A) /\ s[i] \in A /\ i \in 0 .. Len(s)
        BY <1>1, <1>3
    <2>3. Append(Kept(s, S)[i - 1], s[i]) \in Seq(A)
        BY <2>2
    <2> QED
        BY <2>1, <2>2, <2>3
<1>4. \A i \in 0 .. Len(s) : i \in T
    <2> HIDE DEF T
    <2> QED
        BY <1>1, <1>2, <1>3, Induction
<1> QED
    BY <1>4

LEMMA ElementsOfAppend ==
    ASSUME NEW A, NEW s \in Seq(A), NEW x \in A
    PROVE  Elements(Append(s, x)) = Elements(s) \cup {x}
<1>1. /\ DOMAIN Append(s, x) = DOMAIN s \cup {Len(s) + 1}
      /\ \A i \in DOMAIN s : Append(s, x)[i] = s[i]
      /\ Append(s, x)[Len(s) + 1] = x
    OBVIOUS
<1> QED
    BY <1>1 DEF Elements

LEMMA KeptElements ==
    ASSUME NEW A, NEW s \in Seq(A), NEW S
    PROVE  \A i \in 0 .. Len(s) : Elements(Kept(s, S)[i]) = {s[j] : j \in 1 .. i} \ S
<1> DEFINE First(i) == {s[j] : j \in 1 .. i}
           T == {i \in 0 .. Len(s) : Elements(Kept(s, S)[i]) = First(i) \ S}
<1>1. Len(s) \in Nat /\ \A i \in 1 .. Len(s) : i - 1 \in 0 .. Len(s) /\ i \in 0 .. Len(s) /\ s[i] \in A
    OBVIOUS
<1>2. 0 \in T
    <2>1. Kept(s, S)[0] = << >>
        BY KeptSteps
    <2>2. Elements(<< >>) = {} /\ First(0) = {}
        BY DEF Elements
    <2> QED
        BY <1>1, <2>1, <2>2
<1>3. ASSUME NEW i \in 1 .. Len(s), i - 1 \in T PROVE i \in T
    <2>1. First(i) = First(i - 1) \cup {s[i]}
        OBVIOUS
    <2>2. Kept(s, S)[i - 1] \in Seq(A) /\ s[i] \in A
        BY <1>1, KeptType
    <2>3. Kept(s, S)[i] = IF s[i] \in S THEN Kept(s, S)[i - 1] ELSE Append(Kept(s, S)[i - 1], s[i])
        BY KeptSteps
    <2>4. Elements(Kept(s, S)[i - 1]) = First(i - 1) \ S
        BY <1>3
    <2>5. Elements(Append(Kept(s, S)[i - 1], s[i])) = (First(i - 1) \ S) \cup {s[i]}
        BY <2>2, <2>4, ElementsOfAppend
    <2> HIDE DEF First
    <2>6. Elements(Kept(s, S)[i]) = First(i) \ S
        BY <2>1, <2>3, <2>4, <2>5
    <2> QED
        BY <1>1, <2>6
<1>4. \A i \in 0 .. Len(s) : i \in T
    <2> HIDE DEF T
    <2> QED
        BY <1>1, <1>2, <1>3, Induction
<1> QED
    BY <1>4

\* No entry but those of S occurs twice.
NoneTwice(s, S) == \A i, j \in DOMAIN s : s[i] = s[j] /\ s[i] \notin S => i = j

LEMMA KeptNoneTwice ==
    ASSUME NEW A, NEW s \in Seq(A), NEW S, NoneTwice(s, S)
    PROVE  \A i \in 0 .. Len(s) : NoneTwice(Kept(s, S)[i], {})
<1> DEFINE T == {i \in 0 .. Len(s) : NoneTwice(Kept(s, S)[i], {})}
<1>1. Len(s) \in Nat /\ \A i \in 1 .. Len(s) : i - 1 \in 0 .. Len(s) /\ i \in 0 .. Len(s) /\ s[i] \in A
    OBVIOUS
<1>2. 0 \in T
    <2>1. Kept(s, S)[0] = << >>
        BY KeptSteps
    <2> QED
        BY <1>1, <2>1 DEF NoneTwice
<1>3. ASSUME NEW i \in 1 .. Len(s), i - 1 \in T PROVE i \in T
    <2> DEFINE k == Kept(s, S)[i - 1]
               x == s[i]
    <2>1. k \in Seq(A) /\ x \in A /\ NoneTwice(k, {})
        BY <1>1, <1>3, KeptType
    <2>2. Kept(s, S)[i] = IF x \in S THEN k ELSE Append(k, x)
        BY KeptSteps
    <2>3. CASE x \in S
        BY <1>1, <2>1, <2>2, <2>3
    <2>4. CASE x \notin S
        <3>1. x \notin Elements(k)
            <4>1. \A j \in 1 .. i - 1 : s[j] # x
                BY <2>4 DEF NoneTwice
            <4>2. Elements(k) = {s[j] : j \in 1 .. i - 1} \ S
                <5>1. \A n \in 0 .. Len(s) : Elements(Kept(s, S)[n]) = {s[j] : j \in 1 .. n} \ S
                    BY KeptElements
                <5> QED
                    BY <1>1, <5>1, Zenon
            <4> QED
                BY <4>1, <4>2
        <3> HIDE DEF k, x
        <3>2. /\ DOMAIN Append(k, x) = DOMAIN k \cup {Len(k) + 1}
              /\ \A j \in DOMAIN k : Append(k, x)[j] = k[j]
              /\ Append(k, x)[Len(k) + 1] = x
            BY <2>1
        <3>3. NoneTwice(Append(k, x), {})
            BY <2>1, <3>1, <3>2 DEF NoneTwice, Elements
        <3> QED
            BY <1>1, <2>2, <2>4, <3>3
    <2> QED
        BY <2>3, <2>4
<1>4. \A i \in 0 .. Len(s) : i \in T
    <2> HIDE DEF T
    <2> QED
        BY <1>1, <1>2, <1>3, Induction
<1> QED
    BY <1>4

\* What std::remove and erase leave: the entries that are not in S, none more than once
\* if none was.
LEMMA WithoutProperties ==
    ASSUME NEW A, NEW s \in Seq(A), NEW S
    PROVE  /\ Without(s, S) \in Seq(A)
           /\ Elements(Without(s, S)) = Elements(s) \ S
           /\ NoneTwice(s, S) => NoneTwice(Without(s, S), {})
<1>1. Len(s) \in 0 .. Len(s)
    OBVIOUS
<1>2. Elements(s) = {s[j] : j \in 1 .. Len(s)}
    BY DEF Elements
<1>3. Elements(Kept(s, S)[Len(s)]) = {s[j] : j \in 1 .. Len(s)} \ S
    <2>1. \A i \in 0 .. Len(s) : Elements(Kept(s, S)[i]) = {s[j] : j \in 1 .. i} \ S
        BY KeptElements
    <2> QED
        BY <1>1, <2>1, Zenon
<1>4. Kept(s, S)[Len(s)] \in Seq(A) /\ (NoneTwice(s, S) => NoneTwice(Kept(s, S)[Len(s)], {}))
    BY <1>1, KeptType, KeptNoneTwice
<1> QED
    BY <1>2, <1>3, <1>4, WithoutIsKept

LEMMA WithoutEmpty == \A S : Without(<< >>, S) = << >>
<1> SUFFICES ASSUME NEW S PROVE Without(<< >>, S) = << >>
    OBVIOUS
<1>1. << >> \in Seq({}) /\ Len(<< >>) = 0
    OBVIOUS
<1> QED
    BY <1>1, WithoutIsKept, KeptSteps

LEMMA WithoutAppend ==
    ASSUME NEW A, NEW s \in Seq(A), NEW x \in A, NEW S
    PROVE  Without(Append(s, x), S) = IF x \in S THEN Without(s, S) ELSE Append(Without(s, S), x)
<1> DEFINE t == Append(s, x)
           T == {i \in 0 .. Len(s) : Kept(t, S)[i] = Kept(s, S)[i]}
<1>1. /\ t \in Seq(A) /\ Len(t) = Len(s) + 1 /\ Len(s) \in Nat /\ t[Len(s) + 1] = x
      /\ \A i \in 1 .. Len(s) : t[i] = s[i]
    OBVIOUS
<1> HIDE DEF t
<1>2. 0 \in T
    BY <1>1, KeptSteps
<1>3. ASSUME NEW i \in 1 .. Len(s), i - 1 \in T PROVE i \in T
    <2>1. i \in 1 .. Len(t) /\ t[i] = s[i] /\ i \in 0 .. Len(s)
        BY <1>1
    <2>2. Kept(t, S)[i] = IF t[i] \in S THEN Kept(t, S)[i - 1] ELSE Append(Kept(t, S)[i - 1], t[i])
        BY <1>1, <2>1, KeptSteps
    <2>3. Kept(s, S)[i] = IF s[i] \in S THEN Kept(s, S)[i - 1] ELSE Append(Kept(s, S)[i - 1], s[i])
        BY KeptSteps
    <2> QED
        BY <1>3, <2>1, <2>2, <2>3
<1>4. \A i \in 0 .. Len(s) : i \in T
    <2> HIDE DEF T
    <2> QED
        BY <1>1, <1>2, <1>3, Induction
<1>5. Kept(t, S)[Len(s)] = Kept(s, S)[Len(s)]
    BY <1>1, <1>4
<1>6. Kept(t, S)[Len(s) + 1] = IF x \in S THEN Kept(t, S)[Len(s)] ELSE Append(Kept(t, S)[Len(s)], x)
    <2>1. Len(s) + 1 \in 1 .. Len(t) /\ (Len(s) + 1) - 1 = Len(s)
        BY <1>1
    <2> QED
        BY <1>1, <2>1, KeptSteps
<1> QED
    BY <1>1, <1>5, <1>6, WithoutIsKept DEF t

LEMMA ConcatAppend ==
    ASSUME NEW A, NEW r \in Seq(A), NEW s \in Seq(A), NEW x \in A
    PROVE  r \o Append(s, x) = Append(r \o s, x)
OBVIOUS

LEMMA WithoutHead ==
    ASSUME NEW A, NEW s \in Seq(A), s # << >>, NEW S
    PROVE  Without(s, S) = (IF Head(s) \in S THEN << >> ELSE <<Head(s)>>) \o Without(Tail(s), S)
<1> DEFINE t == Tail(s)
           first == IF Head(s) \in S THEN << >> ELSE <<Head(s)>>
           T == {i \in 0 .. Len(t) : Kept(s, S)[i + 1] = first \o Kept(t, S)[i]}
<1>1. /\ t \in Seq(A) /\ Len(s) = Len(t) + 1 /\ Len(t) \in Nat /\ s[1] = Head(s) /\ Head(s) \in A
      /\ \A i \in 1 .. Len(t) : t[i] = s[i + 1] /\ t[i] \in A
    OBVIOUS
<1>2. first \in Seq(A)
    BY <1>1
<1> HIDE DEF t
<1>3. 0 \in T
    <2>1. Kept(t, S)[0] = << >> /\ Kept(s, S)[0] = << >>
        BY <1>1, KeptSteps
    <2>2. Kept(s, S)[1] = IF Head(s) \in S THEN << >> ELSE Append(<< >>, Head(s))
        <3>1. \A i \in 1 .. Len(s) :
                 Kept(s, S)[i] = IF s[i] \in S THEN Kept(s, S)[i - 1] ELSE Append(Kept(s, S)[i - 1], s[i])
            BY KeptSteps
        <3>2. \A i \in 1 .. Len(s) : i = 1 => i - 1 = 0
            OBVIOUS
        <3>3. 1 \in 1 .. Len(s)
            BY <1>1
        <3>4. \A i \in 1 .. Len(s) :
                 i = 1 => Kept(s, S)[i] = IF s[i] \in S THEN Kept(s, S)[0] ELSE Append(Kept(s, S)[0], s[i])
            BY <3>1, <3>2, Zenon
        <3> QED
            BY <1>1, <2>1, <3>3, <3>4
    <2>3. Kept(s, S)[1] = first
        BY <2>2
    <2> HIDE DEF first
    <2>4. first \o << >> = first
        BY <1>2
    <2>5. 0 + 1 = 1 /\ 0 \in 0 .. Len(t)
        BY <1>1
    <2>6. Kept(s, S)[0 + 1] = first \o Kept(t, S)[0]
        BY <2>1, <2>3, <2>4, <2>5, Zenon
    <2> QED
        BY <2>5, <2>6, Zenon
<1>4. ASSUME NEW i \in 1 .. Len(t), i - 1 \in T PROVE i \in T
    <2>1. i + 1 \in 1 .. Len(s) /\ (i + 1) - 1 = i /\ (i - 1) + 1 = i /\ i \in 0 .. Len(t) /\ i - 1 \in 0 .. Len(t)
        BY <1>1
    <2>2. Kept(s, S)[i + 1] = IF s[i + 1] \in S THEN Kept(s, S)[i] ELSE Append(Kept(s, S)[i], s[i + 1])
        BY <2>1, KeptSteps
    <2>3. Kept(t, S)[i] = IF t[i] \in S THEN Kept(t, S)[i - 1] ELSE Append(Kept(t, S)[i - 1], t[i])
        BY <1>1, KeptSteps
    <2>4. Kept(s, S)[i] = first \o Kept(t, S)[i - 1]
        BY <1>4, <2>1
    <2>5. Kept(t, S)[i - 1] \in Seq(A) /\ t[i] \in A /\ t[i] = s[i + 1]
        BY <1>1, <2>1, KeptType
    <2> HIDE DEF first
    <2>6. first \o Append(Kept(t, S)[i - 1], t[i]) = Append(first \o Kept(t, S)[i - 1], t[i])
        BY <1>2, <2>5, ConcatAppend, SMTT(60)
    <2>7. Kept(s, S)[i + 1] = first \o Kept(t, S)[i]
        BY <2>2, <2>3, <2>4, <2>5, <2>6
    <2> QED
        BY <2>1, <2>7
<1>5. \A i \in 0 .. Len(t) : i \in T
    <2> HIDE DEF T
    <2> QED
        BY <1>1, <1>3, <1>4, Induction
<1>6. Kept(s, S)[Len(t) + 1] = first \o Kept(t, S)[Len(t)]
    <2>1. Len(t) \in 0 .. Len(t)
        BY <1>1
    <2> HIDE DEF first
    <2> QED
        BY <1>5, <2>1, Zenon
<1> QED
    BY <1>1, <1>6, WithoutIsKept DEF t

------------------------------------------------------------------------------
(* The messages. *)

MessageTypes ==
    /\ m_MessageInQueue \in Seq(Messages) /\ inHand \in Seq(Messages)
    /\ arrived \in Seq(Messages) /\ handled \in Seq(Messages)

Compressed == {m \in Messages : m.compressed}

LEMMA ConcatAssoc ==
    ASSUME NEW A, NEW r \in Seq(A), NEW s \in Seq(A), NEW t \in Seq(A)
    PROVE  (r \o s) \o t = r \o (s \o t) /\ r \o s \in Seq(A) /\ r \o << >> = r /\ << >> \o r = r
OBVIOUS

LEMMA HeadIsMessage ==
    ASSUME MessageTypes, m_MessageInQueue # << >>
    PROVE  Head(m_MessageInQueue) \in Messages /\ Tail(m_MessageInQueue) \in Seq(Messages)
BY DEF MessageTypes

\* The packets on their way to OnMessage() stay in line when Update() moves one of them.
LEMMA MessagesNext ==
    ASSUME MessageTypes, MessagesKept, [Next]_vars
    PROVE  MessageTypes' /\ MessagesKept'
<1> DEFINE q == m_MessageInQueue
           rest == Without(q, Compressed)
<1>1. rest \in Seq(Messages) /\ handled \o inHand \o rest = arrived
    BY WithoutProperties DEF MessageTypes, MessagesKept, Compressed
<1>2. CASE UNCHANGED <<m_MessageInQueue, inHand, arrived, handled>>
    BY <1>2 DEF MessageTypes, MessagesKept
<1>3. ASSUME NEW c \in Connections, NEW z \in BOOLEAN, Queue(c, z)
      PROVE  MessageTypes' /\ MessagesKept'
    <2> DEFINE m == [from |-> c, compressed |-> z]
    <2>1. m \in Messages /\ (m \in Compressed <=> z)
        BY DEF Messages, Compressed
    <2>2. /\ m_MessageInQueue' = Append(q, m) /\ UNCHANGED <<inHand, handled>>
          /\ arrived' = IF z THEN arrived ELSE Append(arrived, m)
        BY <1>3 DEF Queue
    <2> HIDE DEF m
    <2>3. MessageTypes'
        BY <2>1, <2>2 DEF MessageTypes
    <2>4. Without(Append(q, m), Compressed) = IF z THEN rest ELSE Append(rest, m)
        <3>1. q \in Seq(Messages)
            BY DEF MessageTypes
        <3>2. Without(Append(q, m), Compressed) =
                IF m \in Compressed THEN Without(q, Compressed) ELSE Append(Without(q, Compressed), m)
            BY <2>1, <3>1, WithoutAppend
        <3> QED
            BY <2>1, <3>2
    <2>5. handled \o inHand \o Append(rest, m) = Append(arrived, m)
        <3>1. handled \o inHand \in Seq(Messages)
            BY DEF MessageTypes
        <3> HIDE DEF rest
        <3> QED
            BY <1>1, <2>1, <3>1, ConcatAppend
    <2>6. handled' \o inHand' \o Without(m_MessageInQueue', Compressed) = arrived'
        BY <1>1, <2>2, <2>4, <2>5
    <2> QED
        BY <2>3, <2>6 DEF MessagesKept, Compressed
<1>4. CASE Update_Takes
    <2>1. /\ q # << >> /\ inHand = << >> /\ m_MessageInQueue' = Tail(q) /\ UNCHANGED <<arrived, handled>>
          /\ inHand' = IF Head(q).compressed THEN << >> ELSE <<Head(q)>>
        BY <1>4 DEF Update_Takes
    <2>2. Head(q) \in Messages /\ Tail(q) \in Seq(Messages) /\ q \in Seq(Messages)
        BY <2>1, HeadIsMessage DEF MessageTypes
    <2>3. inHand' \in Seq(Messages)
        BY <2>1, <2>2
    <2>4. Head(q) \in Compressed <=> Head(q).compressed
        BY <2>2 DEF Compressed
    <2>5. rest = inHand' \o Without(Tail(q), Compressed)
        BY <2>1, <2>2, <2>4, WithoutHead
    <2>6. MessageTypes'
        BY <2>1, <2>2, <2>3 DEF MessageTypes
    <2>7. Without(Tail(q), Compressed) \in Seq(Messages)
        BY <2>2, WithoutProperties
    <2>8. handled \o inHand = handled /\ handled \in Seq(Messages)
        BY <2>1 DEF MessageTypes
    <2>9. handled \o inHand' \o Without(Tail(q), Compressed) = handled \o rest
        <3> HIDE DEF q, rest
        <3> QED
            BY <2>3, <2>5, <2>7, <2>8, ConcatAssoc, SMTT(60)
    <2>10. handled' \o inHand' \o Without(m_MessageInQueue', Compressed) = arrived'
        BY <1>1, <2>1, <2>8, <2>9
    <2> QED
        BY <2>6, <2>10 DEF MessagesKept, Compressed
<1>5. CASE Update_Hands
    <2>1. handled' = handled \o inHand /\ inHand' = << >> /\ UNCHANGED <<m_MessageInQueue, arrived>>
        BY <1>5 DEF Update_Hands
    <2>2. handled' \in Seq(Messages) /\ handled' \o inHand' = handled \o inHand
        BY <2>1 DEF MessageTypes
    <2>3. MessageTypes'
        BY <2>1, <2>2 DEF MessageTypes
    <2> QED
        BY <2>1, <2>2, <2>3 DEF MessagesKept
<1>6. CASE \E c \in Connections : \/ Accept(c) \/ Accepting(c) \/ SendHandlers(c) \/ HandlerOfDestroyed(c)
                                  \/ TimePasses(c) \/ ReadCompletes(c) \/ ReadFails(c) \/ InitArrives(c)
    <2>1. UNCHANGED msgVars
        BY <1>6 DEF Accept, Accepting, Deny, Approve, ConnectToClient, SendHandlers, SendIsWritten, SendThrows,
                    HandlerOfDestroyed, TimePasses, ReadCompletes, ReadFails, InitArrives
    <2> QED
        BY <1>2, <2>1 DEF msgVars
<1>7. CASE \/ KeepAlive_Drops \/ KeepAlive_Keeps \/ Send_Drops \/ Send_Checks \/ Send_Ignores
           \/ Send_Posts \/ Send_Throws \/ LoopEnds \/ Update_Waits \/ Update_Ends
           \/ Stop_Joins \/ Destroyed \/ UNCHANGED vars
    BY <1>2, <1>7 DEF KeepAlive_Drops, KeepAlive_Keeps, Send_Drops, Send_Checks, Send_Ignores, Send_Posts,
                      Send_Throws, LoopEnds, Update_Waits, Update_Ends, Stop_Joins, Destroyed, vars, msgVars
<1>8. CASE Calls
    BY <1>2, <1>8 DEF Calls, Start, Stop, Destroy, StopContext, Send_AllClients, SendKeepAlive, Call, Update,
                      msgVars
<1> QED
    BY <1>3, <1>4, <1>5, <1>6, <1>7, <1>8 DEF Next, ReadHandler, PacketArrives, PongArrives, InCall


------------------------------------------------------------------------------
(* The inductive invariant. *)

Entries == Connections \cup {NoConnection}

\* TypeOK without the messages.
RegistryTypes ==
    /\ io \in {"off", "running", "stopped", "terminated"}
    /\ joinable \in BOOLEAN
    /\ accepting \in Entries
    /\ m_Connections \in Seq(Entries)
    /\ socket \in [Connections -> {"none", "open", "closed"}]
    /\ reading \in [Connections -> {"none", "pending", "completed"}]
    /\ posted \in [Connections -> 0 .. MaxPosted]
    /\ overdue \in [Connections -> BOOLEAN]
    /\ user \in [call : {"idle", "drop", "check", "send", "wait", "update", "stop", "destroy", "gone"},
                 at : Nat \ {0}]
    /\ invalidClientExists \in BOOLEAN
    /\ left \in Nat
    /\ told \in Seq(Entries)
    /\ approved \subseteq Connections
    /\ undefined \in BOOLEAN

LEMMA TypeParts == TypeOK <=> RegistryTypes /\ MessageTypes
BY DEF TypeOK, RegistryTypes, MessageTypes, Entries

\* Each approved connection is once in one of the two sequences.
Once(list, reports, clients) ==
    /\ NoneTwice(list, {NoConnection}) /\ NoneTwice(reports, {NoConnection})
    /\ \A c \in Connections :
          /\ c \in clients <=> (c \in Elements(list) \/ c \in Elements(reports))
          /\ ~(c \in Elements(list) /\ c \in Elements(reports))

RegistryInv == Once(m_Connections, told, approved)

\* Of a walk: there is room for a Send at each entry not yet reached; the entry that is
\* sent to is a connection; unless the flag is set no null entry lies behind.
RoomAhead ==
    \A i \in DOMAIN m_Connections :
        user.at <= i /\ m_Connections[i] # NoConnection => posted[m_Connections[i]] < MaxPosted
NoneBehind == \A i \in DOMAIN m_Connections : i < user.at => m_Connections[i] # NoConnection

WalkInv ==
    ~undefined =>
        /\ user.call = "drop" => CanSend
        /\ user.call \in {"check", "send"} => RoomAhead
        /\ user.call = "send" => user.at <= Len(m_Connections) /\ m_Connections[user.at] # NoConnection
        /\ Walking /\ ~invalidClientExists => NoneBehind

\* The io thread stops before it is joined.
RestInv ==
    /\ user.call \in {"stop", "destroy"} => io # "running"
    /\ ~joinable => io # "running" /\ accepting = NoConnection

SInv == TypeOK /\ RegistryInv /\ WalkInv /\ RestInv /\ MessagesKept

------------------------------------------------------------------------------
(* The registry. *)

LEMMA InitOnce == Once(<< >>, << >>, {})
BY DEF Once, NoneTwice, Elements

\* push_back() of a new connection.
LEMMA PushedOnce ==
    ASSUME NEW list \in Seq(Entries), NEW reports, NEW clients \in SUBSET Connections,
           Once(list, reports, clients), NEW c \in Connections, c \notin clients
    PROVE  Once(Append(list, c), reports, clients \cup {c})
<1>1. Elements(Append(list, c)) = Elements(list) \cup {c} /\ c \notin Elements(list) /\ c \notin Elements(reports)
    BY ElementsOfAppend DEF Entries, Once
<1>2. /\ DOMAIN Append(list, c) = DOMAIN list \cup {Len(list) + 1}
      /\ \A i \in DOMAIN list : Append(list, c)[i] = list[i]
      /\ Append(list, c)[Len(list) + 1] = c
    BY DEF Entries
<1>3. NoneTwice(Append(list, c), {NoConnection})
    BY <1>1, <1>2 DEF Once, NoneTwice, Elements
<1> QED
    BY <1>1, <1>3 DEF Once

\* OnClientDisconnect(client), then client.reset().
LEMMA DroppedOnce ==
    ASSUME NEW list \in Seq(Entries), NEW reports \in Seq(Entries), NEW clients \in SUBSET Connections,
           Once(list, reports, clients), NEW n \in DOMAIN list, ServerAssumption
    PROVE  Once([list EXCEPT ![n] = NoConnection], Append(reports, list[n]), clients)
<1> DEFINE e == list[n]
           newList == [list EXCEPT ![n] = NoConnection]
           newReports == Append(reports, e)
<1>1. e \in Entries /\ NoConnection \notin Connections
    BY DEF ServerAssumption
<1>2. /\ DOMAIN newReports = DOMAIN reports \cup {Len(reports) + 1}
      /\ \A i \in DOMAIN reports : newReports[i] = reports[i]
      /\ newReports[Len(reports) + 1] = e
    BY <1>1
<1>3. Elements(newReports) = Elements(reports) \cup {e}
    BY <1>1, ElementsOfAppend
<1>4. DOMAIN newList = DOMAIN list /\ newList[n] = NoConnection /\ \A i \in DOMAIN list \ {n} : newList[i] = list[i]
    OBVIOUS
<1> HIDE DEF newList, newReports
<1>5. \A c \in Connections : c \in Elements(newList) <=> c \in Elements(list) /\ c # e
    BY <1>1, <1>4 DEF Once, NoneTwice, Elements
<1>6. NoneTwice(newList, {NoConnection})
    BY <1>4 DEF Once, NoneTwice
<1>7. e # NoConnection => e \notin Elements(reports)
    <2>1. e \in Elements(list)
        BY DEF Elements
    <2> QED
        BY <1>1, <2>1 DEF Once, Entries
<1>8. NoneTwice(newReports, {NoConnection})
    BY <1>2, <1>7 DEF Once, NoneTwice, Elements
<1>9. e \in Connections => e \in clients
    <2>1. e \in Elements(list)
        BY DEF Elements
    <2> QED
        BY <2>1 DEF Once
<1> QED
    BY <1>3, <1>5, <1>6, <1>8, <1>9 DEF Once, newList, newReports

\* erase() of the null entries.
LEMMA ErasedOnce ==
    ASSUME NEW list \in Seq(Entries), NEW reports, NEW clients, Once(list, reports, clients), ServerAssumption
    PROVE  Once(Without(list, {NoConnection}), reports, clients)
<1> DEFINE erased == Without(list, {NoConnection})
<1>1. /\ Elements(erased) = Elements(list) \ {NoConnection}
      /\ NoneTwice(list, {NoConnection}) => NoneTwice(erased, {})
    BY WithoutProperties
<1> HIDE DEF erased
<1>2. NoneTwice(erased, {NoConnection})
    BY <1>1 DEF Once, NoneTwice
<1> QED
    BY <1>1, <1>2 DEF Once, ServerAssumption, erased

------------------------------------------------------------------------------
(* The steps. *)

IoSteps(c) ==
    \/ Accept(c) \/ Deny(c) \/ ConnectToClient(c) \/ SendHandlers(c) \/ ReadHandler(c)
    \/ HandlerOfDestroyed(c) \/ TimePasses(c)

LEMMA RegistryAtRest ==
    ASSUME RegistryInv, WalkInv, UNCHANGED <<m_Connections, told, approved, user, invalidClientExists>>,
           undefined' \/ (undefined' = undefined /\ posted' = posted)
    PROVE  RegistryInv' /\ WalkInv'
BY DEF RegistryInv, WalkInv, RoomAhead, NoneBehind, Walking, CanSend

LEMMA NextIo ==
    ASSUME SInv, NEW c \in Connections, IoSteps(c)
    PROVE  RegistryTypes' /\ RegistryInv' /\ WalkInv' /\ RestInv'
<1>1. RegistryTypes /\ RegistryInv /\ WalkInv /\ RestInv
    BY TypeParts DEF SInv
<1>2. /\ UNCHANGED <<m_Connections, told, approved, user, invalidClientExists, joinable, left>>
      /\ undefined' = undefined \/ (undefined' /\ posted' = posted)
    BY DEF IoSteps, Accept, Deny, ConnectToClient, SendHandlers, SendIsWritten, SendThrows, ReadHandler,
           ReadCompletes, ReadFails, InitArrives, PongArrives, PacketArrives, Queue, HandlerOfDestroyed, TimePasses, loopVars, ioVars,
           msgVars
<1>3. RegistryTypes'
    <2>1. /\ io' \in {"off", "running", "stopped", "terminated"} /\ accepting' \in Entries
          /\ socket' \in [Connections -> {"none", "open", "closed"}] /\ reading' \in [Connections -> {"none", "pending", "completed"}]
          /\ overdue' \in [Connections -> BOOLEAN]
        BY <1>1 DEF IoSteps, Accept, Deny, ConnectToClient, SendHandlers, SendIsWritten, SendThrows, ReadHandler,
           ReadCompletes, ReadFails, InitArrives, PongArrives, PacketArrives, Queue, HandlerOfDestroyed, TimePasses, loopVars, ioVars,
           RegistryTypes, Entries
    <2>2. posted' \in [Connections -> 0 .. MaxPosted]
        <3>1. CASE SendIsWritten(c)
            <4>1. posted[c] \in 0 .. MaxPosted /\ posted[c] > 0 /\ posted' = [posted EXCEPT ![c] = @ - 1]
                BY <1>1, <3>1 DEF SendIsWritten, RegistryTypes
            <4>2. posted[c] - 1 \in 0 .. MaxPosted
                BY <4>1, ServerAssumption DEF ServerAssumption
            <4> QED
                BY <1>1, <4>1, <4>2 DEF RegistryTypes
        <3>2. CASE UNCHANGED posted
            BY <1>1, <3>2 DEF RegistryTypes
        <3> QED
            BY <3>1, <3>2 DEF IoSteps, Accept, Deny, ConnectToClient, SendHandlers, SendThrows, ReadHandler,
               ReadCompletes, ReadFails, InitArrives, PongArrives, PacketArrives, Queue, HandlerOfDestroyed, TimePasses
    <2> QED
        BY <1>1, <1>2, <2>1, <2>2 DEF RegistryTypes
<1>4. RegistryInv' /\ WalkInv'
    <2>1. CASE undefined' \/ (undefined' = undefined /\ posted' = posted)
        BY <1>1, <1>2, <2>1, RegistryAtRest
    <2>2. CASE SendIsWritten(c)
        <3>1. /\ posted' = [posted EXCEPT ![c] = @ - 1] /\ undefined' = undefined
              /\ posted \in [Connections -> 0 .. MaxPosted]
            BY <1>1, <2>2 DEF SendIsWritten, RegistryTypes
        <3>2. \A d \in Connections : posted[d] < MaxPosted => posted'[d] < MaxPosted
            BY <3>1, ServerAssumption DEF ServerAssumption
        <3>3. \A i \in DOMAIN m_Connections : m_Connections[i] # NoConnection => m_Connections[i] \in Connections
            BY <1>1 DEF RegistryTypes, Entries
        <3> QED
            BY <1>1, <1>2, <3>1, <3>2, <3>3 DEF RegistryInv, WalkInv, RoomAhead, NoneBehind, Walking, CanSend
    <2> QED
        BY <2>1, <2>2 DEF IoSteps, Accept, Deny, ConnectToClient, SendHandlers, SendThrows, ReadHandler,
               ReadCompletes, ReadFails, InitArrives, PongArrives, PacketArrives, Queue, HandlerOfDestroyed, TimePasses
<1>5. RestInv'
    BY <1>1, <1>2 DEF IoSteps, Accept, Deny, ConnectToClient, SendHandlers, SendIsWritten, SendThrows, ReadHandler,
           ReadCompletes, ReadFails, InitArrives, PongArrives, PacketArrives, Queue, HandlerOfDestroyed, TimePasses, RestInv, IoFree,
           HandlerOf, ReadHandlerOf, ioVars
<1> QED
    BY <1>3, <1>4, <1>5

LEMMA NextApprove ==
    ASSUME SInv, NEW c \in Connections, Approve(c)
    PROVE  RegistryTypes' /\ RegistryInv' /\ WalkInv' /\ RestInv'
<1>1. RegistryTypes /\ RegistryInv /\ WalkInv /\ RestInv
    BY TypeParts DEF SInv
<1>2. /\ m_Connections' = Append(m_Connections, c) /\ approved' = approved \cup {c} /\ undefined' = Walking
      /\ UNCHANGED <<io, accepting, joinable, socket, reading, overdue, posted, user, invalidClientExists, told, left>>
      /\ c \notin approved
    BY DEF Approve, AcceptingNew, loopVars, msgVars
<1>3. RegistryTypes'
    BY <1>1, <1>2 DEF RegistryTypes, Entries, Walking
<1>4. RegistryInv'
    BY <1>1, <1>2, PushedOnce DEF RegistryTypes, RegistryInv
<1>5. WalkInv' /\ RestInv'
    BY <1>1, <1>2 DEF WalkInv, RestInv, Walking
<1> QED
    BY <1>3, <1>4, <1>5


\* reset() in a walk.
LEMMA NextDrop ==
    ASSUME SInv, NEW loop \in {"drop", "check"}, In(loop), Drop, GoOn(loop),
           loop = "drop" => ~(Usable(Entry) /\ ~overdue[Entry]),
           UNCHANGED <<ioVars, posted, msgVars, undefined>>
    PROVE  RegistryTypes' /\ RegistryInv' /\ WalkInv' /\ RestInv'
<1>1. RegistryTypes /\ RegistryInv /\ WalkInv /\ RestInv
    BY TypeParts DEF SInv
<1> DEFINE n == user.at
<1>2. /\ m_Connections \in Seq(Entries) /\ told \in Seq(Entries) /\ approved \in SUBSET Connections
      /\ n \in Nat \ {0} /\ n <= Len(m_Connections) /\ user.call = loop
    BY <1>1 DEF RegistryTypes, In
<1>3. n \in DOMAIN m_Connections
    BY <1>2
<1>4. /\ told' = Append(told, m_Connections[n]) /\ invalidClientExists' = TRUE
      /\ m_Connections' = [m_Connections EXCEPT ![n] = NoConnection]
      /\ user' = [call |-> loop, at |-> n + 1]
      /\ UNCHANGED <<io, joinable, accepting, socket, reading, overdue, approved, posted, undefined, left>>
    BY DEF Drop, GoOn, Entry, ioVars, msgVars
<1>5. /\ m_Connections' \in Seq(Entries) /\ Len(m_Connections') = Len(m_Connections)
      /\ \A i \in DOMAIN m_Connections' :
            i \in DOMAIN m_Connections /\ (m_Connections'[i] # NoConnection => m_Connections'[i] = m_Connections[i])
    <2>1. NoConnection \in Entries
        BY DEF Entries
    <2> QED
        BY <1>2, <1>3, <1>4, <2>1
<1>6. RegistryTypes'
    <2>1. told' \in Seq(Entries) /\ n + 1 \in Nat \ {0}
        BY <1>2, <1>3, <1>4
    <2> QED
        BY <1>1, <1>4, <1>5, <2>1 DEF RegistryTypes
<1>7. RegistryInv'
    <2> HIDE DEF n
    <2> QED
        BY <1>1, <1>2, <1>3, <1>4, DroppedOnce, ServerAssumption DEF RegistryInv
<1>8. WalkInv'
    BY <1>1, <1>2, <1>4, <1>5 DEF WalkInv, RoomAhead, CanSend
<1>9. RestInv'
    BY <1>1, <1>2, <1>4 DEF RestInv
<1> QED
    BY <1>6, <1>7, <1>8, <1>9

\* A walk goes on to the next entry, or looks at the same one again.
LEMMA NextEntry ==
    ASSUME SInv, KeepAlive_Keeps \/ Send_Checks \/ Send_Ignores
    PROVE  RegistryTypes' /\ RegistryInv' /\ WalkInv' /\ RestInv'
<1>1. RegistryTypes /\ RegistryInv /\ WalkInv /\ RestInv
    BY TypeParts DEF SInv
<1>2. /\ UNCHANGED <<ioVars, m_Connections, posted, invalidClientExists, told, msgVars, undefined>>
      /\ user.at \in Nat \ {0} /\ user.at <= Len(m_Connections)
      /\ user'.at \in Nat \ {0} /\ user'.call \in {"drop", "check", "send"} /\ user' = [call |-> user'.call, at |-> user'.at]
      /\ Walking /\ (user'.call = "drop" <=> user.call = "drop")
    BY <1>1 DEF KeepAlive_Keeps, Send_Checks, Send_Ignores, In, GoOn, RegistryTypes, Walking
<1>3. RegistryTypes'
    BY <1>1, <1>2 DEF RegistryTypes, ioVars, msgVars
<1>4. RegistryInv' /\ RestInv'
    BY <1>1, <1>2 DEF RegistryInv, RestInv, Walking, ioVars
<1>5. WalkInv'
    <2>1. CASE KeepAlive_Keeps
        <3>1. user.call = "drop" /\ user' = [call |-> "drop", at |-> user.at + 1] /\ m_Connections[user.at] # NoConnection
            BY <2>1 DEF KeepAlive_Keeps, In, GoOn, Usable, Entry
        <3> QED
            BY <1>1, <1>2, <3>1 DEF WalkInv, NoneBehind, Walking, CanSend
    <2>2. CASE Send_Checks
        <3>1. /\ user.call = "check" /\ user'.call = "send" /\ user'.at = user.at
              /\ m_Connections[user.at] # NoConnection
            BY <1>1, <2>2 DEF Send_Checks, In, Usable, Entry, RegistryTypes
        <3> QED
            BY <1>1, <1>2, <3>1 DEF WalkInv, RoomAhead, NoneBehind, Walking
    <2>3. CASE Send_Ignores
        <3>1. /\ user.call = "send" /\ user' = [call |-> "check", at |-> user.at + 1]
            BY <2>3 DEF Send_Ignores, In, GoOn
        <3> QED
            BY <1>1, <1>2, <3>1 DEF WalkInv, RoomAhead, NoneBehind, Walking
    <2> QED
        BY <2>1, <2>2, <2>3
<1> QED
    BY <1>3, <1>4, <1>5

LEMMA NextSend ==
    ASSUME SInv, Send_Posts
    PROVE  RegistryTypes' /\ RegistryInv' /\ WalkInv' /\ RestInv'
<1>1. RegistryTypes /\ RegistryInv /\ WalkInv /\ RestInv
    BY TypeParts DEF SInv
<1> DEFINE n == user.at
           e == m_Connections[n]
<1>2. /\ posted' = [posted EXCEPT ![e] = @ + 1] /\ user' = [call |-> "check", at |-> n + 1]
      /\ UNCHANGED <<ioVars, m_Connections, invalidClientExists, told, msgVars, undefined>>
      /\ user.call = "send" /\ n <= Len(m_Connections) /\ ~undefined
    BY DEF Send_Posts, In, GoOn, Entry, Defined
<1>3. m_Connections \in Seq(Entries) /\ n \in Nat \ {0} /\ posted \in [Connections -> 0 .. MaxPosted]
    BY <1>1 DEF RegistryTypes
<1>4. n \in DOMAIN m_Connections
    BY <1>2, <1>3
<1>5. e \in Connections /\ e # NoConnection /\ (n <= n /\ posted[e] < MaxPosted)
    <2>1. e # NoConnection /\ e \in Entries
        BY <1>1, <1>2, <1>3, <1>4 DEF WalkInv
    <2>2. n <= n
        BY <1>3
    <2>3. RoomAhead
        BY <1>1, <1>2 DEF WalkInv
    <2> QED
        BY <1>4, <2>1, <2>2, <2>3 DEF Entries, RoomAhead
<1> HIDE DEF e
<1>6. RegistryTypes'
    <2>1. posted[e] + 1 \in 0 .. MaxPosted
        BY <1>3, <1>5, ServerAssumption DEF ServerAssumption
    <2>2. posted' \in [Connections -> 0 .. MaxPosted]
        BY <1>2, <1>3, <2>1
    <2>3. user' \in [call : {"idle", "drop", "check", "send", "wait", "update", "stop", "destroy", "gone"},
                     at : Nat \ {0}]
        BY <1>2, <1>3
    <2> QED
        BY <1>1, <1>2, <2>2, <2>3 DEF RegistryTypes, ioVars, msgVars
<1>7. RegistryInv' /\ RestInv'
    BY <1>1, <1>2 DEF RegistryInv, RestInv, ioVars
<1>8. WalkInv'
    <2>1. RoomAhead'
        <3>1. ASSUME NEW i \in DOMAIN m_Connections, n + 1 <= i, m_Connections[i] # NoConnection
              PROVE  posted'[m_Connections[i]] < MaxPosted
            <4>1. n <= i /\ i # n
                BY <1>3, <3>1
            <4>2. m_Connections[i] # e
                BY <1>1, <1>4, <3>1, <4>1 DEF RegistryInv, Once, NoneTwice, e
            <4>3. m_Connections[i] \in Connections /\ posted[m_Connections[i]] < MaxPosted
                BY <1>1, <1>2, <1>3, <3>1, <4>1 DEF WalkInv, RoomAhead, Entries
            <4> QED
                BY <1>2, <1>3, <4>2, <4>3
        <3> QED
            BY <1>2, <3>1 DEF RoomAhead
    <2>2. ~invalidClientExists => NoneBehind'
        <3>1. invalidClientExists \/ NoneBehind
            BY <1>1, <1>2 DEF WalkInv, Walking
        <3>2. \A i \in DOMAIN m_Connections : i < n + 1 => i < n \/ i = n
            BY <1>3
        <3> QED
            BY <1>2, <1>5, <3>1, <3>2 DEF NoneBehind, e
    <2> QED
        BY <1>2, <2>1, <2>2 DEF WalkInv
<1> QED
    BY <1>6, <1>7, <1>8

LEMMA NextLoopEnd ==
    ASSUME SInv, LoopEnds
    PROVE  /\ RegistryTypes' /\ RegistryInv' /\ WalkInv' /\ RestInv'
           /\ NoConnection \notin Elements(m_Connections')
<1>1. RegistryTypes /\ RegistryInv /\ WalkInv /\ RestInv
    BY TypeParts DEF SInv
<1>2. /\ m_Connections' = IF invalidClientExists THEN Without(m_Connections, {NoConnection}) ELSE m_Connections
      /\ invalidClientExists' = FALSE /\ user.call \in {"drop", "check"} /\ user.at > Len(m_Connections)
      /\ user' = IF user.call = "drop" THEN [call |-> "check", at |-> 1] ELSE Idle
      /\ UNCHANGED <<ioVars, posted, told, msgVars, undefined>> /\ ~undefined
    BY DEF LoopEnds, RemoveDead, Defined
<1>3. m_Connections \in Seq(Entries) /\ user.at \in Nat
    BY <1>1 DEF RegistryTypes
<1>4. /\ Without(m_Connections, {NoConnection}) \in Seq(Entries)
      /\ Elements(Without(m_Connections, {NoConnection})) = Elements(m_Connections) \ {NoConnection}
    BY <1>3, WithoutProperties
<1>5. NoConnection \notin Elements(m_Connections')
    <2>1. ~invalidClientExists => \A i \in DOMAIN m_Connections : m_Connections[i] # NoConnection
        BY <1>1, <1>2, <1>3 DEF WalkInv, NoneBehind, Walking
    <2> QED
        BY <1>2, <1>4, <2>1 DEF Elements
<1>6. m_Connections' \in Seq(Entries) /\ Once(m_Connections', told, approved)
    BY <1>1, <1>2, <1>3, <1>4, ErasedOnce, ServerAssumption DEF RegistryInv
<1>7. RegistryTypes'
    <2>1. user' \in [call : {"idle", "drop", "check", "send", "wait", "update", "stop", "destroy", "gone"},
                     at : Nat \ {0}]
        BY <1>2 DEF Idle
    <2> QED
        BY <1>1, <1>2, <1>6, <2>1 DEF RegistryTypes, ioVars, msgVars
<1>8. RegistryInv'
    BY <1>2, <1>6 DEF RegistryInv, ioVars
<1>9. RestInv'
    BY <1>1, <1>2 DEF RestInv, Idle, ioVars
<1>10. WalkInv'
    <2>1. CASE user.call = "drop"
        <3>1. CanSend /\ user' = [call |-> "check", at |-> 1]
            BY <1>1, <1>2, <2>1 DEF WalkInv
        <3>2. \A i \in DOMAIN m_Connections' : ~(i < 1) /\ m_Connections'[i] \in Entries
            BY <1>6
        <3>3. \A c \in Connections : posted'[c] < MaxPosted
            BY <1>2, <3>1 DEF CanSend
        <3>4. RoomAhead' /\ NoneBehind'
            BY <3>1, <3>2, <3>3 DEF RoomAhead, NoneBehind, Entries
        <3> QED
            BY <3>1, <3>4 DEF WalkInv
    <2>2. CASE user.call = "check"
        BY <1>2, <2>2 DEF WalkInv, Idle, Walking
    <2> QED
        BY <1>2, <2>1, <2>2
<1> QED
    BY <1>5, <1>7, <1>8, <1>9, <1>10


\* The calls, and what a call does apart from walking.
LEMMA NextCall ==
    ASSUME SInv, Calls \/ Send_Throws \/ Stop_Joins \/ Destroyed
    PROVE  RegistryTypes' /\ RegistryInv' /\ WalkInv' /\ RestInv'
<1>1. RegistryTypes /\ RegistryInv /\ WalkInv /\ RestInv
    BY TypeParts DEF SInv
<1>2. UNCHANGED <<accepting, socket, reading, overdue, approved, m_Connections, posted, told>>
    BY DEF Calls, Start, Stop, Destroy, StopContext, Send_AllClients, SendKeepAlive, Call, Update, Send_Throws,
           Stop_Joins, Destroyed, ioVars, loopVars
<1>3. RegistryInv'
    BY <1>1, <1>2 DEF RegistryInv
<1>4. RegistryTypes'
    <2>1. ASSUME NEW u \in Updates, Update(u) PROVE RegistryTypes'
        <3>1. u.maximumMessages \in Nat
            BY ServerAssumption DEF ServerAssumption
        <3> QED
            BY <1>1, <1>2, <2>1, <3>1 DEF Update, RegistryTypes, ioVars
    <2>2. CASE Start \/ Stop \/ Destroy \/ Send_AllClients \/ SendKeepAlive \/ Send_Throws \/ Stop_Joins
        <3>1. user' \in [call : {"idle", "drop", "check", "send", "wait", "update", "stop", "destroy", "gone"},
                         at : Nat \ {0}]
            BY <1>1, <2>2 DEF Start, Stop, Destroy, StopContext, Send_AllClients, SendKeepAlive, Call,
                              Send_Throws, Stop_Joins, loopVars, Idle, RegistryTypes
        <3>2. /\ io' \in {"off", "running", "stopped", "terminated"} /\ joinable' \in BOOLEAN
              /\ invalidClientExists' \in BOOLEAN /\ undefined' = undefined /\ left' = left
            BY <1>1, <2>2 DEF Start, Stop, Destroy, StopContext, Send_AllClients, SendKeepAlive, Call,
                              Send_Throws, Stop_Joins, ioVars, loopVars, msgVars, RegistryTypes
        <3> QED
            BY <1>1, <1>2, <3>1, <3>2 DEF RegistryTypes
    <2>4. CASE Destroyed
        <3>1. undefined' \in BOOLEAN
            BY <2>4 DEF Destroyed
        <3> QED
            BY <1>1, <1>2, <2>4, <3>1 DEF Destroyed, RegistryTypes, ioVars, msgVars
    <2> QED
        BY <2>1, <2>2, <2>4 DEF Calls
<1>5. WalkInv' /\ RestInv'
    <2>1. ASSUME NEW loop \in {"check", "drop"}, Call(loop) PROVE WalkInv' /\ RestInv'
        <3>1. /\ CanSend /\ user' = [call |-> loop, at |-> 1] /\ UNCHANGED <<io, joinable, undefined>> /\ user = Idle
            BY <2>1 DEF Call, UserFree, ioVars
        <3>2. \A i \in DOMAIN m_Connections : ~(i < 1) /\ m_Connections[i] \in Entries
            BY <1>1 DEF RegistryTypes
        <3>3. \A c \in Connections : posted'[c] < MaxPosted
            BY <1>2, <3>1 DEF CanSend
        <3>4. RoomAhead' /\ NoneBehind' /\ CanSend'
            BY <1>2, <3>1, <3>2, <3>3 DEF RoomAhead, NoneBehind, CanSend, Entries
        <3> QED
            BY <1>1, <1>2, <3>1, <3>4 DEF WalkInv, RestInv, Idle
    <2>2. CASE Start
        BY <1>1, <1>2, <2>2 DEF Start, UserFree, Idle, WalkInv, RestInv, Walking, loopVars
    <2>3. CASE Stop \/ Destroy
        BY <1>1, <1>2, <2>3 DEF Stop, Destroy, StopContext, WalkInv, RestInv, Walking
    <2>4. ASSUME NEW u \in Updates, Update(u) PROVE WalkInv' /\ RestInv'
        <3>1. user'.call \in {"wait", "update"} /\ user = Idle /\ UNCHANGED <<io, joinable>>
            BY <2>4 DEF Update, UserFree, ioVars
        <3> QED
            BY <1>1, <1>2, <3>1 DEF WalkInv, RestInv, Walking, Idle
    <2>5. CASE Send_Throws
        <3>1. user' = Idle /\ user.call = "send" /\ UNCHANGED <<io, joinable>>
            BY <2>5 DEF Send_Throws, In, ioVars
        <3> QED
            BY <1>1, <1>2, <3>1 DEF WalkInv, RestInv, Walking, Idle
    <2>6. CASE Stop_Joins \/ Destroyed
        <3>1. user'.call \in {"idle", "gone"} /\ accepting = NoConnection /\ io # "running" /\ UNCHANGED io
            <4>1. CASE Stop_Joins
                BY <1>1, <4>1 DEF Stop_Joins, Idle, RestInv
            <4>2. CASE Destroyed
                BY <1>1, <4>2 DEF Destroyed, RegistryTypes, RestInv
            <4> QED
                BY <2>6, <4>1, <4>2
        <3> QED
            BY <1>2, <3>1 DEF WalkInv, RestInv, Walking
    <2> QED
        BY <2>1, <2>2, <2>3, <2>4, <2>5, <2>6 DEF Calls, Send_AllClients, SendKeepAlive
<1> QED
    BY <1>3, <1>4, <1>5

LEMMA NextUpdate ==
    ASSUME SInv, Update_Waits \/ Update_Takes \/ Update_Hands \/ Update_Ends
    PROVE  RegistryTypes' /\ RegistryInv' /\ WalkInv' /\ RestInv'
<1>1. RegistryTypes /\ RegistryInv /\ WalkInv /\ RestInv
    BY TypeParts DEF SInv
<1>2. UNCHANGED <<ioVars, m_Connections, posted, invalidClientExists, told, undefined>>
    BY DEF Update_Waits, Update_Takes, Update_Hands, Update_Ends, loopVars
<1>3. user' = user \/ (user.call \in {"wait", "update"} /\ user'.call \in {"update", "idle"} /\ user'.at \in Nat \ {0}
                       /\ user' = [call |-> user'.call, at |-> user'.at])
    BY <1>1 DEF Update_Waits, Update_Takes, Update_Hands, Update_Ends, loopVars, Idle, RegistryTypes
<1>4. left' \in Nat
    BY <1>1 DEF Update_Waits, Update_Takes, Update_Hands, Update_Ends, msgVars, RegistryTypes
<1>5. RegistryTypes'
    BY <1>1, <1>2, <1>3, <1>4 DEF RegistryTypes, ioVars
<1>6. RegistryInv' /\ RestInv'
    BY <1>1, <1>2, <1>3 DEF RegistryInv, RestInv, ioVars
<1>7. WalkInv'
    BY <1>1, <1>2, <1>3 DEF WalkInv, RoomAhead, NoneBehind, Walking, CanSend
<1> QED
    BY <1>5, <1>6, <1>7

LEMMA SInit == Init => SInv
<1> SUFFICES ASSUME Init PROVE SInv
    OBVIOUS
<1>1. TypeOK
    <2>1. RegistryTypes
        <3>1. 0 \in 0 .. MaxPosted
            BY ServerAssumption DEF ServerAssumption
        <3>2. posted \in [Connections -> 0 .. MaxPosted]
            BY <3>1 DEF Init
        <3>3. user \in [call : {"idle", "drop", "check", "send", "wait", "update", "stop", "destroy", "gone"},
                        at : Nat \ {0}]
            BY DEF Init, Idle
        <3>4. /\ socket \in [Connections -> {"none", "open", "closed"}] /\ reading \in [Connections -> {"none", "pending", "completed"}]
              /\ overdue \in [Connections -> BOOLEAN] /\ accepting \in Entries
            BY DEF Init, Entries
        <3>5. m_Connections \in Seq(Entries) /\ told \in Seq(Entries) /\ approved \subseteq Connections
            BY DEF Init
        <3> QED
            BY <3>2, <3>3, <3>4, <3>5 DEF Init, RegistryTypes
    <2> QED
        BY <2>1, TypeParts DEF Init, MessageTypes
<1>2. RegistryInv
    BY InitOnce DEF Init, RegistryInv
<1>3. WalkInv /\ RestInv
    BY DEF Init, WalkInv, RestInv, Idle, Walking
<1>4. MessagesKept
    <2>1. << >> \o << >> \o Without(<< >>, Compressed) = << >>
        BY WithoutEmpty
    <2> QED
        BY <2>1 DEF Init, MessagesKept, Compressed
<1> QED
    BY <1>1, <1>2, <1>3, <1>4 DEF SInv

LEMMA SNext ==
    ASSUME SInv, [Next]_vars
    PROVE  SInv'
<1>1. MessageTypes' /\ MessagesKept'
    BY MessagesNext, TypeParts DEF SInv
<1>2. RegistryTypes' /\ RegistryInv' /\ WalkInv' /\ RestInv'
    <2>1. CASE \E c \in Connections : IoSteps(c) \/ Approve(c)
        BY <2>1, NextIo, NextApprove
    <2>2. CASE KeepAlive_Drops
        BY <2>2, NextDrop DEF KeepAlive_Drops
    <2>3. CASE Send_Drops
        <3>1. In("check") /\ Drop /\ GoOn("check") /\ UNCHANGED <<ioVars, posted, msgVars, undefined>>
            BY <2>3 DEF Send_Drops
        <3> QED
            BY <3>1, NextDrop
    <2>4. CASE KeepAlive_Keeps \/ Send_Checks \/ Send_Ignores \/ Send_Posts \/ LoopEnds
        BY <2>4, NextEntry, NextSend, NextLoopEnd
    <2>5. CASE Calls \/ Send_Throws \/ Stop_Joins \/ Destroyed
        BY <2>5, NextCall
    <2>6. CASE Update_Waits \/ Update_Takes \/ Update_Hands \/ Update_Ends
        BY <2>6, NextUpdate
    <2>7. CASE UNCHANGED vars
        <3>1. RegistryTypes /\ RegistryInv /\ WalkInv /\ RestInv
            BY TypeParts DEF SInv
        <3>2. RegistryTypes'
            BY <2>7, <3>1 DEF vars, ioVars, loopVars, msgVars, RegistryTypes
        <3> QED
            BY <2>7, <3>1, <3>2, RegistryAtRest DEF vars, ioVars, loopVars, RestInv
    <2> QED
        BY <2>1, <2>2, <2>3, <2>4, <2>5, <2>6, <2>7 DEF Next, InCall, Accepting, IoSteps
<1>3. TypeOK'
    <2>1. (RegistryTypes /\ MessageTypes)' <=> TypeOK'
        BY DEF TypeOK, RegistryTypes, MessageTypes, Entries
    <2> QED
        BY <1>1, <1>2, <2>1
<1> QED
    BY <1>1, <1>2, <1>3 DEF SInv

LEMMA SAlways == Spec => []SInv
BY SInit, SNext, PTL DEF Spec

------------------------------------------------------------------------------
\* The variables of PacketServer hold what their types say; in particular a walk sends
\* only to connections, and to each of them once.
THEOREM TypeCorrect == Spec => []TypeOK
<1>1. SInv => TypeOK
    BY DEF SInv
<1> QED
    BY <1>1, SAlways, PTL

\* No client is forgotten and none is reported twice: one that OnClientConnect() approved
\* is in m_Connections or was passed to OnClientDisconnect(), exactly once, also when an
\* exception has cut a walk short.
THEOREM ListedOrReportedOnce == Spec => []ListedOrReported
<1>1. SInv => ListedOrReported
    <2> SUFFICES ASSUME SInv, NEW c \in Connections
                 PROVE  Cardinality({i \in DOMAIN (m_Connections \o told) : (m_Connections \o told)[i] = c})
                            = IF c \in approved THEN 1 ELSE 0
        BY DEF ListedOrReported
    <2> DEFINE all == m_Connections \o told
               At == {i \in DOMAIN all : all[i] = c}
    <2>1. m_Connections \in Seq(Entries) /\ told \in Seq(Entries) /\ c # NoConnection
        BY TypeParts, ServerAssumption DEF SInv, RegistryTypes, ServerAssumption
    <2>2. RegistryInv
        BY DEF SInv
    <2>3. /\ DOMAIN all = 1 .. Len(m_Connections) + Len(told)
          /\ \A i \in DOMAIN m_Connections : i \in DOMAIN all /\ all[i] = m_Connections[i]
          /\ \A i \in DOMAIN told : Len(m_Connections) + i \in DOMAIN all /\ all[Len(m_Connections) + i] = told[i]
        BY <2>1
    <2>4. \A i \in DOMAIN all : \/ i \in DOMAIN m_Connections /\ all[i] = m_Connections[i]
                                \/ /\ i - Len(m_Connections) \in DOMAIN told
                                   /\ all[i] = told[i - Len(m_Connections)]
        BY <2>1
    <2> HIDE DEF all
    <2>5. CASE c \notin approved
        <3>1. c \notin Elements(m_Connections) /\ c \notin Elements(told)
            BY <2>2, <2>5 DEF RegistryInv, Once
        <3>2. At = {}
            BY <2>4, <3>1 DEF Elements
        <3> QED
            BY <2>5, <3>2, FS_EmptySet DEF all
    <2>6. CASE c \in approved /\ c \in Elements(m_Connections)
        <3>1. PICK n \in DOMAIN m_Connections : m_Connections[n] = c
            BY <2>6 DEF Elements
        <3>2. c \notin Elements(told) /\ \A i \in DOMAIN m_Connections : m_Connections[i] = c => i = n
            BY <2>1, <2>2, <2>6, <3>1 DEF RegistryInv, Once, NoneTwice
        <3>3. At = {n}
            BY <2>3, <2>4, <3>1, <3>2 DEF Elements
        <3> QED
            BY <2>6, <3>3, FS_Singleton DEF all
    <2>7. CASE c \in approved /\ c \notin Elements(m_Connections)
        <3>1. c \in Elements(told)
            BY <2>2, <2>7 DEF RegistryInv, Once
        <3>2. PICK n \in DOMAIN told : told[n] = c
            BY <3>1 DEF Elements
        <3>3. \A i \in DOMAIN told : told[i] = c => i = n
            BY <2>1, <2>2, <3>2 DEF RegistryInv, Once, NoneTwice
        <3>4. Len(m_Connections) \in Nat /\ Len(told) \in Nat
            BY <2>1
        <3> DEFINE len == Len(m_Connections)
        <3>5. \A i \in DOMAIN all : all[i] = c => i - len = n
            BY <2>4, <2>7, <3>3 DEF Elements
        <3>6. \A i \in DOMAIN all : i - len = n => i = len + n
            BY <2>3, <3>4
        <3>7. len + n \in DOMAIN all /\ all[len + n] = c
            BY <2>3, <3>2
        <3> HIDE DEF len
        <3>8. At = {len + n}
            BY <3>5, <3>6, <3>7
        <3> QED
            BY <2>7, <3>8, FS_Singleton DEF all
    <2> QED
        BY <2>5, <2>6, <2>7
<1> QED
    BY <1>1, SAlways, PTL

\* Update() hands every packet to OnMessage() in the order of arrival and once; only the
\* compressed ones, whose exception leaves Update(), get lost.
THEOREM MessagesStayInLine == Spec => []MessagesKept
<1>1. SInv => MessagesKept
    BY DEF SInv
<1> QED
    BY <1>1, SAlways, PTL

\* A walk that comes to its end leaves no null entry in m_Connections, not even one that
\* a walk cut short by an exception has left.
THEOREM WalksCleanUp == Spec => WalkCleansUp
<1>1. SInv /\ [Next]_vars => [LoopEnds => NoConnection \notin Elements(m_Connections')]_vars
    BY NextLoopEnd
<1> QED
    BY <1>1, SAlways, PTL DEF Spec, WalkCleansUp

\* From the return of Stop() until the next Start() no client is added, no packet queued and
\* no socket touched, whatever else is called.
THEOREM QuietWhenStopped == Spec => QuietAfterStop
<1> DEFINE Quiet == /\ UNCHANGED <<approved, socket, reading>>
                    /\ Len(m_MessageInQueue') <= Len(m_MessageInQueue)
<1>1. ASSUME SInv, Next, ~joinable
      PROVE  Quiet
    <2>1. /\ accepting = NoConnection /\ io # "running"
          /\ m_MessageInQueue \in Seq(Messages) /\ NoConnection \notin Connections
        BY <1>1, ServerAssumption DEF SInv, RestInv, TypeOK, ServerAssumption
    <2>2. Len(m_MessageInQueue) <= Len(m_MessageInQueue)
        BY <2>1
    <2>3. ASSUME NEW c \in Connections, Accept(c) \/ Accepting(c) \/ SendHandlers(c) \/ ReadHandler(c)
                                        \/ HandlerOfDestroyed(c)
          PROVE  FALSE
        BY <1>1, <2>1, <2>3 DEF Accept, Accepting, Deny, Approve, ConnectToClient, AcceptingNew, SendHandlers,
           SendIsWritten, SendThrows, ReadHandler, ReadCompletes, ReadFails, InitArrives, PongArrives, PacketArrives, Queue,
           HandlerOfDestroyed, IoFree, HandlerOf, ReadHandlerOf
    <2>4. CASE Update_Takes
        <3>1. m_MessageInQueue # << >> /\ m_MessageInQueue' = Tail(m_MessageInQueue) /\ UNCHANGED ioVars
            BY <2>4 DEF Update_Takes
        <3>2. Len(m_MessageInQueue') <= Len(m_MessageInQueue)
            BY <2>1, <3>1
        <3> QED
            BY <3>1, <3>2 DEF ioVars
    <2>5. CASE InCall /\ ~Update_Takes
        BY <2>2, <2>5 DEF InCall, KeepAlive_Drops, KeepAlive_Keeps, Send_Drops, Send_Checks, Send_Ignores, Send_Posts,
           Send_Throws, LoopEnds, Update_Waits, Update_Hands, Update_Ends, Stop_Joins, Destroyed, ioVars, msgVars
    <2>6. CASE Calls
        BY <2>2, <2>6 DEF Calls, Start, Stop, Destroy, StopContext, Send_AllClients, SendKeepAlive, Call, Update,
           ioVars, msgVars
    <2>7. CASE \E c \in Connections : TimePasses(c)
        BY <2>2, <2>7 DEF TimePasses, msgVars
    <2> QED
        BY <1>1, <2>3, <2>4, <2>5, <2>6, <2>7 DEF Next
<1>2. SInv /\ [Next]_vars => [~joinable => Quiet]_vars
    BY <1>1
<1> QED
    BY <1>2, SAlways, PTL DEF Spec, QuietAfterStop
==============================================================================
