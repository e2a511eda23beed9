----------------------- MODULE ConnectionChannels_proofs -----------------------
(****************************************************************************)
(* That each direction of Connection is a MessageChannel, for all packets,  *)
(* payloads and bounds: what reaches the incoming queue of one end is what  *)
(* the other end was told to send, in order and with its bodies, whatever   *)
(* fails on the way.                                                        *)
(****************************************************************************)
EXTENDS Connection_proofs

------------------------------------------------------------------------------
(* The stream of one direction.  A position in it is the header or the body *)
(* of the packet sent with this number.                                     *)

Pos(part, nr) == [part |-> part, nr |-> nr]
Positions == [part : Stages, nr : Nat \ {0}]

\* The position after `here` when the packets s are sent.
After(here, s) ==
    IF here.part = "header" /\ HasBody(s[here.nr]) THEN Pos("body", here.nr) ELSE Pos("header", here.nr + 1)

\* The wire w carries the parts from position n[1] up to the last of n, exclusively.
Carries(w, n, s) ==
    /\ n \in [1 .. Len(w) + 1 -> Positions]
    /\ \A i \in 1 .. Len(w) : /\ n[i].nr <= Len(s)
                              /\ w[i].part = n[i].part /\ w[i].packet = s[n[i].nr]
                              /\ n[i + 1] = After(n[i], s)
    /\ \A i, j \in 1 .. Len(w) + 1 : i <= j => n[i].nr <= n[j].nr

\* The lambdas q are those of the sends of s from number base + 1 on, and perhaps one
\* of Disconnect() in their midst.
Waiting(q, s, base) ==
    \E c \in 1 .. Len(q) + 1 :
        /\ \A i \in 1 .. Len(q) : q[i] = CloseLambda <=> i = c
        /\ \A i \in 1 .. Len(q) : i < c => base + i <= Len(s) /\ q[i] = s[base + i]
        /\ \A i \in 1 .. Len(q) : i > c => base + i - 1 <= Len(s) /\ q[i] = s[base + i - 1]
        /\ base + Len(q) = Len(s) + (IF c <= Len(q) THEN 1 ELSE 0)

Parts   == [part : Stages, packet : Packets]
Lambdas == Packets \cup {CloseLambda}

LEMMA AfterPosition ==
    ASSUME NEW s, NEW here \in Positions
    PROVE  /\ After(here, s) \in Positions
           /\ here.nr <= After(here, s).nr /\ After(here, s).nr <= here.nr + 1
BY DEF After, Pos, Positions, Stages

LEMMA AfterSent ==
    ASSUME NEW s \in Seq(Packets), NEW m \in Packets, NEW here \in Positions, here.nr <= Len(s)
    PROVE  After(here, Append(s, m)) = After(here, s)
<1>1. Append(s, m)[here.nr] = s[here.nr]
    BY DEF Positions
<1> QED BY <1>1 DEF After

LEMMA CarriesNothing ==
    ASSUME NEW s, NEW here \in Positions
    PROVE  Carries(<< >>, [i \in 1 .. 1 |-> here], s)
BY DEF Carries, Positions

LEMMA CarriesSent ==
    ASSUME NEW s \in Seq(Packets), NEW m \in Packets, NEW w \in Seq(Parts), NEW n, Carries(w, n, s)
    PROVE  Carries(w, n, Append(s, m))
<1>1. /\ Append(s, m) \in Seq(Packets) /\ Len(Append(s, m)) = Len(s) + 1
      /\ \A k \in 1 .. Len(s) : Append(s, m)[k] = s[k]
    OBVIOUS
<1>2. \A i \in 1 .. Len(w) : n[i] \in Positions /\ n[i].nr \in 1 .. Len(s)
    BY DEF Carries, Positions
<1>3. \A i \in 1 .. Len(w) : After(n[i], Append(s, m)) = After(n[i], s)
    BY <1>2, AfterSent
<1>4. Len(s) \in Nat /\ Len(w) \in Nat
    OBVIOUS
<1> DEFINE t == Append(s, m)
<1> HIDE DEF t
<1>5. \A i \in 1 .. Len(w) : n[i].nr <= Len(t) /\ w[i].packet = t[n[i].nr] /\ n[i + 1] = After(n[i], t)
    BY <1>1, <1>2, <1>3, <1>4 DEF Carries, t
<1> QED BY <1>5 DEF Carries, t

LEMMA CarriesWritten ==
    ASSUME NEW s \in Seq(Packets), NEW w \in Seq(Parts), NEW n, Carries(w, n, s),
           NEW x \in Parts, x.part = n[Len(w) + 1].part,
           n[Len(w) + 1].nr <= Len(s), x.packet = s[n[Len(w) + 1].nr]
    PROVE  \E m : /\ Carries(Append(w, x), m, s) /\ m[1] = n[1]
                  /\ m[Len(Append(w, x)) + 1] = After(n[Len(w) + 1], s)
<1> DEFINE l == Len(w) + 1
           end == After(n[l], s)
           m == [i \in 1 .. l + 1 |-> IF i <= l THEN n[i] ELSE end]
           v == Append(w, x)
<1>1. l \in Nat \ {0} /\ Len(v) = l /\ v[l] = x /\ \A i \in 1 .. Len(w) : v[i] = w[i]
    OBVIOUS
<1>2. n[l] \in Positions
    BY <1>1 DEF Carries
<1>3. end \in Positions /\ n[l].nr <= end.nr
    BY <1>2, AfterPosition
<1>4. m \in [1 .. Len(v) + 1 -> Positions]
    BY <1>1, <1>3 DEF Carries
<1>5. \A i \in 1 .. l : m[i] = n[i]
    BY <1>1
<1>6. m[l + 1] = end
    BY <1>1
<1> HIDE DEF m, v, l, end
<1>7. \A i \in 1 .. l : i \in 1 .. Len(w) \/ i = l
    BY DEF l
<1>8. \A i \in 1 .. Len(v) : /\ m[i].nr <= Len(s)
                             /\ v[i].part = m[i].part /\ v[i].packet = s[m[i].nr]
                             /\ m[i + 1] = After(m[i], s)
    <2> SUFFICES ASSUME NEW i \in 1 .. l
                 PROVE  /\ m[i].nr <= Len(s)
                        /\ v[i].part = m[i].part /\ v[i].packet = s[m[i].nr]
                        /\ m[i + 1] = After(m[i], s)
        BY <1>1
    <2>1. CASE i \in 1 .. Len(w)
        <3>1. v[i] = w[i] /\ m[i] = n[i] /\ m[i + 1] = n[i + 1]
            BY <1>1, <1>5, <2>1 DEF l
        <3> QED BY <2>1, <3>1 DEF Carries
    <2>2. CASE i = l
        BY <1>1, <1>5, <1>6, <2>2 DEF l, end
    <2> QED BY <1>7, <2>1, <2>2
<1>9. \A i, j \in 1 .. Len(v) + 1 : i <= j => m[i].nr <= m[j].nr
    <2> SUFFICES ASSUME NEW i \in 1 .. l + 1, NEW j \in 1 .. l + 1, i <= j PROVE m[i].nr <= m[j].nr
        BY <1>1
    <2>1. \A k \in 1 .. l : n[k].nr \in Nat /\ n[k].nr <= n[l].nr
        BY <1>1 DEF Carries, Positions, l
    <2>2. end.nr \in Nat
        BY <1>3 DEF Positions
    <2>3. CASE j \in 1 .. l
        BY <1>1, <1>5, <2>3 DEF Carries, l
    <2>4. CASE j = l + 1 /\ i \in 1 .. l
        BY <1>1, <1>3, <1>5, <1>6, <2>1, <2>2, <2>4, SMTT(60)
    <2>5. CASE i = l + 1
        BY <1>1, <1>6, <2>2, <2>5
    <2> QED BY <1>1, <2>3, <2>4, <2>5
<1>10. Carries(v, m, s)
    BY <1>4, <1>8, <1>9 DEF Carries
<1>11. m[1] = n[1]
    BY <1>1, <1>5
<1> QED BY <1>1, <1>6, <1>10, <1>11 DEF v, l, end

LEMMA CarriesRead ==
    ASSUME NEW s \in Seq(Packets), NEW w \in Seq(Parts), w # << >>, NEW n, Carries(w, n, s)
    PROVE  /\ n[1] \in Positions /\ n[1].nr <= Len(s)
           /\ Head(w).part = n[1].part /\ Head(w).packet = s[n[1].nr]
           /\ \E m : /\ Carries(Tail(w), m, s) /\ m[1] = After(n[1], s)
                     /\ m[Len(Tail(w)) + 1] = n[Len(w) + 1]
<1> DEFINE l == Len(w)
           m == [i \in 1 .. l |-> n[i + 1]]
           v == Tail(w)
<1>1. l \in Nat \ {0} /\ Len(v) + 1 = l /\ Head(w) = w[1] /\ \A i \in 1 .. Len(v) : v[i] = w[i + 1]
    OBVIOUS
<1>2. m \in [1 .. Len(v) + 1 -> Positions] /\ \A i \in 1 .. l : m[i] = n[i + 1]
    BY <1>1 DEF Carries
<1>3. \A i \in 1 .. Len(v) : i \in 1 .. l /\ i + 1 \in 1 .. l
    BY <1>1
<1> HIDE DEF m, v, l
<1>4. \A i \in 1 .. Len(v) : /\ m[i].nr <= Len(s)
                             /\ v[i].part = m[i].part /\ v[i].packet = s[m[i].nr]
                             /\ m[i + 1] = After(m[i], s)
    BY <1>1, <1>2, <1>3 DEF Carries, l
<1>5. \A i, j \in 1 .. Len(v) + 1 : i <= j => m[i].nr <= m[j].nr
    <2> SUFFICES ASSUME NEW i \in 1 .. l, NEW j \in 1 .. l, i <= j PROVE m[i].nr <= m[j].nr
        BY <1>1
    <2>1. i + 1 \in 1 .. Len(w) + 1 /\ j + 1 \in 1 .. Len(w) + 1 /\ i + 1 <= j + 1
        BY <1>1 DEF l
    <2> QED BY <1>2, <2>1 DEF Carries
<1>6. Carries(v, m, s)
    BY <1>2, <1>4, <1>5 DEF Carries
<1>7. m[1] = n[2] /\ m[l] = n[l + 1] /\ 1 \in 1 .. Len(w)
    BY <1>1, <1>2 DEF l
<1>8. n[2] = After(n[1], s)
    BY <1>7 DEF Carries
<1>9. n[1] \in Positions /\ n[1].nr <= Len(s) /\ w[1].part = n[1].part /\ w[1].packet = s[n[1].nr]
    BY <1>1, <1>7 DEF Carries, l
<1> QED BY <1>1, <1>6, <1>7, <1>8, <1>9 DEF v, l
------------------------------------------------------------------------------
(* The lambdas that wait. *)

LEMMA NoPacketCloses == \A m \in Packets : m # CloseLambda
BY DEF Packets, Ids, CloseLambda

LEMMA WaitingSend ==
    ASSUME NEW q \in Seq(Lambdas), NEW s \in Seq(Packets), NEW base \in Nat, Waiting(q, s, base),
           NEW m \in Packets
    PROVE  Waiting(Append(q, m), Append(s, m), base)
<1> DEFINE l == Len(q)
           p == Append(q, m)
           t == Append(s, m)
<1>1. PICK c \in 1 .. l + 1 :
            /\ \A i \in 1 .. l : q[i] = CloseLambda <=> i = c
            /\ \A i \in 1 .. l : i < c => base + i <= Len(s) /\ q[i] = s[base + i]
            /\ \A i \in 1 .. l : i > c => base + i - 1 <= Len(s) /\ q[i] = s[base + i - 1]
            /\ base + l = Len(s) + (IF c <= l THEN 1 ELSE 0)
    BY DEF Waiting
<1>2. /\ l \in Nat /\ Len(p) = l + 1 /\ p[l + 1] = m /\ \A i \in 1 .. l : p[i] = q[i]
      /\ Len(s) \in Nat /\ Len(t) = Len(s) + 1 /\ t[Len(s) + 1] = m /\ \A i \in 1 .. Len(s) : t[i] = s[i]
    OBVIOUS
<1>3. m # CloseLambda
    BY NoPacketCloses
<1> HIDE DEF l, p, t
<1> DEFINE d == IF c <= l THEN c ELSE l + 2
<1>4. d \in 1 .. Len(p) + 1 /\ \A i \in 1 .. l : (i < d <=> i < c) /\ (i > d <=> i > c) /\ (i = d <=> i = c)
    BY <1>1, <1>2
<1>5. \A i \in 1 .. l + 1 : i \in 1 .. l \/ i = l + 1
    BY <1>2
<1>6. \A i \in 1 .. l : /\ p[i] = CloseLambda <=> i = d
                        /\ i < d => base + i <= Len(t) /\ p[i] = t[base + i]
                        /\ i > d => base + i - 1 <= Len(t) /\ p[i] = t[base + i - 1]
    <2> SUFFICES ASSUME NEW i \in 1 .. l
                 PROVE  /\ p[i] = CloseLambda <=> i = d
                        /\ i < d => base + i <= Len(t) /\ p[i] = t[base + i]
                        /\ i > d => base + i - 1 <= Len(t) /\ p[i] = t[base + i - 1]
        OBVIOUS
    <2>1. p[i] = q[i] /\ i \in Nat /\ i >= 1 /\ (i = d <=> i = c) /\ (i < d <=> i < c) /\ (i > d <=> i > c)
        BY <1>2, <1>4
    <2>2. p[i] = CloseLambda <=> i = d
        BY <1>1, <2>1
    <2>3. ASSUME i < d PROVE base + i <= Len(t) /\ p[i] = t[base + i]
        <3>1. base + i <= Len(s) /\ q[i] = s[base + i]
            BY <1>1, <2>1, <2>3
        <3> QED
            BY <1>2, <2>1, <3>1
    <2>4. ASSUME i > d PROVE base + i - 1 <= Len(t) /\ p[i] = t[base + i - 1]
        <3>1. base + i - 1 <= Len(s) /\ q[i] = s[base + i - 1] /\ i > 1
            BY <1>1, <2>1, <2>4
        <3> QED
            BY <1>2, <2>1, <3>1
    <2> QED
        BY <2>2, <2>3, <2>4
<1>7. /\ p[l + 1] = CloseLambda <=> l + 1 = d
      /\ l + 1 < d => base + (l + 1) <= Len(t) /\ p[l + 1] = t[base + (l + 1)]
      /\ l + 1 > d => base + (l + 1) - 1 <= Len(t) /\ p[l + 1] = t[base + (l + 1) - 1]
    <2>1. CASE c <= l
        BY <1>1, <1>2, <1>3, <2>1
    <2>2. CASE c > l
        <3>1. d = l + 2
            BY <1>2, <2>2
        <3>4. base + l = Len(s) + 0
            BY <1>1, <1>2, <2>2
        <3>3. base + (l + 1) = Len(s) + 1
            BY <1>2, <3>4
        <3>2. p[l + 1] = m /\ t[base + (l + 1)] = m /\ ~(l + 1 > d) /\ l + 1 # d
            BY <1>2, <3>1, <3>3
        <3> QED
            BY <1>2, <1>3, <3>1, <3>2, <3>3
    <2> QED
        BY <1>1, <1>2, <2>1, <2>2
<1>8. \A i \in 1 .. Len(p) : /\ p[i] = CloseLambda <=> i = d
                             /\ i < d => base + i <= Len(t) /\ p[i] = t[base + i]
                             /\ i > d => base + i - 1 <= Len(t) /\ p[i] = t[base + i - 1]
    BY <1>2, <1>5, <1>6, <1>7
<1>9. base + Len(p) = Len(t) + (IF d <= Len(p) THEN 1 ELSE 0)
    <2>1. base + l = Len(s) + (IF c <= l THEN 1 ELSE 0)
        BY <1>1
    <2>2. l \in Nat /\ Len(p) = l + 1 /\ Len(s) \in Nat /\ Len(t) = Len(s) + 1
        BY <1>2
    <2>3. CASE c <= l
        <3>1. d <= Len(p) /\ base + l = Len(s) + 1
            BY <2>1, <2>2, <2>3
        <3> HIDE DEF d
        <3> QED
            BY <2>2, <3>1
    <2>4. CASE ~(c <= l)
        <3>1. ~(d <= Len(p)) /\ base + l = Len(s)
            BY <2>1, <2>2, <2>4
        <3> HIDE DEF d
        <3> QED
            BY <2>2, <3>1
    <2> QED
        BY <2>3, <2>4
<1>10. Waiting(p, t, base)
    <2> HIDE DEF d
    <2>1. \A i \in 1 .. Len(p) : p[i] = CloseLambda <=> i = d
        BY <1>8
    <2>2. \A i \in 1 .. Len(p) : i < d => base + i <= Len(t) /\ p[i] = t[base + i]
        BY <1>8
    <2>3. \A i \in 1 .. Len(p) : i > d => base + i - 1 <= Len(t) /\ p[i] = t[base + i - 1]
        BY <1>8
    <2> QED
        BY <1>4, <1>9, <2>1, <2>2, <2>3 DEF Waiting
<1> QED
    BY <1>10 DEF p, t

LEMMA WaitingClose ==
    ASSUME NEW q \in Seq(Lambdas), NEW s \in Seq(Packets), NEW base \in Nat, Waiting(q, s, base),
           CloseLambda \notin Range(q)
    PROVE  Waiting(Append(q, CloseLambda), s, base)
<1> DEFINE l == Len(q)
           p == Append(q, CloseLambda)
<1>1. PICK c \in 1 .. l + 1 :
            /\ \A i \in 1 .. l : q[i] = CloseLambda <=> i = c
            /\ \A i \in 1 .. l : i < c => base + i <= Len(s) /\ q[i] = s[base + i]
            /\ base + l = Len(s) + (IF c <= l THEN 1 ELSE 0)
    BY DEF Waiting
<1>2. l \in Nat /\ Len(p) = l + 1 /\ p[l + 1] = CloseLambda /\ \A i \in 1 .. l : p[i] = q[i]
    OBVIOUS
<1>3. c = l + 1
    BY <1>1, <1>2 DEF Range
<1> HIDE DEF l, p
<1>4. \A i \in 1 .. l + 1 : i \in 1 .. l \/ i = l + 1
    BY <1>2
<1>5. c \in 1 .. Len(p) + 1 /\ \A i \in 1 .. Len(p) : p[i] = CloseLambda <=> i = c
    BY <1>1, <1>2, <1>3, <1>4
<1>6. \A i \in 1 .. Len(p) : i < c => base + i <= Len(s) /\ p[i] = s[base + i]
    BY <1>1, <1>2, <1>3, <1>4
<1>7. \A i \in 1 .. Len(p) : ~(i > c)
    BY <1>2, <1>3
<1>8. base + Len(p) = Len(s) + (IF c <= Len(p) THEN 1 ELSE 0)
    BY <1>1, <1>2, <1>3
<1> QED
    BY <1>5, <1>6, <1>7, <1>8 DEF Waiting, p

LEMMA WaitingTailPacket ==
    ASSUME NEW q \in Seq(Lambdas), NEW s \in Seq(Packets), NEW base \in Nat, Waiting(q, s, base),
           q # << >>, Head(q) # CloseLambda
    PROVE  /\ base + 1 <= Len(s) /\ Head(q) = s[base + 1]
           /\ Waiting(Tail(q), s, base + 1)
<1> DEFINE l == Len(q)
           p == Tail(q)
<1>1. PICK c \in 1 .. l + 1 :
            /\ \A i \in 1 .. l : q[i] = CloseLambda <=> i = c
            /\ \A i \in 1 .. l : i < c => base + i <= Len(s) /\ q[i] = s[base + i]
            /\ \A i \in 1 .. l : i > c => base + i - 1 <= Len(s) /\ q[i] = s[base + i - 1]
            /\ base + l = Len(s) + (IF c <= l THEN 1 ELSE 0)
    BY DEF Waiting
<1>2. l \in Nat \ {0} /\ Len(p) = l - 1 /\ Head(q) = q[1] /\ \A i \in 1 .. l - 1 : p[i] = q[i + 1]
    OBVIOUS
<1>3. c \in 2 .. l + 1
    BY <1>1, <1>2
<1> HIDE DEF l, p
<1>4. base + 1 <= Len(s) /\ Head(q) = s[base + 1]
    BY <1>1, <1>2, <1>3
<1> DEFINE d == c - 1
<1>5. Len(s) \in Nat
    OBVIOUS
<1>6. \A i \in 1 .. l - 1 : i + 1 \in 1 .. l
    BY <1>2
<1>7. d \in 1 .. Len(p) + 1 /\ \A i \in 1 .. Len(p) : p[i] = CloseLambda <=> i = d
    <2>1. ASSUME NEW i \in 1 .. l - 1 PROVE p[i] = CloseLambda <=> i = d
        <3>1. p[i] = q[i + 1] /\ i + 1 \in 1 .. l /\ (i + 1 = c <=> i = d)
            BY <1>2, <1>3, <1>6
        <3> QED
            BY <1>1, <3>1
    <2> QED
        BY <1>2, <1>3, <2>1
<1>8. \A i \in 1 .. Len(p) : i < d => (base + 1) + i <= Len(s) /\ p[i] = s[(base + 1) + i]
    <2> SUFFICES ASSUME NEW i \in 1 .. Len(p), i < d
                 PROVE  (base + 1) + i <= Len(s) /\ p[i] = s[(base + 1) + i]
        OBVIOUS
    <2>1. i + 1 \in 1 .. l /\ i + 1 < c /\ p[i] = q[i + 1] /\ (base + 1) + i = base + (i + 1)
        BY <1>2, <1>6
    <2> QED
        BY <1>1, <2>1
<1>9. \A i \in 1 .. Len(p) : i > d => (base + 1) + i - 1 <= Len(s) /\ p[i] = s[(base + 1) + i - 1]
    <2> SUFFICES ASSUME NEW i \in 1 .. Len(p), i > d
                 PROVE  (base + 1) + i - 1 <= Len(s) /\ p[i] = s[(base + 1) + i - 1]
        OBVIOUS
    <2>1. i + 1 \in 1 .. l /\ i + 1 > c /\ p[i] = q[i + 1] /\ (base + 1) + i - 1 = base + (i + 1) - 1
        BY <1>2, <1>6
    <2> QED
        BY <1>1, <2>1
<1>10. (base + 1) + Len(p) = Len(s) + (IF d <= Len(p) THEN 1 ELSE 0)
    BY <1>1, <1>2, <1>5
<1>11. Waiting(p, s, base + 1)
    BY <1>7, <1>8, <1>9, <1>10 DEF Waiting
<1> QED
    BY <1>4, <1>11 DEF p

LEMMA WaitingTailClose ==
    ASSUME NEW q \in Seq(Lambdas), NEW s \in Seq(Packets), NEW base \in Nat, Waiting(q, s, base),
           q # << >>, Head(q) = CloseLambda
    PROVE  Waiting(Tail(q), s, base)
<1> DEFINE l == Len(q)
           p == Tail(q)
<1>1. PICK c \in 1 .. l + 1 :
            /\ \A i \in 1 .. l : q[i] = CloseLambda <=> i = c
            /\ \A i \in 1 .. l : i > c => base + i - 1 <= Len(s) /\ q[i] = s[base + i - 1]
            /\ base + l = Len(s) + (IF c <= l THEN 1 ELSE 0)
    BY DEF Waiting
<1>2. l \in Nat \ {0} /\ Len(p) = l - 1 /\ Head(q) = q[1] /\ \A i \in 1 .. l - 1 : p[i] = q[i + 1]
    OBVIOUS
<1>3. c = 1
    BY <1>1, <1>2
<1> HIDE DEF l, p
<1>4. \A i \in 1 .. l - 1 : i + 1 \in 1 .. l /\ i + 1 > c
    BY <1>2, <1>3
<1>5. l \in 1 .. Len(p) + 1 /\ \A i \in 1 .. Len(p) : (p[i] = CloseLambda <=> i = l) /\ ~(i > l)
    <2>1. ASSUME NEW i \in 1 .. l - 1 PROVE p[i] # CloseLambda /\ i < l
        <3>1. p[i] = q[i + 1] /\ i + 1 \in 1 .. l /\ i + 1 # c /\ i < l
            BY <1>2, <1>3
        <3> QED
            BY <1>1, <3>1
    <2> QED
        BY <1>2, <2>1
<1>6. \A i \in 1 .. Len(p) : base + i <= Len(s) /\ p[i] = s[base + i]
    <2> SUFFICES ASSUME NEW i \in 1 .. Len(p)
                 PROVE  base + i <= Len(s) /\ p[i] = s[base + i]
        OBVIOUS
    <2>1. i \in 1 .. l - 1
        BY <1>2
    <2>2. i + 1 \in 1 .. l /\ i + 1 > c /\ p[i] = q[i + 1]
        BY <1>2, <1>4, <2>1
    <2>3. base + i = base + (i + 1) - 1
        BY <2>1, <1>2
    <2> QED
        BY <1>1, <2>2, <2>3
<1>7. Len(s) \in Nat
    OBVIOUS
<1>8. base + Len(p) = Len(s) + (IF l <= Len(p) THEN 1 ELSE 0)
    BY <1>1, <1>2, <1>3, <1>7
<1> QED
    BY <1>5, <1>6, <1>8 DEF Waiting, p

------------------------------------------------------------------------------
(* The two ends of a direction: what has been sent and is not written yet,  *)
(* and what has been read.  s is what was sent, k and r are the counts.     *)

\* The position after the last operation of `ops` that succeeded.
NextOf(ops, count, s) ==
    LET here == Pos(IF ops = << >> THEN "header" ELSE Head(ops).stage, count + 1)
    IN  IF Completed(ops, "ok") THEN After(here, s) ELSE here

Queued(s, q, out, k) ==
    /\ \A i \in 1 .. Len(out) : k + i <= Len(s) /\ out[i] = s[k + i]
    /\ Waiting(q, s, k + Len(out))

BodyHasBody(ws) == (ws # << >> /\ Head(ws).stage = "body") => HasBody(Head(ws).packet)

\* The header, or the body, of the packet that comes next is in m_WipInMessage.
HeaderIn(rs) == rs # << >> /\ (Head(rs).stage = "body" \/ Head(rs).result = "ok")
BodyIn(rs)   == rs # << >> /\ Head(rs).stage = "body" /\ Head(rs).result = "ok"

Wanted(s, rs, wip, r) ==
    /\ HeaderIn(rs) => /\ r + 1 <= Len(s)
                       /\ wip.id = s[r + 1].id
                       /\ wip.size = HasBody(s[r + 1])
                       /\ Head(rs).stage = "body" => wip.size
    /\ BodyIn(rs) => wip.body = s[r + 1].body

\* A packet of the incoming queue, as the one it stands for.
Plain(m) == [id |-> m.id, body |-> IF m.size THEN m.body ELSE NoBody]

Arrived(s, in) == \A i \in 1 .. Len(in) : i <= Len(s) /\ Plain(in[i]) = s[i]

LEMMA NextOfPosition ==
    ASSUME NEW ops, ops # << >> => Head(ops).stage \in Stages, NEW count \in Nat, NEW s
    PROVE  /\ NextOf(ops, count, s) \in Positions
           /\ count + 1 <= NextOf(ops, count, s).nr /\ NextOf(ops, count, s).nr <= count + 2
<1> DEFINE here == Pos(IF ops = << >> THEN "header" ELSE Head(ops).stage, count + 1)
<1>1. here \in Positions /\ here.nr = count + 1
    BY DEF Pos, Positions, Stages
<1>2. After(here, s) \in Positions /\ here.nr <= After(here, s).nr /\ After(here, s).nr <= here.nr + 1
    BY <1>1, AfterPosition
<1>3. NextOf(ops, count, s) = IF Completed(ops, "ok") THEN After(here, s) ELSE here
    BY DEF NextOf
<1> HIDE DEF here
<1>4. here.nr \in Nat /\ After(here, s).nr \in Nat
    BY <1>1, <1>2 DEF Positions
<1> QED
    BY <1>1, <1>2, <1>3, <1>4

LEMMA NextOfSent ==
    ASSUME NEW ops, ops # << >> => Head(ops).stage \in Stages, NEW count \in Nat,
           NEW s \in Seq(Packets), NEW m \in Packets, Completed(ops, "ok") => count + 1 <= Len(s)
    PROVE  NextOf(ops, count, Append(s, m)) = NextOf(ops, count, s)
<1> DEFINE here == Pos(IF ops = << >> THEN "header" ELSE Head(ops).stage, count + 1)
<1>1. here \in Positions /\ here.nr = count + 1
    BY DEF Pos, Positions, Stages
<1>2. Completed(ops, "ok") => After(here, Append(s, m)) = After(here, s)
    BY <1>1, AfterSent
<1>3. \A t : NextOf(ops, count, t) = IF Completed(ops, "ok") THEN After(here, t) ELSE here
    BY DEF NextOf
<1> HIDE DEF here
<1> QED
    BY <1>2, <1>3

\* Operations that differ in nothing but how they fail.
LEMMA NextOfSame ==
    ASSUME NEW ops, NEW new, NEW count, NEW s, (ops = << >>) <=> (new = << >>),
           ops # << >> => /\ Head(new).stage = Head(ops).stage
                          /\ (Head(new).result = "ok" <=> Head(ops).result = "ok")
    PROVE  NextOf(new, count, s) = NextOf(ops, count, s)
BY DEF NextOf, Completed

LEMMA OpStage ==
    ASSUME NEW ops, ops \in Seq(WriteOps) \/ ops \in Seq(ReadOps), ops # << >>
    PROVE  Head(ops).stage \in Stages
<1>1. Head(ops) \in WriteOps \/ Head(ops) \in ReadOps
    BY HeadAndTail
<1> QED
    BY <1>1 DEF WriteOps, ReadOps

LEMMA OneOp ==
    ASSUME NEW x
    PROVE  Append(<< >>, x) # << >> /\ Head(Append(<< >>, x)) = x
OBVIOUS

LEMMA CancelledHead ==
    ASSUME NEW ops, ops \in Seq(WriteOps) \/ ops \in Seq(ReadOps)
    PROVE  /\ (ops = << >>) <=> (Cancelled(ops) = << >>)
           /\ ops # << >> => /\ Head(Cancelled(ops)).stage = Head(ops).stage
                             /\ ops \in Seq(WriteOps) => Head(Cancelled(ops)).packet = Head(ops).packet
                             /\ (Head(Cancelled(ops)).result = "ok" <=> Head(ops).result = "ok")
<1> DEFINE cops == Cancelled(ops)
           h == Head(ops)
<1>1. cops \in Seq(WriteOps) \/ cops \in Seq(ReadOps)
    BY CancelledWrites, CancelledReads
<1>2. Len(cops) = Len(ops) /\ DOMAIN ops = 1 .. Len(ops)
    BY CancelledWrites, CancelledReads
<1>3. (ops = << >>) <=> (cops = << >>)
    BY <1>1, <1>2
<1>4. ASSUME ops # << >>
      PROVE  Head(cops) = IF h.result = "pending" THEN [h EXCEPT !.result = "error"] ELSE h
    <2>1. Head(cops) = cops[1] /\ 1 \in DOMAIN ops /\ ops[1] = h
        BY <1>1, <1>2, <1>3, <1>4
    <2> QED
        BY <2>1 DEF Cancelled
<1>5. ops # << >> => /\ h \in WriteOps \/ h \in ReadOps
                     /\ ops \in Seq(WriteOps) => h \in WriteOps
    OBVIOUS
<1> HIDE DEF cops, h
<1>6. \A x : x \in WriteOps \/ x \in ReadOps =>
          /\ [x EXCEPT !.result = "error"].stage = x.stage
          /\ x \in WriteOps => [x EXCEPT !.result = "error"].packet = x.packet
          /\ [x EXCEPT !.result = "error"].result = "error"
    BY DEF WriteOps, ReadOps
<1>7. ops # << >> => /\ Head(cops).stage = h.stage
                     /\ ops \in Seq(WriteOps) => Head(cops).packet = h.packet
                     /\ (Head(cops).result = "ok" <=> h.result = "ok")
    BY <1>4, <1>5, <1>6
<1> QED
    BY <1>3, <1>7 DEF cops, h

LEMMA CompleteHead ==
    ASSUME NEW ops, ops \in Seq(WriteOps) \/ ops \in Seq(ReadOps), ops # << >>, NEW r
    PROVE  /\ Complete(ops, r) # << >>
           /\ Head(Complete(ops, r)).stage = Head(ops).stage
           /\ ops \in Seq(WriteOps) => Head(Complete(ops, r)).packet = Head(ops).packet
           /\ Head(Complete(ops, r)).result = r
<1> DEFINE h == Head(ops)
           x == [h EXCEPT !.result = r]
<1>1. h = ops[1] /\ (h \in WriteOps \/ h \in ReadOps) /\ (ops \in Seq(WriteOps) => h \in WriteOps)
    OBVIOUS
<1>2. x.stage = h.stage /\ x.result = r /\ (h \in WriteOps => x.packet = h.packet)
    BY <1>1 DEF WriteOps, ReadOps
<1>3. Complete(ops, r) = [ops EXCEPT ![1] = x]
    BY <1>1 DEF Complete
<1> HIDE DEF x
<1>4. Complete(ops, r) # << >> /\ Head(Complete(ops, r)) = x
    BY <1>3
<1> QED
    BY <1>1, <1>2, <1>4

LEMMA QueuedSend ==
    ASSUME NEW s \in Seq(Packets), NEW q \in Seq(Lambdas), NEW out \in Seq(Packets), NEW k \in Nat,
           Queued(s, q, out, k), NEW m \in Packets
    PROVE  Queued(Append(s, m), Append(q, m), out, k)
<1>1. /\ Len(s) \in Nat /\ Len(Append(s, m)) = Len(s) + 1
      /\ \A i \in 1 .. Len(s) : Append(s, m)[i] = s[i]
    OBVIOUS
<1>2. k + Len(out) \in Nat
    OBVIOUS
<1>3. Waiting(Append(q, m), Append(s, m), k + Len(out))
    BY <1>2, WaitingSend DEF Queued
<1> DEFINE t == Append(s, m)
<1> HIDE DEF t
<1>4. \A i \in 1 .. Len(out) : k + i <= Len(t) /\ out[i] = t[k + i]
    <2> SUFFICES ASSUME NEW i \in 1 .. Len(out) PROVE k + i <= Len(t) /\ out[i] = t[k + i]
        OBVIOUS
    <2>1. k + i <= Len(s) /\ out[i] = s[k + i] /\ k + i \in 1 .. Len(s)
        BY <1>1 DEF Queued
    <2> QED
        BY <1>1, <2>1 DEF t
<1> QED
    BY <1>3, <1>4 DEF Queued, t

LEMMA QueuedClose ==
    ASSUME NEW s \in Seq(Packets), NEW q \in Seq(Lambdas), NEW out \in Seq(Packets), NEW k \in Nat,
           Queued(s, q, out, k), CloseLambda \notin Range(q)
    PROVE  Queued(s, Append(q, CloseLambda), out, k)
<1>1. k + Len(out) \in Nat
    OBVIOUS
<1> QED
    BY <1>1, WaitingClose DEF Queued

\* A lambda of Send() runs: its packet goes from the lambdas to m_MessagesOut.
LEMMA QueuedRun ==
    ASSUME NEW s \in Seq(Packets), NEW q \in Seq(Lambdas), NEW out \in Seq(Packets), NEW k \in Nat,
           Queued(s, q, out, k), q # << >>, Head(q) # CloseLambda
    PROVE  Queued(s, Tail(q), Append(out, Head(q)), k)
<1> DEFINE l == Len(out)
           new == Append(out, Head(q))
<1>1. l \in Nat /\ Len(new) = l + 1 /\ new[l + 1] = Head(q) /\ \A i \in 1 .. l : new[i] = out[i]
    BY AppendProperties
<1>2. k + l + 1 <= Len(s) /\ Head(q) = s[k + l + 1] /\ Waiting(Tail(q), s, k + l + 1)
    <2>1. k + l \in Nat
        BY <1>1
    <2> QED
        BY <2>1, WaitingTailPacket DEF Queued
<1>3. \A i \in 1 .. l : k + i <= Len(s) /\ out[i] = s[k + i]
    BY DEF Queued
<1> HIDE DEF l, new
<1>4. \A i \in 1 .. l + 1 : i \in 1 .. l \/ i = l + 1
    BY <1>1
<1>5. \A i \in 1 .. Len(new) : k + i <= Len(s) /\ new[i] = s[k + i]
    <2>1. k + (l + 1) = k + l + 1
        BY <1>1
    <2> QED
        BY <1>1, <1>2, <1>3, <1>4, <2>1
<1>6. k + Len(new) = k + l + 1
    BY <1>1
<1>7. Queued(s, Tail(q), new, k)
    BY <1>2, <1>5, <1>6 DEF Queued
<1> QED
    BY <1>7 DEF new

LEMMA QueuedClosed ==
    ASSUME NEW s \in Seq(Packets), NEW q \in Seq(Lambdas), NEW out \in Seq(Packets), NEW k \in Nat,
           Queued(s, q, out, k), q # << >>, Head(q) = CloseLambda
    PROVE  Queued(s, Tail(q), out, k)
<1>1. k + Len(out) \in Nat
    OBVIOUS
<1> QED
    BY <1>1, WaitingTailClose DEF Queued

\* The packet at the front of m_MessagesOut has been written.
LEMMA QueuedWritten ==
    ASSUME NEW s \in Seq(Packets), NEW q \in Seq(Lambdas), NEW out \in Seq(Packets), NEW k \in Nat,
           Queued(s, q, out, k), out # << >>
    PROVE  /\ k + 1 <= Len(s) /\ Head(out) = s[k + 1]
           /\ Queued(s, q, Tail(out), k + 1)
<1> DEFINE l == Len(out)
           new == Tail(out)
<1>1. l \in Nat \ {0} /\ Len(new) = l - 1 /\ Head(out) = out[1] /\ \A i \in 1 .. l - 1 : new[i] = out[i + 1]
    OBVIOUS
<1>2. \A i \in 1 .. l : k + i <= Len(s) /\ out[i] = s[k + i]
    BY DEF Queued
<1> HIDE DEF l, new
<1>3. k + 1 <= Len(s) /\ Head(out) = s[k + 1]
    BY <1>1, <1>2
<1>4. \A i \in 1 .. Len(new) : (k + 1) + i <= Len(s) /\ new[i] = s[(k + 1) + i]
    <2> SUFFICES ASSUME NEW i \in 1 .. Len(new) PROVE (k + 1) + i <= Len(s) /\ new[i] = s[(k + 1) + i]
        OBVIOUS
    <2>1. i + 1 \in 1 .. l /\ new[i] = out[i + 1] /\ (k + 1) + i = k + (i + 1)
        BY <1>1
    <2> QED
        BY <1>2, <2>1
<1>5. (k + 1) + Len(new) = k + l
    BY <1>1
<1>6. Queued(s, q, new, k + 1)
    BY <1>4, <1>5 DEF Queued, l
<1> QED
    BY <1>3, <1>6 DEF new

LEMMA WantedSent ==
    ASSUME NEW s \in Seq(Packets), NEW m \in Packets, NEW rs, NEW wip, NEW in \in Seq(Incoming),
           NEW r \in Nat
    PROVE  /\ Wanted(s, rs, wip, r) => Wanted(Append(s, m), rs, wip, r)
           /\ Arrived(s, in) => Arrived(Append(s, m), in)
<1> DEFINE t == Append(s, m)
<1>1. Len(s) \in Nat /\ Len(t) = Len(s) + 1 /\ \A i \in 1 .. Len(s) : t[i] = s[i]
    OBVIOUS
<1> HIDE DEF t
<1>2. r + 1 <= Len(s) => r + 1 <= Len(t) /\ t[r + 1] = s[r + 1]
    BY <1>1
<1>3. Wanted(s, rs, wip, r) => Wanted(t, rs, wip, r)
    BY <1>2 DEF Wanted, HeaderIn, BodyIn
<1>4. ASSUME Arrived(s, in) PROVE Arrived(t, in)
    <2>1. \A i \in 1 .. Len(in) : i <= Len(s) /\ Plain(in[i]) = s[i] /\ i \in 1 .. Len(s)
        BY <1>1, <1>4 DEF Arrived
    <2> QED
        BY <1>1, <2>1 DEF Arrived
<1> QED
    BY <1>3, <1>4 DEF t

\* The packet in m_WipInMessage is complete and goes to the incoming queue.
LEMMA ArrivedPush ==
    ASSUME NEW s \in Seq(Packets), NEW rs, NEW wip \in Incoming, NEW in \in Seq(Incoming),
           Wanted(s, rs, wip, Len(in)), Arrived(s, in),
           Completed(rs, "ok"), Head(rs).stage \in Stages, Head(rs).stage = "header" => ~wip.size
    PROVE  /\ Len(in) + 1 <= Len(s) /\ Plain(wip) = s[Len(in) + 1]
           /\ Arrived(s, Append(in, wip))
           /\ NextOf(rs, Len(in), s) = Pos("header", Len(in) + 2)
<1> DEFINE l == Len(in)
           p == s[l + 1]
           new == Append(in, wip)
<1>1. /\ l \in Nat /\ Len(new) = l + 1 /\ new[l + 1] = wip /\ \A i \in 1 .. l : new[i] = in[i]
      /\ Len(s) \in Nat
    BY AppendProperties
<1>2. HeaderIn(rs) /\ (Head(rs).stage = "body" <=> BodyIn(rs))
    BY DEF HeaderIn, BodyIn, Completed, Stages
<1>3. /\ l + 1 <= Len(s) /\ wip.id = p.id /\ wip.size = HasBody(p)
      /\ Head(rs).stage = "body" => wip.size /\ wip.body = p.body
    BY <1>2 DEF Wanted
<1>4. p \in Packets
    BY <1>1, <1>3
<1> HIDE DEF l, new, p
<1>5. Plain(wip) = p
    BY <1>3, <1>4 DEF Plain, Packets, HasBody, Stages
<1>6. \A i \in 1 .. l + 1 : i \in 1 .. l \/ i = l + 1
    BY <1>1
<1>7. Arrived(s, new)
    BY <1>1, <1>3, <1>5, <1>6 DEF Arrived, l, p
<1>8. NextOf(rs, l, s) = Pos("header", l + 2)
    <2>1. NextOf(rs, l, s) = After(Pos(Head(rs).stage, l + 1), s)
        BY DEF NextOf, Completed
    <2>2. Head(rs).stage = "header" => ~HasBody(p)
        BY <1>3
    <2>3. After(Pos(Head(rs).stage, l + 1), s) = Pos("header", (l + 1) + 1)
        BY <2>2 DEF After, Pos, p
    <2> QED
        BY <1>1, <2>1, <2>3
<1> QED
    BY <1>3, <1>5, <1>7, <1>8 DEF l, new, p

\* A read gets the part it waits for.
LEMMA WantedRead ==
    ASSUME NEW s \in Seq(Packets), NEW rs \in Seq(ReadOps), NEW wip \in Incoming, NEW r \in Nat,
           Wanted(s, rs, wip, r), Pending(rs), r + 1 <= Len(s),
           NEW new \in Incoming,
           new = IF Head(rs).stage = "header"
                 THEN [wip EXCEPT !.id = s[r + 1].id, !.size = HasBody(s[r + 1])]
                 ELSE [wip EXCEPT !.body = s[r + 1].body]
    PROVE  /\ Wanted(s, Complete(rs, "ok"), new, r)
           /\ NextOf(Complete(rs, "ok"), r, s) = After(NextOf(rs, r, s), s)
<1> DEFINE ops == Complete(rs, "ok")
<1>1. rs # << >> /\ Head(rs).result = "pending" /\ Head(rs).stage \in Stages
    BY OpStage DEF Pending
<1>2. ops # << >> /\ Head(ops).stage = Head(rs).stage /\ Head(ops).result = "ok"
    BY <1>1, CompleteHead
<1> HIDE DEF ops
<1>3. NextOf(ops, r, s) = After(NextOf(rs, r, s), s)
    BY <1>1, <1>2 DEF NextOf, Completed
<1>4. CASE Head(rs).stage = "header"
    <2>1. new.id = s[r + 1].id /\ new.size = HasBody(s[r + 1])
        BY <1>4 DEF Incoming
    <2> QED
        BY <1>2, <1>3, <1>4, <2>1 DEF Wanted, HeaderIn, BodyIn, ops
<1>5. CASE Head(rs).stage = "body"
    <2>1. new.id = wip.id /\ new.size = wip.size /\ new.body = s[r + 1].body
        BY <1>5 DEF Incoming
    <2>2. HeaderIn(rs)
        BY <1>1, <1>5 DEF HeaderIn
    <2> QED
        BY <1>2, <1>3, <2>1, <2>2, <1>5 DEF Wanted, HeaderIn, BodyIn, ops
<1> QED
    BY <1>1, <1>4, <1>5 DEF Stages

------------------------------------------------------------------------------
(* The invariant of the direction from e to its peer. *)

\* The handler of async_connect has ended, or the connection has been accepted.
Begun(e) == IF e = "client" THEN connect = "done" ELSE m_Socket["server"] # "new"

\* What e has received so far is what it goes on with: until an end stops to read.
Reading(e) == reads[e] # << >> \/ ~Begun(e)

NextToWrite(e) == NextOf(writes[e], m_SentPacketCount[e], sent[e])
NextToRead(e)  == NextOf(reads[e], m_ReceivedPacketCount[e], sent[Peer(e)])

\* What has been sent is in m_MessagesOut or in a lambda when it has not been counted.
WriterInv(e) ==
    /\ Queued(sent[e], posted[e], m_MessagesOut[e], m_SentPacketCount[e])
    /\ BodyHasBody(writes[e])
    /\ Fresh(e) => m_SentPacketCount[e] = 0

\* What has been queued is what was sent, and m_WipInMessage is the packet after it.
ReaderInv(e) ==
    /\ Reading(e) => Len(m_MessagesIn[e]) = m_ReceivedPacketCount[e]
    /\ Wanted(sent[Peer(e)], reads[e], m_WipInMessage[e], m_ReceivedPacketCount[e])
    /\ Arrived(sent[Peer(e)], m_MessagesIn[e])

\* The wire carries what lies between the reader and the writer, who writes into the
\* void when the connection is down.
WireInv(e) ==
    /\ link = "none" => wire[e] = << >>
    /\ Reading(Peer(e)) =>
         \E n : /\ Carries(wire[e], n, sent[e])
                /\ n[1] = NextToRead(Peer(e))
                /\ n[Len(wire[e]) + 1].nr <= NextToWrite(e).nr
                /\ link = "up" => n[Len(wire[e]) + 1] = NextToWrite(e)

DirInv(e) ==
    /\ WriterInv(e) /\ ReaderInv(Peer(e)) /\ WireInv(e)
    /\ m_ReceivedPacketCount[Peer(e)] <= m_SentPacketCount[e] + 1

\* A step of the writing end, whatever it does to the wire.
WriterStep(e) ==
    /\ sent'[e] = sent[e] \/ \E m \in Packets : sent'[e] = Append(sent[e], m)
    /\ WriterInv(e)'
    /\ NextToWrite(e)' = NextToWrite(e) \/ (link' # "up" /\ NextToWrite(e).nr <= NextToWrite(e)'.nr)
    /\ m_SentPacketCount[e] <= m_SentPacketCount'[e]

\* A step of the reading end that does not read from the wire.
ReaderStep(e) ==
    LET s == sent[Peer(e)]
    IN  /\ Reading(e)' => Len(m_MessagesIn'[e]) = m_ReceivedPacketCount'[e]
        /\ Wanted(s, reads'[e], m_WipInMessage'[e], m_ReceivedPacketCount'[e])
        /\ Arrived(s, m_MessagesIn'[e])
        /\ Reading(e)' => /\ Reading(e)
                          /\ NextOf(reads'[e], m_ReceivedPacketCount'[e], s) = NextToRead(e)
        /\ \/ m_ReceivedPacketCount'[e] = m_ReceivedPacketCount[e]
           \/ Reading(e) /\ m_ReceivedPacketCount'[e] + 1 <= NextToRead(e).nr

LEMMA Peers ==
    ASSUME NEW e \in Sides
    PROVE  Peer(e) \in Sides /\ Peer(Peer(e)) = e /\ Peer(e) # e
           /\ \A d \in Sides : d = e \/ d = Peer(e)
BY DEF Peer, Sides

\* What TypeOK says of one end, as the lemmas on sequences want it.
LEMMA EndTypes ==
    ASSUME TypeOK, NEW e \in Sides
    PROVE  /\ sent[e] \in Seq(Packets) /\ posted[e] \in Seq(Lambdas)
           /\ m_MessagesOut[e] \in Seq(Packets) /\ wire[e] \in Seq(Parts)
           /\ writes[e] \in Seq(WriteOps) /\ reads[e] \in Seq(ReadOps)
           /\ m_WipInMessage[e] \in Incoming /\ m_MessagesIn[e] \in Seq(Incoming)
           /\ m_SentPacketCount[e] \in Nat /\ m_ReceivedPacketCount[e] \in Nat
           /\ writes[e] # << >> => Head(writes[e]) \in WriteOps
           /\ reads[e] # << >> => Head(reads[e]) \in ReadOps
<1>1. posted[e] \in Seq(Lambdas) /\ wire[e] \in Seq(Parts) /\ sent[e] \in Seq(Packets)
    BY DEF TypeOK, Lambdas, Parts
<1>2. m_MessagesOut[e] \in Seq(Packets) /\ writes[e] \in Seq(WriteOps) /\ reads[e] \in Seq(ReadOps)
    BY TypesAt
<1>3. m_WipInMessage[e] \in Incoming /\ m_MessagesIn[e] \in Seq(Incoming)
    BY TypesAt
<1>4. m_SentPacketCount[e] \in Nat /\ m_ReceivedPacketCount[e] \in Nat
    BY DEF TypeOK
<1>5. /\ writes[e] # << >> => Head(writes[e]) \in WriteOps
      /\ reads[e] # << >> => Head(reads[e]) \in ReadOps
    BY <1>2, HeadAndTail
<1> QED
    BY <1>1, <1>2, <1>3, <1>4, <1>5

\* The numbers of the packets on a wire never fall.
LEMMA CarriesUpward ==
    ASSUME NEW w \in Seq(Parts), NEW s \in Seq(Packets), NEW n, Carries(w, n, s)
    PROVE  n[1].nr <= n[Len(w) + 1].nr /\ n[1].nr \in Nat /\ n[Len(w) + 1].nr \in Nat
<1>1. 1 \in 1 .. Len(w) + 1 /\ Len(w) + 1 \in 1 .. Len(w) + 1 /\ 1 <= Len(w) + 1
    BY LenProperties
<1>2. n \in [1 .. Len(w) + 1 -> Positions] /\ \A i, j \in 1 .. Len(w) + 1 : i <= j => n[i].nr <= n[j].nr
    BY DEF Carries
<1> QED
    BY <1>1, <1>2 DEF Positions

\* Whatever the two ends do, but for parts put on the wire and taken from it.
LEMMA Direction ==
    ASSUME TypeOK, TypeOK', NEW e \in Sides, DirInv(e), WriterStep(e), ReaderStep(Peer(e)),
           wire'[e] = wire[e], link' = "up" => link = "up", link' = "none" => link = "none"
    PROVE  DirInv(e)'
<1> DEFINE d == Peer(e)
           s == sent[e]
           t == sent'[e]
           k == m_SentPacketCount[e]
           r == m_ReceivedPacketCount[d]
           nr == m_ReceivedPacketCount'[d]
<1>1. d \in Sides /\ Peer(d) = e
    BY Peers
<1>2. s \in Seq(Packets) /\ wire[e] \in Seq(Parts) /\ k \in Nat /\ r \in Nat /\ m_MessagesIn'[d] \in Seq(Incoming)
    BY <1>1, EndTypes DEF TypeOK
<1>3. nr \in Nat /\ m_SentPacketCount'[e] \in Nat
    BY <1>1 DEF TypeOK
<1>4. writes[e] # << >> => Head(writes[e]).stage \in Stages
    BY EndTypes DEF WriteOps
<1>5. reads'[d] # << >> => Head(reads'[d]).stage \in Stages
    <2>1. reads'[d] \in Seq(ReadOps)
        BY <1>1 DEF TypeOK
    <2> QED
        BY <2>1, OpStage
<1>6. /\ NextToWrite(e) \in Positions /\ NextToWrite(e).nr <= k + 2
    BY <1>2, <1>4, NextOfPosition DEF NextToWrite
<1>7. t = s \/ \E m \in Packets : t = Append(s, m)
    BY DEF WriterStep
<1>8. /\ Wanted(t, reads'[d], m_WipInMessage'[d], nr)
      /\ Arrived(t, m_MessagesIn'[d])
      /\ NextOf(reads'[d], nr, t) = NextOf(reads'[d], nr, s)
    <2>1. Wanted(s, reads'[d], m_WipInMessage'[d], nr) /\ Arrived(s, m_MessagesIn'[d])
        BY <1>1 DEF ReaderStep
    <2>2. Completed(reads'[d], "ok") => nr + 1 <= Len(s)
        BY <2>1 DEF Wanted, HeaderIn, Completed
    <2> HIDE DEF s, t, nr
    <2>3. ASSUME NEW m \in Packets, t = Append(s, m)
          PROVE  /\ Wanted(t, reads'[d], m_WipInMessage'[d], nr)
                 /\ Arrived(t, m_MessagesIn'[d])
                 /\ NextOf(reads'[d], nr, t) = NextOf(reads'[d], nr, s)
        <3>1. NextOf(reads'[d], nr, Append(s, m)) = NextOf(reads'[d], nr, s)
            BY <1>2, <1>3, <1>5, <2>2, NextOfSent
        <3>2. /\ Wanted(Append(s, m), reads'[d], m_WipInMessage'[d], nr)
              /\ Arrived(Append(s, m), m_MessagesIn'[d])
            BY <1>2, <1>3, <2>1, WantedSent
        <3> QED
            BY <2>3, <3>1, <3>2
    <2> QED
        BY <1>7, <2>1, <2>3
<1>9. WriterInv(e)'
    BY DEF WriterStep
<1>10. ReaderInv(d)'
    BY <1>1, <1>8 DEF ReaderInv, ReaderStep
<1>11. ASSUME Reading(d)
       PROVE  NextToRead(d).nr <= k + 2
    <2>1. PICK n : /\ Carries(wire[e], n, s)
                   /\ n[1] = NextToRead(d)
                   /\ n[Len(wire[e]) + 1].nr <= NextToWrite(e).nr
        BY <1>11 DEF DirInv, WireInv
    <2>2. n[1].nr <= n[Len(wire[e]) + 1].nr /\ n[1].nr \in Nat /\ n[Len(wire[e]) + 1].nr \in Nat
        BY <1>2, <2>1, CarriesUpward
    <2>3. NextToWrite(e).nr \in Nat
        BY <1>6 DEF Positions
    <2>4. n[1].nr = NextToRead(d).nr /\ n[Len(wire[e]) + 1].nr <= NextToWrite(e).nr
        BY <2>1
    <2>5. NextToWrite(e).nr <= k + 2
        BY <1>2, <1>6
    <2> QED
        BY <1>2, <2>2, <2>3, <2>4, <2>5
<1>12. nr <= m_SentPacketCount'[e] + 1
    <2>1. r <= k + 1 /\ k <= m_SentPacketCount'[e]
        BY DEF DirInv, WriterStep
    <2>2. nr = r \/ (Reading(d) /\ nr + 1 <= NextToRead(d).nr)
        BY <1>1 DEF ReaderStep
    <2>3. Reading(d) => NextToRead(d).nr \in Nat
        <3>1. reads[d] # << >> => Head(reads[d]).stage \in Stages
            BY <1>1, EndTypes DEF ReadOps
        <3> QED
            BY <1>2, <3>1, NextOfPosition DEF NextToRead, Positions
    <2> QED
        BY <1>2, <1>3, <1>11, <2>1, <2>2, <2>3, SMTT(60)
<1>13. (link = "none" => wire[e] = << >>)'
    BY DEF DirInv, WireInv
<1>14. ASSUME Reading(d)'
       PROVE  (\E n : /\ Carries(wire[e], n, sent[e])
                      /\ n[1] = NextToRead(d)
                      /\ n[Len(wire[e]) + 1].nr <= NextToWrite(e).nr
                      /\ link = "up" => n[Len(wire[e]) + 1] = NextToWrite(e))'
    <2>1. Reading(d) /\ NextOf(reads'[d], nr, s) = NextToRead(d)
        BY <1>1, <1>14 DEF ReaderStep
    <2>2. PICK n : /\ Carries(wire[e], n, s)
                   /\ n[1] = NextToRead(d)
                   /\ n[Len(wire[e]) + 1].nr <= NextToWrite(e).nr
                   /\ link = "up" => n[Len(wire[e]) + 1] = NextToWrite(e)
        BY <2>1 DEF DirInv, WireInv
    <2>3. NextToRead(d)' = NextToRead(d)
        BY <1>1, <1>8, <2>1 DEF NextToRead
    <2>4. Carries(wire[e], n, t)
        BY <1>2, <1>7, <2>2, CarriesSent
    <2>5. n[Len(wire[e]) + 1].nr \in Nat /\ NextToWrite(e).nr \in Nat
        BY <1>2, <1>6, <2>2 DEF Carries, Positions
    <2>6. NextToWrite(e)'.nr \in Nat
        <3>1. writes'[e] \in Seq(WriteOps)
            BY DEF TypeOK
        <3>2. writes'[e] # << >> => Head(writes'[e]).stage \in Stages
            BY <3>1, OpStage
        <3> QED
            BY <1>3, <3>2, NextOfPosition DEF NextToWrite, Positions
    <2>7. /\ n[Len(wire[e]) + 1].nr <= NextToWrite(e)'.nr
          /\ link' = "up" => n[Len(wire[e]) + 1] = NextToWrite(e)'
        BY <2>2, <2>5, <2>6 DEF WriterStep
    <2> QED
        BY <2>2, <2>3, <2>4, <2>7
<1> QED
    BY <1>9, <1>10, <1>12, <1>13, <1>14 DEF DirInv, WireInv

------------------------------------------------------------------------------
(* The steps of the writing end. *)

\* The same operations, but for how they fail.
Alike(new, ops) ==
    /\ (ops = << >>) <=> (new = << >>)
    /\ ops # << >> => /\ Head(new).stage = Head(ops).stage
                      /\ (Head(new).result = "ok" <=> Head(ops).result = "ok")

LEMMA NothingCompleted ==
    ASSUME NEW e \in Sides, TypeOK, WritesTheFront, WriterInv(e), writes[e] # << >>
    PROVE  /\ m_MessagesOut[e] # << >> /\ Head(writes[e]).packet = Head(m_MessagesOut[e])
           /\ m_SentPacketCount[e] + 1 <= Len(sent[e])
           /\ Head(m_MessagesOut[e]) = sent[e][m_SentPacketCount[e] + 1]
<1>1. writes[e] \in Seq(WriteOps)
    BY EndTypes
<1>2. 1 \in DOMAIN writes[e] /\ Head(writes[e]) = writes[e][1]
    BY <1>1
<1>3. m_MessagesOut[e] # << >> /\ Head(writes[e]).packet = Head(m_MessagesOut[e])
    BY <1>2 DEF WritesTheFront
<1>4. Queued(sent[e], posted[e], m_MessagesOut[e], m_SentPacketCount[e])
    BY DEF WriterInv
<1>5. /\ sent[e] \in Seq(Packets) /\ posted[e] \in Seq(Lambdas) /\ m_MessagesOut[e] \in Seq(Packets)
      /\ m_SentPacketCount[e] \in Nat
    BY EndTypes
<1> QED
    BY <1>3, <1>4, <1>5, QueuedWritten

\* Packets are sent and queued, and the operations are at most cancelled.
LEMMA WriterKeeps ==
    ASSUME TypeOK, WritesTheFront, NEW e \in Sides, WriterInv(e),
           sent'[e] = sent[e] \/ \E m \in Packets : sent'[e] = Append(sent[e], m),
           Queued(sent'[e], posted'[e], m_MessagesOut'[e], m_SentPacketCount[e]),
           Alike(writes'[e], writes[e]),
           writes[e] # << >> => Head(writes'[e]).packet = Head(writes[e]).packet,
           m_SentPacketCount'[e] = m_SentPacketCount[e], Fresh(e)' => Fresh(e)
    PROVE  WriterStep(e)
<1> DEFINE k == m_SentPacketCount[e]
<1>1. BodyHasBody(writes'[e])
    BY DEF WriterInv, BodyHasBody, Alike
<1>2. WriterInv(e)'
    BY <1>1 DEF WriterInv
<1>3. NextOf(writes'[e], k, sent'[e]) = NextOf(writes[e], k, sent'[e])
    BY NextOfSame DEF Alike
<1>4. NextOf(writes[e], k, sent'[e]) = NextOf(writes[e], k, sent[e])
    <2>1. CASE sent'[e] = sent[e]
        BY <2>1
    <2>2. ASSUME NEW m \in Packets, sent'[e] = Append(sent[e], m)
          PROVE  NextOf(writes[e], k, sent'[e]) = NextOf(writes[e], k, sent[e])
        <3>1. writes[e] # << >> => Head(writes[e]).stage \in Stages
            BY EndTypes, OpStage
        <3>2. Completed(writes[e], "ok") => k + 1 <= Len(sent[e])
            BY NothingCompleted DEF Completed
        <3>3. sent[e] \in Seq(Packets) /\ k \in Nat
            BY EndTypes
        <3> QED
            BY <2>2, <3>1, <3>2, <3>3, NextOfSent
    <2> QED
        BY <2>1, <2>2
<1>5. NextToWrite(e)' = NextToWrite(e)
    BY <1>3, <1>4 DEF NextToWrite
<1>6. k <= m_SentPacketCount'[e]
    BY EndTypes
<1> QED
    BY <1>2, <1>5, <1>6 DEF WriterStep

\* A step of which the writing end notices nothing.
LEMMA WriterSame ==
    ASSUME TypeOK, WritesTheFront, NEW e \in Sides, WriterInv(e),
           sent'[e] = sent[e], posted'[e] = posted[e], m_MessagesOut'[e] = m_MessagesOut[e],
           writes'[e] = writes[e] \/ writes'[e] = Cancelled(writes[e]),
           m_SentPacketCount'[e] = m_SentPacketCount[e], Fresh(e)' => Fresh(e)
    PROVE  WriterStep(e)
<1>1. Queued(sent'[e], posted'[e], m_MessagesOut'[e], m_SentPacketCount[e])
    BY DEF WriterInv
<1>2. Alike(writes'[e], writes[e]) /\ (writes[e] # << >> => Head(writes'[e]).packet = Head(writes[e]).packet)
    BY EndTypes, CancelledHead DEF Alike
<1> QED
    BY <1>1, <1>2, WriterKeeps

\* An operation is over, and perhaps the next one started where it ended.
LEMMA WriterGoesOn ==
    ASSUME TypeOK, NEW e \in Sides,
           sent'[e] = sent[e],
           Queued(sent[e], posted'[e], m_MessagesOut'[e], m_SentPacketCount'[e]),
           BodyHasBody(writes'[e]),
           NextOf(writes'[e], m_SentPacketCount'[e], sent[e]) = NextToWrite(e),
           m_SentPacketCount'[e] = m_SentPacketCount[e] \/ m_SentPacketCount'[e] = m_SentPacketCount[e] + 1,
           ~Fresh(e)'
    PROVE  WriterStep(e)
<1>1. WriterInv(e)' /\ NextToWrite(e)' = NextToWrite(e)
    BY DEF WriterInv, NextToWrite
<1>2. m_SentPacketCount[e] <= m_SentPacketCount'[e]
    BY EndTypes
<1> QED
    BY <1>1, <1>2 DEF WriterStep

\* An operation has failed or got nowhere, on a connection that is down.
LEMMA WriterGetsNowhere ==
    ASSUME TypeOK, NEW e \in Sides, WriterInv(e), link' # "up",
           sent'[e] = sent[e], posted'[e] = posted[e], m_MessagesOut'[e] = m_MessagesOut[e],
           writes[e] # << >>, Head(writes[e]).result # "ok",
           \/ writes'[e] = << >>
           \/ writes'[e] = Complete(writes[e], "ok"),
           m_SentPacketCount'[e] = m_SentPacketCount[e], ~Fresh(e)'
    PROVE  WriterStep(e)
<1> DEFINE k == m_SentPacketCount[e]
<1>1. k \in Nat /\ writes[e] \in Seq(WriteOps) /\ Head(writes[e]).stage \in Stages
    BY EndTypes, OpStage
<1>2. /\ writes'[e] # << >> => /\ Head(writes'[e]).stage = Head(writes[e]).stage
                               /\ Head(writes'[e]).packet = Head(writes[e]).packet
    BY <1>1, CompleteHead
<1>3. BodyHasBody(writes'[e])
    BY <1>2 DEF WriterInv, BodyHasBody
<1>4. WriterInv(e)'
    BY <1>3 DEF WriterInv
<1>5. NextToWrite(e).nr = k + 1
    BY DEF NextToWrite, NextOf, Completed, Pos
<1>6. NextToWrite(e)' \in Positions /\ k + 1 <= NextToWrite(e)'.nr
    BY <1>1, <1>2, NextOfPosition DEF NextToWrite
<1>7. m_SentPacketCount[e] <= m_SentPacketCount'[e]
    BY <1>1
<1> QED
    BY <1>4, <1>5, <1>6, <1>7 DEF WriterStep

------------------------------------------------------------------------------
(* The steps of the reading end. *)

\* The operations are at most cancelled, or the oldest one fails.
LEMMA ReaderKeeps ==
    ASSUME TypeOK, NEW e \in Sides, ReaderInv(e),
           Alike(reads'[e], reads[e]), m_WipInMessage'[e] = m_WipInMessage[e],
           m_MessagesIn'[e] = m_MessagesIn[e], m_ReceivedPacketCount'[e] = m_ReceivedPacketCount[e],
           Begun(e) => Begun(e)'
    PROVE  ReaderStep(e)
<1> DEFINE s == sent[Peer(e)]
           r == m_ReceivedPacketCount[e]
<1>1. Reading(e)' => Reading(e)
    BY DEF Reading, Alike
<1>2. NextOf(reads'[e], r, s) = NextToRead(e)
    BY NextOfSame DEF NextToRead, Alike
<1>3. Wanted(s, reads'[e], m_WipInMessage'[e], r)
    BY DEF ReaderInv, Wanted, HeaderIn, BodyIn, Alike
<1> QED
    BY <1>1, <1>2, <1>3 DEF ReaderStep, ReaderInv

LEMMA ReaderSame ==
    ASSUME TypeOK, NEW e \in Sides, ReaderInv(e),
           reads'[e] = reads[e] \/ reads'[e] = Cancelled(reads[e]), m_WipInMessage'[e] = m_WipInMessage[e],
           m_MessagesIn'[e] = m_MessagesIn[e], m_ReceivedPacketCount'[e] = m_ReceivedPacketCount[e],
           Begun(e) => Begun(e)'
    PROVE  ReaderStep(e)
<1>1. Alike(reads'[e], reads[e])
    BY EndTypes, CancelledHead DEF Alike
<1> QED
    BY <1>1, ReaderKeeps

\* The end reads no more, without or with a packet that it does not queue.
LEMMA ReaderStops ==
    ASSUME NEW e \in Sides, ReaderInv(e), Begun(e)', reads'[e] = << >>, m_MessagesIn'[e] = m_MessagesIn[e],
           \/ m_ReceivedPacketCount'[e] = m_ReceivedPacketCount[e]
           \/ Reading(e) /\ m_ReceivedPacketCount'[e] + 1 <= NextToRead(e).nr
    PROVE  ReaderStep(e)
<1>1. ~Reading(e)'
    BY DEF Reading
<1>2. ~HeaderIn(reads'[e]) /\ ~BodyIn(reads'[e])
    BY DEF HeaderIn, BodyIn
<1> QED
    BY <1>1, <1>2 DEF ReaderStep, ReaderInv, Wanted

\* The first read of an end.
LEMMA ReaderStarts ==
    ASSUME NEW e \in Sides, ReaderInv(e), reads[e] = << >>, ~Begun(e),
           reads'[e] # << >>, Head(reads'[e]).stage = "header", Head(reads'[e]).result # "ok",
           m_WipInMessage'[e] = m_WipInMessage[e],
           m_MessagesIn'[e] = m_MessagesIn[e], m_ReceivedPacketCount'[e] = m_ReceivedPacketCount[e]
    PROVE  ReaderStep(e)
<1> DEFINE s == sent[Peer(e)]
           r == m_ReceivedPacketCount[e]
<1>1. Reading(e)
    BY DEF Reading
<1>2. NextOf(reads'[e], r, s) = NextToRead(e)
    BY DEF NextToRead, NextOf, Completed
<1>3. ~HeaderIn(reads'[e]) /\ ~BodyIn(reads'[e])
    BY DEF HeaderIn, BodyIn
<1> QED
    BY <1>1, <1>2, <1>3 DEF ReaderStep, ReaderInv, Wanted

\* What the handlers of async_read know when a part has been read.
LEMMA PartRead ==
    ASSUME TypeOK, NEW e \in Sides, ReaderInv(e), Completed(reads[e], "ok")
    PROVE  /\ Reading(e) /\ Len(m_MessagesIn[e]) = m_ReceivedPacketCount[e]
           /\ Wanted(sent[Peer(e)], reads[e], m_WipInMessage[e], Len(m_MessagesIn[e]))
           /\ Arrived(sent[Peer(e)], m_MessagesIn[e])
           /\ Head(reads[e]).stage \in Stages
           /\ sent[Peer(e)] \in Seq(Packets) /\ m_WipInMessage[e] \in Incoming
           /\ m_MessagesIn[e] \in Seq(Incoming) /\ m_ReceivedPacketCount[e] \in Nat
<1>1. reads[e] # << >> /\ Reading(e)
    BY DEF Completed, Reading
<1> QED
    BY <1>1, EndTypes, OpStage, Peers DEF ReaderInv

LEMMA WholeRead ==
    ASSUME TypeOK, NEW e \in Sides, ReaderInv(e), Completed(reads[e], "ok"),
           Head(reads[e]).stage = "header" => ~m_WipInMessage[e].size
    PROVE  /\ Reading(e) /\ Len(m_MessagesIn[e]) = m_ReceivedPacketCount[e]
           /\ m_ReceivedPacketCount[e] \in Nat
           /\ Arrived(sent[Peer(e)], Append(m_MessagesIn[e], m_WipInMessage[e]))
           /\ NextToRead(e) = Pos("header", m_ReceivedPacketCount[e] + 2)
<1> DEFINE s == sent[Peer(e)]
           in == m_MessagesIn[e]
<1>1. /\ Reading(e) /\ Len(in) = m_ReceivedPacketCount[e] /\ m_ReceivedPacketCount[e] \in Nat
      /\ Wanted(s, reads[e], m_WipInMessage[e], Len(in)) /\ Arrived(s, in)
      /\ Head(reads[e]).stage \in Stages
      /\ s \in Seq(Packets) /\ m_WipInMessage[e] \in Incoming /\ in \in Seq(Incoming)
    BY PartRead
<1>2. /\ Arrived(s, Append(in, m_WipInMessage[e]))
      /\ NextOf(reads[e], Len(in), s) = Pos("header", Len(in) + 2)
    <2> HIDE DEF s, in
    <2> QED
        BY <1>1, ArrivedPush
<1> QED
    BY <1>1, <1>2 DEF NextToRead

\* AddToIncomingMessageQueue() queues a packet and goes on to read the next header.
LEMMA ReaderPushes ==
    ASSUME TypeOK, NEW e \in Sides, ReaderInv(e), Completed(reads[e], "ok"),
           Head(reads[e]).stage = "header" => ~m_WipInMessage[e].size,
           reads'[e] # << >>, Head(reads'[e]).stage = "header", Head(reads'[e]).result # "ok",
           m_MessagesIn'[e] = Append(m_MessagesIn[e], m_WipInMessage[e]),
           m_ReceivedPacketCount'[e] = m_ReceivedPacketCount[e] + 1
    PROVE  ReaderStep(e)
<1> DEFINE s == sent[Peer(e)]
           r == m_ReceivedPacketCount[e]
           in == m_MessagesIn[e]
<1>1. /\ Reading(e) /\ Len(in) = r /\ r \in Nat
      /\ Arrived(s, m_MessagesIn'[e])
      /\ NextToRead(e) = Pos("header", r + 2)
    BY WholeRead
<1>2. Len(m_MessagesIn'[e]) = m_ReceivedPacketCount'[e]
    BY <1>1, PartRead
<1>3. ~HeaderIn(reads'[e]) /\ ~BodyIn(reads'[e])
    BY DEF HeaderIn, BodyIn
<1>4. NextOf(reads'[e], r + 1, s) = Pos("header", (r + 1) + 1)
    BY DEF NextOf, Completed
<1>5. NextToRead(e).nr = r + 2
    BY <1>1 DEF Pos
<1> QED
    BY <1>1, <1>2, <1>3, <1>4, <1>5 DEF ReaderStep, Wanted

\* A packet that is counted and not queued.
LEMMA ReaderDrops ==
    ASSUME TypeOK, NEW e \in Sides, ReaderInv(e), Completed(reads[e], "ok"),
           Head(reads[e]).stage = "header" => ~m_WipInMessage[e].size,
           Begun(e)', reads'[e] = << >>, m_MessagesIn'[e] = m_MessagesIn[e],
           m_ReceivedPacketCount'[e] = m_ReceivedPacketCount[e] + 1
    PROVE  ReaderStep(e)
<1> DEFINE r == m_ReceivedPacketCount[e]
<1>1. Reading(e) /\ r \in Nat /\ NextToRead(e) = Pos("header", r + 2)
    BY WholeRead
<1>2. m_ReceivedPacketCount'[e] + 1 <= NextToRead(e).nr
    BY <1>1 DEF Pos
<1> QED
    BY <1>1, <1>2, ReaderStops

\* The header has been read and announces a body: ReadBody().
LEMMA ReaderReadsBody ==
    ASSUME TypeOK, NEW e \in Sides, ReaderInv(e), Completed(reads[e], "ok"),
           Head(reads[e]).stage = "header", m_WipInMessage[e].size,
           reads'[e] # << >>, Head(reads'[e]).stage = "body", Head(reads'[e]).result # "ok",
           m_WipInMessage'[e] = m_WipInMessage[e],
           m_MessagesIn'[e] = m_MessagesIn[e], m_ReceivedPacketCount'[e] = m_ReceivedPacketCount[e]
    PROVE  ReaderStep(e)
<1> DEFINE s == sent[Peer(e)]
           r == m_ReceivedPacketCount[e]
<1>1. HeaderIn(reads[e]) /\ HeaderIn(reads'[e]) /\ ~BodyIn(reads'[e])
    BY DEF HeaderIn, BodyIn, Completed
<1>2. HasBody(s[r + 1])
    BY <1>1 DEF ReaderInv, Wanted
<1>3. NextToRead(e) = Pos("body", r + 1)
    BY <1>2 DEF NextToRead, NextOf, After, Pos, Completed
<1>4. NextOf(reads'[e], r, s) = Pos("body", r + 1)
    BY DEF NextOf, Completed
<1>5. Wanted(s, reads'[e], m_WipInMessage'[e], r)
    BY <1>1 DEF ReaderInv, Wanted
<1>6. Reading(e)
    BY DEF Reading, Completed
<1> QED
    BY <1>3, <1>4, <1>5, <1>6 DEF ReaderStep, ReaderInv

------------------------------------------------------------------------------
(* The actions, as steps of the ends.  Each touches one end of a direction. *)

\* Connections begin and go down, and do not come back.
LinkStep ==
    /\ \A e \in Sides : (Fresh(e)' => Fresh(e)) /\ (Begun(e) => Begun(e)')
    /\ link' = "up" => link = "up"
    /\ link' = "none" => link = "none"

Step ==
    /\ \A e \in Sides : WriterStep(e) /\ ReaderStep(e)
    /\ wire' = wire
    /\ link' = "up" => link = "up"
    /\ link' = "none" => link = "none"

EndInv(e) == WriterInv(e) /\ ReaderInv(e)

\* What both ends start from.
Ready == CInv /\ \A e \in Sides : EndInv(e)

LEMMA LinkSame ==
    ASSUME UNCHANGED linkVars
    PROVE  LinkStep
BY DEF LinkStep, Fresh, Begun, linkVars

LEMMA LinkTerminates ==
    ASSUME NEW e \in Sides, Terminate(e)
    PROVE  LinkStep /\ link' # "up"
BY DEF LinkStep, Fresh, Begun, Terminate, Broken

LEMMA LinkCloses ==
    ASSUME TypeOK, NEW e \in Sides, NEW ws, NEW rs, Close(e, ws, rs), ~Fresh(e)
    PROVE  LinkStep /\ link' # "up"
BY DEF LinkStep, Fresh, Begun, Close, Broken, TypeOK, Sides

\* The writing half and the reading half of a side, untouched.
WritesOn(e) ==
    /\ sent'[e] = sent[e] /\ posted'[e] = posted[e] /\ m_MessagesOut'[e] = m_MessagesOut[e]
    /\ writes'[e] = writes[e] /\ m_SentPacketCount'[e] = m_SentPacketCount[e]
ReadsOn(e) ==
    /\ reads'[e] = reads[e] /\ m_WipInMessage'[e] = m_WipInMessage[e]
    /\ m_MessagesIn'[e] = m_MessagesIn[e] /\ m_ReceivedPacketCount'[e] = m_ReceivedPacketCount[e]

LEMMA WritesOnStep ==
    ASSUME Ready, LinkStep, NEW e \in Sides, WritesOn(e)
    PROVE  WriterStep(e)
BY WriterSame DEF Ready, CInv, EndInv, LinkStep, WritesOn

LEMMA ReadsOnStep ==
    ASSUME Ready, LinkStep, NEW e \in Sides, ReadsOn(e)
    PROVE  ReaderStep(e)
BY ReaderSame DEF Ready, CInv, EndInv, LinkStep, ReadsOn

\* A step of the writing half of e.
LEMMA WriterMoves ==
    ASSUME Ready, LinkStep, NEW e \in Sides, WriterStep(e), ReadsOn(e), wire' = wire,
           WritesOn(Peer(e)), ReadsOn(Peer(e))
    PROVE  Step
BY Peers, WritesOnStep, ReadsOnStep DEF Step, LinkStep

\* A step of the reading half of e, or of both its halves.
LEMMA ReaderMoves ==
    ASSUME Ready, LinkStep, NEW e \in Sides, ReaderStep(e), WriterStep(e), wire' = wire,
           WritesOn(Peer(e)), ReadsOn(Peer(e))
    PROVE  Step
BY Peers, WritesOnStep, ReadsOnStep DEF Step, LinkStep

LEMMA StepKeeps ==
    ASSUME TypeOK, TypeOK', \A e \in Sides : DirInv(e), Step
    PROVE  \A e \in Sides : DirInv(e)'
<1> SUFFICES ASSUME NEW e \in Sides PROVE DirInv(e)'
    OBVIOUS
<1> QED
    BY Peers, Direction DEF Step

\* The front of m_MessagesOut begins to be written, or the process ends.
LEMMA HeaderStarts ==
    ASSUME TypeOK, NEW e \in Sides, NEW out, WriteHeader(e, out, << >>)
    PROVE  /\ BodyHasBody(writes'[e])
           /\ \A k, s : NextOf(writes'[e], k, s) = Pos("header", k + 1)
           /\ writes'[Peer(e)] = writes[Peer(e)]
           /\ LinkStep
<1> DEFINE one == Append(<< >>, WriteOp(e, "header", Head(out)))
<1>1. CASE writes' = [writes EXCEPT ![e] = one] /\ UNCHANGED linkVars
    <2>1. one # << >> /\ Head(one) = WriteOp(e, "header", Head(out))
        BY OneOp
    <2>2. Head(one).stage = "header" /\ Head(one).result # "ok"
        BY <2>1 DEF WriteOp, Outcome
    <2> HIDE DEF one
    <2>3. writes'[e] = one /\ writes'[Peer(e)] = writes[Peer(e)]
        BY <1>1, Peers DEF TypeOK
    <2> QED
        BY <1>1, <2>1, <2>2, <2>3, LinkSame DEF BodyHasBody, NextOf, Completed
<1>2. CASE writes' = [writes EXCEPT ![e] = << >>] /\ Terminate(e)
    <2>1. writes'[e] = << >> /\ writes'[Peer(e)] = writes[Peer(e)]
        BY <1>2, Peers DEF TypeOK
    <2> QED
        BY <1>2, <2>1, LinkTerminates DEF BodyHasBody, NextOf, Completed
<1> QED
    BY <1>1, <1>2 DEF WriteHeader

LEMMA SRunSend ==
    ASSUME Ready, NEW e \in Sides, RunSend(e)
    PROVE  Step
<1> DEFINE q == posted[e]
           out == m_MessagesOut[e]
           k == m_SentPacketCount[e]
<1>1. /\ q # << >> /\ Head(q) # CloseLambda
      /\ posted' = [posted EXCEPT ![e] = Tail(@)]
      /\ m_MessagesOut' = [m_MessagesOut EXCEPT ![e] = Append(@, Head(q))]
      /\ UNCHANGED <<wire, m_SentPacketCount, inVars, aliveVars, sent>>
    BY DEF RunSend
<1>2. TypeOK /\ WritesTheFront /\ WriterInv(e) /\ ~Fresh(e)
    BY <1>1 DEF Ready, CInv, EndInv, FreshInv
<1>3. posted'[e] = Tail(q) /\ m_MessagesOut'[e] = Append(out, Head(q))
    BY <1>1, <1>2 DEF TypeOK
<1>4. Queued(sent[e], posted'[e], m_MessagesOut'[e], k)
    BY <1>1, <1>2, <1>3, EndTypes, QueuedRun DEF WriterInv
<1>5. ReadsOn(e) /\ ReadsOn(Peer(e))
    BY <1>1 DEF ReadsOn, inVars
<1>6. /\ sent'[Peer(e)] = sent[Peer(e)] /\ posted'[Peer(e)] = posted[Peer(e)]
      /\ m_MessagesOut'[Peer(e)] = m_MessagesOut[Peer(e)]
      /\ m_SentPacketCount'[Peer(e)] = m_SentPacketCount[Peer(e)]
    BY <1>1, <1>2, Peers DEF TypeOK
<1>7. CASE out = << >>
    <2>1. writes[e] = << >>
        BY <1>2, <1>7, NothingCompleted
    <2>2. WriteHeader(e, m_MessagesOut'[e], << >>)
        BY <1>7, <2>1 DEF RunSend
    <2>3. /\ BodyHasBody(writes'[e])
          /\ NextOf(writes'[e], k, sent[e]) = Pos("header", k + 1)
          /\ writes'[Peer(e)] = writes[Peer(e)]
          /\ LinkStep
        BY <1>2, <2>2, HeaderStarts
    <2>4. NextToWrite(e) = Pos("header", k + 1)
        BY <2>1 DEF NextToWrite, NextOf, Completed
    <2>5. ~Fresh(e)'
        BY <1>2, <2>3 DEF LinkStep
    <2>6. WriterStep(e)
        BY <1>1, <1>2, <1>4, <2>3, <2>4, <2>5, WriterGoesOn
    <2> QED
        BY <1>1, <1>5, <1>6, <2>3, <2>6, WriterMoves DEF WritesOn
<1>8. CASE out # << >>
    <2>1. UNCHANGED <<writes, linkVars>>
        BY <1>8 DEF RunSend
    <2>2. LinkStep
        BY <2>1, LinkSame
    <2>3. Alike(writes'[e], writes[e]) /\ Head(writes'[e]).packet = Head(writes[e]).packet
        BY <2>1 DEF Alike
    <2>4. WriterStep(e)
        BY <1>1, <1>2, <1>4, <2>2, <2>3, WriterKeeps DEF LinkStep
    <2> QED
        BY <1>1, <1>5, <1>6, <2>1, <2>2, <2>4, WriterMoves DEF WritesOn
<1> QED
    BY <1>7, <1>8

LEMMA SOnHeaderWritten ==
    ASSUME Ready, NEW e \in Sides, OnHeaderWritten(e)
    PROVE  Step
<1> DEFINE p == Head(m_MessagesOut[e])
           k == m_SentPacketCount[e]
           one == Append(<< >>, WriteOp(e, "body", p))
<1>1. /\ writes[e] # << >> /\ Head(writes[e]).stage = "header" /\ Head(writes[e]).result = "ok"
      /\ HasBody(p)
      /\ writes' = [writes EXCEPT ![e] = Append(Tail(@), WriteOp(e, "body", p))]
      /\ UNCHANGED <<linkVars, wire, m_MessagesOut, m_SentPacketCount, inVars, aliveVars, appVars>>
    BY DEF OnHeaderWritten, Completed
<1>2. TypeOK /\ WritesTheFront /\ WriterInv(e) /\ ~Fresh(e) /\ Len(writes[e]) <= 1
    BY <1>1 DEF Ready, CInv, EndInv, FreshInv, OneOperation
<1>3. Tail(writes[e]) = << >>
    BY <1>1, <1>2, EndTypes, TailOfOne
<1>4. writes' = [writes EXCEPT ![e] = one]
    BY <1>1, <1>2, <1>3 DEF TypeOK
<1>5. one # << >> /\ Head(one) = WriteOp(e, "body", p)
    BY OneOp
<1>6. Head(one).stage = "body" /\ Head(one).result # "ok" /\ Head(one).packet = p
    BY <1>5 DEF WriteOp, Outcome
<1>7. p = sent[e][k + 1]
    BY <1>1, <1>2, NothingCompleted
<1> HIDE DEF one
<1>8. writes'[e] = one /\ writes'[Peer(e)] = writes[Peer(e)]
    BY <1>2, <1>4, Peers DEF TypeOK
<1>9. NextToWrite(e) = Pos("body", k + 1)
    BY <1>1, <1>7 DEF NextToWrite, NextOf, After, Pos, Completed
<1>10. NextOf(writes'[e], k, sent[e]) = Pos("body", k + 1)
    BY <1>5, <1>6, <1>8 DEF NextOf, Completed
<1>11. BodyHasBody(writes'[e])
    BY <1>1, <1>6, <1>8 DEF BodyHasBody
<1>12. LinkStep
    BY <1>1, LinkSame
<1>13. Queued(sent[e], posted'[e], m_MessagesOut'[e], k) /\ sent'[e] = sent[e] /\ m_SentPacketCount'[e] = k
    BY <1>1, <1>2 DEF WriterInv, appVars
<1>14. WriterStep(e)
    BY <1>2, <1>9, <1>10, <1>11, <1>12, <1>13, WriterGoesOn DEF LinkStep
<1>15. WritesOn(Peer(e)) /\ ReadsOn(e) /\ ReadsOn(Peer(e)) /\ wire' = wire
    BY <1>1, <1>8 DEF WritesOn, ReadsOn, inVars, appVars
<1> QED
    BY <1>12, <1>14, <1>15, WriterMoves

LEMMA SOnMessageWritten ==
    ASSUME Ready, NEW e \in Sides, OnMessageWritten(e)
    PROVE  Step
<1> DEFINE p == Head(m_MessagesOut[e])
           k == m_SentPacketCount[e]
<1>1. /\ writes[e] # << >> /\ Head(writes[e]).result = "ok"
      /\ Head(writes[e]).stage = "header" => ~HasBody(p)
      /\ m_MessagesOut' = [m_MessagesOut EXCEPT ![e] = Tail(@)]
      /\ m_SentPacketCount' = [m_SentPacketCount EXCEPT ![e] = @ + 1]
      /\ UNCHANGED <<wire, inVars, aliveVars, appVars>>
    BY DEF OnMessageWritten, Completed
<1>2. TypeOK /\ WritesTheFront /\ WriterInv(e) /\ ~Fresh(e) /\ Len(writes[e]) <= 1
    BY <1>1 DEF Ready, CInv, EndInv, FreshInv, OneOperation
<1>3. Tail(writes[e]) = << >> /\ Head(writes[e]).stage \in Stages /\ k \in Nat
    BY <1>1, <1>2, EndTypes, TailOfOne, OpStage
<1>4. /\ m_MessagesOut'[e] = Tail(m_MessagesOut[e]) /\ m_SentPacketCount'[e] = k + 1
      /\ sent'[e] = sent[e] /\ posted'[e] = posted[e]
    BY <1>1, <1>2 DEF TypeOK, appVars
<1>5. p = sent[e][k + 1] /\ m_MessagesOut[e] # << >>
    BY <1>1, <1>2, NothingCompleted
<1>6. Queued(sent[e], posted'[e], m_MessagesOut'[e], k + 1)
    BY <1>2, <1>4, <1>5, EndTypes, QueuedWritten DEF WriterInv
<1>7. NextToWrite(e) = Pos("header", (k + 1) + 1)
    BY <1>1, <1>3, <1>5 DEF NextToWrite, NextOf, After, Pos, Completed, Stages
<1>8. /\ BodyHasBody(writes'[e])
      /\ NextOf(writes'[e], k + 1, sent[e]) = Pos("header", (k + 1) + 1)
      /\ writes'[Peer(e)] = writes[Peer(e)]
      /\ LinkStep
    <2>1. CASE m_MessagesOut'[e] # << >>
        <3>1. WriteHeader(e, m_MessagesOut'[e], << >>)
            BY <1>3, <2>1 DEF OnMessageWritten
        <3> QED
            BY <1>2, <3>1, HeaderStarts
    <2>2. CASE m_MessagesOut'[e] = << >>
        <3>1. writes' = [writes EXCEPT ![e] = << >>] /\ UNCHANGED linkVars
            BY <1>2, <1>3, <2>2 DEF OnMessageWritten, TypeOK
        <3>2. writes'[e] = << >> /\ writes'[Peer(e)] = writes[Peer(e)]
            BY <1>2, <3>1, Peers DEF TypeOK
        <3> QED
            BY <3>1, <3>2, LinkSame DEF BodyHasBody, NextOf, Completed
    <2> QED
        BY <2>1, <2>2
<1>9. WriterStep(e)
    BY <1>2, <1>4, <1>6, <1>7, <1>8, WriterGoesOn DEF LinkStep
<1>10. WritesOn(Peer(e)) /\ ReadsOn(e) /\ ReadsOn(Peer(e)) /\ wire' = wire
    BY <1>1, <1>2, <1>8, Peers DEF WritesOn, ReadsOn, inVars, appVars, TypeOK
<1> QED
    BY <1>8, <1>9, <1>10, WriterMoves

\* Only an end that has begun reads.
LEMMA HasBegun ==
    ASSUME CInv, NEW e \in Sides, reads[e] # << >>
    PROVE  Begun(e) /\ ~Fresh(e)
BY DEF CInv, FreshInv, Fresh, Begun, TypeOK, Sides

LEMMA Closes ==
    ASSUME TypeOK, NEW e \in Sides, NEW ws, NEW rs, Close(e, ws, rs)
    PROVE  /\ writes'[e] = Cancelled(ws) /\ writes'[Peer(e)] = writes[Peer(e)]
           /\ reads'[e] = Cancelled(rs) /\ reads'[Peer(e)] = reads[Peer(e)]
<1>1. DOMAIN writes = Sides /\ DOMAIN reads = Sides
    BY DEF TypeOK
<1>2. /\ writes' = [writes EXCEPT ![e] = Cancelled(ws)]
      /\ reads' = [reads EXCEPT ![e] = Cancelled(rs)]
    BY DEF Close
<1> QED
    BY <1>1, <1>2, Peers

LEMMA NoneCancelled == Cancelled(<< >>) = << >>
BY NoOps, CancelledHead

LEMMA SRunDisconnect ==
    ASSUME Ready, NEW e \in Sides, RunDisconnect(e)
    PROVE  Step
<1>1. /\ posted[e] # << >> /\ Head(posted[e]) = CloseLambda
      /\ posted' = [posted EXCEPT ![e] = Tail(@)]
      /\ Close(e, writes[e], reads[e])
      /\ UNCHANGED <<wire, m_MessagesOut, m_SentPacketCount, aliveVars, sent>>
      /\ UNCHANGED <<m_WipInMessage, m_MessagesIn, m_ReceivedPacketCount>>
    BY DEF RunDisconnect
<1>2. TypeOK /\ WritesTheFront /\ WriterInv(e) /\ ReaderInv(e) /\ ~Fresh(e)
    BY <1>1 DEF Ready, CInv, EndInv, FreshInv
<1>3. /\ writes'[e] = Cancelled(writes[e]) /\ writes'[Peer(e)] = writes[Peer(e)]
      /\ reads'[e] = Cancelled(reads[e]) /\ reads'[Peer(e)] = reads[Peer(e)]
    BY <1>1, <1>2, Closes
<1>4. LinkStep
    BY <1>1, <1>2, LinkCloses
<1>5. posted'[e] = Tail(posted[e]) /\ posted'[Peer(e)] = posted[Peer(e)]
    BY <1>1, <1>2, Peers DEF TypeOK
<1>6. Queued(sent'[e], posted'[e], m_MessagesOut'[e], m_SentPacketCount[e])
    BY <1>1, <1>2, <1>5, EndTypes, QueuedClosed DEF WriterInv
<1>7. Alike(writes'[e], writes[e]) /\ (writes[e] # << >> => Head(writes'[e]).packet = Head(writes[e]).packet)
    BY <1>2, <1>3, EndTypes, CancelledHead DEF Alike
<1>8. WriterStep(e)
    BY <1>1, <1>2, <1>4, <1>6, <1>7, WriterKeeps DEF LinkStep
<1>9. ReaderStep(e)
    BY <1>1, <1>2, <1>3, <1>4, ReaderSame DEF LinkStep
<1>10. WritesOn(Peer(e)) /\ ReadsOn(Peer(e)) /\ wire' = wire
    BY <1>1, <1>3, <1>5 DEF WritesOn, ReadsOn
<1> QED
    BY <1>4, <1>8, <1>9, <1>10, ReaderMoves

LEMMA SOnWriteFailed ==
    ASSUME Ready, NEW e \in Sides, OnWriteFailed(e)
    PROVE  Step
<1>1. /\ writes[e] # << >> /\ Head(writes[e]).result = "error"
      /\ Close(e, Tail(writes[e]), reads[e])
      /\ UNCHANGED <<wire, m_MessagesOut, m_SentPacketCount, aliveVars, appVars>>
      /\ UNCHANGED <<m_WipInMessage, m_MessagesIn, m_ReceivedPacketCount>>
    BY DEF OnWriteFailed, Completed
<1>2. TypeOK /\ WritesTheFront /\ WriterInv(e) /\ ReaderInv(e) /\ ~Fresh(e) /\ Len(writes[e]) <= 1
    BY <1>1 DEF Ready, CInv, EndInv, FreshInv, OneOperation
<1>3. Tail(writes[e]) = << >>
    BY <1>1, <1>2, EndTypes, TailOfOne
<1>4. /\ writes'[e] = << >> /\ writes'[Peer(e)] = writes[Peer(e)]
      /\ reads'[e] = Cancelled(reads[e]) /\ reads'[Peer(e)] = reads[Peer(e)]
    BY <1>1, <1>2, <1>3, Closes, NoneCancelled
<1>5. LinkStep /\ link' # "up"
    BY <1>1, <1>2, LinkCloses
<1>6. WriterStep(e)
    <2>1. sent'[e] = sent[e] /\ posted'[e] = posted[e] /\ ~Fresh(e)'
        BY <1>1, <1>2, <1>5 DEF LinkStep, appVars
    <2> QED
        BY <1>1, <1>2, <1>4, <1>5, <2>1, WriterGetsNowhere
<1>7. ReaderStep(e)
    BY <1>1, <1>2, <1>4, <1>5, ReaderSame DEF LinkStep
<1>8. WritesOn(Peer(e)) /\ ReadsOn(Peer(e)) /\ wire' = wire
    BY <1>1, <1>4 DEF WritesOn, ReadsOn, appVars
<1> QED
    BY <1>5, <1>6, <1>7, <1>8, ReaderMoves

LEMMA SOnReadFailed ==
    ASSUME Ready, NEW e \in Sides, OnReadFailed(e)
    PROVE  Step
<1>1. /\ reads[e] # << >>
      /\ Close(e, writes[e], Tail(reads[e]))
      /\ UNCHANGED <<wire, m_MessagesOut, m_SentPacketCount, aliveVars, appVars>>
      /\ UNCHANGED <<m_WipInMessage, m_MessagesIn, m_ReceivedPacketCount>>
    BY DEF OnReadFailed, Completed
<1>2. TypeOK /\ WritesTheFront /\ WriterInv(e) /\ ReaderInv(e) /\ Len(reads[e]) <= 1 /\ CInv
    BY <1>1 DEF Ready, CInv, EndInv, OneOperation
<1>3. Tail(reads[e]) = << >> /\ Begun(e) /\ ~Fresh(e)
    BY <1>1, <1>2, EndTypes, TailOfOne, HasBegun
<1>4. /\ writes'[e] = Cancelled(writes[e]) /\ writes'[Peer(e)] = writes[Peer(e)]
      /\ reads'[e] = << >> /\ reads'[Peer(e)] = reads[Peer(e)]
    BY <1>1, <1>2, <1>3, Closes, NoneCancelled
<1>5. LinkStep
    BY <1>1, <1>2, <1>3, LinkCloses
<1>6. WriterStep(e)
    BY <1>1, <1>2, <1>4, <1>5, WriterSame DEF LinkStep, appVars
<1>7. ReaderStep(e)
    BY <1>1, <1>2, <1>3, <1>4, <1>5, ReaderStops DEF LinkStep
<1>8. WritesOn(Peer(e)) /\ ReadsOn(Peer(e)) /\ wire' = wire
    BY <1>1, <1>4 DEF WritesOn, ReadsOn, appVars
<1> QED
    BY <1>5, <1>6, <1>7, <1>8, ReaderMoves

LEMMA FirstRead ==
    ASSUME NEW e, NEW stage
    PROVE  LET rs == Append(<< >>, ReadOp(e, stage))
           IN  rs # << >> /\ Head(rs).stage = stage /\ Head(rs).result # "ok"
<1>1. Append(<< >>, ReadOp(e, stage)) # << >> /\ Head(Append(<< >>, ReadOp(e, stage))) = ReadOp(e, stage)
    BY OneOp
<1> QED
    BY <1>1 DEF ReadOp, Outcome

LEMMA SOnHeaderRead ==
    ASSUME Ready, NEW e \in Sides, OnHeaderRead(e)
    PROVE  Step
<1> DEFINE rs == Append(<< >>, ReadOp(e, "body"))
<1>1. /\ Completed(reads[e], "ok") /\ Head(reads[e]).stage = "header" /\ m_WipInMessage[e].size
      /\ reads' = [reads EXCEPT ![e] = Append(Tail(@), ReadOp(e, "body"))]
      /\ UNCHANGED <<linkVars, wire, outVars, aliveVars, appVars>>
      /\ UNCHANGED <<m_WipInMessage, m_MessagesIn, m_ReceivedPacketCount>>
    BY DEF OnHeaderRead
<1>2. TypeOK /\ ReaderInv(e) /\ Len(reads[e]) <= 1 /\ reads[e] # << >>
    BY <1>1 DEF Ready, CInv, EndInv, OneOperation, Completed
<1>3. Tail(reads[e]) = << >>
    BY <1>2, EndTypes, TailOfOne
<1>4. reads'[e] = rs /\ reads'[Peer(e)] = reads[Peer(e)]
    <2>1. DOMAIN reads = Sides
        BY <1>2 DEF TypeOK
    <2>2. reads' = [reads EXCEPT ![e] = Append(Tail(reads[e]), ReadOp(e, "body"))]
        BY <1>1
    <2>3. reads'[e] = Append(Tail(reads[e]), ReadOp(e, "body"))
        BY <2>1, <2>2
    <2>4. reads'[Peer(e)] = reads[Peer(e)]
        BY <2>1, <2>2, Peers
    <2> QED
        BY <1>3, <2>3, <2>4, Zenon
<1>5. rs # << >> /\ Head(rs).stage = "body" /\ Head(rs).result # "ok"
    BY FirstRead
<1> HIDE DEF rs
<1>6. LinkStep
    BY <1>1, LinkSame
<1>7. ReaderStep(e)
    BY <1>1, <1>2, <1>4, <1>5, ReaderReadsBody
<1>8. WritesOn(e) /\ WritesOn(Peer(e)) /\ ReadsOn(Peer(e)) /\ wire' = wire
    BY <1>1, <1>4 DEF WritesOn, ReadsOn, outVars, appVars
<1>9. WriterStep(e)
    BY <1>6, <1>8, WritesOnStep
<1> QED
    BY <1>6, <1>7, <1>8, <1>9, ReaderMoves

\* AddToIncomingMessageQueue(), whatever the meaning of the packet.
LEMMA SPush ==
    ASSUME Ready, NEW e \in Sides, MessageRead(e), PushAndReadNext(e), WriterStep(e),
           sent'[Peer(e)] = sent[Peer(e)], posted'[Peer(e)] = posted[Peer(e)]
    PROVE  Step
<1> DEFINE rs == Append(<< >>, ReadOp(e, "header"))
<1>1. /\ Completed(reads[e], "ok") /\ (Head(reads[e]).stage = "header" => ~m_WipInMessage[e].size)
      /\ m_ReceivedPacketCount' = [m_ReceivedPacketCount EXCEPT ![e] = @ + 1]
      /\ UNCHANGED <<wire, outVars, m_WipInMessage, linkVars>>
      /\ m_MessagesIn' = [m_MessagesIn EXCEPT ![e] = Append(@, m_WipInMessage[e])]
      /\ reads' = [reads EXCEPT ![e] = Append(Tail(@), ReadOp(e, "header"))]
    BY DEF MessageRead, PushAndReadNext
<1>2. TypeOK /\ ReaderInv(e) /\ Len(reads[e]) <= 1 /\ reads[e] # << >>
    BY <1>1 DEF Ready, CInv, EndInv, OneOperation, Completed
<1>3. Tail(reads[e]) = << >>
    BY <1>2, EndTypes, TailOfOne
<1>4. reads'[e] = rs /\ reads'[Peer(e)] = reads[Peer(e)]
    <2>1. DOMAIN reads = Sides
        BY <1>2 DEF TypeOK
    <2>2. reads' = [reads EXCEPT ![e] = Append(Tail(reads[e]), ReadOp(e, "header"))]
        BY <1>1
    <2>3. reads'[e] = Append(Tail(reads[e]), ReadOp(e, "header"))
        BY <2>1, <2>2
    <2>4. reads'[Peer(e)] = reads[Peer(e)]
        BY <2>1, <2>2, Peers
    <2> QED
        BY <1>3, <2>3, <2>4, Zenon
<1>5. rs # << >> /\ Head(rs).stage = "header" /\ Head(rs).result # "ok"
    BY FirstRead
<1> HIDE DEF rs
<1>6. /\ m_MessagesIn'[e] = Append(m_MessagesIn[e], m_WipInMessage[e])
      /\ m_MessagesIn'[Peer(e)] = m_MessagesIn[Peer(e)]
      /\ m_ReceivedPacketCount'[e] = m_ReceivedPacketCount[e] + 1
      /\ m_ReceivedPacketCount'[Peer(e)] = m_ReceivedPacketCount[Peer(e)]
    <2>1. m_MessagesIn \in [Sides -> Seq(Incoming)] /\ m_ReceivedPacketCount \in [Sides -> Nat]
        BY <1>2 DEF TypeOK
    <2> QED
        BY <1>1, <2>1, Peers
<1>7. ReaderStep(e)
    BY <1>1, <1>2, <1>4, <1>5, <1>6, ReaderPushes
<1>8. LinkStep
    BY <1>1, LinkSame
<1>9. WritesOn(Peer(e)) /\ ReadsOn(Peer(e)) /\ wire' = wire
    BY <1>1, <1>4, <1>6 DEF WritesOn, ReadsOn, outVars
<1> QED
    BY <1>7, <1>8, <1>9, ReaderMoves

\* A packet that is counted, not queued, and followed by no other read.
LEMMA SDrop ==
    ASSUME Ready, NEW e \in Sides, MessageRead(e), reads' = [reads EXCEPT ![e] = Tail(@)], LinkStep,
           UNCHANGED <<appVars, m_MessagesIn>>
    PROVE  Step
<1>1. /\ Completed(reads[e], "ok") /\ (Head(reads[e]).stage = "header" => ~m_WipInMessage[e].size)
      /\ m_ReceivedPacketCount' = [m_ReceivedPacketCount EXCEPT ![e] = @ + 1]
      /\ UNCHANGED <<wire, outVars, m_WipInMessage>>
    BY DEF MessageRead
<1>2. TypeOK /\ ReaderInv(e) /\ Len(reads[e]) <= 1 /\ reads[e] # << >> /\ CInv
    BY <1>1 DEF Ready, CInv, EndInv, OneOperation, Completed
<1>3. Tail(reads[e]) = << >> /\ Begun(e)'
    BY <1>2, EndTypes, TailOfOne, HasBegun DEF LinkStep
<1>4. reads'[e] = << >> /\ reads'[Peer(e)] = reads[Peer(e)]
    BY <1>2, <1>3, Peers, SMTT(60) DEF TypeOK
<1>5. /\ m_ReceivedPacketCount'[e] = m_ReceivedPacketCount[e] + 1
      /\ m_ReceivedPacketCount'[Peer(e)] = m_ReceivedPacketCount[Peer(e)]
    BY <1>1, <1>2, Peers DEF TypeOK
<1>6. ReaderStep(e)
    BY <1>1, <1>2, <1>3, <1>4, <1>5, ReaderDrops
<1>7. WritesOn(e) /\ WritesOn(Peer(e)) /\ ReadsOn(Peer(e)) /\ wire' = wire
    BY <1>1, <1>4, <1>5 DEF WritesOn, ReadsOn, outVars, appVars
<1>8. WriterStep(e)
    BY <1>7, WritesOnStep
<1> QED
    BY <1>6, <1>7, <1>8, ReaderMoves

\* A Send() that does not throw: the packet is posted, behind the others.
LEMMA WriterSends ==
    ASSUME Ready, LinkStep, NEW e \in Sides, NEW m \in Packets, Post(e, m), UNCHANGED outVars
    PROVE  WriterStep(e) /\ sent'[Peer(e)] = sent[Peer(e)] /\ posted'[Peer(e)] = posted[Peer(e)]
<1>1. TypeOK /\ WritesTheFront /\ WriterInv(e)
    BY DEF Ready, CInv, EndInv
<1>2. /\ posted' = [posted EXCEPT ![e] = Append(@, m)]
      /\ sent' = [sent EXCEPT ![e] = Append(@, m)]
    BY DEF Post
<1>3. posted \in [Sides -> Seq(Packets \cup {CloseLambda})] /\ sent \in [Sides -> Seq(Packets)]
    BY <1>1 DEF TypeOK
<1>4. /\ posted'[e] = Append(posted[e], m) /\ sent'[e] = Append(sent[e], m)
      /\ sent'[Peer(e)] = sent[Peer(e)] /\ posted'[Peer(e)] = posted[Peer(e)]
    BY <1>2, <1>3, Peers
<1>5. Queued(sent'[e], posted'[e], m_MessagesOut'[e], m_SentPacketCount[e])
    BY <1>1, <1>4, EndTypes, QueuedSend DEF WriterInv, outVars
<1>6. Alike(writes'[e], writes[e]) /\ writes'[e] = writes[e]
    BY DEF Alike, outVars
<1>7. WriterStep(e)
    BY <1>1, <1>4, <1>5, <1>6, WriterKeeps DEF LinkStep, outVars
<1> QED
    BY <1>4, <1>7

LEMMA SOnDataRead ==
    ASSUME Ready, NEW e \in Sides, OnDataRead(e) \/ (e = "server" /\ OnPong)
    PROVE  Step
<1>1. MessageRead(e) /\ PushAndReadNext(e) /\ UNCHANGED appVars
    BY DEF OnDataRead, OnPong
<1>2. LinkStep
    BY <1>1, LinkSame DEF PushAndReadNext
<1>3. WritesOn(e)
    BY <1>1 DEF WritesOn, MessageRead, outVars, appVars
<1>4. WriterStep(e)
    BY <1>2, <1>3, WritesOnStep
<1> QED
    BY <1>1, <1>4, SPush DEF appVars

LEMMA SOnPing ==
    ASSUME Ready, OnPing
    PROVE  Step
<1>1. MessageRead("client") /\ "client" \in Sides
    BY DEF OnPing, Sides
<1>2. CASE Post("client", Wip("client")) /\ PushAndReadNext("client")
    <2>1. Wip("client") \in Packets
        <3>1. m_WipInMessage["client"] \in Incoming
            BY <1>1, EndTypes DEF Ready, CInv
        <3> QED
            BY <3>1 DEF OnPing, Wip, Incoming, Packets, Ids
    <2>2. LinkStep /\ UNCHANGED outVars
        BY <1>1, <1>2, LinkSame DEF PushAndReadNext, MessageRead
    <2>3. /\ WriterStep("client") /\ sent'[Peer("client")] = sent[Peer("client")]
          /\ posted'[Peer("client")] = posted[Peer("client")]
        BY <1>1, <1>2, <2>1, <2>2, WriterSends
    <2> QED
        BY <1>1, <1>2, <2>3, SPush
<1>3. CASE /\ reads' = [reads EXCEPT !["client"] = Tail(@)]
           /\ Terminate("client")
           /\ UNCHANGED <<appVars, m_MessagesIn>>
    BY <1>1, <1>3, LinkTerminates, SDrop
<1> QED
    BY <1>2, <1>3 DEF OnPing

LEMMA SOnInit ==
    ASSUME Ready, OnInit
    PROVE  Step
<1>1. /\ MessageRead("server") /\ "server" \in Sides
      /\ reads' = [reads EXCEPT !["server"] = Tail(@)]
      /\ UNCHANGED <<linkVars, m_MessagesIn, aliveVars, appVars>>
    BY DEF OnInit, Sides
<1> QED
    BY <1>1, LinkSame, SDrop

\* An end that starts to read, and sends at most.
LEMMA SStarts ==
    ASSUME Ready, LinkStep, NEW e \in Sides, reads[e] = << >>, ~Begun(e),
           NEW rs, rs # << >>, Head(rs).stage = "header", Head(rs).result # "ok",
           reads' = [reads EXCEPT ![e] = rs], WriterStep(e),
           sent'[Peer(e)] = sent[Peer(e)], posted'[Peer(e)] = posted[Peer(e)],
           UNCHANGED <<wire, outVars, m_WipInMessage, m_MessagesIn, m_ReceivedPacketCount>>
    PROVE  Step
<1>1. TypeOK /\ ReaderInv(e)
    BY DEF Ready, CInv, EndInv
<1>2. reads'[e] = rs /\ reads'[Peer(e)] = reads[Peer(e)]
    BY <1>1, Peers DEF TypeOK
<1>3. ReaderStep(e)
    BY <1>1, <1>2, ReaderStarts
<1>4. WritesOn(Peer(e)) /\ ReadsOn(Peer(e)) /\ wire' = wire
    BY <1>2 DEF WritesOn, ReadsOn, outVars
<1> QED
    BY <1>3, <1>4, ReaderMoves

LEMMA SConnectHandlerEnds ==
    ASSUME Ready, ConnectHandlerEnds
    PROVE  Step
<1> DEFINE rs == Append(<< >>, ReadOp("client", "header"))
<1>1. /\ connect = "sending" /\ connect' = "done" /\ "client" \in Sides
      /\ Post("client", InitPacket) \/ UNCHANGED appVars
      /\ reads' = [reads EXCEPT !["client"] = Append(@, ReadOp("client", "header"))]
      /\ UNCHANGED <<m_Socket, m_IsConnecting, io, link, wire, outVars, aliveVars>>
      /\ UNCHANGED <<m_WipInMessage, m_MessagesIn, m_ReceivedPacketCount>>
    BY DEF ConnectHandlerEnds, Sides
<1>2. reads["client"] = << >> /\ TypeOK
    BY <1>1 DEF Ready, CInv, FreshInv
<1>3. reads' = [reads EXCEPT !["client"] = rs]
    BY <1>1, <1>2 DEF TypeOK
<1>4. rs # << >> /\ Head(rs).stage = "header" /\ Head(rs).result # "ok"
    BY FirstRead
<1> HIDE DEF rs
<1>5. LinkStep /\ ~Begun("client")
    BY <1>1 DEF LinkStep, Fresh, Begun
<1>6. /\ WriterStep("client") /\ sent'[Peer("client")] = sent[Peer("client")]
      /\ posted'[Peer("client")] = posted[Peer("client")]
    <2>1. CASE Post("client", InitPacket)
        <3>1. InitPacket \in Packets
            BY DEF InitPacket, Packets, Ids, AnyBody
        <3> QED
            BY <1>1, <1>5, <2>1, <3>1, WriterSends
    <2>2. CASE UNCHANGED appVars
        BY <1>1, <1>5, <2>2, WritesOnStep DEF WritesOn, outVars, appVars
    <2> QED
        BY <1>1, <2>1, <2>2
<1> QED
    BY <1>1, <1>2, <1>3, <1>4, <1>5, <1>6, SStarts

LEMMA SConnectToClient ==
    ASSUME Ready, ConnectToClient
    PROVE  Step
<1> DEFINE op == [stage |-> "header", result |-> "pending"]
           rs == Append(<< >>, op)
<1>1. /\ link # "none" /\ m_Socket["server"] = "new" /\ "server" \in Sides
      /\ m_Socket' = [m_Socket EXCEPT !["server"] = "open"]
      /\ reads' = [reads EXCEPT !["server"] = Append(@, op)]
      /\ UNCHANGED <<m_IsConnecting, connect, io, link, wire, outVars, aliveVars, appVars>>
      /\ UNCHANGED <<m_WipInMessage, m_MessagesIn, m_ReceivedPacketCount>>
    BY DEF ConnectToClient, Sides
<1>2. TypeOK /\ reads["server"] = << >>
    BY <1>1 DEF Ready, CInv, FreshInv, Fresh
<1>3. reads' = [reads EXCEPT !["server"] = rs]
    BY <1>1, <1>2 DEF TypeOK
<1>4. rs # << >> /\ Head(rs) = op
    BY OneOp
<1>5. Head(rs).stage = "header" /\ Head(rs).result # "ok"
    BY <1>4
<1> HIDE DEF rs
<1>6. LinkStep /\ ~Begun("server")
    BY <1>1, <1>2 DEF LinkStep, Fresh, Begun, TypeOK
<1>7. WriterStep("server")
    BY <1>1, <1>6, WritesOnStep DEF WritesOn, outVars, appVars
<1> QED
    BY <1>1, <1>2, <1>3, <1>4, <1>5, <1>6, <1>7, SStarts DEF appVars

\* Steps that change nothing but the link, or nothing at all.
LEMMA SQuiet ==
    ASSUME Ready, LinkStep, UNCHANGED <<wire, outVars, inVars, appVars>>
    PROVE  Step
<1>1. \A e \in Sides : WritesOn(e) /\ ReadsOn(e)
    BY DEF WritesOn, ReadsOn, outVars, inVars, appVars
<1> QED
    BY <1>1, WritesOnStep, ReadsOnStep DEF Step, LinkStep

LEMMA SLink ==
    ASSUME Ready, \/ ConnectToServer \/ ConnectFails \/ ConnectHandlerBegins \/ IoReturns \/ LinkBreaks
                  \/ UNCHANGED vars
    PROVE  Step
<1>1. UNCHANGED <<wire, outVars, inVars, appVars>>
    BY DEF ConnectToServer, ConnectFails, ConnectHandlerBegins, IoReturns, LinkBreaks, vars
<1>2. LinkStep
    <2>1. TypeOK
        BY DEF Ready, CInv
    <2> QED
        BY <2>1 DEF ConnectToServer, ConnectFails, ConnectHandlerBegins, IoReturns, LinkBreaks, vars, linkVars,
                    LinkStep, Fresh, Begun, TypeOK, Sides
<1> QED
    BY <1>1, <1>2, SQuiet

LEMMA SApplication ==
    ASSUME Ready, NEW e \in Sides, Application(e) \/ (e = "server" /\ \E p \in Payloads : SendKeepAlive(p))
    PROVE  Step
<1>1. CASE Disconnect(e)
    <2>1. /\ CloseLambda \notin Range(posted[e])
          /\ posted' = [posted EXCEPT ![e] = Append(@, CloseLambda)]
          /\ UNCHANGED <<linkVars, wire, outVars, inVars, aliveVars, sent>>
        BY <1>1 DEF Disconnect
    <2>2. TypeOK /\ WritesTheFront /\ WriterInv(e) /\ LinkStep
        BY <2>1, LinkSame DEF Ready, CInv, EndInv
    <2>3. posted'[e] = Append(posted[e], CloseLambda) /\ posted'[Peer(e)] = posted[Peer(e)]
        BY <2>1, <2>2, Peers DEF TypeOK
    <2>4. Queued(sent'[e], posted'[e], m_MessagesOut'[e], m_SentPacketCount[e])
        BY <2>1, <2>2, <2>3, EndTypes, QueuedClose DEF WriterInv, outVars
    <2>5. Alike(writes'[e], writes[e]) /\ writes'[e] = writes[e]
        BY <2>1 DEF Alike, outVars
    <2>6. WriterStep(e)
        BY <2>1, <2>2, <2>4, <2>5, WriterKeeps DEF LinkStep, outVars
    <2>7. WritesOn(Peer(e)) /\ ReadsOn(e) /\ ReadsOn(Peer(e)) /\ wire' = wire
        BY <2>1, <2>3 DEF WritesOn, ReadsOn, outVars, inVars
    <2> QED
        BY <2>2, <2>6, <2>7, WriterMoves
<1>2. ASSUME NEW m \in Packets, Post(e, m), UNCHANGED <<linkVars, wire, outVars, inVars>>
      PROVE  Step
    <2>1. LinkStep
        BY <1>2, LinkSame
    <2>2. WriterStep(e) /\ sent'[Peer(e)] = sent[Peer(e)] /\ posted'[Peer(e)] = posted[Peer(e)]
        BY <1>2, <2>1, WriterSends
    <2>3. WritesOn(Peer(e)) /\ ReadsOn(e) /\ ReadsOn(Peer(e)) /\ wire' = wire
        BY <1>2, <2>2 DEF WritesOn, ReadsOn, outVars, inVars
    <2> QED
        BY <2>1, <2>2, <2>3, WriterMoves
<1>3. \A m \in Data : m \in Packets
    BY DEF Data
<1>4. \A p \in Payloads : [id |-> "KeepAlive", body |-> p] \in Packets
    BY DEF Packets, Ids, AnyBody
<1> QED
    BY <1>1, <1>2, <1>3, <1>4 DEF Application, Send, SendKeepAlive

LEMMA SWriteFails ==
    ASSUME Ready, NEW e \in Sides, WriteFails(e) \/ (WriteSucceeds(e) /\ link # "up")
    PROVE  Step
<1> DEFINE ops == writes[e]
<1>1. PICK result \in {"ok", "error"} :
          /\ Writes(e, result) /\ UNCHANGED wire
          /\ result = "ok" => link # "up"
    BY DEF WriteFails, WriteSucceeds
<1>2. /\ ops # << >> /\ Head(ops).result = "pending"
      /\ writes' = [writes EXCEPT ![e] = Complete(@, result)]
      /\ UNCHANGED <<linkVars, m_MessagesOut, m_SentPacketCount, inVars, aliveVars, appVars>>
    BY <1>1 DEF Writes, Pending
<1>3. TypeOK /\ WritesTheFront /\ WriterInv(e) /\ ~Fresh(e) /\ LinkStep /\ link' = link
    BY <1>2, LinkSame DEF Ready, CInv, EndInv, FreshInv, linkVars
<1>4. writes'[e] = Complete(ops, result) /\ writes'[Peer(e)] = writes[Peer(e)]
    BY <1>2, <1>3, Peers DEF TypeOK
<1>5. /\ writes'[e] # << >> /\ Head(writes'[e]).stage = Head(ops).stage
      /\ Head(writes'[e]).packet = Head(ops).packet /\ Head(writes'[e]).result = result
    BY <1>2, <1>3, <1>4, EndTypes, CompleteHead
<1>6. /\ sent'[e] = sent[e] /\ posted'[e] = posted[e] /\ m_MessagesOut'[e] = m_MessagesOut[e]
      /\ m_SentPacketCount'[e] = m_SentPacketCount[e] /\ ~Fresh(e)'
    BY <1>2, <1>3 DEF appVars, LinkStep
<1>7. ASSUME result = "ok" PROVE WriterStep(e)
    BY <1>1, <1>2, <1>3, <1>4, <1>6, <1>7, WriterGetsNowhere
<1>8. ASSUME result = "error" PROVE WriterStep(e)
    <2>1. Alike(writes'[e], writes[e])
        BY <1>2, <1>5, <1>8 DEF Alike
    <2>2. Queued(sent'[e], posted'[e], m_MessagesOut'[e], m_SentPacketCount[e])
        BY <1>3, <1>6 DEF WriterInv
    <2> QED
        BY <1>3, <1>5, <1>6, <2>1, <2>2, WriterKeeps
<1>9. WritesOn(Peer(e)) /\ ReadsOn(e) /\ ReadsOn(Peer(e)) /\ wire' = wire
    BY <1>1, <1>2, <1>4 DEF WritesOn, ReadsOn, inVars, appVars
<1> QED
    BY <1>1, <1>3, <1>7, <1>8, <1>9, WriterMoves

LEMMA SReadFails ==
    ASSUME Ready, NEW e \in Sides, ReadFails(e)
    PROVE  Step
<1>1. /\ reads[e] # << >> /\ Head(reads[e]).result = "pending"
      /\ reads' = [reads EXCEPT ![e] = Complete(@, "error")]
      /\ UNCHANGED <<linkVars, outVars, m_MessagesIn, m_ReceivedPacketCount, aliveVars, appVars>>
      /\ UNCHANGED <<wire, m_WipInMessage>>
    BY DEF ReadFails, Reads, Pending
<1>2. TypeOK /\ ReaderInv(e) /\ LinkStep
    BY <1>1, LinkSame DEF Ready, CInv, EndInv
<1>3. reads'[e] = Complete(reads[e], "error") /\ reads'[Peer(e)] = reads[Peer(e)]
    BY <1>1, <1>2, Peers DEF TypeOK
<1>4. Alike(reads'[e], reads[e])
    BY <1>1, <1>2, <1>3, EndTypes, CompleteHead DEF Alike
<1>5. ReaderStep(e)
    BY <1>1, <1>2, <1>4, ReaderKeeps DEF LinkStep
<1>6. WritesOn(e) /\ WritesOn(Peer(e)) /\ ReadsOn(Peer(e)) /\ wire' = wire
    BY <1>1, <1>3 DEF WritesOn, ReadsOn, outVars, appVars
<1> QED
    BY <1>2, <1>5, <1>6, WritesOnStep, ReaderMoves

------------------------------------------------------------------------------
(* The steps that put a part on the wire or take one from it.               *)

\* The packets of the connection's other direction are not touched.
LEMMA OtherDirection ==
    ASSUME Ready, TypeOK', NEW e \in Sides, DirInv(e), LinkStep, WritesOn(e), ReadsOn(Peer(e)),
           wire'[e] = wire[e]
    PROVE  DirInv(e)'
BY Peers, WritesOnStep, ReadsOnStep, Direction DEF Ready, CInv, LinkStep

LEMMA DWriteSucceeds ==
    ASSUME Ready, TypeOK', \A e \in Sides : DirInv(e), NEW e \in Sides, WriteSucceeds(e), link = "up"
    PROVE  \A d \in Sides : DirInv(d)'
<1> DEFINE d == Peer(e)
           ops == writes[e]
           k == m_SentPacketCount[e]
           s == sent[e]
           x == [part |-> Head(ops).stage, packet |-> Head(ops).packet]
<1>1. /\ ops # << >> /\ Head(ops).result = "pending"
      /\ writes' = [writes EXCEPT ![e] = Complete(@, "ok")]
      /\ UNCHANGED <<linkVars, m_MessagesOut, m_SentPacketCount, inVars, aliveVars, appVars>>
      /\ wire' = [wire EXCEPT ![e] = Append(@, x)]
    BY DEF WriteSucceeds, Writes, Pending
<1>2. TypeOK /\ WritesTheFront /\ WriterInv(e) /\ LinkStep /\ link' = link /\ d \in Sides /\ Peer(d) = e /\ d # e
    BY <1>1, LinkSame, Peers DEF Ready, CInv, EndInv, linkVars
<1>3. /\ writes'[e] = Complete(ops, "ok") /\ writes'[d] = writes[d]
      /\ wire'[e] = Append(wire[e], x) /\ wire'[d] = wire[d]
    BY <1>1, <1>2 DEF TypeOK
<1>4. /\ writes'[e] # << >> /\ Head(writes'[e]).stage = Head(ops).stage
      /\ Head(writes'[e]).packet = Head(ops).packet /\ Head(writes'[e]).result = "ok"
    BY <1>1, <1>2, <1>3, EndTypes, CompleteHead
<1>5. DirInv(d)'
    <2>1. WritesOn(d) /\ ReadsOn(e)
        BY <1>1, <1>3 DEF WritesOn, ReadsOn, inVars, appVars
    <2> QED
        BY <1>2, <1>3, <2>1, OtherDirection
<1>6. WriterInv(e)'
    BY <1>1, <1>2, <1>4 DEF WriterInv, BodyHasBody, LinkStep, appVars
<1>7. ReaderInv(d)' /\ (Reading(d)' => Reading(d)) /\ NextToRead(d)' = NextToRead(d)
    <2>1. ReaderInv(d)
        BY <1>2 DEF DirInv
    <2> QED
        BY <1>1, <1>2, <2>1 DEF ReaderInv, Reading, Begun, NextToRead, inVars, appVars, linkVars
<1>8. /\ NextToWrite(e) = Pos(Head(ops).stage, k + 1)
      /\ NextToWrite(e)' = After(NextToWrite(e), s)
    BY <1>1, <1>4 DEF NextToWrite, NextOf, Completed, appVars
<1>9. k + 1 <= Len(s) /\ Head(ops).packet = s[k + 1] /\ s \in Seq(Packets) /\ wire[e] \in Seq(Parts)
    BY <1>1, <1>2, NothingCompleted, EndTypes
<1>10. x \in Parts
    <2>1. Head(ops) \in WriteOps
        BY <1>1, <1>2, EndTypes
    <2> QED
        BY <2>1 DEF Parts, WriteOps
<1>11. ASSUME Reading(d)'
       PROVE  (\E n : /\ Carries(wire[e], n, sent[e])
                      /\ n[1] = NextToRead(d)
                      /\ n[Len(wire[e]) + 1].nr <= NextToWrite(e).nr
                      /\ link = "up" => n[Len(wire[e]) + 1] = NextToWrite(e))'
    <2>1. PICK n : /\ Carries(wire[e], n, s)
                   /\ n[1] = NextToRead(d)
                   /\ n[Len(wire[e]) + 1] = NextToWrite(e)
        BY <1>7, <1>11 DEF DirInv, WireInv
    <2>2. n[Len(wire[e]) + 1].part = x.part /\ n[Len(wire[e]) + 1].nr = k + 1
        BY <1>8, <2>1 DEF Pos
    <2> HIDE DEF x
    <2>3. x.packet = s[k + 1]
        BY <1>9 DEF x
    <2>4. PICK m : /\ Carries(Append(wire[e], x), m, s) /\ m[1] = n[1]
                   /\ m[Len(Append(wire[e], x)) + 1] = After(n[Len(wire[e]) + 1], s)
        <3>1. x.packet = s[n[Len(wire[e]) + 1].nr] /\ n[Len(wire[e]) + 1].nr <= Len(s)
            BY <1>9, <2>2, <2>3
        <3> HIDE DEF s
        <3> QED
            BY <1>9, <1>10, <2>1, <2>2, <3>1, CarriesWritten
    <2>5. m[Len(wire'[e]) + 1] = NextToWrite(e)'
        BY <1>3, <1>8, <2>1, <2>4
    <2>6. NextToWrite(e)'.nr \in Nat
        <3>1. NextToWrite(e) \in Positions
            BY <1>1, <1>2, EndTypes, OpStage, NextOfPosition DEF NextToWrite
        <3> QED
            BY <1>8, <3>1, AfterPosition DEF Positions
    <2>7. Carries(wire'[e], m, sent'[e]) /\ m[1] = NextToRead(d)'
        BY <1>1, <1>3, <1>7, <2>1, <2>4 DEF appVars
    <2> QED
        BY <2>5, <2>6, <2>7
<1>12. WireInv(e)'
    BY <1>2, <1>11 DEF WireInv
<1>13. DirInv(e)'
    <2>1. m_ReceivedPacketCount'[d] <= m_SentPacketCount'[e] + 1
        BY <1>1 DEF DirInv, inVars
    <2> QED
        BY <1>6, <1>7, <1>12, <2>1 DEF DirInv
<1> QED
    BY <1>5, <1>13, Peers

LEMMA DReadSucceeds ==
    ASSUME Ready, TypeOK', \A e \in Sides : DirInv(e), NEW d \in Sides, ReadSucceeds(d)
    PROVE  \A e \in Sides : DirInv(e)'
<1> DEFINE e == Peer(d)
           rs == reads[d]
           r == m_ReceivedPacketCount[d]
           s == sent[e]
           w == wire[e]
           p == Head(w).packet
           wip == m_WipInMessage[d]
<1>1. /\ w # << >> /\ rs # << >> /\ Pending(rs)
      /\ reads' = [reads EXCEPT ![d] = Complete(@, "ok")]
      /\ UNCHANGED <<linkVars, outVars, m_MessagesIn, m_ReceivedPacketCount, aliveVars, appVars>>
      /\ wire' = [wire EXCEPT ![e] = Tail(@)]
      /\ m_WipInMessage' = IF Head(rs).stage = "header"
                           THEN [m_WipInMessage EXCEPT ![d].id = p.id, ![d].size = HasBody(p)]
                           ELSE [m_WipInMessage EXCEPT ![d].body = p.body]
    BY DEF ReadSucceeds, Reads, Pending
<1>2. TypeOK /\ ReaderInv(d) /\ LinkStep /\ link' = link /\ e \in Sides /\ Peer(e) = d /\ d # e
    BY <1>1, LinkSame, Peers DEF Ready, CInv, EndInv, linkVars
<1>3. /\ reads'[d] = Complete(rs, "ok") /\ reads'[e] = reads[e]
      /\ wire'[e] = Tail(w) /\ wire'[d] = wire[d]
    BY <1>1, <1>2 DEF TypeOK
<1>4. /\ m_WipInMessage'[e] = m_WipInMessage[e]
      /\ m_WipInMessage'[d] = IF Head(rs).stage = "header" THEN [wip EXCEPT !.id = p.id, !.size = HasBody(p)]
                                                          ELSE [wip EXCEPT !.body = p.body]
    <2>1. m_WipInMessage \in [Sides -> Incoming]
        BY <1>2 DEF TypeOK
    <2> QED
        BY <1>1, <1>2, <2>1
<1>5. DirInv(d)'
    <2>1. WritesOn(d) /\ ReadsOn(e)
        BY <1>1, <1>3, <1>4 DEF WritesOn, ReadsOn, outVars, appVars
    <2> QED
        BY <1>2, <1>3, <2>1, OtherDirection
<1>6. Reading(d) /\ DirInv(e)
    BY <1>1, <1>2 DEF Reading
<1>7. PICK n : /\ Carries(w, n, s)
               /\ n[1] = NextToRead(d)
               /\ n[Len(w) + 1].nr <= NextToWrite(e).nr
               /\ link = "up" => n[Len(w) + 1] = NextToWrite(e)
    BY <1>2, <1>6 DEF DirInv, WireInv
<1>8. /\ s \in Seq(Packets) /\ w \in Seq(Parts) /\ rs \in Seq(ReadOps) /\ wip \in Incoming /\ r \in Nat
      /\ m_WipInMessage'[d] \in Incoming
    BY <1>2, EndTypes DEF TypeOK
<1>9. PICK m : /\ n[1] \in Positions /\ n[1].nr <= Len(s) /\ Head(w).packet = s[n[1].nr]
               /\ Carries(Tail(w), m, s) /\ m[1] = After(n[1], s)
               /\ m[Len(Tail(w)) + 1] = n[Len(w) + 1]
    <2> HIDE DEF s, w
    <2> QED
        BY <1>1, <1>7, <1>8, CarriesRead
<1>10. NextToRead(d).nr = r + 1 /\ p = s[r + 1] /\ r + 1 <= Len(s)
    <2>1. NextToRead(d).nr = r + 1
        BY <1>1, <1>2 DEF NextToRead, NextOf, Completed, Pending, Pos
    <2> QED
        BY <1>7, <1>9, <2>1
<1>11. /\ Wanted(s, reads'[d], m_WipInMessage'[d], r)
       /\ NextOf(reads'[d], r, s) = After(NextToRead(d), s)
    <2>1. Wanted(s, rs, wip, r)
        BY <1>2 DEF ReaderInv
    <2>2. m_WipInMessage'[d] = IF Head(rs).stage = "header" THEN [wip EXCEPT !.id = s[r + 1].id, !.size = HasBody(s[r + 1])]
                                                           ELSE [wip EXCEPT !.body = s[r + 1].body]
        BY <1>4, <1>10
    <2>3. /\ Wanted(s, Complete(rs, "ok"), m_WipInMessage'[d], r)
          /\ NextOf(Complete(rs, "ok"), r, s) = After(NextOf(rs, r, s), s)
        <3> HIDE DEF s, rs, wip, r
        <3> QED
            BY <1>1, <1>8, <1>10, <2>1, <2>2, WantedRead
    <2> QED
        BY <1>2, <1>3, <2>3 DEF NextToRead
<1>12. WriterInv(e)' /\ NextToWrite(e)' = NextToWrite(e)
    <2>1. WriterInv(e) /\ (Fresh(e)' <=> Fresh(e))
        BY <1>1, <1>6 DEF DirInv, Fresh, linkVars
    <2> QED
        BY <1>1, <2>1 DEF WriterInv, NextToWrite, outVars, appVars
<1>13. ReaderInv(d)'
    <2>1. Len(m_MessagesIn[d]) = r /\ Arrived(s, m_MessagesIn[d])
        BY <1>2, <1>6 DEF ReaderInv
    <2> QED
        BY <1>1, <1>2, <1>11, <2>1 DEF ReaderInv, appVars
<1>14. WireInv(e)'
    <2>1. m[1] = NextToRead(d)'
        BY <1>1, <1>2, <1>7, <1>9, <1>11 DEF NextToRead, appVars
    <2>2. Carries(wire'[e], m, sent'[e])
        BY <1>1, <1>3, <1>9 DEF appVars
    <2>3. /\ m[Len(wire'[e]) + 1].nr <= NextToWrite(e)'.nr
          /\ link' = "up" => m[Len(wire'[e]) + 1] = NextToWrite(e)'
        BY <1>2, <1>3, <1>7, <1>9, <1>12
    <2>4. link' # "none"
        BY <1>1, <1>2, <1>6 DEF DirInv, WireInv
    <2> QED
        BY <1>2, <2>1, <2>2, <2>3, <2>4 DEF WireInv
<1>15. DirInv(e)'
    <2>1. m_ReceivedPacketCount'[d] <= m_SentPacketCount'[e] + 1
        BY <1>1, <1>2, <1>6 DEF DirInv, outVars
    <2> QED
        BY <1>2, <1>12, <1>13, <1>14, <2>1 DEF DirInv
<1> QED
    BY <1>2, <1>5, <1>15, Peers

\* From an empty wire on, the reader is at the writer or before it.
LEMMA DirOfEmptyWire ==
    ASSUME TypeOK, NEW e \in Sides, DirInv(e), TypeOK', wire'[e] = << >>,
           UNCHANGED <<outVars, inVars, appVars>>,
           Fresh(e)' => Fresh(e), Begun(Peer(e))' <=> Begun(Peer(e)),
           \/ link' # "up"
           \/ Reading(Peer(e)) => NextToRead(Peer(e)) = NextToWrite(e)
    PROVE  DirInv(e)'
<1> DEFINE d == Peer(e)
<1>1. d \in Sides /\ Peer(d) = e
    BY Peers
<1>2. WriterInv(e)' /\ NextToWrite(e)' = NextToWrite(e)
    BY DEF DirInv, WriterInv, NextToWrite, outVars, appVars
<1>3. ReaderInv(d)' /\ NextToRead(d)' = NextToRead(d) /\ (Reading(d)' => Reading(d))
    <2>1. ReaderInv(d)
        BY DEF DirInv
    <2> QED
        BY <2>1 DEF ReaderInv, NextToRead, Reading, inVars, appVars
<1>4. ASSUME Reading(d)
      PROVE  NextToRead(d) \in Positions /\ NextToRead(d).nr <= NextToWrite(e).nr
    <2>1. PICK n : /\ Carries(wire[e], n, sent[e])
                   /\ n[1] = NextToRead(d)
                   /\ n[Len(wire[e]) + 1].nr <= NextToWrite(e).nr
        BY <1>4 DEF DirInv, WireInv
    <2>2. wire[e] \in Seq(Parts)
        BY EndTypes
    <2>3. n[1] \in Positions /\ n[1].nr <= n[Len(wire[e]) + 1].nr /\ n[Len(wire[e]) + 1] \in Positions
        BY <2>1, <2>2 DEF Carries
    <2>4. NextToWrite(e).nr \in Nat
        <3>1. writes[e] # << >> => Head(writes[e]).stage \in Stages
            BY EndTypes, OpStage
        <3> QED
            BY <3>1, EndTypes, NextOfPosition DEF NextToWrite, Positions
    <2> QED
        BY <2>1, <2>3, <2>4 DEF Positions
<1>5. WireInv(e)'
    <2>1. (link = "none" => wire[e] = << >>)'
        OBVIOUS
    <2>2. ASSUME Reading(d)'
          PROVE  (\E n : /\ Carries(wire[e], n, sent[e])
                         /\ n[1] = NextToRead(d)
                         /\ n[Len(wire[e]) + 1].nr <= NextToWrite(e).nr
                         /\ link = "up" => n[Len(wire[e]) + 1] = NextToWrite(e))'
        <3> DEFINE here == NextToRead(d)
                   n == [i \in 1 .. 1 |-> here]
        <3>1. here \in Positions /\ here.nr <= NextToWrite(e).nr /\ Reading(d)
            BY <1>3, <1>4, <2>2
        <3>2. Carries(<< >>, n, sent'[e])
            <4> HIDE DEF here
            <4> QED
                BY <3>1, CarriesNothing
        <3>3. n[1] = here
            OBVIOUS
        <3> HIDE DEF n
        <3>4. Len(<< >>) + 1 = 1
            OBVIOUS
        <3>5. link' = "up" => here = NextToWrite(e)
            BY <3>1
        <3>6. /\ Carries(wire'[e], n, sent'[e]) /\ n[1] = NextToRead(d)'
              /\ n[Len(wire'[e]) + 1].nr <= NextToWrite(e)'.nr
              /\ link' = "up" => n[Len(wire'[e]) + 1] = NextToWrite(e)'
            BY <1>2, <1>3, <3>1, <3>2, <3>3, <3>4, <3>5
        <3> QED
            BY <3>6
    <2> QED
        BY <1>1, <2>1, <2>2 DEF WireInv
<1>6. m_ReceivedPacketCount'[d] <= m_SentPacketCount'[e] + 1
    BY DEF DirInv, inVars, outVars
<1> QED
    BY <1>1, <1>2, <1>3, <1>5, <1>6 DEF DirInv

LEMMA DWireLost ==
    ASSUME Ready, TypeOK', \A e \in Sides : DirInv(e), NEW e \in Sides, WireLost(e)
    PROVE  \A d \in Sides : DirInv(d)'
<1>1. /\ link = "down" /\ wire' = [wire EXCEPT ![e] = << >>]
      /\ UNCHANGED <<linkVars, outVars, inVars, aliveVars, appVars>>
    BY DEF WireLost
<1>2. TypeOK /\ LinkStep /\ link' = link /\ Peer(e) \in Sides /\ Peer(Peer(e)) = e
    BY <1>1, LinkSame, Peers DEF Ready, CInv, linkVars
<1>3. wire'[e] = << >> /\ wire'[Peer(e)] = wire[Peer(e)]
    BY <1>1, <1>2, Peers DEF TypeOK
<1>4. DirInv(e)'
    <2>1. (Fresh(e)' => Fresh(e)) /\ (Begun(Peer(e))' <=> Begun(Peer(e)))
        BY <1>1 DEF Fresh, Begun, linkVars
    <2> QED
        BY <1>1, <1>2, <1>3, <2>1, DirOfEmptyWire
<1>5. DirInv(Peer(e))'
    <2>1. WritesOn(Peer(e)) /\ ReadsOn(e)
        BY <1>1 DEF WritesOn, ReadsOn, outVars, inVars, appVars
    <2> QED
        BY <1>2, <1>3, <2>1, OtherDirection
<1> QED
    BY <1>4, <1>5, Peers

\* Before the connection is up nothing has been written and nothing read.
LEMMA DConnectSucceeds ==
    ASSUME Ready, TypeOK', \A e \in Sides : DirInv(e), ConnectSucceeds,
           link = "none", m_Socket["server"] = "new"
    PROVE  \A e \in Sides : DirInv(e)'
<1> SUFFICES ASSUME NEW e \in Sides PROVE DirInv(e)'
    OBVIOUS
<1> DEFINE d == Peer(e)
<1>1. /\ connect = "pending" /\ connect' = "ok"
      /\ UNCHANGED <<m_Socket, m_IsConnecting, io, wire, outVars, inVars, aliveVars, appVars>>
    BY DEF ConnectSucceeds
<1>2. TypeOK /\ DirInv(e) /\ d \in Sides /\ Peer(d) = e
    BY Peers DEF Ready, CInv
<1>3. Fresh(e) /\ Fresh(d) /\ (Begun(d)' <=> Begun(d)) /\ (Fresh(e)' => Fresh(e))
    BY <1>1 DEF Fresh, Begun
<1>4. writes[e] = << >> /\ reads[d] = << >>
    BY <1>2, <1>3 DEF Ready, CInv, FreshInv
<1>5. m_SentPacketCount[e] = 0
    BY <1>2, <1>3 DEF DirInv, WriterInv
<1>6. /\ NextToWrite(e) = Pos("header", 0 + 1)
      /\ NextToRead(d) = Pos("header", m_ReceivedPacketCount[d] + 1)
    BY <1>4, <1>5 DEF NextToWrite, NextToRead, NextOf, Completed
<1>7. wire[e] = << >>
    BY <1>2 DEF DirInv, WireInv
<1>8. m_ReceivedPacketCount[d] \in Nat
    BY <1>2, EndTypes
<1>9. Reading(d) => NextToRead(d) = NextToWrite(e)
    <2>1. SUFFICES ASSUME Reading(d) PROVE NextToRead(d) = NextToWrite(e)
        OBVIOUS
    <2>2. PICK n : /\ n[1] = NextToRead(d)
                   /\ n[Len(wire[e]) + 1].nr <= NextToWrite(e).nr
        BY <1>2, <2>1 DEF DirInv, WireInv
    <2>3. Len(wire[e]) + 1 = 1
        BY <1>7
    <2>4. NextToRead(d).nr <= NextToWrite(e).nr
        BY <2>2, <2>3
    <2>5. m_ReceivedPacketCount[d] + 1 <= 0 + 1
        BY <1>6, <2>4 DEF Pos
    <2>6. m_ReceivedPacketCount[d] = 0
        BY <1>8, <2>5
    <2> QED
        BY <1>6, <2>6
<1> QED
    BY <1>1, <1>2, <1>3, <1>7, <1>9, DirOfEmptyWire

------------------------------------------------------------------------------
(* The invariant of both directions. *)

\* Without a connection none has been accepted, and a side that is established reads.
Starts ==
    /\ connect \in {"none", "pending", "error"} => link = "none"
    /\ link = "none" => m_Socket["server"] = "new"
    /\ KeepsReading

FlowInv == (\A e \in Sides : DirInv(e)) /\ Starts

LEMMA FlowReady ==
    ASSUME CInv, \A e \in Sides : DirInv(e)
    PROVE  Ready
BY Peers DEF Ready, EndInv, DirInv

LEMMA DirInit == Init => \A e \in Sides : DirInv(e)
<1> SUFFICES ASSUME Init, NEW e \in Sides PROVE DirInv(e)
    OBVIOUS
<1> DEFINE d == Peer(e)
           none == << >>
<1>1. d \in Sides /\ Peer(d) = e /\ (e = "client" \/ e = "server")
    BY Peers DEF Sides
<1>2. /\ sent[e] = none /\ posted[e] = none /\ m_MessagesOut[e] = none /\ writes[e] = none /\ wire[e] = none
      /\ reads[d] = none /\ m_MessagesIn[d] = none
      /\ m_SentPacketCount[e] = 0 /\ m_ReceivedPacketCount[d] = 0
      /\ link = "none"
    BY <1>1 DEF Init
<1>3. Len(none) = 0
    OBVIOUS
<1>4. Queued(none, none, none, 0)
    <2>1. 1 \in 1 .. Len(none) + 1 /\ 0 + Len(none) = 0 /\ 1 .. Len(none) = {}
        BY <1>3
    <2> QED
        BY <1>3, <2>1 DEF Queued, Waiting
<1>5. WriterInv(e)
    BY <1>2, <1>4 DEF WriterInv, BodyHasBody
<1>6. ReaderInv(d)
    BY <1>1, <1>2, <1>3 DEF ReaderInv, Wanted, HeaderIn, BodyIn, Arrived
<1>7. NextToRead(d) = Pos("header", 0 + 1) /\ NextToWrite(e) = Pos("header", 0 + 1)
    BY <1>2 DEF NextToRead, NextToWrite, NextOf, Completed
<1>8. WireInv(e)
    <2> DEFINE here == Pos("header", 0 + 1)
               n == [i \in 1 .. 1 |-> here]
    <2>1. here \in Positions /\ here.nr <= here.nr
        BY DEF Pos, Positions, Stages
    <2>2. Carries(none, n, none)
        BY <2>1, CarriesNothing
    <2>3. n[1] = here /\ Len(none) + 1 = 1
        OBVIOUS
    <2> HIDE DEF n, here
    <2>4. \E x : /\ Carries(wire[e], x, sent[e])
                 /\ x[1] = NextToRead(d)
                 /\ x[Len(wire[e]) + 1].nr <= NextToWrite(e).nr
                 /\ link = "up" => x[Len(wire[e]) + 1] = NextToWrite(e)
        BY <1>2, <1>7, <2>1, <2>2, <2>3 DEF here
    <2> QED
        BY <1>2, <2>4 DEF WireInv
<1> QED
    BY <1>2, <1>5, <1>6, <1>8 DEF DirInv

LEMMA DirNext ==
    ASSUME CInv, CInv', FlowInv, [Next]_vars
    PROVE  \A e \in Sides : DirInv(e)'
<1>1. Ready /\ TypeOK /\ TypeOK' /\ \A e \in Sides : DirInv(e)
    BY FlowReady DEF FlowInv, CInv
<1>2. ASSUME Step PROVE \A e \in Sides : DirInv(e)'
    BY <1>1, <1>2, StepKeeps
<1>3. CASE Connecting
    <2>1. CASE ConnectSucceeds
        <3>1. link = "none" /\ m_Socket["server"] = "new"
            BY <2>1 DEF ConnectSucceeds, FlowInv, Starts
        <3> QED
            BY <1>1, <2>1, <3>1, DConnectSucceeds
    <2>2. CASE ConnectToServer \/ ConnectFails
        BY <1>1, <1>2, <2>2, SLink
    <2>3. CASE ConnectToClient
        BY <1>1, <1>2, <2>3, SConnectToClient
    <2> QED
        BY <1>3, <2>1, <2>2, <2>3 DEF Connecting
<1>4. ASSUME NEW e \in Sides, Application(e) PROVE \A d \in Sides : DirInv(d)'
    BY <1>1, <1>2, <1>4, SApplication
<1>5. ASSUME NEW e \in Sides, Handlers(e) PROVE \A d \in Sides : DirInv(d)'
    <2>1. Step
        BY <1>1, <1>5, SRunSend, SRunDisconnect, SOnHeaderWritten, SOnMessageWritten, SOnWriteFailed,
           SOnHeaderRead, SOnDataRead, SOnReadFailed DEF Handlers
    <2> QED
        BY <1>2, <2>1
<1>6. ASSUME NEW e \in Sides, Kernel(e) PROVE \A d \in Sides : DirInv(d)'
    <2>1. CASE WriteSucceeds(e) /\ link = "up"
        BY <1>1, <2>1, DWriteSucceeds
    <2>2. CASE WriteFails(e) \/ (WriteSucceeds(e) /\ link # "up")
        BY <1>1, <1>2, <2>2, SWriteFails
    <2>3. CASE ReadSucceeds(e)
        BY <1>1, <2>3, DReadSucceeds
    <2>4. CASE ReadFails(e)
        BY <1>1, <1>2, <2>4, SReadFails
    <2> QED
        BY <1>6, <2>1, <2>2, <2>3, <2>4 DEF Kernel
<1>7. ASSUME NEW p \in Payloads, SendKeepAlive(p) PROVE \A d \in Sides : DirInv(d)'
    <2>1. "server" \in Sides
        BY DEF Sides
    <2> QED
        BY <1>1, <1>2, <1>7, <2>1, SApplication
<1>8. CASE ClientHandlers
    BY <1>1, <1>2, <1>8, SLink, SConnectHandlerEnds, SOnPing DEF ClientHandlers
<1>9. CASE ServerHandlers
    <2>1. "server" \in Sides
        BY DEF Sides
    <2> QED
        BY <1>1, <1>2, <1>9, <2>1, SOnDataRead, SOnInit DEF ServerHandlers
<1>10. CASE LinkBreaks \/ UNCHANGED vars
    BY <1>1, <1>2, <1>10, SLink
<1>11. ASSUME NEW e \in Sides, WireLost(e) PROVE \A d \in Sides : DirInv(d)'
    BY <1>1, <1>11, DWireLost
<1> QED
    BY <1>3, <1>4, <1>5, <1>6, <1>7, <1>8, <1>9, <1>10, <1>11 DEF Next

------------------------------------------------------------------------------
(* Who is established reads. *)

EstablishedStep == \A e \in Sides : Established(e)' => Established(e)

LEMMA EstablishedStays ==
    ASSUME KeepsReading, EstablishedStep, UNCHANGED inVars
    PROVE  KeepsReading'
BY DEF KeepsReading, EstablishedStep, InitConsumed, inVars

LEMMA EstablishedSame ==
    ASSUME UNCHANGED linkVars
    PROVE  EstablishedStep
BY DEF EstablishedStep, Established, IsConnected, linkVars

LEMMA EstablishedTerminates ==
    ASSUME TypeOK, NEW e \in Sides, Terminate(e)
    PROVE  EstablishedStep /\ ~Established(e)'
<1>1. io'[e] = "terminated" /\ \A d \in Sides : io'[d] = "running" => io[d] = "running"
    BY DEF Terminate, TypeOK
<1>2. link' # "none" => link # "none"
    BY DEF Terminate, Broken
<1> QED
    BY <1>1, <1>2 DEF EstablishedStep, Established, IsConnected, Terminate

LEMMA EstablishedCloses ==
    ASSUME TypeOK, NEW e \in Sides, NEW ws, NEW rs, Close(e, ws, rs)
    PROVE  EstablishedStep /\ ~Established(e)'
<1>1. m_Socket'[e] = "closed" /\ \A d \in Sides : m_Socket'[d] = "open" => m_Socket[d] = "open"
    BY DEF Close, TypeOK
<1>2. link' # "none" => link # "none"
    BY DEF Close, Broken
<1> QED
    BY <1>1, <1>2 DEF EstablishedStep, Established, IsConnected, Close

\* A step of e, after which it reads, or need not.
LEMMA ReaderListens ==
    ASSUME KeepsReading, NEW e \in Sides, ReadsOn(Peer(e)), Established(Peer(e))' => Established(Peer(e)),
           Established(e)' => reads'[e] # << >> \/ (e = "server" /\ InitConsumed')
    PROVE  KeepsReading'
<1>1. ASSUME Established(Peer(e))'
      PROVE  reads'[Peer(e)] # << >> \/ (Peer(e) = "server" /\ InitConsumed')
    BY <1>1, Peers DEF KeepsReading, ReadsOn, InitConsumed
<1> QED
    BY <1>1, Peers DEF KeepsReading

LEMMA ListensAfterPush ==
    ASSUME TypeOK, KeepsReading, NEW e \in Sides, MessageRead(e), PushAndReadNext(e)
    PROVE  KeepsReading'
<1>1. /\ reads' = [reads EXCEPT ![e] = Append(Tail(@), ReadOp(e, "header"))]
      /\ m_MessagesIn' = [m_MessagesIn EXCEPT ![e] = Append(@, m_WipInMessage[e])]
      /\ m_ReceivedPacketCount' = [m_ReceivedPacketCount EXCEPT ![e] = @ + 1]
      /\ UNCHANGED <<linkVars, m_WipInMessage>>
    BY DEF MessageRead, PushAndReadNext
<1>2. reads'[e] # << >>
    <2>1. reads'[e] = Append(Tail(reads[e]), ReadOp(e, "header"))
        BY <1>1 DEF TypeOK
    <2>2. Tail(reads[e]) \in Seq(ReadOps) /\ ReadOp(e, "header") \in ReadOps
        <3>1. reads[e] \in Seq(ReadOps) /\ reads[e] # << >>
            BY EndTypes DEF MessageRead, Completed
        <3> QED
            BY <3>1, HeadAndTail DEF ReadOp, ReadOps, Outcome, Outcomes, Stages
    <2> QED
        BY <2>1, <2>2, HeadOfAppend
<1>3. ReadsOn(Peer(e))
    BY <1>1, Peers DEF ReadsOn, TypeOK
<1>4. EstablishedStep
    BY <1>1, EstablishedSame
<1> QED
    BY <1>2, <1>3, <1>4, Peers, ReaderListens DEF EstablishedStep

\* All handlers that close the socket.
LEMMA ListensAfterClose ==
    ASSUME TypeOK, KeepsReading, NEW e \in Sides, NEW ws, NEW rs, Close(e, ws, rs),
           UNCHANGED <<m_WipInMessage, m_MessagesIn, m_ReceivedPacketCount>>
    PROVE  KeepsReading'
<1>1. EstablishedStep /\ ~Established(e)'
    BY EstablishedCloses
<1>2. ReadsOn(Peer(e))
    BY Closes DEF ReadsOn
<1> QED
    BY <1>1, <1>2, Peers, ReaderListens DEF EstablishedStep

LEMMA ListensNext ==
    ASSUME CInv, FlowInv, [Next]_vars
    PROVE  KeepsReading'
<1>1. TypeOK /\ KeepsReading /\ Starts /\ Ready /\ "server" \in Sides /\ "client" \in Sides
    BY FlowReady DEF CInv, FlowInv, Starts, Sides
<1>2. ASSUME EstablishedStep, UNCHANGED inVars PROVE KeepsReading'
    BY <1>1, <1>2, EstablishedStays
<1>3. CASE Connecting
    <2>1. CASE ConnectToServer \/ ConnectSucceeds \/ ConnectFails
        <3>1. UNCHANGED inVars
            BY <2>1 DEF ConnectToServer, ConnectSucceeds, ConnectFails
        <3>2. EstablishedStep
            BY <1>1, <2>1 DEF ConnectToServer, ConnectSucceeds, ConnectFails, EstablishedStep, Established,
                              IsConnected, Starts, TypeOK, Sides
        <3> QED
            BY <1>2, <3>1, <3>2
    <2>2. CASE ConnectToClient
        <3>1. reads'["server"] = Append(reads["server"], [stage |-> "header", result |-> "pending"])
            BY <1>1, <2>2 DEF ConnectToClient, TypeOK
        <3>2. reads'["server"] # << >>
            <4>1. [stage |-> "header", result |-> "pending"] \in ReadOps
                BY DEF ReadOps, Stages, Outcomes
            <4> QED
                BY <1>1, <3>1, <4>1, EndTypes, HeadOfAppend
        <3>3. ReadsOn("client") /\ Peer("server") = "client" /\ (Established("client")' => Established("client"))
            BY <1>1, <2>2 DEF ConnectToClient, ReadsOn, TypeOK, Peer, Sides, Established, IsConnected
        <3> QED
            BY <1>1, <3>2, <3>3, ReaderListens
    <2> QED
        BY <1>3, <2>1, <2>2 DEF Connecting
<1>4. ASSUME NEW e \in Sides, Application(e) \/ (\E p \in Payloads : SendKeepAlive(p)) PROVE KeepsReading'
    <2>1. UNCHANGED <<linkVars, inVars>>
        BY <1>4 DEF Application, Disconnect, Send, SendKeepAlive
    <2> QED
        BY <1>2, <2>1, EstablishedSame
<1>5. ASSUME NEW e \in Sides, Handlers(e) PROVE KeepsReading'
    <2>1. ASSUME NEW out, NEW rest, WriteHeader(e, out, rest) PROVE EstablishedStep
        BY <1>1, <2>1, EstablishedSame, EstablishedTerminates DEF WriteHeader
    <2>2. CASE RunSend(e) \/ OnHeaderWritten(e) \/ OnMessageWritten(e)
        <3>1. UNCHANGED inVars
            BY <2>2 DEF RunSend, OnHeaderWritten, OnMessageWritten
        <3>2. EstablishedStep
            BY <2>1, <2>2, EstablishedSame DEF RunSend, OnHeaderWritten, OnMessageWritten
        <3> QED
            BY <1>2, <3>1, <3>2
    <2>3. CASE RunDisconnect(e) \/ OnWriteFailed(e) \/ OnReadFailed(e)
        BY <1>1, <2>3, ListensAfterClose DEF RunDisconnect, OnWriteFailed, OnReadFailed
    <2>4. CASE OnHeaderRead(e)
        <3>1. /\ reads' = [reads EXCEPT ![e] = Append(Tail(@), ReadOp(e, "body"))]
              /\ UNCHANGED <<m_WipInMessage, m_MessagesIn, m_ReceivedPacketCount, linkVars>>
              /\ reads[e] # << >>
            BY <2>4 DEF OnHeaderRead, Completed
        <3>2. reads'[e] = Append(Tail(reads[e]), ReadOp(e, "body"))
            BY <1>1, <3>1 DEF TypeOK
        <3>3. reads[e] \in Seq(ReadOps) /\ ReadOp(e, "body") \in ReadOps
            BY <1>1, EndTypes DEF ReadOp, ReadOps, Outcome, Outcomes, Stages
        <3>4. Tail(reads[e]) \in Seq(ReadOps)
            BY <3>1, <3>3, HeadAndTail
        <3>5. reads'[e] # << >>
            BY <3>2, <3>3, <3>4, HeadOfAppend
        <3>6. ReadsOn(Peer(e)) /\ EstablishedStep
            BY <1>1, <3>1, Peers, EstablishedSame DEF ReadsOn, TypeOK
        <3> QED
            BY <1>1, <3>5, <3>6, Peers, ReaderListens DEF EstablishedStep
    <2>5. CASE OnDataRead(e)
        BY <1>1, <2>5, ListensAfterPush DEF OnDataRead
    <2> QED
        BY <1>5, <2>2, <2>3, <2>4, <2>5 DEF Handlers
<1>6. ASSUME NEW e \in Sides, Kernel(e) PROVE KeepsReading'
    <2>1. CASE WriteSucceeds(e) \/ WriteFails(e)
        <3>1. UNCHANGED <<linkVars, inVars>>
            BY <2>1 DEF WriteSucceeds, WriteFails, Writes
        <3> QED
            BY <1>2, <3>1, EstablishedSame
    <2>2. CASE ReadSucceeds(e) \/ ReadFails(e)
        <3>1. PICK result \in {"ok", "error"} : Reads(e, result)
            BY <2>2 DEF ReadSucceeds, ReadFails
        <3>2. /\ reads[e] # << >> /\ reads' = [reads EXCEPT ![e] = Complete(@, result)]
              /\ UNCHANGED <<linkVars, outVars, m_MessagesIn, m_ReceivedPacketCount, aliveVars, appVars>>
            BY <3>1 DEF Reads, Pending
        <3>3. reads'[e] = Complete(reads[e], result) /\ reads'[Peer(e)] = reads[Peer(e)]
            BY <1>1, <3>2, Peers DEF TypeOK
        <3>4. reads'[e] # << >>
            BY <1>1, <3>2, <3>3, EndTypes, CompleteHead
        <3>5. EstablishedStep
            BY <3>2, EstablishedSame
        <3>6. InitConsumed' <=> InitConsumed
            BY <3>2 DEF InitConsumed
        <3> QED
            BY <1>1, <3>3, <3>4, <3>5, <3>6, Peers DEF KeepsReading, EstablishedStep
    <2> QED
        BY <1>6, <2>1, <2>2 DEF Kernel
<1>7. CASE ClientHandlers
    <2>1. CASE ConnectHandlerBegins \/ IoReturns
        <3>1. UNCHANGED inVars
            BY <2>1 DEF ConnectHandlerBegins, IoReturns
        <3>2. EstablishedStep
            BY <1>1, <2>1 DEF ConnectHandlerBegins, IoReturns, EstablishedStep, Established, IsConnected, Starts,
                              TypeOK, Sides
        <3> QED
            BY <1>2, <3>1, <3>2
    <2>2. CASE ConnectHandlerEnds
        <3>1. reads'["client"] = Append(reads["client"], ReadOp("client", "header"))
            BY <1>1, <2>2 DEF ConnectHandlerEnds, TypeOK
        <3>2. reads'["client"] # << >>
            <4>1. ReadOp("client", "header") \in ReadOps
                BY DEF ReadOp, ReadOps, Outcome, Outcomes, Stages
            <4> QED
                BY <1>1, <3>1, <4>1, EndTypes, HeadOfAppend
        <3>3. ReadsOn("server") /\ Peer("client") = "server" /\ (Established("server")' => Established("server"))
            BY <1>1, <2>2 DEF ConnectHandlerEnds, ReadsOn, TypeOK, Peer, Sides, Established, IsConnected
        <3> QED
            BY <1>1, <3>2, <3>3, ReaderListens
    <2>3. CASE OnPing
        <3>1. CASE PushAndReadNext("client")
            BY <1>1, <2>3, <3>1, ListensAfterPush DEF OnPing
        <3>2. CASE reads' = [reads EXCEPT !["client"] = Tail(@)] /\ Terminate("client") /\ UNCHANGED m_MessagesIn
            <4>1. EstablishedStep /\ ~Established("client")'
                BY <1>1, <3>2, EstablishedTerminates
            <4>2. ReadsOn("server") /\ Peer("client") = "server"
                BY <1>1, <2>3, <3>2 DEF OnPing, MessageRead, ReadsOn, TypeOK, Peer, Sides
            <4> QED
                BY <1>1, <4>1, <4>2, ReaderListens DEF EstablishedStep
        <3> QED
            BY <2>3, <3>1, <3>2 DEF OnPing
    <2> QED
        BY <1>7, <2>1, <2>2, <2>3 DEF ClientHandlers
<1>8. CASE ServerHandlers
    <2>1. CASE OnPong
        BY <1>1, <2>1, ListensAfterPush DEF OnPong
    <2>2. CASE OnInit
        <3>1. /\ reads' = [reads EXCEPT !["server"] = Tail(@)]
              /\ m_ReceivedPacketCount' = [m_ReceivedPacketCount EXCEPT !["server"] = @ + 1]
              /\ UNCHANGED <<linkVars, m_MessagesIn, m_WipInMessage>>
              /\ reads["server"] # << >>
            BY <2>2 DEF OnInit, MessageRead, Completed
        <3>2. Len(m_MessagesIn["server"]) = m_ReceivedPacketCount["server"]
            BY <1>1, <3>1 DEF Ready, EndInv, ReaderInv, Reading
        <3>3. m_ReceivedPacketCount'["server"] = m_ReceivedPacketCount["server"] + 1
              /\ m_ReceivedPacketCount["server"] \in Nat
            BY <1>1, <3>1 DEF TypeOK
        <3>4. InitConsumed'
            BY <3>1, <3>2, <3>3 DEF InitConsumed
        <3>5. ReadsOn("client") /\ Peer("server") = "client" /\ EstablishedStep
            BY <1>1, <3>1, EstablishedSame DEF ReadsOn, TypeOK, Peer, Sides
        <3> QED
            BY <1>1, <3>4, <3>5, ReaderListens DEF EstablishedStep
    <2> QED
        BY <1>8, <2>1, <2>2 DEF ServerHandlers
<1>9. CASE LinkBreaks
    <2>1. UNCHANGED inVars /\ EstablishedStep
        BY <1>9 DEF LinkBreaks, EstablishedStep, Established, IsConnected
    <2> QED
        BY <1>2, <2>1
<1>10. CASE UNCHANGED vars \/ (\E e \in Sides : WireLost(e))
    <2>1. UNCHANGED <<linkVars, inVars>>
        BY <1>10 DEF WireLost, vars
    <2> QED
        BY <1>2, <2>1, EstablishedSame
<1> QED
    BY <1>1, <1>3, <1>4, <1>5, <1>6, <1>7, <1>8, <1>9, <1>10 DEF Next

LEMMA StartsNext ==
    ASSUME CInv, FlowInv, [Next]_vars
    PROVE  Starts'
<1>1. TypeOK /\ Starts
    BY DEF CInv, FlowInv
<1>2. KeepsReading'
    BY ListensNext
<1> DEFINE Links == /\ connect \in {"none", "pending", "error"} => link = "none"
                    /\ link = "none" => m_Socket["server"] = "new"
<1> SUFFICES Links'
    BY <1>2 DEF Starts
<1>3. CASE UNCHANGED linkVars
    BY <1>1, <1>3 DEF Starts, linkVars
<1>4. ASSUME NEW e \in Sides, Terminate(e) PROVE Links'
    BY <1>1, <1>4 DEF Starts, Terminate, Broken
<1>5. ASSUME NEW e \in Sides, NEW ws, NEW rs, Close(e, ws, rs), ~Fresh(e) PROVE Links'
    <2>1. e = "client" \/ (e = "server" /\ m_Socket["server"] # "new")
        BY <1>5 DEF Fresh, Sides
    <2>2. link' = "none" => link = "none"
        BY <1>5 DEF Close, Broken
    <2>3. connect' = connect /\ (link = "none" => link' = "none")
        BY <1>5 DEF Close, Broken
    <2>4. link = "none" => m_Socket'["server"] = m_Socket["server"]
        BY <1>1, <1>5, <2>1 DEF Starts, Close, TypeOK, Sides
    <2> QED
        BY <1>1, <2>2, <2>3, <2>4 DEF Starts
<1>6. ASSUME NEW e \in Sides, Handlers(e) PROVE Links'
    <2>1. RunDisconnect(e) \/ OnWriteFailed(e) \/ OnReadFailed(e) => ~Fresh(e)
        BY DEF RunDisconnect, OnWriteFailed, OnReadFailed, Completed, CInv, FreshInv
    <2>2. CASE RunDisconnect(e) \/ OnWriteFailed(e) \/ OnReadFailed(e)
        BY <1>5, <2>1, <2>2 DEF RunDisconnect, OnWriteFailed, OnReadFailed
    <2>3. CASE RunSend(e) \/ OnMessageWritten(e)
        BY <1>3, <1>4, <1>1, <2>3 DEF RunSend, OnMessageWritten, WriteHeader, Starts, linkVars
    <2>4. CASE OnHeaderWritten(e) \/ OnHeaderRead(e) \/ OnDataRead(e)
        BY <1>1, <2>4 DEF OnHeaderWritten, OnHeaderRead, OnDataRead, PushAndReadNext, Starts, linkVars
    <2> QED
        BY <1>6, <2>2, <2>3, <2>4 DEF Handlers
<1>7. CASE Connecting
    BY <1>1, <1>7 DEF Connecting, ConnectToServer, ConnectSucceeds, ConnectFails, ConnectToClient, Starts,
                      TypeOK, Sides
<1>8. CASE ConnectHandlerBegins \/ ConnectHandlerEnds \/ IoReturns \/ LinkBreaks
    BY <1>1, <1>8 DEF ConnectHandlerBegins, ConnectHandlerEnds, IoReturns, LinkBreaks, Starts
<1>9. CASE OnPing
    <2>1. "client" \in Sides
        BY DEF Sides
    <2> QED
        BY <1>1, <1>4, <1>9, <2>1 DEF OnPing, PushAndReadNext, Starts, linkVars
<1>10. CASE \/ ServerHandlers \/ UNCHANGED vars
            \/ \E e \in Sides : Application(e) \/ Kernel(e) \/ WireLost(e)
            \/ \E p \in Payloads : SendKeepAlive(p)
    <2>1. UNCHANGED linkVars
        BY <1>10 DEF ServerHandlers, OnPong, OnInit, PushAndReadNext, Application, Disconnect, Send, Kernel,
                     WriteSucceeds, WriteFails, Writes, ReadSucceeds, ReadFails, Reads, WireLost,
                     SendKeepAlive, vars
    <2> QED
        BY <1>1, <2>1 DEF Starts, linkVars
<1> QED
    BY <1>6, <1>7, <1>8, <1>9, <1>10 DEF Next, ClientHandlers

------------------------------------------------------------------------------
(* What is queued and what is sent, in a step. *)

Pushed(e) ==
    \/ m_MessagesIn'[e] = m_MessagesIn[e]
    \/ /\ m_MessagesIn'[e] = Append(m_MessagesIn[e], m_WipInMessage[e])
       /\ sent'[Peer(e)] = sent[Peer(e)]

LEMMA PushedBy ==
    ASSUME TypeOK, NEW d \in Sides, PushAndReadNext(d), sent'[Peer(d)] = sent[Peer(d)]
    PROVE  \A e \in Sides : Pushed(e)
<1>1. m_MessagesIn \in [Sides -> Seq(Incoming)]
    BY DEF TypeOK
<1>2. m_MessagesIn' = [m_MessagesIn EXCEPT ![d] = Append(@, m_WipInMessage[d])]
    BY DEF PushAndReadNext
<1>3. /\ m_MessagesIn'[d] = Append(m_MessagesIn[d], m_WipInMessage[d])
      /\ \A e \in Sides : e # d => m_MessagesIn'[e] = m_MessagesIn[e]
    BY <1>1, <1>2
<1> QED
    BY <1>3 DEF Pushed

LEMMA PushedNext ==
    ASSUME CInv, [Next]_vars
    PROVE  \A e \in Sides : Pushed(e)
<1>1. TypeOK /\ "client" \in Sides /\ "server" \in Sides /\ Peer("client") = "server" /\ Peer("server") = "client"
    BY DEF CInv, Sides, Peer
<1>2. CASE UNCHANGED m_MessagesIn
    BY <1>2 DEF Pushed
<1>3. ASSUME NEW e \in Sides, OnDataRead(e) PROVE \A d \in Sides : Pushed(d)
    <2>1. PushAndReadNext(e) /\ sent' = sent
        BY <1>3 DEF OnDataRead, appVars
    <2> QED
        BY <1>1, <2>1, PushedBy
<1>4. CASE OnPong
    <2>1. PushAndReadNext("server") /\ sent' = sent
        BY <1>4 DEF OnPong, appVars
    <2> QED
        BY <1>1, <2>1, PushedBy
<1>5. CASE OnPing
    <2>1. CASE Post("client", Wip("client")) /\ PushAndReadNext("client")
        <3>1. sent'["server"] = sent["server"]
            BY <1>1, <2>1 DEF Post, TypeOK
        <3> QED
            BY <1>1, <2>1, <3>1, PushedBy
    <2>2. CASE UNCHANGED m_MessagesIn
        BY <1>2, <2>2
    <2> QED
        BY <1>5, <2>1, <2>2 DEF OnPing
<1>6. ASSUME NEW e \in Sides, Handlers(e), ~OnDataRead(e) PROVE UNCHANGED m_MessagesIn
    BY <1>6 DEF Handlers, RunSend, RunDisconnect, OnHeaderWritten, OnMessageWritten, OnWriteFailed,
                OnHeaderRead, OnReadFailed, inVars
<1>7. CASE \/ Connecting \/ ConnectHandlerBegins \/ ConnectHandlerEnds \/ IoReturns \/ OnInit \/ LinkBreaks
           \/ UNCHANGED vars \/ \E e \in Sides : Application(e) \/ Kernel(e) \/ WireLost(e)
           \/ \E p \in Payloads : SendKeepAlive(p)
    <2>1. UNCHANGED m_MessagesIn
        BY <1>7 DEF Connecting, ConnectToServer, ConnectSucceeds, ConnectFails, ConnectToClient, inVars,
                    ConnectHandlerBegins, ConnectHandlerEnds, IoReturns, OnInit, LinkBreaks, vars, Application,
                    Disconnect, Send, Kernel, WriteSucceeds, WriteFails, Writes, ReadSucceeds, ReadFails,
                    Reads, WireLost, SendKeepAlive
    <2> QED
        BY <1>2, <2>1
<1> QED
    BY <1>2, <1>3, <1>4, <1>5, <1>6, <1>7 DEF Next, ClientHandlers, ServerHandlers

LEMMA FlowInit == Init => FlowInv
<1> SUFFICES ASSUME Init PROVE FlowInv
    OBVIOUS
<1>1. Starts
    BY DEF Init, Starts, KeepsReading, Established, IsConnected, Sides
<1> QED
    BY <1>1, DirInit DEF FlowInv

LEMMA FlowNext == CInv /\ CInv' /\ FlowInv /\ [Next]_vars => FlowInv'
BY DirNext, StartsNext DEF FlowInv

LEMMA FlowAlways == Spec => [](CInv /\ FlowInv)
<1>1. CInv /\ FlowInv /\ [Next]_vars => (CInv /\ FlowInv)'
    BY CNext, FlowNext
<1> QED
    BY <1>1, CInit, FlowInit, PTL DEF Spec

------------------------------------------------------------------------------
\* A header is read where a header was written and a body, of the packet whose header
\* came last, where a body was: the calls of ReadHeader() and ReadBody() never get out of
\* step with those of WriteHeader() and WriteBody(), whatever is cancelled or lost.
THEOREM StaysInStep == Spec => []InStep
<1>1. CInv /\ FlowInv => InStep
    <2> SUFFICES ASSUME CInv, FlowInv, NEW e \in Sides, Pending(reads[e]), wire[Peer(e)] # << >>
                 PROVE  LET next == Head(wire[Peer(e)])
                        IN  /\ next.part = Head(reads[e]).stage
                            /\ next.part = "body" => m_WipInMessage[e].id = next.packet.id
        BY DEF InStep
    <2> DEFINE d == Peer(e)
               w == wire[d]
               s == sent[d]
    <2>1. TypeOK /\ d \in Sides /\ Peer(d) = e /\ DirInv(d) /\ Reading(e)
        BY Peers DEF CInv, FlowInv, Reading, Pending
    <2>2. PICK n : Carries(w, n, s) /\ n[1] = NextToRead(e)
        BY <2>1 DEF DirInv, WireInv
    <2>3. s \in Seq(Packets) /\ w \in Seq(Parts)
        BY <2>1, EndTypes
    <2>4. n[1].nr <= Len(s) /\ Head(w).part = n[1].part /\ Head(w).packet = s[n[1].nr]
        <3> HIDE DEF s, w
        <3>1. w # << >>
            BY DEF w
        <3> QED
            BY <2>2, <2>3, <3>1, CarriesRead
    <2>5. n[1] = Pos(Head(reads[e]).stage, m_ReceivedPacketCount[e] + 1)
        BY <2>2 DEF NextToRead, NextOf, Completed, Pending
    <2>6. Head(w).part = Head(reads[e]).stage /\ Head(w).packet = s[m_ReceivedPacketCount[e] + 1]
        BY <2>4, <2>5 DEF Pos
    <2>7. Head(reads[e]).stage = "body" => m_WipInMessage[e].id = s[m_ReceivedPacketCount[e] + 1].id
        BY <2>1 DEF DirInv, ReaderInv, Wanted, HeaderIn, Pending
    <2> QED
        BY <2>6, <2>7
<1> QED
    BY <1>1, FlowAlways, PTL

\* What is counted as received was counted as sent, or its write is over and the handler,
\* which counts it, about to run.
THEOREM CountsStayInStep == Spec => []CountsAgree
<1>1. FlowInv => CountsAgree
    BY DEF FlowInv, DirInv, CountsAgree
<1> QED
    BY <1>1, FlowAlways, PTL

\* The handlers of async_read that leave the socket open start the next read, all but the
\* one that has received an Init packet.
THEOREM ReadsOnForEver == Spec => []KeepsReading
<1>1. FlowInv => KeepsReading
    BY DEF FlowInv, Starts
<1> QED
    BY <1>1, FlowAlways, PTL


------------------------------------------------------------------------------
(* Each direction is a MessageChannel. *)

SentStep(e) == sent'[e] = sent[e] \/ \E m \in Packets : sent'[e] = Append(sent[e], m)

LEMMA SentBy ==
    ASSUME TypeOK, NEW d \in Sides, NEW m \in Packets, Post(d, m)
    PROVE  \A e \in Sides : SentStep(e)
<1>1. sent' = [sent EXCEPT ![d] = Append(@, m)] /\ sent \in [Sides -> Seq(Packets)]
    BY DEF Post, TypeOK
<1>2. sent'[d] = Append(sent[d], m) /\ \A e \in Sides : e # d => sent'[e] = sent[e]
    BY <1>1
<1> QED
    BY <1>2 DEF SentStep

LEMMA SentNext ==
    ASSUME CInv, [Next]_vars
    PROVE  \A e \in Sides : SentStep(e)
<1>1. TypeOK /\ "client" \in Sides /\ "server" \in Sides
    BY DEF CInv, Sides
<1>2. CASE UNCHANGED sent
    BY <1>2 DEF SentStep
<1>3. ASSUME NEW e \in Sides, Application(e) PROVE \A d \in Sides : SentStep(d)
    <2>1. \A m \in Data : m \in Packets
        BY DEF Data
    <2> QED
        BY <1>1, <1>2, <1>3, <2>1, SentBy DEF Application, Send, Disconnect
<1>4. ASSUME NEW p \in Payloads, SendKeepAlive(p) PROVE \A d \in Sides : SentStep(d)
    <2>1. [id |-> "KeepAlive", body |-> p] \in Packets
        BY DEF Packets, Ids, AnyBody
    <2> QED
        BY <1>1, <1>4, <2>1, SentBy DEF SendKeepAlive
<1>5. CASE ConnectHandlerEnds
    <2>1. InitPacket \in Packets
        BY DEF InitPacket, Packets, Ids, AnyBody
    <2> QED
        BY <1>1, <1>2, <1>5, <2>1, SentBy DEF ConnectHandlerEnds, appVars
<1>6. CASE OnPing
    <2>1. CASE Post("client", Wip("client"))
        <3>1. m_WipInMessage["client"] \in Incoming
            BY <1>1, EndTypes
        <3>2. Wip("client") \in Packets
            BY <1>6, <3>1 DEF OnPing, Wip, Incoming, Packets, Ids
        <3> QED
            BY <1>1, <2>1, <3>2, SentBy
    <2> QED
        BY <1>2, <1>6, <2>1 DEF OnPing, appVars
<1>7. ASSUME NEW e \in Sides, Handlers(e) PROVE UNCHANGED sent
    BY <1>7 DEF Handlers, RunSend, RunDisconnect, OnHeaderWritten, OnMessageWritten, OnWriteFailed,
                OnHeaderRead, OnDataRead, OnReadFailed, appVars
<1>8. CASE \/ Connecting \/ ConnectHandlerBegins \/ IoReturns \/ ServerHandlers \/ LinkBreaks
           \/ UNCHANGED vars \/ \E e \in Sides : Kernel(e) \/ WireLost(e)
    <2>1. UNCHANGED sent
        BY <1>8 DEF Connecting, ConnectToServer, ConnectSucceeds, ConnectFails, ConnectToClient, appVars,
                    ConnectHandlerBegins, IoReturns, ServerHandlers, OnPong, OnInit, LinkBreaks, vars,
                    Kernel, WriteSucceeds, WriteFails, Writes, ReadSucceeds, ReadFails, Reads, WireLost
    <2> QED
        BY <1>2, <2>1
<1> QED
    BY <1>2, <1>3, <1>4, <1>5, <1>6, <1>7, <1>8 DEF Next, ClientHandlers

AllPlain(in) == [i \in DOMAIN in |-> Plain(in[i])]

LEMMA ReceivedBodies == \A e \in Sides : Received(e) = AllPlain(m_MessagesIn[e])
BY DEF Received, AllPlain, Plain

LEMMA BodiesPushed ==
    ASSUME NEW in \in Seq(Incoming), NEW x \in Incoming, NEW s \in Seq(Packets),
           Arrived(s, Append(in, x))
    PROVE  /\ Len(AllPlain(in)) < Len(s)
           /\ AllPlain(Append(in, x)) = Append(AllPlain(in), s[Len(AllPlain(in)) + 1])
<1> DEFINE new == Append(in, x)
           P == {Plain(m) : m \in Incoming}
<1>1. Len(new) = Len(in) + 1 /\ new[Len(in) + 1] = x /\ \A i \in 1 .. Len(in) : new[i] = in[i]
    OBVIOUS
<1>2. new \in Seq(Incoming) /\ DOMAIN new = 1 .. Len(in) + 1
    OBVIOUS
<1>3. AllPlain(in) \in Seq(P) /\ Len(AllPlain(in)) = Len(in)
    <2>1. \A i \in 1 .. Len(in) : Plain(in[i]) \in P
        OBVIOUS
    <2> HIDE DEF P
    <2> QED
        BY <2>1 DEF AllPlain
<1>4. Len(in) + 1 <= Len(s) /\ s[Len(in) + 1] = Plain(x)
    <2>1. Len(in) + 1 \in 1 .. Len(new)
        BY <1>1
    <2> HIDE DEF new
    <2> QED
        BY <1>1, <2>1 DEF Arrived, new
<1>5. AllPlain(new) = Append(AllPlain(in), Plain(x))
    <2> HIDE DEF new, P
    <2>1. Plain(x) \in P
        BY DEF P
    <2> DEFINE longer == Append(AllPlain(in), Plain(x))
    <2>2. /\ longer \in Seq(P) /\ Len(longer) = Len(in) + 1 /\ longer[Len(in) + 1] = Plain(x)
          /\ \A i \in 1 .. Len(in) : longer[i] = AllPlain(in)[i]
        BY <1>3, <2>1
    <2> HIDE DEF longer
    <2>3. \A i \in 1 .. Len(in) + 1 : longer[i] = Plain(new[i])
        <3>1. \A i \in 1 .. Len(in) : AllPlain(in)[i] = Plain(in[i])
            BY DEF AllPlain
        <3>2. Len(in) \in Nat /\ \A i \in 1 .. Len(in) + 1 : i \in 1 .. Len(in) \/ i = Len(in) + 1
            OBVIOUS
        <3> QED
            BY <1>1, <2>2, <3>1, <3>2
    <2>4. longer = [i \in 1 .. Len(in) + 1 |-> longer[i]]
        BY <2>2
    <2>5. AllPlain(new) = [i \in 1 .. Len(in) + 1 |-> Plain(new[i])]
        BY <1>2 DEF AllPlain
    <2> QED
        BY <2>3, <2>4, <2>5 DEF longer
<1> QED
    BY <1>1, <1>3, <1>4, <1>5

\* A step, seen from the direction in which e writes.
Sending(e) ==
    \E m \in Packets : sent'[e] = Append(sent[e], m) /\ Received(Peer(e))' = Received(Peer(e))
Delivering(e) ==
    /\ Len(Received(Peer(e))) < Len(sent[e])
    /\ Received(Peer(e))' = Append(Received(Peer(e)), sent[e][Len(Received(Peer(e))) + 1])
    /\ sent'[e] = sent[e]

LEMMA ChannelNext ==
    ASSUME CInv, FlowInv, CInv', FlowInv', [Next]_vars, NEW e \in Sides
    PROVE  \/ Sending(e) \/ Delivering(e)
           \/ sent'[e] = sent[e] /\ Received(Peer(e))' = Received(Peer(e))
<1> DEFINE d == Peer(e)
           in == m_MessagesIn[d]
           x == m_WipInMessage[d]
           s == sent[e]
<1>1. d \in Sides /\ Peer(d) = e
    BY Peers
<1>2. /\ Received(d) = AllPlain(m_MessagesIn[d])
      /\ Received(d)' = AllPlain(m_MessagesIn'[d])
    BY <1>1 DEF Received, AllPlain, Plain
<1>3. Pushed(d) /\ SentStep(e)
    BY <1>1, PushedNext, SentNext
<1>4. CASE m_MessagesIn'[d] = in
    BY <1>2, <1>3, <1>4 DEF SentStep, Sending
<1>5. CASE m_MessagesIn'[d] = Append(in, x) /\ sent'[e] = s
    <2>1. in \in Seq(Incoming) /\ x \in Incoming /\ s \in Seq(Packets)
        BY <1>1, EndTypes DEF CInv
    <2>2. Arrived(s, Append(in, x))
        BY <1>1, <1>5 DEF FlowInv, DirInv, ReaderInv
    <2>3. /\ Len(AllPlain(in)) < Len(s)
          /\ AllPlain(Append(in, x)) = Append(AllPlain(in), s[Len(AllPlain(in)) + 1])
        <3> HIDE DEF in, x, s
        <3> QED
            BY <2>1, <2>2, BodiesPushed
    <2> QED
        BY <1>2, <1>5, <2>3 DEF Delivering
<1> QED
    BY <1>1, <1>3, <1>4, <1>5 DEF Pushed

\* What one side passes to Send() reaches the incoming queue of the other in that order,
\* nothing twice and nothing skipped, each packet with the body it was sent with, until
\* delivery stops for good: both directions of a connection implement MessageChannel.
THEOREM ImplementsChannels == Spec => Channels
<1>1. Init => ToServer!Init /\ ToClient!Init
    BY DEF Init, ToServer!Init, ToClient!Init, Received, Sides
<1>2. CInv /\ FlowInv /\ (CInv /\ FlowInv)' /\ [Next]_vars => [ToServer!Next]_(ToServer!channelVars)
    <2> SUFFICES ASSUME CInv, FlowInv, CInv', FlowInv', [Next]_vars
                 PROVE  [ToServer!Next]_(ToServer!channelVars)
        OBVIOUS
    <2>1. "client" \in Sides /\ Peer("client") = "server"
        BY DEF Sides, Peer
    <2> QED
        BY <2>1, ChannelNext DEF Sending, Delivering, ToServer!Next, ToServer!Send, ToServer!Deliver,
                                 ToServer!channelVars
<1>3. CInv /\ FlowInv /\ (CInv /\ FlowInv)' /\ [Next]_vars => [ToClient!Next]_(ToClient!channelVars)
    <2> SUFFICES ASSUME CInv, FlowInv, CInv', FlowInv', [Next]_vars
                 PROVE  [ToClient!Next]_(ToClient!channelVars)
        OBVIOUS
    <2>1. "server" \in Sides /\ Peer("server") = "client"
        BY DEF Sides, Peer
    <2> QED
        BY <2>1, ChannelNext DEF Sending, Delivering, ToClient!Next, ToClient!Send, ToClient!Deliver,
                                 ToClient!channelVars
<1> QED
    BY <1>1, <1>2, <1>3, FlowAlways, PTL DEF Spec, Channels, ToServer!Spec, ToClient!Spec
==============================================================================
