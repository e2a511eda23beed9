------------------------- MODULE PacketBuffer_proofs -------------------------
(****************************************************************************)
(* For all values and whatever a byte and a buffer hold: the bytes left are *)
(* those of the values not yet read, and what is read is what was written.  *)
(* First the recursive functions, digits and conversions, then the bytes of *)
(* one value and of several, and last the invariant of the buffer.          *)
(****************************************************************************)
EXTENDS PacketBuffer, SequenceTheorems, WellFoundedInduction, TLAPS

------------------------------------------------------------------------------
(* Induction on natural numbers, over a set of them. *)

LEMMA Smallest ==
    ASSUME NEW T, T \subseteq Nat, T # {}
    PROVE  \E x \in T : \A y \in T : x <= y
<1> DEFINE R == OpToRel(<, Nat)
<1>1. \A x, y \in Nat : y < x => <<y, x>> \in R
    BY DEF OpToRel
<1>2. IsWellFoundedOn(R, Nat)
    BY NatLessThanWellFounded DEF R
<1> HIDE DEF R
<1>3. PICK x \in T : \A y \in T : ~(<<y, x>> \in R)
    BY <1>2, WFMin
<1>4. \A y \in T : ~(y < x)
    BY <1>1, <1>3, Zenon
<1> QED
    BY <1>4

LEMMA Induction ==
    ASSUME NEW n \in Nat, NEW T, 0 \in T, \A i \in 1 .. n : i - 1 \in T => i \in T
    PROVE  \A i \in 0 .. n : i \in T
<1> DEFINE Out == {i \in 0 .. n : i \notin T}
<1>1. CASE Out # {}
    <2>1. PICK x \in Out : \A y \in Out : x <= y
        <3>1. Out \subseteq Nat
            OBVIOUS
        <3> HIDE DEF Out
        <3> QED
            BY <1>1, <3>1, Smallest
    <2>2. x \in 1 .. n /\ x - 1 \in 0 .. n
        OBVIOUS
    <2>3. x - 1 \notin Out
        BY <2>1, <2>2
    <2> QED
        BY <2>2, <2>3
<1> QED
    BY <1>1

\* f begins with v and goes on with g, up to n.
Iterates(f, n, V, v, g) ==
    f \in [0 .. n -> V] /\ f[0] = v /\ \A i \in 1 .. n : f[i] = g[<<f[i - 1], i>>]

LEMMA Recursion ==
    ASSUME NEW n \in Nat, NEW V, NEW v \in V, NEW g \in [V \X (1 .. n) -> V]
    PROVE  \E f : Iterates(f, n, V, v, g)
<1> DEFINE Good(f, m) == f \in [0 .. m -> V] /\ f[0] = v /\ \A i \in 1 .. m : f[i] = g[<<f[i - 1], i>>]
           T == {m \in 0 .. n : \E f : Good(f, m)}
<1>1. 0 \in T
    <2>1. Good([i \in 0 .. 0 |-> v], 0)
        OBVIOUS
    <2> HIDE DEF Good
    <2> QED
        BY <2>1
<1>2. ASSUME NEW m \in 1 .. n, m - 1 \in T PROVE m \in T
    <2>1. PICK f : Good(f, m - 1)
        BY <1>2
    <2> DEFINE w == g[<<f[m - 1], m>>]
               h == [i \in 0 .. m |-> IF i = m THEN w ELSE f[i]]
    <2>2. f \in [0 .. m - 1 -> V] /\ f[0] = v /\ \A i \in 1 .. m - 1 : f[i] = g[<<f[i - 1], i>>]
        BY <2>1
    <2>3. m - 1 \in 0 .. m - 1 /\ <<f[m - 1], m>> \in V \X (1 .. n)
        BY <2>2
    <2>4. w \in V
        BY <2>3
    <2>5. h \in [0 .. m -> V] /\ h[0] = v
        <3> HIDE DEF w
        <3>1. \A i \in 0 .. m : i # m => i \in 0 .. m - 1
            OBVIOUS
        <3>2. 0 \in 0 .. m /\ 0 # m
            OBVIOUS
        <3> QED
            BY <2>2, <2>4, <3>1, <3>2
    <2>6. ASSUME NEW i \in 1 .. m PROVE h[i] = g[<<h[i - 1], i>>]
        <3>1. i \in 0 .. m /\ i - 1 \in 0 .. m /\ i - 1 # m
            OBVIOUS
        <3> HIDE DEF w
        <3>2. h[i - 1] = f[i - 1] /\ h[i] = IF i = m THEN w ELSE f[i]
            BY <3>1
        <3>3. i # m => i \in 1 .. m - 1
            OBVIOUS
        <3> HIDE DEF h
        <3> QED
            BY <2>2, <3>2, <3>3 DEF w
    <2>7. Good(h, m) /\ m \in 0 .. n
        <3> HIDE DEF h
        <3> QED
            BY <2>5, <2>6
    <2> HIDE DEF Good, h
    <2> QED
        BY <2>7
<1>3. n \in T
    <2> HIDE DEF T
    <2> QED
        BY <1>1, <1>2, Induction
<1> QED
    BY <1>3 DEF Iterates

------------------------------------------------------------------------------
(* The recursive functions of the model, step by step. *)

LEMMA PowerSteps ==
    /\ Power[0] = 1
    /\ \A i \in 1 .. 8 : Power[i] = Base * Power[i - 1]
    /\ \A i \in 0 .. 8 : Power[i] \in Nat \ {0}
<1> DEFINE g == [p \in Nat \X (1 .. 8) |-> Base * p[1]]
<1>1. Base \in Nat /\ Base > 1
    BY BufferAssumption
<1>2. g \in [Nat \X (1 .. 8) -> Nat]
    BY <1>1
<1>3. PICK f \in [0 .. 8 -> Nat] : f[0] = 1 /\ \A i \in 1 .. 8 : f[i] = g[<<f[i - 1], i>>]
    <2>1. 8 \in Nat /\ 1 \in Nat
        OBVIOUS
    <2> HIDE DEF g
    <2>2. \E f : Iterates(f, 8, Nat, 1, g)
        BY <1>2, <2>1, Recursion
    <2> QED
        BY <2>2 DEF Iterates
<1>4. \A i \in 1 .. 8 : f[i] = Base * f[i - 1]
    BY <1>3
<1> DEFINE IsPower(h) == h = [i \in 0 .. 8 |-> IF i = 0 THEN 1 ELSE Base * h[i - 1]]
<1>5. IsPower(f)
    BY <1>3, <1>4
<1>6. Power = CHOOSE h : IsPower(h)
    BY DEF Power
<1>7. IsPower(Power)
    <2> HIDE DEF IsPower
    <2> QED
        BY <1>5, <1>6
<1>8. Power[0] = 1 /\ \A i \in 1 .. 8 : Power[i] = Base * Power[i - 1]
    BY <1>7
<1>9. \A i \in 0 .. 8 : Power[i] \in Nat \ {0}
    <2> DEFINE T == {i \in 0 .. 8 : Power[i] \in Nat \ {0}}
    <2>1. 0 \in T
        BY <1>8
    <2>2. ASSUME NEW i \in 1 .. 8, i - 1 \in T PROVE i \in T
        BY <1>1, <1>8, <2>2
    <2>3. \A i \in 0 .. 8 : i \in T
        <3> HIDE DEF T
        <3> QED
            BY <2>1, <2>2, Induction
    <2> QED
        BY <2>3
<1> QED
    BY <1>8, <1>9

Sum(bytes) ==
    CHOOSE sum : sum = [i \in 0 .. Len(bytes) |-> IF i = 0 THEN 0 ELSE sum[i - 1] + bytes[i] * Power[i - 1]]

LEMMA SumSteps ==
    ASSUME NEW bytes \in Seq(Nat), Len(bytes) <= 8
    PROVE  /\ Unsigned(bytes) = Sum(bytes)[Len(bytes)]
           /\ Sum(bytes)[0] = 0
           /\ \A i \in 1 .. Len(bytes) : Sum(bytes)[i] = Sum(bytes)[i - 1] + bytes[i] * Power[i - 1]
<1> DEFINE n == Len(bytes)
           g == [p \in Nat \X (1 .. n) |-> p[1] + bytes[p[2]] * Power[p[2] - 1]]
<1>1. n \in Nat /\ \A i \in 1 .. n : i - 1 \in 0 .. 8 /\ bytes[i] \in Nat /\ Power[i - 1] \in Nat
    <2>1. n \in Nat /\ n <= 8 /\ \A i \in 1 .. n : bytes[i] \in Nat
        OBVIOUS
    <2> HIDE DEF n
    <2>2. \A i \in 1 .. n : i - 1 \in 0 .. 8
        BY <2>1
    <2> QED
        BY <2>1, <2>2, PowerSteps
<1> HIDE DEF n
<1>2. g \in [Nat \X (1 .. n) -> Nat]
    <2>1. ASSUME NEW p \in Nat \X (1 .. n) PROVE p[1] + bytes[p[2]] * Power[p[2] - 1] \in Nat
        <3> DEFINE a == p[1]
                   b == bytes[p[2]]
                   c == Power[p[2] - 1]
        <3>1. a \in Nat /\ b \in Nat /\ c \in Nat
            BY <1>1
        <3> HIDE DEF a, b, c
        <3>2. a + b * c \in Nat
            BY <3>1
        <3> QED
            BY <3>2 DEF a, b, c
    <2> QED
        BY <2>1
<1>3. PICK f \in [0 .. n -> Nat] : f[0] = 0 /\ \A i \in 1 .. n : f[i] = g[<<f[i - 1], i>>]
    <2>1. 0 \in Nat
        OBVIOUS
    <2> HIDE DEF g
    <2>2. \E f : Iterates(f, n, Nat, 0, g)
        BY <1>1, <1>2, <2>1, Recursion
    <2> QED
        BY <2>2 DEF Iterates
<1>4. \A i \in 1 .. n : f[i] = f[i - 1] + bytes[i] * Power[i - 1]
    <2> SUFFICES ASSUME NEW i \in 1 .. n PROVE f[i] = f[i - 1] + bytes[i] * Power[i - 1]
        OBVIOUS
    <2>1. <<f[i - 1], i>> \in Nat \X (1 .. n)
        BY <1>1
    <2> QED
        BY <1>3, <2>1
<1> DEFINE IsSum(h) == h = [i \in 0 .. n |-> IF i = 0 THEN 0 ELSE h[i - 1] + bytes[i] * Power[i - 1]]
<1>5. IsSum(f)
    BY <1>3, <1>4
<1>6. Sum(bytes) = CHOOSE h : IsSum(h)
    BY DEF Sum, n
<1>7. IsSum(Sum(bytes))
    <2> HIDE DEF IsSum
    <2> QED
        BY <1>5, <1>6
<1>8. Sum(bytes)[0] = 0 /\ \A i \in 1 .. n : Sum(bytes)[i] = Sum(bytes)[i - 1] + bytes[i] * Power[i - 1]
    BY <1>1, <1>7
<1> QED
    BY <1>8 DEF Unsigned, Sum, n

\* The first i sequences of seqs, one behind the other.
Flat(seqs) ==
    CHOOSE flatten :
        flatten = [i \in 1 .. Len(seqs) |-> IF i = 1 THEN seqs[i] ELSE flatten[i - 1] \o seqs[i]]
FirstOf(seqs, i) == IF i = 0 THEN << >> ELSE Flat(seqs)[i]

LEMMA FlatSteps ==
    ASSUME NEW A, NEW seqs \in Seq(Seq(A))
    PROVE  /\ FlattenSeq(seqs) = FirstOf(seqs, Len(seqs))
           /\ FirstOf(seqs, 0) = << >>
           /\ \A i \in 1 .. Len(seqs) : FirstOf(seqs, i) = FirstOf(seqs, i - 1) \o seqs[i]
           /\ \A i \in 0 .. Len(seqs) : FirstOf(seqs, i) \in Seq(A)
<1> DEFINE n == Len(seqs)
           g == [p \in Seq(A) \X (1 .. n) |-> p[1] \o seqs[p[2]]]
<1>1. n \in Nat /\ \A i \in 1 .. n : seqs[i] \in Seq(A)
    OBVIOUS
<1>2. seqs = << >> <=> n = 0
    OBVIOUS
<1> HIDE DEF n
<1>3. g \in [Seq(A) \X (1 .. n) -> Seq(A)]
    <2>1. ASSUME NEW p \in Seq(A) \X (1 .. n) PROVE p[1] \o seqs[p[2]] \in Seq(A)
        <3>1. p[1] \in Seq(A) /\ seqs[p[2]] \in Seq(A)
            BY <1>1
        <3> QED
            BY <3>1, ConcatProperties
    <2> QED
        BY <2>1
<1>4. PICK f : /\ f \in [0 .. n -> Seq(A)] /\ f[0] = << >>
               /\ \A i \in 1 .. n : f[i] = g[<<f[i - 1], i>>]
    <2>1. << >> \in Seq(A)
        OBVIOUS
    <2> HIDE DEF g
    <2>2. \E f : Iterates(f, n, Seq(A), << >>, g)
        BY <1>1, <1>3, <2>1, Recursion
    <2> QED
        BY <2>2 DEF Iterates
<1>5. \A i \in 1 .. n : f[i] = f[i - 1] \o seqs[i]
    <2> SUFFICES ASSUME NEW i \in 1 .. n PROVE f[i] = f[i - 1] \o seqs[i]
        OBVIOUS
    <2>1. <<f[i - 1], i>> \in Seq(A) \X (1 .. n)
        BY <1>1, <1>4
    <2> QED
        BY <1>4, <2>1
<1> DEFINE IsFlat(h) == h = [i \in 1 .. n |-> IF i = 1 THEN seqs[i] ELSE h[i - 1] \o seqs[i]]
           e == [i \in 1 .. n |-> f[i]]
<1>6. IsFlat(e)
    <2>1. ASSUME NEW i \in 1 .. n PROVE f[i] = IF i = 1 THEN seqs[i] ELSE e[i - 1] \o seqs[i]
        <3>1. CASE i = 1
            <4>0. 1 \in 1 .. n /\ 1 - 1 = 0
                BY <3>1
            <4>1. f[1] = f[0] \o seqs[1]
                <5>1. f[1] = f[1 - 1] \o seqs[1]
                    BY <1>5, <4>0
                <5> QED
                    BY <4>0, <5>1
            <4>2. f[1] = seqs[1]
                BY <1>1, <1>4, <3>1, <4>1, ConcatEmptySeq
            <4> QED
                BY <3>1, <4>2
        <3>2. CASE i # 1
            <4>1. i - 1 \in 1 .. n
                BY <1>1, <3>2
            <4> QED
                BY <1>5, <3>2, <4>1
        <3> QED
            BY <3>1, <3>2
    <2> QED
        BY <2>1, Zenon
<1>7. Flat(seqs) = CHOOSE h : IsFlat(h)
    BY DEF Flat, n
<1>8. IsFlat(Flat(seqs))
    <2> HIDE DEF IsFlat
    <2> QED
        BY <1>6, <1>7
<1>9. \A i \in 1 .. n : Flat(seqs)[i] = IF i = 1 THEN seqs[i] ELSE Flat(seqs)[i - 1] \o seqs[i]
    BY <1>8
<1>10. FirstOf(seqs, 0) = << >>
    BY DEF FirstOf
<1>11. \A i \in 1 .. n : FirstOf(seqs, i) = FirstOf(seqs, i - 1) \o seqs[i]
    <2> SUFFICES ASSUME NEW i \in 1 .. n PROVE FirstOf(seqs, i) = FirstOf(seqs, i - 1) \o seqs[i]
        OBVIOUS
    <2>1. CASE i = 1
        <3>1. FirstOf(seqs, i) = seqs[i]
            BY <1>9, <2>1 DEF FirstOf
        <3>2. << >> \o seqs[i] = seqs[i]
            BY <1>1, ConcatEmptySeq
        <3>3. i - 1 = 0
            BY <2>1
        <3> QED
            BY <1>10, <3>1, <3>2, <3>3
    <2>2. CASE i # 1
        <3>1. i # 0 /\ i - 1 # 0
            BY <2>2
        <3> QED
            BY <1>9, <2>2, <3>1 DEF FirstOf
    <2> QED
        BY <2>1, <2>2
<1>12. \A i \in 0 .. n : FirstOf(seqs, i) \in Seq(A)
    <2> DEFINE T == {i \in 0 .. n : FirstOf(seqs, i) \in Seq(A)}
    <2>1. 0 \in T
        <3>1. 0 \in 0 .. n /\ << >> \in Seq(A)
            BY <1>1
        <3> QED
            BY <1>10, <3>1
    <2>2. ASSUME NEW i \in 1 .. n, i - 1 \in T PROVE i \in T
        <3>1. FirstOf(seqs, i - 1) \in Seq(A) /\ seqs[i] \in Seq(A) /\ i \in 0 .. n
            BY <1>1, <2>2
        <3>2. FirstOf(seqs, i - 1) \o seqs[i] \in Seq(A)
            <4> HIDE DEF T
            <4> QED
                BY <3>1, ConcatProperties
        <3> QED
            BY <1>11, <3>1, <3>2
    <2>3. \A i \in 0 .. n : i \in T
        <3> HIDE DEF T
        <3> QED
            BY <1>1, <2>1, <2>2, Induction
    <2> QED
        BY <2>3
<1>13. FlattenSeq(seqs) = FirstOf(seqs, n)
    BY <1>2 DEF FlattenSeq, FirstOf, Flat, n
<1> QED
    BY <1>10, <1>11, <1>12, <1>13 DEF n

LEMMA FlatType ==
    ASSUME NEW A, NEW seqs \in Seq(Seq(A))
    PROVE  FlattenSeq(seqs) \in Seq(A)
<1>1. Len(seqs) \in 0 .. Len(seqs)
    OBVIOUS
<1> QED
    BY <1>1, FlatSteps

LEMMA FlatEmpty == FlattenSeq(<< >>) = << >>
BY DEF FlattenSeq

LEMMA FlatAppend ==
    ASSUME NEW A, NEW seqs \in Seq(Seq(A)), NEW s \in Seq(A)
    PROVE  FlattenSeq(Append(seqs, s)) = FlattenSeq(seqs) \o s
<1> DEFINE more == Append(seqs, s)
           n == Len(seqs)
           T == {i \in 0 .. n : FirstOf(more, i) = FirstOf(seqs, i)}
<1>1. /\ more \in Seq(Seq(A)) /\ Len(more) = n + 1 /\ n \in Nat /\ more[n + 1] = s
      /\ \A i \in 1 .. n : more[i] = seqs[i] /\ i \in 1 .. Len(more)
    OBVIOUS
<1> HIDE DEF more
<1>2. \A i \in 1 .. Len(more) : FirstOf(more, i) = FirstOf(more, i - 1) \o more[i]
    BY <1>1, FlatSteps
<1>3. \A i \in 1 .. n : FirstOf(seqs, i) = FirstOf(seqs, i - 1) \o seqs[i]
    BY FlatSteps
<1>4. FlattenSeq(more) = FirstOf(more, Len(more)) /\ FlattenSeq(seqs) = FirstOf(seqs, n)
    BY <1>1, FlatSteps
<1> HIDE DEF n
<1>5. 0 \in T
    BY <1>1 DEF FirstOf
<1>6. ASSUME NEW i \in 1 .. n, i - 1 \in T PROVE i \in T
    <2>1. i \in 0 .. n /\ more[i] = seqs[i] /\ i \in 1 .. Len(more)
        BY <1>1
    <2>2. FirstOf(more, i - 1) = FirstOf(seqs, i - 1)
        BY <1>6
    <2> QED
        BY <1>2, <1>3, <2>1, <2>2
<1>7. FirstOf(more, n) = FirstOf(seqs, n)
    <2>1. \A i \in 0 .. n : i \in T
        <3> HIDE DEF T
        <3> QED
            BY <1>1, <1>5, <1>6, Induction
    <2> QED
        BY <1>1, <2>1
<1>8. FirstOf(more, n + 1) = FirstOf(more, n) \o s
    <2>1. n + 1 \in 1 .. Len(more) /\ (n + 1) - 1 = n
        BY <1>1
    <2> QED
        BY <1>1, <1>2, <2>1
<1> QED
    BY <1>1, <1>4, <1>7, <1>8 DEF more

\* The provers expand s \o t where they see it; here it is one term.
Join(s, t) == s \o t

LEMMA JoinAssociative ==
    ASSUME NEW A, NEW s \in Seq(A), NEW t \in Seq(A), NEW u \in Seq(A)
    PROVE  Join(Join(s, t), u) = Join(s, Join(t, u))
BY ConcatAssociative DEF Join

LEMMA FlatHead ==
    ASSUME NEW A, NEW seqs \in Seq(Seq(A)), seqs # << >>
    PROVE  FlattenSeq(seqs) = Head(seqs) \o FlattenSeq(Tail(seqs))
<1> DEFINE rest == Tail(seqs)
           first == Head(seqs)
           n == Len(rest)
           T == {i \in 0 .. n : FirstOf(seqs, i + 1) = first \o FirstOf(rest, i)}
<1>1. /\ rest \in Seq(Seq(A)) /\ Len(seqs) = n + 1 /\ n \in Nat /\ seqs[1] = first /\ first \in Seq(A)
      /\ \A i \in 1 .. n : rest[i] = seqs[i + 1] /\ rest[i] \in Seq(A)
    OBVIOUS
<1> HIDE DEF rest, first
<1>2. \A i \in 1 .. Len(seqs) : FirstOf(seqs, i) = FirstOf(seqs, i - 1) \o seqs[i]
    BY FlatSteps
<1>3. /\ \A i \in 1 .. n : FirstOf(rest, i) = FirstOf(rest, i - 1) \o rest[i]
      /\ \A i \in 0 .. n : FirstOf(rest, i) \in Seq(A)
    BY <1>1, FlatSteps
<1>4. FlattenSeq(seqs) = FirstOf(seqs, n + 1) /\ FlattenSeq(rest) = FirstOf(rest, n)
    BY <1>1, FlatSteps
<1> HIDE DEF n
<1>5. 0 \in T
    <2>1. 1 \in 1 .. Len(seqs) /\ 1 - 1 = 0
        BY <1>1
    <2>2. FirstOf(seqs, 1) = << >> \o seqs[1]
        BY <1>2, <2>1 DEF FirstOf
    <2>3. << >> \o first = first /\ first \o << >> = first
        BY <1>1, ConcatEmptySeq
    <2>4. FirstOf(rest, 0) = << >>
        BY DEF FirstOf
    <2>5. FirstOf(seqs, 0 + 1) = first \o FirstOf(rest, 0)
        BY <1>1, <2>2, <2>3, <2>4
    <2> QED
        BY <1>1, <2>5
<1>6. ASSUME NEW i \in 1 .. n, i - 1 \in T PROVE i \in T
    <2>1. /\ i \in 0 .. n /\ i - 1 \in 0 .. n /\ i + 1 \in 1 .. Len(seqs)
          /\ (i + 1) - 1 = i /\ (i - 1) + 1 = i
        BY <1>1
    <2>2. FirstOf(seqs, i) = first \o FirstOf(rest, i - 1)
        BY <1>6, <2>1
    <2>3. FirstOf(seqs, i + 1) = FirstOf(seqs, i) \o rest[i]
        BY <1>1, <1>2, <2>1
    <2>4. FirstOf(rest, i - 1) \in Seq(A) /\ rest[i] \in Seq(A) /\ first \in Seq(A)
        BY <1>1, <1>3, <2>1
    <2>5. FirstOf(seqs, i) = Join(first, FirstOf(rest, i - 1))
        BY <2>2 DEF Join
    <2>6. Join(FirstOf(seqs, i), rest[i]) = Join(first, Join(FirstOf(rest, i - 1), rest[i]))
        BY <2>4, <2>5, JoinAssociative
    <2>7. FirstOf(seqs, i) \o rest[i] = first \o (FirstOf(rest, i - 1) \o rest[i])
        BY <2>6 DEF Join
    <2> QED
        BY <1>3, <2>1, <2>3, <2>7
<1>7. FirstOf(seqs, n + 1) = first \o FirstOf(rest, n)
    <2>1. \A i \in 0 .. n : i \in T
        <3> HIDE DEF T
        <3> QED
            BY <1>1, <1>5, <1>6, Induction
    <2> QED
        BY <1>1, <2>1
<1> QED
    BY <1>4, <1>7 DEF first, rest

\* Pieces of the same length w: where their elements are.
LEMMA FlatEven ==
    ASSUME NEW A, NEW seqs \in Seq(Seq(A)), NEW w \in Widths,
           \A i \in 1 .. Len(seqs) : Len(seqs[i]) = w
    PROVE  /\ Len(FlattenSeq(seqs)) = w * Len(seqs)
           /\ \A k \in 1 .. Len(seqs), j \in 1 .. w : FlattenSeq(seqs)[(k - 1) * w + j] = seqs[k][j]
<1> DEFINE n == Len(seqs)
           Even(i) == /\ Len(FirstOf(seqs, i)) = w * i
                      /\ \A k \in 1 .. i, j \in 1 .. w : FirstOf(seqs, i)[(k - 1) * w + j] = seqs[k][j]
           T == {i \in 0 .. n : Even(i)}
<1>1. n \in Nat /\ (\A i \in 1 .. n : seqs[i] \in Seq(A) /\ Len(seqs[i]) = w) /\ w \in {1, 2, 4, 8}
    BY DEF Widths
<1>2. /\ \A i \in 1 .. n : FirstOf(seqs, i) = FirstOf(seqs, i - 1) \o seqs[i]
      /\ \A i \in 0 .. n : FirstOf(seqs, i) \in Seq(A)
      /\ FlattenSeq(seqs) = FirstOf(seqs, n)
    BY FlatSteps
<1> HIDE DEF n
<1>3. 0 \in T
    <2>1. FirstOf(seqs, 0) = << >> /\ Len(<< >>) = 0 /\ w * 0 = 0 /\ 1 .. 0 = {}
        BY <1>1 DEF FirstOf
    <2>2. Even(0)
        BY <2>1
    <2> HIDE DEF Even
    <2> QED
        BY <1>1, <2>2
<1>4. ASSUME NEW i \in 1 .. n, i - 1 \in T PROVE i \in T
    <2> DEFINE old == FirstOf(seqs, i - 1)
               new == FirstOf(seqs, i)
    <2>1. i \in 0 .. n /\ i - 1 \in 0 .. n /\ i \in Nat
        BY <1>1
    <2>2. /\ Len(old) = w * (i - 1)
          /\ \A k \in 1 .. i - 1, j \in 1 .. w : old[(k - 1) * w + j] = seqs[k][j]
        BY <1>4
    <2>3. old \in Seq(A) /\ seqs[i] \in Seq(A) /\ Len(seqs[i]) = w /\ new = old \o seqs[i]
        BY <1>1, <1>2, <2>1
    <2> HIDE DEF old, new
    <2>4. /\ Len(new) = Len(old) + w
          /\ \A m \in 1 .. Len(old) + w : new[m] = IF m <= Len(old) THEN old[m] ELSE seqs[i][m - Len(old)]
        BY <2>3, ConcatProperties
    <2>5. w * (i - 1) + w = w * i /\ w * (i - 1) = (i - 1) * w
        BY <1>1, <2>1
    <2>6. ASSUME NEW k \in 1 .. i, NEW j \in 1 .. w PROVE new[(k - 1) * w + j] = seqs[k][j]
        <3> DEFINE m == (k - 1) * w + j
        <3>1. CASE k = i
            <4>1. m = Len(old) + j /\ m \in 1 .. Len(old) + w /\ ~(m <= Len(old)) /\ m - Len(old) = j
                BY <1>1, <2>1, <2>2, <2>5, <3>1
            <4> HIDE DEF m
            <4>2. new[m] = seqs[i][j]
                BY <2>4, <4>1
            <4> QED
                BY <3>1, <4>2 DEF m
        <3>2. CASE k # i
            <4>1. k \in 1 .. i - 1
                BY <2>1, <3>2
            <4>2. m \in 1 .. Len(old) + w /\ m <= Len(old)
                BY <1>1, <2>1, <2>2, <4>1
            <4>3. new[m] = old[m]
                <5> HIDE DEF m
                <5> QED
                    BY <2>4, <4>2
            <4> QED
                BY <2>2, <4>1, <4>3
        <3> QED
            BY <3>1, <3>2
    <2>7. Len(new) = w * i
        BY <2>2, <2>4, <2>5
    <2>8. Even(i)
        BY <2>6, <2>7 DEF new
    <2> HIDE DEF Even
    <2> QED
        BY <2>1, <2>8
<1>5. Even(n)
    <2>1. \A i \in 0 .. n : i \in T
        <3> HIDE DEF T
        <3> QED
            BY <1>1, <1>3, <1>4, Induction
    <2>2. n \in 0 .. n
        BY <1>1
    <2> HIDE DEF Even
    <2> QED
        BY <2>1, <2>2
<1> QED
    BY <1>2, <1>5 DEF n

------------------------------------------------------------------------------
(* Digits. *)

LEMMA Product == \A a, b \in Nat : a * b \in Nat
OBVIOUS

LEMMA Monotone ==
    ASSUME NEW b \in Nat, NEW x \in Int, NEW y \in Int, x < y
    PROVE  b * x + b <= b * y
<1>1. PICK d \in Nat : y = x + 1 + d
    <2>1. y - x - 1 \in Nat /\ y = x + 1 + (y - x - 1)
        OBVIOUS
    <2> QED
        BY <2>1
<1>2. b * y = b * x + b + b * d
    BY <1>1
<1>3. b * d \in Nat
    BY Product
<1>4. b * x \in Int /\ b * y \in Int
    OBVIOUS
<1> QED
    BY <1>2, <1>3, <1>4

LEMMA DivMod ==
    ASSUME NEW n \in Int, NEW b \in Nat \ {0}
    PROVE  n \div b \in Int /\ n % b \in 0 .. b - 1 /\ n = b * (n \div b) + (n % b)
OBVIOUS

LEMMA Quotient ==
    ASSUME NEW n \in Int, NEW b \in Nat \ {0}, NEW q \in Int, NEW r \in 0 .. b - 1, n = b * q + r
    PROVE  n \div b = q /\ n % b = r
<1> DEFINE d == n \div b
           m == n % b
<1>1. d \in Int /\ m \in 0 .. b - 1 /\ n = b * d + m
    BY DivMod
<1> HIDE DEF d, m
<1>2. b * d \in Int /\ b * q \in Int /\ b \in Nat
    BY <1>1
<1>3. ~(d < q)
    <2>1. ASSUME d < q PROVE FALSE
        <3>1. b * d + b <= b * q
            BY <1>1, <2>1, Monotone
        <3> QED
            BY <1>1, <1>2, <3>1
    <2> QED
        BY <2>1
<1>4. ~(q < d)
    <2>1. ASSUME q < d PROVE FALSE
        <3>1. b * q + b <= b * d
            BY <1>1, <2>1, Monotone
        <3> QED
            BY <1>1, <1>2, <3>1
    <2> QED
        BY <2>1
<1>5. d = q
    BY <1>1, <1>3, <1>4
<1>6. m = r
    BY <1>1, <1>2, <1>5
<1> QED
    BY <1>5, <1>6 DEF d, m

LEMMA DivDiv ==
    ASSUME NEW n \in Int, NEW p \in Nat \ {0}, NEW b \in Nat \ {0}
    PROVE  (n \div p) \div b = n \div (b * p) /\ b * p \in Nat \ {0}
<1> DEFINE q1 == n \div p
           r1 == n % p
           q2 == q1 \div b
           r2 == q1 % b
<1>1. q1 \in Int /\ r1 \in 0 .. p - 1 /\ n = p * q1 + r1
    BY DivMod
<1> HIDE DEF q1, r1
<1>2. q2 \in Int /\ r2 \in 0 .. b - 1 /\ q1 = b * q2 + r2
    BY <1>1, DivMod
<1> HIDE DEF q2, r2
<1>3. b * p \in Nat \ {0}
    OBVIOUS
<1>4. p * r2 + r1 \in 0 .. b * p - 1
    <2>1. p * r2 + p <= p * b
        BY <1>2, Monotone
    <2>2. p * r2 \in Nat
        BY <1>2, Product
    <2>3. p * b = b * p
        OBVIOUS
    <2> QED
        BY <1>1, <1>3, <2>1, <2>2, <2>3
<1>5. n = (b * p) * q2 + (p * r2 + r1)
    <2>1. p * q1 = (b * p) * q2 + p * r2
        BY <1>2
    <2>2. p * q1 \in Int /\ (b * p) * q2 \in Int /\ p * r2 \in Int
        BY <1>1, <1>2
    <2> QED
        BY <1>1, <2>1, <2>2
<1>6. n \div (b * p) = q2
    BY <1>2, <1>3, <1>4, <1>5, Quotient
<1> QED
    BY <1>3, <1>6 DEF q1, q2

LEMMA Widest == \A w \in Widths : w \in 1 .. 8
BY DEF Widths

LEMMA PowerOf == \A w \in Widths : Power[w] \in Nat \ {0}
BY Widest, PowerSteps

LEMMA BytesOfNumber ==
    ASSUME NEW n \in Int, NEW w \in Widths
    PROVE  LittleEndian(n, w) \in Seq(Bytes) /\ Len(LittleEndian(n, w)) = w
<1>1. Base \in Nat \ {0} /\ w \in Nat
    BY BufferAssumption, Widest
<1>2. ASSUME NEW i \in 1 .. w PROVE (n \div Power[i - 1]) % Base \in Bytes
    <2> DEFINE p == Power[i - 1]
    <2>1. p \in Nat \ {0}
        <3>1. i - 1 \in 0 .. 8
            BY Widest
        <3> QED
            BY <3>1, PowerSteps
    <2> HIDE DEF p
    <2>2. n \div p \in Int
        BY <2>1, DivMod
    <2> DEFINE d == n \div p
    <2> HIDE DEF d
    <2>3. d % Base \in 0 .. Base - 1
        BY <1>1, <2>2, DivMod DEF d
    <2> QED
        BY <2>3 DEF p, d, Bytes
<1>3. LittleEndian(n, w) \in [1 .. w -> Bytes]
    BY <1>2 DEF LittleEndian
<1> QED
    BY <1>1, <1>3

\* The sum of the first i bytes of a number is what is left of it when it is divided.
LEMMA NumberOfBytes ==
    ASSUME NEW n \in Int, NEW w \in Widths
    PROVE  Unsigned(LittleEndian(n, w)) = n % Power[w]
<1> DEFINE s == LittleEndian(n, w)
           T == {i \in 0 .. w : Sum(s)[i] = n - Power[i] * (n \div Power[i])}
<1>1. w \in 1 .. 8 /\ w \in Nat /\ Base \in Nat \ {0} /\ Bytes \subseteq Nat
    BY Widest, BufferAssumption DEF Bytes
<1>2. s \in Seq(Bytes) /\ s \in Seq(Nat) /\ Len(s) = w /\ w <= 8
    <2>1. s \in Seq(Bytes) /\ Len(s) = w
        BY BytesOfNumber
    <2> HIDE DEF s
    <2>2. s \in Seq(Nat)
        BY <1>1, <2>1, SeqMonotonic
    <2> QED
        BY <1>1, <2>1, <2>2
<1>3. \A i \in 1 .. w : s[i] = (n \div Power[i - 1]) % Base
    BY DEF LittleEndian
<1> HIDE DEF s
<1>4. /\ Unsigned(s) = Sum(s)[w] /\ Sum(s)[0] = 0
      /\ \A i \in 1 .. w : Sum(s)[i] = Sum(s)[i - 1] + s[i] * Power[i - 1]
    BY <1>2, SumSteps
<1>5. 0 \in T
    <2>1. n \div 1 = n
        OBVIOUS
    <2>2. Power[0] = 1 /\ 0 \in 0 .. w /\ n - 1 * n = 0
        BY <1>1, PowerSteps
    <2> QED
        BY <1>4, <2>1, <2>2
<1>6. ASSUME NEW i \in 1 .. w, i - 1 \in T PROVE i \in T
    <2> DEFINE p == Power[i - 1]
               q == n \div p
               q2 == q \div Base
               d == q % Base
    <2>1. i - 1 \in 0 .. 8 /\ i \in 1 .. 8 /\ i \in 0 .. w
        BY <1>1
    <2>2. p \in Nat \ {0} /\ Power[i] = Base * p
        BY <2>1, PowerSteps
    <2>3. Sum(s)[i - 1] = n - p * q
        BY <1>6
    <2>4. Sum(s)[i] = Sum(s)[i - 1] + s[i] * p /\ s[i] = d
        BY <1>3, <1>4
    <2> HIDE DEF p
    <2>5. q \in Int
        BY <2>2, DivMod
    <2>6. n \div Power[i] = q2
        <3>1. (n \div p) \div Base = n \div (Base * p)
            BY <1>1, <2>2, DivDiv
        <3> QED
            BY <2>2, <3>1
    <2> HIDE DEF q
    <2>7. q2 \in Int /\ d \in Nat /\ q = Base * q2 + d
        BY <1>1, <2>5, DivMod
    <2> HIDE DEF q2, d
    <2>8. p * q = (Base * p) * q2 + d * p
        BY <1>1, <2>2, <2>7
    <2>9. p * q \in Int /\ (Base * p) * q2 \in Int /\ d * p \in Int
        BY <1>1, <2>2, <2>5, <2>7
    <2>10. Sum(s)[i] = n - (Base * p) * q2
        BY <2>3, <2>4, <2>8, <2>9
    <2> QED
        BY <2>1, <2>2, <2>6, <2>10
<1>7. Sum(s)[w] = n - Power[w] * (n \div Power[w])
    <2>1. \A i \in 0 .. w : i \in T
        <3> HIDE DEF T
        <3> QED
            BY <1>1, <1>5, <1>6, Induction
    <2> QED
        BY <1>1, <2>1
<1>8. Power[w] \in Nat \ {0}
    BY <1>1, PowerSteps
<1> DEFINE p == Power[w]
<1> HIDE DEF p
<1> DEFINE q == n \div p
           r == n % p
<1>9. n = p * q + r /\ q \in Int /\ r \in Int
    <2>1. p \in Nat \ {0}
        BY <1>8 DEF p
    <2> QED
        BY <2>1, DivMod
<1>10. Unsigned(s) = n - p * q
    BY <1>4, <1>7 DEF p
<1> HIDE DEF q, r
<1>11. p * q \in Int
    BY <1>8, <1>9 DEF p
<1>12. Unsigned(s) = r
    BY <1>9, <1>10, <1>11
<1> QED
    BY <1>12 DEF s, p, r

LEMMA UnsignedBack ==
    ASSUME NEW w \in Widths, NEW n \in 0 .. Power[w] - 1
    PROVE  Unsigned(LittleEndian(n, w)) = n
<1>1. Power[w] \in Nat \ {0}
    BY PowerOf
<1> DEFINE p == Power[w]
<1> HIDE DEF p
<1>2. n \in 0 .. p - 1 /\ p \in Nat \ {0} /\ 0 \in Int /\ n = p * 0 + n
    BY <1>1 DEF p
<1>3. n % p = n
    BY <1>2, Quotient
<1> QED
    BY <1>2, <1>3, NumberOfBytes DEF p

\* A number that fits its type is read from the bytes operator<< makes of it as it was
\* written: the bytes of a negative one are its two's complement, and the sign returns.
THEOREM NumberRoundTrip ==
    ASSUME NEW n, NEW w \in Widths, NEW signed \in BOOLEAN, Fits(n, w, signed)
    PROVE  Number(LittleEndian(n, w), signed) = n
<1> DEFINE p == Power[w]
           u == Unsigned(LittleEndian(n, w))
<1>1. p \in Nat \ {0} /\ n \in Int
    BY PowerOf DEF Fits
<1>2. Len(LittleEndian(n, w)) = w
    BY <1>1, BytesOfNumber
<1>3. Number(LittleEndian(n, w), signed) = IF signed /\ 2 * u >= p THEN u - p ELSE u
    BY <1>2 DEF Number
<1>4. CASE n >= 0
    <2>1. n \in 0 .. p - 1 /\ ~(signed /\ 2 * n >= p)
        BY <1>1, <1>4 DEF Fits
    <2>2. u = n
        BY <2>1, UnsignedBack
    <2> QED
        BY <1>3, <2>1, <2>2
<1>5. CASE n < 0
    <2>1. signed /\ 2 * (n + p) >= p /\ n + p \in 0 .. p - 1
        BY <1>1, <1>5 DEF Fits
    <2>2. u = n % p
        BY <1>1, NumberOfBytes
    <2> HIDE DEF p, u
    <2>3. n = p * (-1) + (n + p) /\ -1 \in Int
        BY <1>1
    <2>4. u = n + p
        BY <1>1, <2>1, <2>2, <2>3, Quotient
    <2>5. u - p = n
        BY <1>1, <2>4
    <2> QED
        BY <1>3, <2>1, <2>4, <2>5
<1> QED
    BY <1>1, <1>4, <1>5

LEMMA Zeros ==
    ASSUME NEW w \in Widths
    PROVE  Unsigned([j \in 1 .. w |-> 0]) = 0
<1>1. ASSUME NEW j \in 1 .. w PROVE (0 \div Power[j - 1]) % Base = 0
    <2> DEFINE p == Power[j - 1]
    <2>1. j - 1 \in 0 .. 8
        BY Widest
    <2>2. p \in Nat \ {0} /\ Base \in Nat \ {0}
        BY <2>1, PowerSteps, BufferAssumption
    <2> HIDE DEF p
    <2>3. 0 \div p = 0
        <3>1. 0 \in 0 .. p - 1 /\ 0 = p * 0 + 0 /\ 0 \in Int
            BY <2>2
        <3> QED
            BY <2>2, <3>1, Quotient
    <2>4. 0 % Base = 0
        <3>1. 0 \in 0 .. Base - 1 /\ 0 = Base * 0 + 0 /\ 0 \in Int
            BY <2>2
        <3> QED
            BY <2>2, <3>1, Quotient
    <2> QED
        BY <2>3, <2>4 DEF p
<1>2. LittleEndian(0, w) = [j \in 1 .. w |-> 0]
    BY <1>1 DEF LittleEndian
<1>3. Power[w] \in Nat \ {0}
    BY PowerOf
<1>4. 0 \in 0 .. Power[w] - 1
    BY <1>3
<1> QED
    BY <1>2, <1>4, UnsignedBack

------------------------------------------------------------------------------
(* Sequences of numbers as bytes. *)

LEMMA ElementsOf ==
    ASSUME NEW w \in Widths, NEW ns \in Seq(Int)
    PROVE  /\ Elements(ns, w) \in Seq(Bytes)
           /\ Len(Elements(ns, w)) = w * Len(ns)
           /\ \A k \in 1 .. Len(ns), j \in 1 .. w :
                  Elements(ns, w)[(k - 1) * w + j] = LittleEndian(ns[k], w)[j]
<1> DEFINE pieces == [i \in DOMAIN ns |-> LittleEndian(ns[i], w)]
<1>1. Len(ns) \in Nat /\ DOMAIN ns = 1 .. Len(ns) /\ \A i \in 1 .. Len(ns) : ns[i] \in Int
    OBVIOUS
<1>2. \A i \in 1 .. Len(ns) : LittleEndian(ns[i], w) \in Seq(Bytes) /\ Len(LittleEndian(ns[i], w)) = w
    BY <1>1, BytesOfNumber
<1>3. pieces = [i \in 1 .. Len(ns) |-> LittleEndian(ns[i], w)]
    BY <1>1
<1>4. pieces \in Seq(Seq(Bytes)) /\ Len(pieces) = Len(ns)
    BY <1>1, <1>2, <1>3
<1>5. \A i \in 1 .. Len(ns) : pieces[i] = LittleEndian(ns[i], w) /\ Len(pieces[i]) = w
    BY <1>2, <1>3
<1>6. Elements(ns, w) = FlattenSeq(pieces)
    BY DEF Elements
<1> HIDE DEF pieces
<1>7. w \in {1, 2, 4, 8}
    BY DEF Widths
<1>8. Elements(ns, w) \in Seq(Bytes)
    BY <1>4, <1>6, FlatType
<1>9. /\ Len(Elements(ns, w)) = w * Len(ns)
      /\ \A k \in 1 .. Len(ns), j \in 1 .. w : Elements(ns, w)[(k - 1) * w + j] = pieces[k][j]
    <2>1. \A i \in 1 .. Len(pieces) : Len(pieces[i]) = w
        BY <1>4, <1>5
    <2>2. /\ Len(FlattenSeq(pieces)) = w * Len(pieces)
          /\ \A k \in 1 .. Len(pieces), j \in 1 .. w : FlattenSeq(pieces)[(k - 1) * w + j] = pieces[k][j]
        BY <1>4, <2>1, FlatEven
    <2> QED
        BY <1>4, <1>6, <2>2
<1> QED
    BY <1>5, <1>8, <1>9

LEMMA ElementsOfOneByte ==
    ASSUME NEW ns \in Seq(Bytes)
    PROVE  Elements(ns, 1) = ns
<1>1. 1 \in Widths /\ Bytes \subseteq Int /\ Base \in Nat \ {0} /\ Power[0] = 1 /\ Bytes = 0 .. Base - 1
    BY BufferAssumption, PowerSteps DEF Widths, Bytes
<1>2. ns \in Seq(Int) /\ Len(ns) \in Nat
    BY <1>1, SeqMonotonic
<1>3. ASSUME NEW n \in Bytes PROVE LittleEndian(n, 1)[1] = n
    <2>1. n \in Int /\ n \div 1 = n
        BY <1>1
    <2>2. n = Base * 0 + n /\ 0 \in Int /\ n \in 0 .. Base - 1
        BY <1>1
    <2>3. n % Base = n
        BY <1>1, <2>1, <2>2, Quotient
    <2>4. LittleEndian(n, 1)[1] = (n \div Power[1 - 1]) % Base
        BY DEF LittleEndian
    <2>5. Power[1 - 1] = 1
        BY <1>1
    <2> QED
        BY <2>1, <2>3, <2>4, <2>5
<1>4. /\ Elements(ns, 1) \in Seq(Bytes) /\ Len(Elements(ns, 1)) = 1 * Len(ns)
      /\ \A k \in 1 .. Len(ns), j \in 1 .. 1 : Elements(ns, 1)[(k - 1) * 1 + j] = LittleEndian(ns[k], 1)[j]
    BY <1>1, <1>2, ElementsOf
<1>5. ASSUME NEW k \in 1 .. Len(ns) PROVE Elements(ns, 1)[k] = ns[k]
    <2>1. (k - 1) * 1 + 1 = k /\ 1 \in 1 .. 1 /\ ns[k] \in Bytes
        OBVIOUS
    <2>2. Elements(ns, 1)[(k - 1) * 1 + 1] = LittleEndian(ns[k], 1)[1]
        BY <1>4, <2>1
    <2> QED
        BY <1>3, <2>1, <2>2
<1>6. Len(Elements(ns, 1)) = Len(ns)
    BY <1>2, <1>4
<1> QED
    BY <1>4, <1>5, <1>6, SeqEqual

\* Of the elements that are made of the bytes, as many as there are bytes, the first
\* are those that were written and the others 0.
LEMMA FilledBack ==
    ASSUME NEW w \in Widths, NEW ns \in Seq(0 .. Power[w] - 1)
    PROVE  Filled(Elements(ns, w), w * Len(ns), w) = ns \o [i \in 1 .. Len(ns) * (w - 1) |-> 0]
<1> DEFINE n == Len(ns)
           bytes == Elements(ns, w)
           byte(i) == IF i <= Len(bytes) THEN bytes[i] ELSE 0
           filled == [k \in 1 .. w * n |-> Unsigned([j \in 1 .. w |-> byte((k - 1) * w + j)])]
           zeros == [i \in 1 .. n * (w - 1) |-> 0]
<1>1. w \in {1, 2, 4, 8} /\ n \in Nat /\ 0 .. Power[w] - 1 \subseteq Int /\ Power[w] \in Nat \ {0}
    <2>1. w \in {1, 2, 4, 8} /\ n \in Nat
        BY DEF Widths
    <2>2. Power[w] \in Nat \ {0}
        BY PowerOf
    <2> QED
        BY <2>1, <2>2
<1>2. ns \in Seq(Int) /\ \A k \in 1 .. n : ns[k] \in 0 .. Power[w] - 1
    BY <1>1, SeqMonotonic
<1>3. Len(bytes) = w * n /\ \A k \in 1 .. n, j \in 1 .. w : bytes[(k - 1) * w + j] = LittleEndian(ns[k], w)[j]
    BY <1>2, ElementsOf
<1>4. Filled(Elements(ns, w), w * Len(ns), w) = filled
    BY DEF Filled
<1> HIDE DEF n, bytes
<1>5. ASSUME NEW k \in 1 .. n PROVE Unsigned([j \in 1 .. w |-> byte((k - 1) * w + j)]) = ns[k]
    <2>1. \A j \in 1 .. w : (k - 1) * w + j <= w * n
        BY <1>1
    <2>2. \A j \in 1 .. w : byte((k - 1) * w + j) = LittleEndian(ns[k], w)[j]
        BY <1>3, <2>1
    <2>3. LittleEndian(ns[k], w) = [j \in 1 .. w |-> LittleEndian(ns[k], w)[j]]
        BY DEF LittleEndian
    <2>4. [j \in 1 .. w |-> byte((k - 1) * w + j)] = LittleEndian(ns[k], w)
        <3> HIDE DEF byte
        <3> QED
            BY <2>2, <2>3
    <2> QED
        BY <1>2, <2>4, UnsignedBack
<1>6. ASSUME NEW k \in n + 1 .. w * n PROVE Unsigned([j \in 1 .. w |-> byte((k - 1) * w + j)]) = 0
    <2>1. \A j \in 1 .. w : ~((k - 1) * w + j <= w * n)
        BY <1>1
    <2>2. \A j \in 1 .. w : byte((k - 1) * w + j) = 0
        BY <1>3, <2>1
    <2>3. [j \in 1 .. w |-> byte((k - 1) * w + j)] = [j \in 1 .. w |-> 0]
        <3> HIDE DEF byte
        <3> QED
            BY <2>2
    <2> QED
        BY <2>3, Zeros
<1>7. filled \in Seq(Int) /\ Len(filled) = w * n /\ \A k \in 1 .. w * n : filled[k] = IF k <= n THEN ns[k] ELSE 0
    <2>1. ASSUME NEW k \in 1 .. w * n PROVE filled[k] = IF k <= n THEN ns[k] ELSE 0
        <3>1. k <= n => k \in 1 .. n
            BY <1>1
        <3>2. ~(k <= n) => k \in n + 1 .. w * n
            BY <1>1
        <3>3. filled[k] = Unsigned([j \in 1 .. w |-> byte((k - 1) * w + j)])
            OBVIOUS
        <3> HIDE DEF filled, byte
        <3> QED
            BY <1>5, <1>6, <3>1, <3>2, <3>3
    <2>2. \A k \in 1 .. w * n : k <= n => ns[k] \in Int
        BY <1>1, <1>2
    <2>3. w * n \in Nat
        BY <1>1
    <2>4. filled = [k \in 1 .. w * n |-> filled[k]]
        OBVIOUS
    <2> HIDE DEF filled
    <2>5. \A k \in 1 .. w * n : filled[k] \in Int
        BY <2>1, <2>2
    <2> QED
        BY <2>1, <2>3, <2>4, <2>5
<1>8. zeros \in Seq(Int) /\ Len(zeros) = n * (w - 1) /\ \A i \in 1 .. n * (w - 1) : zeros[i] = 0
    <2>1. n * (w - 1) \in Nat
        BY <1>1
    <2> QED
        BY <2>1
<1>9. n + n * (w - 1) = w * n
    BY <1>1
<1> HIDE DEF filled, zeros
<1>10. /\ ns \o zeros \in Seq(Int) /\ Len(ns \o zeros) = w * n
       /\ \A k \in 1 .. w * n : (ns \o zeros)[k] = IF k <= n THEN ns[k] ELSE zeros[k - n]
    <2>1. Len(ns) = n
        BY DEF n
    <2>2. /\ ns \o zeros \in Seq(Int) /\ Len(ns \o zeros) = Len(ns) + Len(zeros)
          /\ \A k \in 1 .. Len(ns) + Len(zeros) : (ns \o zeros)[k] = IF k <= Len(ns) THEN ns[k] ELSE zeros[k - Len(ns)]
        BY <1>2, <1>8, ConcatProperties
    <2> QED
        BY <1>8, <1>9, <2>1, <2>2
<1>11. ASSUME NEW k \in 1 .. w * n PROVE (ns \o zeros)[k] = filled[k]
    <2>1. ~(k <= n) => k - n \in 1 .. n * (w - 1)
        BY <1>1, <1>9
    <2> QED
        BY <1>7, <1>8, <1>10, <2>1
<1>12. filled = ns \o zeros
    BY <1>7, <1>10, <1>11, SeqEqual
<1> QED
    BY <1>4, <1>12 DEF zeros, n

------------------------------------------------------------------------------
(* Values as bytes. *)

LEMMA PrefixIs ==
    ASSUME NEW A, NEW s \in Seq(A), NEW t \in Seq(A)
    PROVE  IsPrefix(s, t) <=> Len(s) <= Len(t) /\ \A i \in 1 .. Len(s) : s[i] = t[i]
<1>1. Len(s) \in Nat /\ Len(t) \in Nat /\ SubSeq(s, 1, Len(s)) = s
    BY SubSeqFull
<1>2. ASSUME Len(s) <= Len(t)
      PROVE  /\ SubSeq(t, 1, Len(s)) \in Seq(A) /\ Len(SubSeq(t, 1, Len(s))) = Len(s)
             /\ \A i \in 1 .. Len(s) : SubSeq(t, 1, Len(s))[i] = t[i]
    <2>1. \A i \in 1 .. Len(s) : t[i] \in A /\ 1 + i - 1 = i
        BY <1>1, <1>2
    <2>2. /\ SubSeq(t, 1, Len(s)) \in Seq(A)
          /\ Len(SubSeq(t, 1, Len(s))) = IF 1 <= Len(s) THEN Len(s) - 1 + 1 ELSE 0
          /\ \A i \in 1 .. Len(s) - 1 + 1 : SubSeq(t, 1, Len(s))[i] = t[1 + i - 1]
        BY <1>1, <2>1, SubSeqProperties
    <2> QED
        BY <1>1, <2>1, <2>2
<1>3. ASSUME Len(s) <= Len(t), \A i \in 1 .. Len(s) : s[i] = t[i] PROVE s = SubSeq(t, 1, Len(s))
    BY <1>2, <1>3, SeqEqual
<1> QED
    BY <1>1, <1>2, <1>3 DEF IsPrefix

\* The first n of a sequence.
LEMMA FirstN ==
    ASSUME NEW A, NEW s \in Seq(A), NEW n \in 0 .. Len(s)
    PROVE  /\ SubSeq(s, 1, n) \in Seq(A) /\ Len(SubSeq(s, 1, n)) = n
           /\ \A i \in 1 .. n : SubSeq(s, 1, n)[i] = s[i]
<1>1. Len(s) \in Nat /\ n \in Nat /\ \A i \in 1 .. n : s[i] \in A /\ 1 + i - 1 = i
    OBVIOUS
<1>2. /\ SubSeq(s, 1, n) \in Seq(A)
      /\ Len(SubSeq(s, 1, n)) = IF 1 <= n THEN n - 1 + 1 ELSE 0
      /\ \A i \in 1 .. n - 1 + 1 : SubSeq(s, 1, n)[i] = s[1 + i - 1]
    BY <1>1, SubSeqProperties
<1> QED
    BY <1>1, <1>2

\* What is behind the first n of a sequence, nothing when it has no more than n.
From(s, n) == SubSeq(s, n + 1, Len(s))
LengthFrom(s, n) == IF n <= Len(s) THEN Len(s) - n ELSE 0

LEMMA Behind ==
    ASSUME NEW A, NEW s \in Seq(A), NEW n \in Nat
    PROVE  /\ From(s, n) \in Seq(A) /\ Len(From(s, n)) = LengthFrom(s, n) /\ LengthFrom(s, n) \in Nat
           /\ \A i \in 1 .. LengthFrom(s, n) : From(s, n)[i] = s[n + i]
<1> DEFINE u == SubSeq(s, n + 1, Len(s))
           m == Len(s)
<1>1. m \in Nat /\ n + 1 \in Int /\ \A i \in n + 1 .. m : s[i] \in A
    OBVIOUS
<1>2. /\ u \in Seq(A)
      /\ Len(u) = IF n + 1 <= Len(s) THEN Len(s) - (n + 1) + 1 ELSE 0
      /\ \A i \in 1 .. Len(s) - (n + 1) + 1 : u[i] = s[n + 1 + i - 1]
    BY <1>1, SubSeqProperties
<1> HIDE DEF u, m
<1> DEFINE l == IF n <= m THEN m - n ELSE 0
<1>3. l \in Nat /\ (n + 1 <= m => m - (n + 1) + 1 = l) /\ (~(n + 1 <= m) => l = 0)
    BY <1>1
<1>4. \A i \in 1 .. l : n + 1 + i - 1 = n + i /\ i \in 1 .. m - (n + 1) + 1
    BY <1>1
<1>5. l = LengthFrom(s, n) /\ u = From(s, n)
    BY DEF LengthFrom, From, m, u
<1> HIDE DEF l
<1>6. Len(u) = l
    BY <1>2, <1>3 DEF m
<1>7. \A i \in 1 .. l : u[i] = s[n + i]
    BY <1>2, <1>4 DEF m
<1> QED
    BY <1>2, <1>3, <1>5, <1>6, <1>7

LEMMA BehindBehind ==
    ASSUME NEW A, NEW s \in Seq(A), NEW n \in Nat, NEW k \in Nat
    PROVE  From(From(s, n), k) = From(s, n + k)
<1> DEFINE t == From(s, n)
           u == From(t, k)
           v == From(s, n + k)
<1>1. t \in Seq(A) /\ Len(t) = LengthFrom(s, n) /\ \A i \in 1 .. LengthFrom(s, n) : t[i] = s[n + i]
    BY Behind
<1> HIDE DEF t
<1>2. u \in Seq(A) /\ Len(u) = LengthFrom(t, k) /\ \A i \in 1 .. LengthFrom(t, k) : u[i] = t[k + i]
    BY <1>1, Behind
<1>3. /\ v \in Seq(A) /\ Len(v) = LengthFrom(s, n + k)
      /\ \A i \in 1 .. LengthFrom(s, n + k) : v[i] = s[n + k + i]
    <2>1. n + k \in Nat
        OBVIOUS
    <2> QED
        BY <2>1, Behind
<1> HIDE DEF u, v
<1>4. Len(s) \in Nat /\ Len(t) \in Nat
    BY <1>1
<1>5. LengthFrom(t, k) = LengthFrom(s, n + k)
    BY <1>1, <1>4 DEF LengthFrom
<1>6. ASSUME NEW i \in 1 .. Len(u) PROVE u[i] = v[i]
    <2>1. k + i \in 1 .. LengthFrom(s, n) /\ n + (k + i) = n + k + i
        BY <1>1, <1>2, <1>4 DEF LengthFrom
    <2> QED
        BY <1>1, <1>2, <1>3, <1>5, <2>1
<1>7. u = v
    BY <1>2, <1>3, <1>5, <1>6, SeqEqual
<1> QED
    BY <1>7 DEF t, u, v

\* Of two sequences that begin alike, the first n are the same.
LEMMA SameStart ==
    ASSUME NEW A, NEW s \in Seq(A), NEW t \in Seq(A), NEW n \in Nat, n <= Len(s), n <= Len(t),
           \A i \in 1 .. n : s[i] = t[i]
    PROVE  SubSeq(s, 1, n) = SubSeq(t, 1, n)
<1>1. Len(s) \in Nat /\ Len(t) \in Nat /\ n \in 0 .. Len(s) /\ n \in 0 .. Len(t)
    OBVIOUS
<1>2. SubSeq(s, 1, n) \in Seq(A) /\ Len(SubSeq(s, 1, n)) = n /\ \A i \in 1 .. n : SubSeq(s, 1, n)[i] = s[i]
    BY <1>1, FirstN
<1>3. SubSeq(t, 1, n) \in Seq(A) /\ Len(SubSeq(t, 1, n)) = n /\ \A i \in 1 .. n : SubSeq(t, 1, n)[i] = t[i]
    BY <1>1, FirstN
<1> QED
    BY <1>2, <1>3, SeqEqual

LEMMA SplitOf ==
    ASSUME NEW A, NEW s \in Seq(A), NEW t \in Seq(A)
    PROVE  SubSeq(s \o t, 1, Len(s)) = s /\ SubSeq(s \o t, Len(s) + 1, Len(s \o t)) = t
<1> DEFINE both == s \o t
<1>1. /\ both \in Seq(A) /\ Len(both) = Len(s) + Len(t) /\ Len(s) \in Nat /\ Len(t) \in Nat
      /\ \A i \in 1 .. Len(s) + Len(t) : both[i] = IF i <= Len(s) THEN s[i] ELSE t[i - Len(s)]
    BY ConcatProperties
<1> HIDE DEF both
<1>2. Len(s) \in 0 .. Len(both)
    BY <1>1
<1>3. SubSeq(both, 1, Len(s)) = s
    <2>1. /\ SubSeq(both, 1, Len(s)) \in Seq(A) /\ Len(SubSeq(both, 1, Len(s))) = Len(s)
          /\ \A i \in 1 .. Len(s) : SubSeq(both, 1, Len(s))[i] = both[i]
        BY <1>1, <1>2, FirstN
    <2>2. \A i \in 1 .. Len(s) : SubSeq(both, 1, Len(s))[i] = s[i]
        BY <1>1, <2>1
    <2> QED
        BY <2>1, <2>2, SeqEqual
<1> DEFINE n == Len(s)
           u == From(both, n)
<1>4. n \in Nat /\ both \in Seq(A)
    BY <1>1
<1> HIDE DEF n
<1>5. u \in Seq(A) /\ Len(u) = LengthFrom(both, n) /\ \A i \in 1 .. LengthFrom(both, n) : u[i] = both[n + i]
    BY <1>4, Behind
<1> HIDE DEF u
<1>6. LengthFrom(both, n) = Len(t)
    BY <1>1 DEF LengthFrom, n
<1>7. ASSUME NEW i \in 1 .. Len(t) PROVE u[i] = t[i]
    <2>1. n + i \in 1 .. n + Len(t) /\ ~(n + i <= n) /\ n + i - n = i
        BY <1>1, <1>4
    <2>2. both[n + i] = t[n + i - n]
        BY <1>1, <2>1 DEF n
    <2> QED
        BY <1>5, <1>6, <2>1, <2>2
<1>8. u = t
    BY <1>5, <1>6, <1>7, SeqEqual
<1> QED
    BY <1>3, <1>8 DEF both, u, n, From

LEMMA KindOf ==
    ASSUME NEW x \in Values
    PROVE  /\ x.type.kind \in Kinds /\ x.type.width \in Widths /\ x.type.signed \in BOOLEAN
           /\ x.type.kind = "number" => Fits(x.value, x.type.width, x.type.signed)
           /\ x.type.kind \in {"array", "vector"} => x.value \in Seq(0 .. Power[x.type.width] - 1)
           /\ x.type.kind \in {"string", "locale", "block"} => x.type.width = 1 /\ x.value \in Seq(Bytes)
           /\ x.type.kind = "locale" => Len(x.value) = 4 /\ (x.value[1] = 0 => x.value = <<0, 0, 0, 0>>)
<1>1. HasItsType(x)
    BY BufferAssumption
<1>2. x.type \in Types
    BY <1>1 DEF HasItsType
<1>3. x.type.kind \in Kinds /\ x.type.width \in Widths /\ x.type.signed \in BOOLEAN
    BY <1>2 DEF Types
<1> QED
    BY <1>1, <1>3 DEF HasItsType, Kinds

\* The elements of arrays, vectors and strings as numbers.
LEMMA ValueOf ==
    ASSUME NEW x \in Values, x.type.kind \in {"array", "vector", "string", "locale", "block"}
    PROVE  x.value \in Seq(Int) /\ Len(x.value) \in Nat
<1>1. 0 .. Power[x.type.width] - 1 \subseteq Int
    <2>1. Power[x.type.width] \in Nat \ {0}
        BY KindOf, PowerOf
    <2> QED
        BY <2>1
<1>2. Bytes \subseteq Int
    BY BufferAssumption DEF Bytes
<1>3. CASE x.type.kind \in {"array", "vector"}
    <2> DEFINE N == 0 .. Power[x.type.width] - 1
    <2>1. x.value \in Seq(N)
        BY <1>3, KindOf
    <2> HIDE DEF N
    <2>2. x.value \in Seq(Int)
        BY <1>1, <2>1, SeqMonotonic DEF N
    <2> QED
        BY <2>2
<1>4. CASE x.type.kind \in {"string", "locale", "block"}
    <2>1. x.value \in Seq(Bytes)
        BY <1>4, KindOf
    <2>2. x.value \in Seq(Int)
        BY <1>2, <2>1, SeqMonotonic
    <2> QED
        BY <2>2
<1> QED
    BY <1>3, <1>4

LEMMA EncodedAs ==
    ASSUME NEW x \in Values
    PROVE  /\ x.type.kind = "number" => Encoded(x) = LittleEndian(x.value, x.type.width)
           /\ x.type.kind = "array" => Encoded(x) = Elements(x.value, x.type.width)
           /\ x.type.kind = "string" => Encoded(x) = LittleEndian(Len(x.value), 2) \o x.value
           /\ x.type.kind = "vector" =>
                  Encoded(x) = LittleEndian(Len(x.value), 2) \o Elements(x.value, x.type.width)
           /\ x.type.kind \in {"locale", "block"} => Encoded(x) = x.value
<1>1. x.type.kind = "string" => Elements(x.value, x.type.width) = x.value
    BY KindOf, ElementsOfOneByte
<1> QED
    BY <1>1 DEF Encoded

LEMMA TwoBytes ==
    ASSUME NEW n \in Nat
    PROVE  /\ LittleEndian(n, 2) \in Seq(Bytes) /\ Len(LittleEndian(n, 2)) = 2
           /\ n <= Max16 => Unsigned(LittleEndian(n, 2)) = n
<1>1. 2 \in Widths /\ n \in Int
    BY DEF Widths
<1>2. Power[2] \in Nat
    BY <1>1, PowerOf
<1>3. n <= Max16 => n \in 0 .. Power[2] - 1
    BY <1>2 DEF Max16
<1> QED
    BY <1>1, <1>3, BytesOfNumber, UnsignedBack

LEMMA EncodedIsBytes ==
    ASSUME NEW x \in Values
    PROVE  Encoded(x) \in Seq(Bytes) /\ Len(Encoded(x)) \in Nat
<1>1. Encoded(x) \in Seq(Bytes)
    <2>1. CASE x.type.kind = "number"
        <3>1. x.value \in Int
            BY <2>1, KindOf DEF Fits
        <3> QED
            BY <2>1, <3>1, KindOf, EncodedAs, BytesOfNumber
    <2>2. CASE x.type.kind = "array"
        BY <2>2, KindOf, ValueOf, EncodedAs, ElementsOf
    <2>3. CASE x.type.kind = "string"
        <3>1. LittleEndian(Len(x.value), 2) \in Seq(Bytes) /\ x.value \in Seq(Bytes)
            BY <2>3, KindOf, ValueOf, TwoBytes
        <3> QED
            BY <2>3, <3>1, EncodedAs, ConcatProperties
    <2>4. CASE x.type.kind = "vector"
        <3>1. LittleEndian(Len(x.value), 2) \in Seq(Bytes) /\ Elements(x.value, x.type.width) \in Seq(Bytes)
            BY <2>4, KindOf, ValueOf, TwoBytes, ElementsOf
        <3> QED
            BY <2>4, <3>1, EncodedAs, ConcatProperties
    <2>5. CASE x.type.kind \in {"locale", "block"}
        BY <2>5, KindOf, EncodedAs
    <2> QED
        BY <2>1, <2>2, <2>3, <2>4, <2>5, KindOf DEF Kinds
<1> QED
    BY <1>1

Fitting == {x \in Values : ~TooLong(x)}

\* The library's arrays are of chars (GameName_t): of an array with wider elements,
\* operator>> reads only as many bytes as it has elements.
OneByteArrays == \A x \in Values : x.type.kind = "array" => x.type.width = 1

LEMMA EncodedLength ==
    ASSUME NEW x \in Fitting, OneByteArrays
    PROVE  /\ x.type.kind = "number" => Len(Encoded(x)) = x.type.width
           /\ x.type.kind \in {"array", "block", "locale"} => Len(Encoded(x)) = Len(x.value)
           /\ x.type.kind \in {"string", "vector"} =>
                  /\ Len(Encoded(x)) = 2 + Len(x.value) * x.type.width
                  /\ Unsigned(SubSeq(Encoded(x), 1, 2)) = Len(x.value)
<1>1. x \in Values /\ ~TooLong(x)
    BY DEF Fitting
<1>2. CASE x.type.kind = "number"
    <2>1. x.value \in Int
        BY <1>1, <1>2, KindOf DEF Fits
    <2> QED
        BY <1>1, <1>2, <2>1, KindOf, EncodedAs, BytesOfNumber
<1>3. CASE x.type.kind = "array"
    <2>1. x.type.width = 1 /\ x.value \in Seq(Bytes)
        <3>1. x.type.width = 1
            BY <1>1, <1>3 DEF OneByteArrays
        <3>2. 1 \in 1 .. 8 /\ 1 - 1 = 0
            OBVIOUS
        <3>3. Power[1] = Base * 1
            BY <3>2, PowerSteps
        <3>4. Power[1] = Base
            BY <3>3, BufferAssumption
        <3> QED
            BY <1>1, <1>3, <3>1, <3>4, KindOf DEF Bytes
    <2> QED
        BY <1>1, <1>3, <2>1, EncodedAs, ElementsOfOneByte
<1>4. CASE x.type.kind \in {"string", "vector"}
    <2> DEFINE head == LittleEndian(Len(x.value), 2)
               body == Elements(x.value, x.type.width)
    <2>1. Len(x.value) \in Nat /\ x.value \in Seq(Int) /\ x.type.width \in Widths /\ Len(x.value) <= Max16
        <3>1. Len(x.value) \in Nat /\ x.value \in Seq(Int) /\ x.type.width \in Widths
            BY <1>1, <1>4, KindOf, ValueOf
        <3>2. Max16 \in Int
            <4>1. 2 \in Widths
                BY DEF Widths
            <4> QED
                BY <4>1, PowerOf DEF Max16
        <3> QED
            BY <1>1, <1>4, <3>1, <3>2 DEF TooLong
    <2>2. head \in Seq(Bytes) /\ Len(head) = 2 /\ Unsigned(head) = Len(x.value)
        BY <2>1, TwoBytes
    <2>3. body \in Seq(Bytes) /\ Len(body) = x.type.width * Len(x.value)
        BY <2>1, ElementsOf
    <2>4. Encoded(x) = head \o body
        <3>1. x.type.kind = "string" => body = x.value
            BY <1>1, KindOf, ElementsOfOneByte
        <3>2. x.type.kind = "string" => Encoded(x) = head \o x.value
            BY <1>1, EncodedAs
        <3>3. x.type.kind = "vector" => Encoded(x) = head \o body
            BY <1>1, EncodedAs
        <3> HIDE DEF body, head
        <3> QED
            BY <1>4, <3>1, <3>2, <3>3
    <2> HIDE DEF head, body
    <2>5. Len(Encoded(x)) = 2 + Len(body) /\ SubSeq(Encoded(x), 1, 2) = head
        <3>1. Len(head \o body) = Len(head) + Len(body)
            BY <2>2, <2>3, ConcatProperties
        <3>2. SubSeq(head \o body, 1, Len(head)) = head
            BY <2>2, <2>3, SplitOf
        <3> QED
            BY <2>2, <2>4, <3>1, <3>2
    <2>6. x.type.width * Len(x.value) = Len(x.value) * x.type.width
        BY <2>1, Widest
    <2> QED
        BY <1>4, <2>2, <2>3, <2>5, <2>6
<1>5. CASE x.type.kind \in {"locale", "block"}
    BY <1>1, <1>5, EncodedAs
<1> QED
    BY <1>1, <1>2, <1>3, <1>4, <1>5, KindOf DEF Kinds

\* c and the bytes of x are alike as far as both go.
Begins(c, x) == \A i \in 1 .. Len(c) : i <= Len(Encoded(x)) => c[i] = Encoded(x)[i]

\* A read asks for the bytes that were written, or for the first two of a locale that
\* begins with zero; of a length that is not all there, for no more than were written.
LEMMA AskedIs ==
    ASSUME NEW x \in Fitting, OneByteArrays, NEW c \in Seq(Bytes), Begins(c, x)
    PROVE  /\ Asked(x, c) \in Nat /\ Asked(x, c) <= Len(Encoded(x))
           /\ Len(c) >= Asked(x, c) =>
                  \/ Asked(x, c) = Len(Encoded(x))
                  \/ x.type.kind = "locale" /\ Encoded(x)[1] = 0 /\ Asked(x, c) = 2
<1>1. x \in Values /\ Encoded(x) \in Seq(Bytes) /\ Len(Encoded(x)) \in Nat /\ Len(c) \in Nat
    BY EncodedIsBytes DEF Fitting
<1>2. CASE x.type.kind = "number"
    BY <1>1, <1>2, EncodedLength DEF Asked
<1>3. CASE x.type.kind \in {"array", "block"}
    BY <1>1, <1>3, EncodedLength DEF Asked
<1>4. CASE x.type.kind \in {"string", "vector"}
    <2>1. /\ Len(Encoded(x)) = 2 + Len(x.value) * x.type.width
          /\ Unsigned(SubSeq(Encoded(x), 1, 2)) = Len(x.value)
        BY <1>4, EncodedLength
    <2>2. Len(x.value) * x.type.width \in Nat
        <3>1. Len(x.value) \in Nat /\ x.type.width \in Nat
            <4>1. x.type.width \in Widths
                BY <1>1, KindOf
            <4>2. Len(x.value) \in Nat
                BY <1>1, <1>4, ValueOf
            <4> QED
                BY <4>1, <4>2, Widest
        <3> QED
            BY <3>1, Product
    <2>3. Asked(x, c) = IF Len(c) < 2 THEN 2 ELSE 2 + Unsigned(SubSeq(c, 1, 2)) * x.type.width
        BY <1>4 DEF Asked
    <2>4. ~(Len(c) < 2) => SubSeq(c, 1, 2) = SubSeq(Encoded(x), 1, 2)
        <3> SUFFICES ASSUME ~(Len(c) < 2) PROVE SubSeq(c, 1, 2) = SubSeq(Encoded(x), 1, 2)
            OBVIOUS
        <3>1. 2 <= Len(c) /\ 2 <= Len(Encoded(x)) /\ \A i \in 1 .. 2 : c[i] = Encoded(x)[i]
            BY <1>1, <2>1, <2>2 DEF Begins
        <3> QED
            BY <1>1, <3>1, SameStart
    <2> DEFINE product == Len(x.value) * x.type.width
    <2>5. Asked(x, c) = IF Len(c) < 2 THEN 2 ELSE 2 + product
        BY <2>1, <2>3, <2>4
    <2>6. product \in Nat /\ Len(Encoded(x)) = 2 + product
        BY <2>1, <2>2
    <2> HIDE DEF product
    <2> QED
        BY <1>1, <2>5, <2>6
<1>5. CASE x.type.kind = "locale"
    <2>1. Len(Encoded(x)) = 4
        BY <1>1, <1>5, KindOf, EncodedLength
    <2>2. Asked(x, c) = IF Len(c) >= 2 /\ c[1] = 0 THEN 2 ELSE 4
        BY <1>5 DEF Asked
    <2>3. Len(c) >= 2 => c[1] = Encoded(x)[1]
        BY <1>1, <2>1 DEF Begins
    <2> QED
        BY <1>1, <1>5, <2>1, <2>2, <2>3
<1> QED
    BY <1>1, <1>2, <1>3, <1>4, <1>5, KindOf DEF Kinds

LEMMA NoZeros == ASSUME NEW A, NEW s \in Seq(A) PROVE s \o [i \in 1 .. Len(s) * (1 - 1) |-> 0] = s
<1>1. Len(s) * (1 - 1) = 0
    OBVIOUS
<1>2. [i \in 1 .. 0 |-> 0] = << >>
    OBVIOUS
<1> QED
    BY <1>1, <1>2, ConcatEmptySeq

\* The bytes of a value give the value back.
LEMMA DecodedIs ==
    ASSUME NEW x \in Fitting, OneByteArrays
    PROVE  /\ x.type.kind # "locale" => Decoded(x, Encoded(x)) = WithZeros(x)
           /\ x.type.kind = "locale" =>
                  \A n \in {2, 4} : (n = 2 => Encoded(x)[1] = 0) =>
                      Decoded(x, SubSeq(Encoded(x), 1, n)) = WithZeros(x)
<1>1. x \in Values /\ Encoded(x) \in Seq(Bytes) /\ Len(Encoded(x)) \in Nat /\ x.type.width \in Widths
    BY EncodedIsBytes, KindOf DEF Fitting
<1>2. CASE x.type.kind = "number"
    <2>1. Fits(x.value, x.type.width, x.type.signed) /\ x.type.signed \in BOOLEAN
        BY <1>1, <1>2, KindOf
    <2>2. Number(LittleEndian(x.value, x.type.width), x.type.signed) = x.value
        BY <1>1, <2>1, NumberRoundTrip
    <2>3. Encoded(x) = LittleEndian(x.value, x.type.width)
        BY <1>1, <1>2, EncodedAs
    <2>4. Decoded(x, Encoded(x)) = Number(Encoded(x), x.type.signed)
        BY <1>2 DEF Decoded
    <2> QED
        BY <1>2, <2>2, <2>3, <2>4 DEF WithZeros
<1>3. CASE x.type.kind = "array"
    <2>1. x.type.width = 1 /\ x.value \in Seq(0 .. Power[1] - 1) /\ Encoded(x) = Elements(x.value, 1) /\ 1 \in Widths
        BY <1>1, <1>3, KindOf, EncodedAs DEF OneByteArrays
    <2>2. Filled(Elements(x.value, 1), 1 * Len(x.value), 1) = x.value \o [i \in 1 .. Len(x.value) * (1 - 1) |-> 0]
        BY <2>1, FilledBack
    <2>3. 1 * Len(x.value) = Len(x.value)
        BY <1>1, <1>3, ValueOf
    <2>4. Decoded(x, Encoded(x)) = Filled(Encoded(x), Len(x.value), 1)
        BY <1>3, <2>1 DEF Decoded
    <2>5. Decoded(x, Encoded(x)) = x.value
        BY <2>1, <2>2, <2>3, <2>4, NoZeros
    <2> QED
        BY <1>3, <2>5 DEF WithZeros
<1>4. CASE x.type.kind \in {"string", "vector"}
    <2> DEFINE head == LittleEndian(Len(x.value), 2)
               body == Elements(x.value, x.type.width)
    <2>1. head \in Seq(Bytes) /\ Len(head) = 2 /\ x.value \in Seq(Int) /\ Len(x.value) \in Nat
        BY <1>1, <1>4, ValueOf, TwoBytes
    <2>2. body \in Seq(Bytes) /\ Len(body) = x.type.width * Len(x.value)
        BY <1>1, <2>1, ElementsOf
    <2>3. x.type.kind = "string" => body = x.value
        BY <1>1, KindOf, ElementsOfOneByte
    <2>4. Encoded(x) = head \o body
        <3>1. x.type.kind = "string" => Encoded(x) = head \o x.value
            BY <1>1, EncodedAs
        <3>2. x.type.kind = "vector" => Encoded(x) = head \o body
            BY <1>1, EncodedAs
        <3> HIDE DEF body, head
        <3> QED
            BY <1>4, <2>3, <3>1, <3>2
    <2> HIDE DEF head, body
    <2>5. SubSeq(Encoded(x), 3, Len(Encoded(x))) = body
        <3>1. SubSeq(head \o body, Len(head) + 1, Len(head \o body)) = body
            BY <2>1, <2>2, SplitOf
        <3>2. Len(head) + 1 = 3
            BY <2>1
        <3> QED
            BY <2>4, <3>1, <3>2
    <2>6. CASE x.type.kind = "string"
        <3>1. Decoded(x, Encoded(x)) = body
            BY <2>5, <2>6 DEF Decoded
        <3> QED
            BY <2>3, <2>6, <3>1 DEF WithZeros
    <2>7. CASE x.type.kind = "vector"
        <3>1. Len(Encoded(x)) - 2 = x.type.width * Len(x.value)
            <4>1. Len(head \o body) = Len(head) + Len(body)
                BY <2>1, <2>2, ConcatProperties
            <4>2. x.type.width * Len(x.value) \in Nat
                <5>1. x.type.width \in Nat
                    BY <1>1, Widest
                <5> QED
                    BY <2>1, <5>1, Product
            <4> QED
                BY <2>1, <2>2, <2>4, <4>1, <4>2
        <3>2. Decoded(x, Encoded(x)) = Filled(body, x.type.width * Len(x.value), x.type.width)
            BY <2>5, <2>7, <3>1 DEF Decoded
        <3>3. x.value \in Seq(0 .. Power[x.type.width] - 1)
            BY <1>1, <2>7, KindOf
        <3>4. Decoded(x, Encoded(x)) = x.value \o [i \in 1 .. Len(x.value) * (x.type.width - 1) |-> 0]
            BY <1>1, <3>2, <3>3, FilledBack DEF body
        <3> QED
            BY <2>7, <3>4 DEF WithZeros
    <2> QED
        BY <1>4, <2>6, <2>7
<1>5. CASE x.type.kind = "block"
    <2>1. Encoded(x) = x.value
        BY <1>1, <1>5, EncodedAs
    <2> QED
        BY <1>5, <2>1 DEF Decoded, WithZeros
<1>6. CASE x.type.kind = "locale"
    <2>1. /\ Encoded(x) = x.value /\ Len(x.value) = 4 /\ Len(Encoded(x)) = 4
          /\ x.value[1] = 0 => x.value = <<0, 0, 0, 0>>
        BY <1>1, <1>6, KindOf, EncodedAs
    <2>2. ASSUME NEW n \in {2, 4}, n = 2 => Encoded(x)[1] = 0
          PROVE  Decoded(x, SubSeq(Encoded(x), 1, n)) = WithZeros(x)
        <3> DEFINE read == SubSeq(Encoded(x), 1, n)
        <3>1. Decoded(x, read) = IF read[1] = 0 THEN <<0, 0, 0, 0>> ELSE read
            BY <1>6 DEF Decoded
        <3>2. n \in 0 .. Len(Encoded(x)) /\ 1 \in 1 .. n
            BY <2>1
        <3>3. read[1] = Encoded(x)[1]
            BY <1>1, <3>2, FirstN
        <3>4. n = 4 => read = Encoded(x)
            BY <1>1, <2>1, SubSeqFull
        <3>5. WithZeros(x) = x.value
            BY <1>6 DEF WithZeros
        <3> HIDE DEF read
        <3>6. Decoded(x, read) = x.value
            BY <2>1, <2>2, <3>1, <3>3, <3>4
        <3> QED
            BY <3>5, <3>6 DEF read
    <2> QED
        BY <1>6, <2>2
<1> QED
    BY <1>1, <1>2, <1>3, <1>4, <1>5, <1>6, KindOf DEF Kinds

------------------------------------------------------------------------------
(* The bytes of several values. *)

LEMMA PiecesOf ==
    ASSUME NEW xs \in Seq(Values)
    PROVE  /\ [i \in DOMAIN xs |-> Encoded(xs[i])] = [i \in 1 .. Len(xs) |-> Encoded(xs[i])]
           /\ [i \in DOMAIN xs |-> Encoded(xs[i])] \in Seq(Seq(Bytes))
           /\ Len([i \in DOMAIN xs |-> Encoded(xs[i])]) = Len(xs)
<1>1. DOMAIN xs = 1 .. Len(xs) /\ Len(xs) \in Nat /\ \A i \in 1 .. Len(xs) : xs[i] \in Values
    OBVIOUS
<1>2. \A i \in 1 .. Len(xs) : Encoded(xs[i]) \in Seq(Bytes)
    BY <1>1, EncodedIsBytes
<1> QED
    BY <1>1, <1>2

LEMMA AllIsBytes ==
    ASSUME NEW xs \in Seq(Values)
    PROVE  AllEncoded(xs) \in Seq(Bytes)
BY PiecesOf, FlatType DEF AllEncoded

LEMMA NoneEncoded == AllEncoded(<< >>) = << >>
<1>1. [i \in DOMAIN << >> |-> Encoded(<< >>[i])] = << >>
    OBVIOUS
<1> QED
    BY <1>1, FlatEmpty DEF AllEncoded

LEMMA OneMore ==
    ASSUME NEW xs \in Seq(Values), NEW x \in Values
    PROVE  AllEncoded(Append(xs, x)) = AllEncoded(xs) \o Encoded(x)
<1> DEFINE more == Append(xs, x)
           pieces(ys) == [i \in DOMAIN ys |-> Encoded(ys[i])]
<1>1. /\ more \in Seq(Values) /\ Len(more) = Len(xs) + 1 /\ Len(xs) \in Nat /\ more[Len(xs) + 1] = x
      /\ \A i \in 1 .. Len(xs) : more[i] = xs[i]
    OBVIOUS
<1>2. pieces(xs) \in Seq(Seq(Bytes)) /\ pieces(xs) = [i \in 1 .. Len(xs) |-> Encoded(xs[i])] /\ Len(pieces(xs)) = Len(xs)
    BY PiecesOf
<1>3. pieces(more) = [i \in 1 .. Len(xs) + 1 |-> Encoded(more[i])] /\ pieces(more) \in Seq(Seq(Bytes))
    BY <1>1, PiecesOf
<1>4. Encoded(x) \in Seq(Bytes)
    BY EncodedIsBytes
<1> DEFINE appended == Append(pieces(xs), Encoded(x))
<1> HIDE DEF more
<1>5. /\ appended \in Seq(Seq(Bytes)) /\ Len(appended) = Len(xs) + 1
      /\ \A i \in 1 .. Len(xs) + 1 : appended[i] = Encoded(more[i])
    <2> DEFINE p == pieces(xs)
    <2>1. p \in Seq(Seq(Bytes)) /\ Len(p) = Len(xs) /\ \A i \in 1 .. Len(xs) : p[i] = Encoded(xs[i])
        BY <1>2
    <2> HIDE DEF p
    <2>2. /\ Append(p, Encoded(x)) \in Seq(Seq(Bytes)) /\ Len(Append(p, Encoded(x))) = Len(xs) + 1
          /\ \A i \in 1 .. Len(xs) : Append(p, Encoded(x))[i] = p[i]
          /\ Append(p, Encoded(x))[Len(xs) + 1] = Encoded(x)
        BY <1>4, <2>1, AppendProperties
    <2>3. \A i \in 1 .. Len(xs) + 1 : i # Len(xs) + 1 => i \in 1 .. Len(xs)
        BY <1>1
    <2>4. ASSUME NEW i \in 1 .. Len(xs) + 1 PROVE Append(p, Encoded(x))[i] = Encoded(more[i])
        BY <1>1, <2>1, <2>2, <2>3
    <2> QED
        BY <2>2, <2>4 DEF p
<1>6. pieces(more) = appended
    <2> HIDE DEF appended, pieces
    <2>1. pieces(more) \in Seq(Seq(Bytes)) /\ Len(pieces(more)) = Len(xs) + 1
          /\ \A i \in 1 .. Len(xs) + 1 : pieces(more)[i] = Encoded(more[i])
        BY <1>1, <1>3
    <2> QED
        BY <1>5, <2>1, SeqEqual
<1>7. FlattenSeq(appended) = FlattenSeq(pieces(xs)) \o Encoded(x)
    BY <1>2, <1>4, FlatAppend
<1>8. AllEncoded(xs) = FlattenSeq(pieces(xs)) /\ AllEncoded(more) = FlattenSeq(pieces(more))
    BY DEF AllEncoded
<1> HIDE DEF pieces, appended
<1> QED
    BY <1>6, <1>7, <1>8 DEF more

LEMMA FirstAndRest ==
    ASSUME NEW xs \in Seq(Values), xs # << >>
    PROVE  /\ Head(xs) \in Values /\ Tail(xs) \in Seq(Values)
           /\ AllEncoded(xs) = Encoded(Head(xs)) \o AllEncoded(Tail(xs))
<1> DEFINE pieces(ys) == [i \in DOMAIN ys |-> Encoded(ys[i])]
           rest == Tail(xs)
<1>1. /\ Head(xs) \in Values /\ rest \in Seq(Values) /\ Len(rest) = Len(xs) - 1 /\ Head(xs) = xs[1]
      /\ \A i \in 1 .. Len(rest) : rest[i] = xs[i + 1]
    BY HeadTailProperties
<1>2. Len(xs) \in Nat \ {0}
    BY EmptySeq
<1>3. pieces(xs) \in Seq(Seq(Bytes)) /\ Len(pieces(xs)) = Len(xs) /\ pieces(xs) = [i \in 1 .. Len(xs) |-> Encoded(xs[i])]
    BY PiecesOf
<1> HIDE DEF rest
<1>4. pieces(rest) \in Seq(Seq(Bytes)) /\ Len(pieces(rest)) = Len(rest) /\ pieces(rest) = [i \in 1 .. Len(rest) |-> Encoded(rest[i])]
    BY <1>1, PiecesOf
<1> DEFINE p == pieces(xs)
           r == pieces(rest)
<1>5. \A i \in 1 .. Len(xs) : p[i] = Encoded(xs[i])
    BY <1>3
<1>6. \A i \in 1 .. Len(rest) : r[i] = Encoded(rest[i])
    BY <1>4
<1>7. AllEncoded(xs) = FlattenSeq(p) /\ AllEncoded(rest) = FlattenSeq(r)
    BY DEF AllEncoded
<1>8. p \in Seq(Seq(Bytes)) /\ Len(p) = Len(xs) /\ r \in Seq(Seq(Bytes)) /\ Len(r) = Len(rest)
    BY <1>3, <1>4
<1> HIDE DEF p, r
<1>9. p # << >>
    BY <1>2, <1>8
<1>10. /\ Tail(p) \in Seq(Seq(Bytes)) /\ Len(Tail(p)) = Len(p) - 1
       /\ \A i \in 1 .. Len(Tail(p)) : Tail(p)[i] = p[i + 1]
    BY <1>8, <1>9, HeadTailProperties
<1>11. Head(p) = Encoded(Head(xs))
    BY <1>1, <1>2, <1>5, <1>8
<1>12. ASSUME NEW i \in 1 .. Len(r) PROVE Tail(p)[i] = r[i]
    <2>1. i \in 1 .. Len(rest) /\ i \in 1 .. Len(Tail(p)) /\ i + 1 \in 1 .. Len(xs)
        BY <1>1, <1>2, <1>8, <1>10
    <2> QED
        BY <1>1, <1>5, <1>6, <1>10, <2>1
<1>13. Tail(p) = r
    <2>1. Len(Tail(p)) = Len(r)
        BY <1>1, <1>8, <1>10
    <2> QED
        BY <1>8, <1>10, <1>12, <2>1, SeqEqual
<1>14. FlattenSeq(p) = Head(p) \o FlattenSeq(Tail(p))
    BY <1>8, <1>9, FlatHead
<1> QED
    BY <1>1, <1>7, <1>11, <1>13, <1>14 DEF rest

------------------------------------------------------------------------------
(* The type invariant. *)

LEMMA UnsignedIsNat ==
    ASSUME NEW bytes \in Seq(Nat), Len(bytes) <= 8
    PROVE  Unsigned(bytes) \in Nat
<1> DEFINE n == Len(bytes)
           s == Sum(bytes)
           T == {i \in 0 .. n : s[i] \in Nat}
<1>1. /\ Unsigned(bytes) = s[n] /\ s[0] = 0
      /\ \A i \in 1 .. n : s[i] = s[i - 1] + bytes[i] * Power[i - 1]
    BY SumSteps
<1>2. n \in Nat /\ n <= 8 /\ \A i \in 1 .. n : bytes[i] \in Nat
    OBVIOUS
<1> HIDE DEF n, s
<1>3. 0 \in T
    BY <1>1, <1>2
<1>4. ASSUME NEW i \in 1 .. n, i - 1 \in T PROVE i \in T
    <2>1. i - 1 \in 0 .. 8 /\ i \in 0 .. n /\ bytes[i] \in Nat /\ s[i - 1] \in Nat
        BY <1>2, <1>4
    <2>2. Power[i - 1] \in Nat
        BY <2>1, PowerSteps
    <2>3. bytes[i] * Power[i - 1] \in Nat
        BY <2>1, <2>2, Product
    <2> QED
        BY <1>1, <2>1, <2>3
<1>5. \A i \in 0 .. n : i \in T
    <2> HIDE DEF T
    <2> QED
        BY <1>2, <1>3, <1>4, Induction
<1> QED
    BY <1>1, <1>2, <1>5

LEMMA AskedIsNat ==
    ASSUME NEW x \in Values, NEW c \in Seq(Bytes)
    PROVE  Asked(x, c) \in Nat
<1>1. x.type.width \in Nat /\ Len(c) \in Nat
    BY KindOf, Widest
<1>2. CASE x.type.kind = "number"
    BY <1>1, <1>2 DEF Asked
<1>3. CASE x.type.kind \in {"array", "block"}
    BY <1>3, ValueOf DEF Asked
<1>4. CASE x.type.kind \in {"string", "vector"}
    <2>1. Len(c) >= 2 => Unsigned(SubSeq(c, 1, 2)) \in Nat
        <3> SUFFICES ASSUME Len(c) >= 2 PROVE Unsigned(SubSeq(c, 1, 2)) \in Nat
            OBVIOUS
        <3>1. 2 \in 0 .. Len(c)
            BY <1>1
        <3>2. SubSeq(c, 1, 2) \in Seq(Bytes) /\ Len(SubSeq(c, 1, 2)) = 2
            BY <3>1, FirstN
        <3>3. Bytes \subseteq Nat
            BY BufferAssumption DEF Bytes
        <3>4. SubSeq(c, 1, 2) \in Seq(Nat)
            BY <3>2, <3>3, SeqMonotonic
        <3> DEFINE first == SubSeq(c, 1, 2)
        <3>5. first \in Seq(Nat) /\ Len(first) <= 8
            BY <3>2, <3>4
        <3> HIDE DEF first
        <3>6. Unsigned(first) \in Nat
            BY <3>5, UnsignedIsNat
        <3> QED
            BY <3>6 DEF first
    <2> DEFINE u == Unsigned(SubSeq(c, 1, 2))
    <2>2. Asked(x, c) = IF Len(c) < 2 THEN 2 ELSE 2 + u * x.type.width
        BY <1>4 DEF Asked
    <2> HIDE DEF u
    <2>3. Len(c) >= 2 => u * x.type.width \in Nat
        BY <1>1, <2>1, Product DEF u
    <2> QED
        BY <1>1, <2>2, <2>3
<1>5. CASE x.type.kind = "locale"
    BY <1>1, <1>5 DEF Asked
<1> QED
    BY <1>2, <1>3, <1>4, <1>5, KindOf DEF Kinds

LEMMA ContentsIs ==
    ASSUME TypeOK
    PROVE  /\ Contents \in Seq(Bytes) /\ Len(Contents) \in Nat /\ Len(Contents) <= MaxBuffer
           /\ Contents = From(m_Data, m_StartOffset) /\ MaxBuffer \in Nat
<1>1. m_Data \in Seq(Bytes) /\ Len(m_Data) \in Nat /\ Len(m_Data) <= MaxBuffer /\ m_StartOffset \in Nat
    BY DEF TypeOK
<1>2. Contents = From(m_Data, m_StartOffset)
    BY DEF Contents, From
<1>3. /\ From(m_Data, m_StartOffset) \in Seq(Bytes) /\ LengthFrom(m_Data, m_StartOffset) \in Nat
      /\ Len(From(m_Data, m_StartOffset)) = LengthFrom(m_Data, m_StartOffset)
    BY <1>1, Behind
<1>4. LengthFrom(m_Data, m_StartOffset) <= MaxBuffer
    BY <1>1, BufferAssumption DEF LengthFrom
<1> QED
    BY <1>2, <1>3, <1>4, BufferAssumption

LEMMA GrowIs ==
    ASSUME TypeOK, NEW bytes \in Seq(Bytes), Len(bytes) <= Room, Grow(bytes)
    PROVE  /\ m_Data' \in Seq(Bytes) /\ Len(m_Data') <= MaxBuffer /\ m_StartOffset' \in Nat
           /\ Contents' = Contents \o bytes
<1>1. Contents \in Seq(Bytes) /\ Len(Contents) \in Nat /\ MaxBuffer \in Nat
    BY ContentsIs
<1>2. m_Data' = Contents \o bytes /\ m_StartOffset' = 0
    BY DEF Grow
<1>3. Len(bytes) \in Nat /\ Len(bytes) <= MaxBuffer - Len(Contents)
    BY DEF Room
<1>4. m_Data' \in Seq(Bytes) /\ Len(m_Data') = Len(Contents) + Len(bytes)
    BY <1>1, <1>2, ConcatProperties
<1>5. Contents' = SubSeq(m_Data', 0 + 1, Len(m_Data'))
    BY <1>2 DEF Contents
<1>6. SubSeq(m_Data', 1, Len(m_Data')) = m_Data'
    BY <1>4, SubSeqFull
<1>7. Contents' = m_Data'
    BY <1>5, <1>6
<1> QED
    BY <1>1, <1>2, <1>3, <1>4, <1>7

\* What a write that throws has added: nothing, or as much as there was room for.
LEMMA ThrownAfter ==
    ASSUME TypeOK, NEW x \in Values, Len(Encoded(x)) > Room
    PROVE  /\ Room \in Nat /\ Room <= Len(Encoded(x))
           /\ SubSeq(Encoded(x), 1, Room) \in Seq(Bytes) /\ Len(SubSeq(Encoded(x), 1, Room)) = Room
           /\ \A i \in 1 .. Room : SubSeq(Encoded(x), 1, Room)[i] = Encoded(x)[i]
<1>1. Room \in Nat
    BY ContentsIs DEF Room
<1>2. Encoded(x) \in Seq(Bytes) /\ Len(Encoded(x)) \in Nat
    BY EncodedIsBytes
<1>3. Room \in 0 .. Len(Encoded(x))
    BY <1>1, <1>2
<1>4. SubSeq(Encoded(x), 1, Room) \in Seq(Bytes) /\ Len(SubSeq(Encoded(x), 1, Room)) = Room
    BY <1>2, <1>3, FirstN
<1>5. \A i \in 1 .. Room : SubSeq(Encoded(x), 1, Room)[i] = Encoded(x)[i]
    BY <1>2, <1>3, FirstN
<1> QED
    BY <1>1, <1>2, <1>3, <1>4, <1>5

LEMMA AppendIsUnread ==
    ASSUME TypeOK, CanWrite, NEW x \in Values, unread' = Append(unread, x)
    PROVE  unread' \in Seq(Values) /\ Len(unread') <= MaxUnread
<1>1. unread \in Seq(Values) /\ Len(unread) \in Nat /\ Len(unread) < MaxUnread /\ MaxUnread \in Nat
    BY BufferAssumption DEF TypeOK, CanWrite
<1>2. unread' \in Seq(Values) /\ Len(unread') = Len(unread) + 1
    BY <1>1
<1> QED
    BY <1>1, <1>2

LEMMA TailIsUnread ==
    ASSUME TypeOK, unread # << >>, unread' = Tail(unread)
    PROVE  unread' \in Seq(Values) /\ Len(unread') <= MaxUnread
<1>1. unread \in Seq(Values) /\ Len(unread) \in Nat /\ Len(unread) <= MaxUnread /\ MaxUnread \in Nat
    BY BufferAssumption DEF TypeOK
<1>2. unread' \in Seq(Values) /\ Len(unread') = Len(unread) - 1
    BY <1>1, HeadTailProperties
<1> QED
    BY <1>1, <1>2

LEMMA NoneYet == << >> \in Seq(Bytes) /\ << >> \in Seq(Values) /\ Len(<< >>) = 0
OBVIOUS

LEMMA EmptyIsTyped ==
    \A b, u, o : b = << >> /\ u = << >> /\ o = Nothing =>
        /\ b \in Seq(Bytes) /\ Len(b) <= MaxBuffer /\ u \in Seq(Values) /\ Len(u) <= MaxUnread
        /\ o.outcome \in {"nothing", "thrown", "short", "read"} /\ 0 \in Nat /\ FALSE \in BOOLEAN
<1>1. 0 <= MaxBuffer /\ 0 <= MaxUnread
    BY BufferAssumption
<1> QED
    BY <1>1, NoneYet DEF Nothing

\* What is left of a body whose size is announced in 16 bits.
LEMMA CutIsShorter ==
    ASSUME TypeOK, Transfer
    PROVE  Len(m_Data) % (Max16 + 1) \in 0 .. Len(m_Data)
<1> DEFINE l == Len(m_Data)
           limit == Max16 + 1
           n == l % limit
<1>1. limit \in Nat \ {0} /\ Max16 \in Int
    <2>1. 2 \in Widths
        BY DEF Widths
    <2> QED
        BY <2>1, PowerOf DEF Max16
<1>2. l \in Nat /\ l > Max16
    BY DEF Transfer, TypeOK
<1>3. limit <= l
    BY <1>1, <1>2
<1> HIDE DEF l, limit
<1>4. n \in 0 .. limit - 1
    BY <1>1, <1>2, DivMod
<1> HIDE DEF n
<1>5. n \in 0 .. l
    BY <1>1, <1>2, <1>3, <1>4
<1> QED
    BY <1>5 DEF n, l, limit

LEMMA TypeStep ==
    ASSUME TypeOK, [Next]_vars
    PROVE  TypeOK'
<1>1. ASSUME NEW x \in Values, Write(x) PROVE TypeOK'
    <2>1. Grow(Encoded(x)) /\ Len(Encoded(x)) <= Room /\ CanWrite
          /\ unread' = Append(unread, x) /\ got' = Nothing /\ cut' = cut
        BY <1>1 DEF Write
    <2>2. m_Data' \in Seq(Bytes) /\ Len(m_Data') <= MaxBuffer /\ m_StartOffset' \in Nat
        BY <2>1, EncodedIsBytes, GrowIs
    <2>3. unread' \in Seq(Values) /\ Len(unread') <= MaxUnread
        BY <2>1, AppendIsUnread
    <2> QED
        BY <2>1, <2>2, <2>3 DEF TypeOK, Nothing
<1>2. ASSUME NEW x \in Values, WriteThrows(x) PROVE TypeOK'
    <2>1. CanWrite /\ unread' = Append(unread, x) /\ cut' = TRUE /\ got' = Thrown
        BY <1>2 DEF WriteThrows
    <2>2. m_Data' \in Seq(Bytes) /\ Len(m_Data') <= MaxBuffer /\ m_StartOffset' \in Nat
        <3>1. CASE UNCHANGED <<m_Data, m_StartOffset>>
            BY <3>1 DEF TypeOK
        <3>2. CASE Len(Encoded(x)) > Room /\ Grow(IF x.type.kind = "block" THEN << >> ELSE SubSeq(Encoded(x), 1, Room))
            <4> DEFINE added == IF x.type.kind = "block" THEN << >> ELSE SubSeq(Encoded(x), 1, Room)
            <4>1. added \in Seq(Bytes) /\ Len(added) <= Room
                BY <3>2, ThrownAfter
            <4>2. Grow(added)
                BY <3>2
            <4> HIDE DEF added
            <4> QED
                BY <4>1, <4>2, GrowIs
        <3> QED
            BY <1>2, <3>1, <3>2 DEF WriteThrows
    <2>3. unread' \in Seq(Values) /\ Len(unread') <= MaxUnread
        BY <2>1, AppendIsUnread
    <2> QED
        BY <2>1, <2>2, <2>3 DEF TypeOK, Thrown
<1>3. CASE Transfer
    <2> DEFINE n == Len(m_Data) % (Max16 + 1)
    <2>1. m_Data \in Seq(Bytes) /\ Len(m_Data) \in Nat /\ m_Data' = SubSeq(m_Data, 1, n)
        BY <1>3 DEF Transfer, TypeOK
    <2>2. n \in 0 .. Len(m_Data)
        BY <1>3, CutIsShorter
    <2> HIDE DEF n
    <2>3. m_Data' \in Seq(Bytes) /\ Len(m_Data') = n
        BY <2>1, <2>2, FirstN
    <2>4. Len(m_Data') <= MaxBuffer
        BY <2>1, <2>2, <2>3, BufferAssumption DEF TypeOK
    <2> QED
        BY <1>3, <2>3, <2>4 DEF Transfer, TypeOK, Nothing
<1>4. CASE Clear
    BY <1>4, EmptyIsTyped DEF Clear, TypeOK
<1>5. CASE Read
    <2> DEFINE x == Head(unread)
    <2>1. unread # << >> /\ m_StartOffset' = m_StartOffset + Used(x) /\ unread' = Tail(unread)
          /\ got'.outcome = "read" /\ m_Data' = m_Data /\ cut' = cut
        BY <1>5 DEF Read, Got
    <2>2. x \in Values
        BY <2>1, HeadTailProperties DEF TypeOK
    <2>3. Used(x) \in Nat
        <3>1. Asked(x, Contents) \in Nat
            BY <2>2, ContentsIs, AskedIsNat
        <3> QED
            BY <3>1 DEF Used
    <2> HIDE DEF x
    <2>4. unread' \in Seq(Values) /\ Len(unread') <= MaxUnread
        BY <2>1, TailIsUnread
    <2> QED
        BY <2>1, <2>3, <2>4 DEF TypeOK
<1>6. CASE ReadThrows
    BY <1>6, ContentsIs DEF ReadThrows, TypeOK, Thrown
<1>7. CASE ReadShort
    <2>1. unread' \in Seq(Values) /\ Len(unread') <= MaxUnread
        BY <1>7, TailIsUnread DEF ReadShort
    <2> QED
        BY <1>7, <2>1, ContentsIs DEF ReadShort, TypeOK, Short
<1>8. CASE PeekArray
    <2>1. Room \in Nat
        BY ContentsIs DEF Room
    <2>2. Grow(<< >>) /\ got' = Nothing /\ unread' = unread /\ cut' = cut
        BY <1>8 DEF PeekArray
    <2>3. m_Data' \in Seq(Bytes) /\ Len(m_Data') <= MaxBuffer /\ m_StartOffset' \in Nat
        <3>1. << >> \in Seq(Bytes) /\ Len(<< >>) <= Room
            BY <2>1, NoneYet
        <3> QED
            BY <2>2, <3>1, GrowIs
    <2> QED
        BY <2>2, <2>3 DEF TypeOK, Nothing
<1>9. CASE UNCHANGED vars
    BY <1>9 DEF vars, TypeOK
<1> QED
    BY <1>1, <1>2, <1>3, <1>4, <1>5, <1>6, <1>7, <1>8, <1>9 DEF Next

\* The type invariant: the buffer never grows beyond what its size allows, and what is
\* in it are bytes.
THEOREM TypeCorrect == Spec => []TypeOK
<1>1. Init => TypeOK
    BY EmptyIsTyped DEF Init, TypeOK
<1>2. TypeOK /\ [Next]_vars => TypeOK'
    BY TypeStep
<1> QED
    BY <1>1, <1>2, PTL DEF Spec

------------------------------------------------------------------------------
(* What remains of a stream. *)

LEMMA PrefixBehind ==
    ASSUME NEW A, NEW s \in Seq(A), NEW p \in Seq(A), NEW t \in Seq(A), IsPrefix(p, t)
    PROVE  IsPrefix(s \o p, s \o t)
<1>1. Len(p) <= Len(t) /\ \A i \in 1 .. Len(p) : p[i] = t[i]
    BY PrefixIs
<1>2. Len(s) \in Nat /\ Len(p) \in Nat /\ Len(t) \in Nat
    OBVIOUS
<1> DEFINE sp == s \o p
           st == s \o t
<1>3. /\ sp \in Seq(A) /\ Len(sp) = Len(s) + Len(p)
      /\ \A i \in 1 .. Len(s) + Len(p) : sp[i] = IF i <= Len(s) THEN s[i] ELSE p[i - Len(s)]
    BY ConcatProperties
<1>4. /\ st \in Seq(A) /\ Len(st) = Len(s) + Len(t)
      /\ \A i \in 1 .. Len(s) + Len(t) : st[i] = IF i <= Len(s) THEN s[i] ELSE t[i - Len(s)]
    BY ConcatProperties
<1> HIDE DEF sp, st
<1>5. ASSUME NEW i \in 1 .. Len(sp) PROVE sp[i] = st[i]
    <2>1. i \in 1 .. Len(s) + Len(p) /\ i \in 1 .. Len(s) + Len(t)
        BY <1>1, <1>2, <1>3
    <2>2. ~(i <= Len(s)) => i - Len(s) \in 1 .. Len(p)
        BY <1>2, <2>1
    <2> QED
        BY <1>1, <1>3, <1>4, <2>1, <2>2
<1>6. Len(sp) <= Len(st)
    BY <1>1, <1>2, <1>3, <1>4
<1>7. IsPrefix(sp, st)
    BY <1>3, <1>4, <1>5, <1>6, PrefixIs
<1> QED
    BY <1>7 DEF sp, st

LEMMA PrefixItself ==
    ASSUME NEW A, NEW s \in Seq(A)
    PROVE  IsPrefix(s, s)
BY PrefixIs

LEMMA PrefixNone ==
    ASSUME NEW A, NEW s \in Seq(A)
    PROVE  IsPrefix(<< >>, s)
<1>1. << >> \in Seq(A) /\ Len(<< >>) = 0 /\ Len(s) \in Nat
    OBVIOUS
<1> QED
    <2> DEFINE none == << >>
    <2>1. none \in Seq(A) /\ Len(none) <= Len(s) /\ \A i \in 1 .. Len(none) : none[i] = s[i]
        BY <1>1
    <2> HIDE DEF none
    <2>2. IsPrefix(none, s)
        BY <2>1, PrefixIs
    <2> QED
        BY <2>2 DEF none

\* When c is the beginning of e and r, what is behind e in c is the beginning of r.
LEMMA PrefixOfRest ==
    ASSUME NEW A, NEW c \in Seq(A), NEW e \in Seq(A), NEW r \in Seq(A), IsPrefix(c, e \o r)
    PROVE  /\ From(c, Len(e)) \in Seq(A) /\ IsPrefix(From(c, Len(e)), r)
           /\ \A i \in 1 .. Len(c) : i <= Len(e) => c[i] = e[i]
           /\ c = e \o r => From(c, Len(e)) = r /\ Len(e) <= Len(c)
<1> DEFINE both == e \o r
           n == Len(e)
           rest == From(c, n)
<1>1. /\ both \in Seq(A) /\ Len(both) = Len(e) + Len(r)
      /\ \A i \in 1 .. Len(e) + Len(r) : both[i] = IF i <= Len(e) THEN e[i] ELSE r[i - Len(e)]
    BY ConcatProperties
<1>2. From(both, n) = r
    BY SplitOf DEF From
<1>3. IsPrefix(c, both)
    OBVIOUS
<1> HIDE DEF both
<1>4. Len(c) <= Len(both) /\ \A i \in 1 .. Len(c) : c[i] = both[i]
    BY <1>1, <1>3, PrefixIs
<1>5. Len(e) \in Nat /\ Len(r) \in Nat /\ Len(c) \in Nat /\ n = Len(e) /\ n \in Nat
    OBVIOUS
<1> HIDE DEF n
<1>6. rest \in Seq(A) /\ Len(rest) = LengthFrom(c, n) /\ \A i \in 1 .. LengthFrom(c, n) : rest[i] = c[n + i]
    BY <1>5, Behind
<1> HIDE DEF rest
<1>7. Len(rest) <= Len(r)
    BY <1>1, <1>4, <1>5, <1>6 DEF LengthFrom
<1>8. ASSUME NEW i \in 1 .. Len(rest) PROVE rest[i] = r[i]
    <2>1. i \in 1 .. LengthFrom(c, n) /\ n + i \in 1 .. Len(c) /\ n + i \in 1 .. Len(e) + Len(r)
        BY <1>1, <1>4, <1>5, <1>6 DEF LengthFrom
    <2>2. ~(n + i <= Len(e)) /\ (n + i) - Len(e) = i
        BY <1>5, <2>1
    <2>3. both[n + i] = r[(n + i) - Len(e)]
        BY <1>1, <2>1, <2>2
    <2> QED
        BY <1>4, <1>6, <2>1, <2>2, <2>3
<1>9. IsPrefix(rest, r)
    BY <1>6, <1>7, <1>8, PrefixIs
<1>10. \A i \in 1 .. Len(c) : i <= Len(e) => c[i] = e[i]
    <2> SUFFICES ASSUME NEW i \in 1 .. Len(c), i <= Len(e) PROVE c[i] = e[i]
        OBVIOUS
    <2>1. i \in 1 .. Len(e) + Len(r)
        BY <1>5
    <2> QED
        BY <1>1, <1>4, <2>1
<1>11. c = both => rest = r /\ Len(e) <= Len(c)
    BY <1>1, <1>2, <1>5 DEF rest
<1> QED
    BY <1>5, <1>6, <1>9, <1>10, <1>11 DEF rest, both

\* With c the bytes left and u the values unread: xs are those of them whose bytes c
\* begins, all but a last one that was too long; if nothing was cut, their bytes are c.
Remains(c, u, isCut, xs) ==
    /\ u = xs \/ (isCut /\ \E x \in Values : TooLong(x) /\ u = Append(xs, x))
    /\ IsPrefix(c, AllEncoded(xs))
    /\ ~isCut => c = AllEncoded(xs)

LEMMA FittingValues ==
    ASSUME NEW xs \in Seq(Fitting)
    PROVE  xs \in Seq(Values) /\ AllEncoded(xs) \in Seq(Bytes)
<1>1. Fitting \subseteq Values
    BY DEF Fitting
<1>2. xs \in Seq(Values)
    BY <1>1, SeqMonotonic
<1> QED
    BY <1>2, AllIsBytes

\* A value that is too long has left no bytes: its length cannot be read.
LEMMA LastIsTooLong ==
    ASSUME NEW c \in Seq(Bytes), NEW u, NEW isCut \in BOOLEAN, Remains(c, u, isCut, << >>), u # << >>
    PROVE  isCut /\ c = << >> /\ Head(u).type.kind \in {"string", "vector"} /\ Asked(Head(u), c) = 2
<1>1. PICK x \in Values : TooLong(x) /\ u = Append(<< >>, x) /\ isCut
    BY DEF Remains
<1>2. Head(u) = x
    BY <1>1
<1>3. x.type.kind \in {"string", "vector"}
    BY <1>1 DEF TooLong
<1>4. c = << >>
    <2>1. IsPrefix(c, << >>)
        BY NoneEncoded DEF Remains
    <2>2. << >> \in Seq(Bytes) /\ Len(<< >>) = 0 /\ Len(c) \in Nat
        OBVIOUS
    <2>3. Len(c) <= Len(<< >>)
        BY <2>1, <2>2, PrefixIs
    <2> QED
        BY <2>2, <2>3
<1>5. Asked(x, c) = 2
    BY <1>3, <1>4 DEF Asked
<1> QED
    BY <1>1, <1>2, <1>3, <1>4, <1>5

\* The value that is read next, and what remains of the others.
LEMMA NextValue ==
    ASSUME NEW c \in Seq(Bytes), NEW u, NEW isCut \in BOOLEAN, NEW xs \in Seq(Fitting), xs # << >>,
           Remains(c, u, isCut, xs)
    PROVE  /\ Head(u) \in Fitting /\ Begins(c, Head(u)) /\ Tail(xs) \in Seq(Fitting)
           /\ Remains(From(c, Len(Encoded(Head(u)))), Tail(u), isCut, Tail(xs))
           /\ ~isCut => Len(Encoded(Head(u))) <= Len(c)
<1> DEFINE x == Head(xs)
           rest == AllEncoded(Tail(xs))
<1>1. x \in Fitting /\ Tail(xs) \in Seq(Fitting)
    BY HeadTailProperties
<1>2. Encoded(x) \in Seq(Bytes)
    BY <1>1, EncodedIsBytes DEF Fitting
<1>3. rest \in Seq(Bytes)
    BY <1>1, FittingValues
<1>4. AllEncoded(xs) = Encoded(x) \o rest
    BY FittingValues, FirstAndRest
<1>5. Head(u) = x /\ (Tail(u) = Tail(xs) \/ (isCut /\ \E y \in Values : TooLong(y) /\ Tail(u) = Append(Tail(xs), y)))
    <2>1. CASE u = xs
        BY <2>1
    <2>2. CASE isCut /\ \E y \in Values : TooLong(y) /\ u = Append(xs, y)
        <3>1. PICK y \in Values : TooLong(y) /\ u = Append(xs, y)
            BY <2>2
        <3>2. Head(Append(xs, y)) = Head(xs) /\ Tail(Append(xs, y)) = Append(Tail(xs), y)
            <4> DEFINE S == Values
            <4>1. xs \in Seq(S) /\ y \in S
                BY FittingValues
            <4> HIDE DEF S
            <4> QED
                BY <4>1
        <3> QED
            BY <2>2, <3>1, <3>2
    <2> QED
        BY <2>1, <2>2 DEF Remains
<1>6. IsPrefix(c, Encoded(x) \o rest) /\ (~isCut => c = Encoded(x) \o rest)
    BY <1>4 DEF Remains
<1> HIDE DEF rest
<1>7. /\ IsPrefix(From(c, Len(Encoded(x))), rest)
      /\ \A i \in 1 .. Len(c) : i <= Len(Encoded(x)) => c[i] = Encoded(x)[i]
      /\ c = Encoded(x) \o rest => From(c, Len(Encoded(x))) = rest /\ Len(Encoded(x)) <= Len(c)
    BY <1>2, <1>3, <1>6, PrefixOfRest
<1>8. Begins(c, x)
    BY <1>7 DEF Begins
<1>9. Remains(From(c, Len(Encoded(x))), Tail(u), isCut, Tail(xs))
    BY <1>5, <1>6, <1>7 DEF Remains, rest
<1> QED
    BY <1>1, <1>5, <1>6, <1>7, <1>8, <1>9

------------------------------------------------------------------------------
(* The inductive invariant. *)

\* How far a read of x moves on.
Moves(x, c) == IF x.type.kind = "locale" THEN 4 ELSE Asked(x, c)

\* A read that finds enough bytes returns the value that was written, and leaves the
\* bytes of those behind it.
LEMMA RightValue ==
    ASSUME OneByteArrays, NEW c \in Seq(Bytes), NEW u, NEW isCut \in BOOLEAN, NEW xs \in Seq(Fitting),
           Remains(c, u, isCut, xs), u # << >>, Len(c) >= Asked(Head(u), c)
    PROVE  /\ Decoded(Head(u), SubSeq(c, 1, Asked(Head(u), c))) = WithZeros(Head(u))
           /\ \E ys \in Seq(Fitting) : Remains(From(c, Moves(Head(u), c)), Tail(u), isCut, ys)
<1> DEFINE x == Head(u)
           e == Encoded(x)
           n == Asked(x, c)
<1>1. xs # << >>
    <2>1. ASSUME xs = << >> PROVE FALSE
        <3>1. c = << >> /\ Asked(x, c) = 2
            BY <2>1, LastIsTooLong
        <3> QED
            BY <3>1
    <2> QED
        BY <2>1
<1>2. /\ x \in Fitting /\ Begins(c, x) /\ Tail(xs) \in Seq(Fitting)
      /\ Remains(From(c, Len(e)), Tail(u), isCut, Tail(xs))
    BY <1>1, NextValue
<1>3. e \in Seq(Bytes) /\ Len(e) \in Nat /\ Len(c) \in Nat
    BY <1>2, EncodedIsBytes DEF Fitting
<1>4. n \in Nat /\ n <= Len(e) /\ n <= Len(c)
    BY <1>2, AskedIs
<1>5. n = Len(e) \/ (x.type.kind = "locale" /\ e[1] = 0 /\ n = 2)
    BY <1>2, AskedIs
<1>6. x.type.kind = "locale" => Len(e) = 4
    BY <1>2, KindOf, EncodedLength DEF Fitting
<1>7. Moves(x, c) = Len(e)
    BY <1>5, <1>6 DEF Moves
<1>8. SubSeq(c, 1, n) = SubSeq(e, 1, n)
    <2>1. \A i \in 1 .. n : c[i] = e[i]
        BY <1>2, <1>3, <1>4 DEF Begins
    <2> HIDE DEF n, e
    <2> QED
        BY <1>3, <1>4, <2>1, SameStart
<1>9. Decoded(x, SubSeq(e, 1, n)) = WithZeros(x)
    <2>1. CASE x.type.kind = "locale"
        <3>1. n \in {2, 4} /\ (n = 2 => e[1] = 0)
            <4> HIDE DEF n, e
            <4>1. CASE n = Len(e)
                <5>1. n = 4
                    BY <1>6, <2>1, <4>1
                <5>2. 4 # 2
                    OBVIOUS
                <5> QED
                    BY <5>1, <5>2
            <4>2. CASE e[1] = 0 /\ n = 2
                BY <4>2
            <4> QED
                BY <1>5, <4>1, <4>2
        <3> QED
            BY <1>2, <2>1, <3>1, DecodedIs
    <2>2. CASE x.type.kind # "locale"
        <3>1. SubSeq(e, 1, n) = e
            BY <1>3, <1>5, <2>2, SubSeqFull
        <3> QED
            BY <1>2, <2>2, <3>1, DecodedIs
    <2> QED
        BY <2>1, <2>2
<1> HIDE DEF x, e, n
<1>10. Decoded(x, SubSeq(c, 1, n)) = WithZeros(x)
    BY <1>8, <1>9
<1>11. \E ys \in Seq(Fitting) : Remains(From(c, Moves(x, c)), Tail(u), isCut, ys)
    BY <1>2, <1>7
<1> QED
    BY <1>10, <1>11 DEF x, n

\* When nothing is cut, no read finds too few bytes.
LEMMA EnoughIfWhole ==
    ASSUME OneByteArrays, NEW c \in Seq(Bytes), NEW u, NEW xs \in Seq(Fitting),
           Remains(c, u, FALSE, xs), u # << >>
    PROVE  Len(c) >= Asked(Head(u), c)
<1>1. xs # << >>
    BY DEF Remains
<1>2. /\ Head(u) \in Fitting /\ Begins(c, Head(u))
      /\ Len(Encoded(Head(u))) <= Len(c)
    BY <1>1, NextValue
<1>3. /\ Asked(Head(u), c) \in Nat /\ Asked(Head(u), c) <= Len(Encoded(Head(u)))
      /\ Len(Encoded(Head(u))) \in Nat /\ Len(c) \in Nat
    BY <1>2, AskedIs, EncodedIsBytes DEF Fitting
<1> QED
    BY <1>2, <1>3

\* With all bytes gone, the same values remain, whole or but for a block.
LEMMA NothingLeft ==
    ASSUME NEW c \in Seq(Bytes), NEW u, NEW xs \in Seq(Fitting), Remains(c, u, TRUE, xs)
    PROVE  /\ Remains(<< >>, u, TRUE, xs)
           /\ u # << >> /\ Head(u).type.kind = "block" => \E ys \in Seq(Fitting) : Remains(<< >>, Tail(u), TRUE, ys)
<1>1. \A ys \in Seq(Fitting) : IsPrefix(<< >>, AllEncoded(ys))
    BY FittingValues, PrefixNone
<1>2. Remains(<< >>, u, TRUE, xs)
    BY <1>1 DEF Remains
<1>3. ASSUME u # << >>, Head(u).type.kind = "block"
      PROVE  \E ys \in Seq(Fitting) : Remains(<< >>, Tail(u), TRUE, ys)
    <2>1. xs # << >>
        BY <1>3, LastIsTooLong
    <2>2. Tail(xs) \in Seq(Fitting) /\ Remains(From(c, Len(Encoded(Head(u)))), Tail(u), TRUE, Tail(xs))
        BY <2>1, NextValue
    <2>3. Remains(<< >>, Tail(u), TRUE, Tail(xs))
        BY <1>1, <2>2 DEF Remains
    <2> QED
        BY <2>2, <2>3
<1> QED
    BY <1>2, <1>3

Intact == \E xs \in Seq(Fitting) : Remains(Contents, unread, cut, xs)

LEMMA IntactMeans ==
    ASSUME TypeOK, Intact
    PROVE  StreamIntact
<1>1. PICK xs \in Seq(Fitting) : Remains(Contents, unread, cut, xs)
    BY DEF Intact
<1>2. xs \in Seq(Values) /\ AllEncoded(xs) \in Seq(Bytes)
    BY FittingValues
<1>3. CASE unread = xs
    BY <1>1, <1>3 DEF Remains, StreamIntact
<1>4. CASE cut /\ \E x \in Values : TooLong(x) /\ unread = Append(xs, x)
    <2>1. PICK x \in Values : unread = Append(xs, x)
        BY <1>4
    <2>2. AllEncoded(unread) = AllEncoded(xs) \o Encoded(x)
        BY <1>2, <2>1, OneMore
    <2>3. Encoded(x) \in Seq(Bytes) /\ Contents \in Seq(Bytes)
        BY EncodedIsBytes, ContentsIs
    <2>4. IsPrefix(Contents, AllEncoded(xs))
        BY <1>1 DEF Remains
    <2>5. IsPrefix(Contents, AllEncoded(xs) \o Encoded(x))
        <3> DEFINE a == AllEncoded(xs)
                   e == Encoded(x)
                   c == Contents
                   b == a \o e
        <3>1. a \in Seq(Bytes) /\ e \in Seq(Bytes) /\ c \in Seq(Bytes) /\ IsPrefix(c, a)
            BY <1>2, <2>3, <2>4
        <3> HIDE DEF a, e, c
        <3>2. /\ b \in Seq(Bytes) /\ Len(b) = Len(a) + Len(e)
              /\ \A i \in 1 .. Len(a) + Len(e) : b[i] = IF i <= Len(a) THEN a[i] ELSE e[i - Len(a)]
            BY <3>1, ConcatProperties
        <3>3. Len(c) <= Len(a) /\ \A i \in 1 .. Len(c) : c[i] = a[i]
            BY <3>1, PrefixIs
        <3>4. Len(a) \in Nat /\ Len(e) \in Nat /\ Len(c) \in Nat
            BY <3>1
        <3> HIDE DEF b
        <3>5. Len(c) <= Len(b) /\ \A i \in 1 .. Len(c) : c[i] = b[i]
            BY <3>2, <3>3, <3>4
        <3>6. IsPrefix(c, b)
            BY <3>1, <3>2, <3>5, PrefixIs
        <3> QED
            BY <3>6 DEF a, e, c, b
    <2> QED
        BY <1>4, <2>2, <2>5 DEF StreamIntact
<1> QED
    BY <1>1, <1>3, <1>4 DEF Remains

\* Contents after a step that moves the offset.
LEMMA MovedBy ==
    ASSUME TypeOK, NEW n \in Nat, m_Data' = m_Data, m_StartOffset' = m_StartOffset + n
    PROVE  Contents' = From(Contents, n)
<1>1. m_Data \in Seq(Bytes) /\ m_StartOffset \in Nat
    BY DEF TypeOK
<1>2. Contents = From(m_Data, m_StartOffset)
    BY ContentsIs
<1>3. Contents' = From(m_Data, m_StartOffset + n)
    BY DEF Contents, From
<1>4. From(From(m_Data, m_StartOffset), n) = From(m_Data, m_StartOffset + n)
    BY <1>1, BehindBehind
<1> QED
    BY <1>2, <1>3, <1>4

LEMMA MovedPastAll ==
    ASSUME TypeOK, m_Data' = m_Data, m_StartOffset' = m_StartOffset + Len(Contents)
    PROVE  Contents' = << >>
<1> DEFINE c == Contents
<1>1. c \in Seq(Bytes) /\ Len(c) \in Nat
    BY ContentsIs
<1>2. Contents' = From(c, Len(c))
    BY <1>1, MovedBy
<1> HIDE DEF c
<1>3. From(c, Len(c)) \in Seq(Bytes) /\ Len(From(c, Len(c))) = LengthFrom(c, Len(c))
    BY <1>1, Behind
<1>4. LengthFrom(c, Len(c)) = 0
    BY <1>1 DEF LengthFrom
<1> DEFINE r == From(c, Len(c))
<1> HIDE DEF r
<1>5. r = << >>
    BY <1>3, <1>4 DEF r
<1> QED
    BY <1>2, <1>5 DEF r

LEMMA IntactStep ==
    ASSUME OneByteArrays, TypeOK, TypeOK', Intact, [Next]_vars
    PROVE  Intact'
<1>1. PICK xs \in Seq(Fitting) : Remains(Contents, unread, cut, xs)
    BY DEF Intact
<1>2. /\ Contents \in Seq(Bytes) /\ Len(Contents) \in Nat /\ cut \in BOOLEAN
      /\ xs \in Seq(Values) /\ AllEncoded(xs) \in Seq(Bytes)
    BY FittingValues, ContentsIs DEF TypeOK
<1>3. SUFFICES \E ys \in Seq(Fitting) : Remains(Contents', unread', cut', ys)
    BY DEF Intact
<1>4. ~cut => unread = xs /\ Contents = AllEncoded(xs)
    BY <1>1 DEF Remains
<1>5. ASSUME NEW x \in Values, Write(x) PROVE \E ys \in Seq(Fitting) : Remains(Contents', unread', cut', ys)
    <2>1. /\ ~cut /\ ~TooLong(x) /\ Len(Encoded(x)) <= Room /\ Grow(Encoded(x))
          /\ unread' = Append(unread, x) /\ cut' = cut
        BY <1>5 DEF Write, CanWrite
    <2>2. Encoded(x) \in Seq(Bytes)
        BY EncodedIsBytes
    <2>3. Contents' = Contents \o Encoded(x)
        BY <2>1, <2>2, GrowIs
    <2>4. AllEncoded(Append(xs, x)) = AllEncoded(xs) \o Encoded(x)
        BY <1>2, OneMore
    <2>5. x \in Fitting
        BY <2>1 DEF Fitting
    <2>6. Append(xs, x) \in Seq(Fitting)
        BY <2>5, AppendProperties
    <2>7. Contents' = AllEncoded(Append(xs, x))
        BY <1>4, <2>1, <2>3, <2>4
    <2>8. IsPrefix(Contents', AllEncoded(Append(xs, x)))
        BY <2>6, <2>7, FittingValues, PrefixItself
    <2>9. Remains(Contents', unread', cut', Append(xs, x))
        BY <1>4, <2>1, <2>7, <2>8 DEF Remains
    <2> QED
        BY <2>6, <2>9
<1>6. ASSUME NEW x \in Values, WriteThrows(x) PROVE \E ys \in Seq(Fitting) : Remains(Contents', unread', cut', ys)
    <2>1. ~cut /\ unread' = Append(unread, x) /\ cut' = TRUE
        BY <1>6 DEF WriteThrows, CanWrite
    <2>2. CASE TooLong(x) /\ UNCHANGED <<m_Data, m_StartOffset>>
        <3>1. Contents' = Contents
            BY <2>2 DEF Contents
        <3>2. Remains(Contents', unread', cut', xs)
            BY <1>1, <1>4, <2>1, <2>2, <3>1 DEF Remains
        <3> QED
            BY <3>2
    <2>3. CASE /\ ~TooLong(x) /\ Len(Encoded(x)) > Room
               /\ Grow(IF x.type.kind = "block" THEN << >> ELSE SubSeq(Encoded(x), 1, Room))
        <3> DEFINE added == IF x.type.kind = "block" THEN << >> ELSE SubSeq(Encoded(x), 1, Room)
                   e == Encoded(x)
        <3>1. e \in Seq(Bytes) /\ Len(e) \in Nat
            BY EncodedIsBytes
        <3>2. added \in Seq(Bytes) /\ Len(added) <= Room
            BY <2>3, ThrownAfter
        <3>3. IsPrefix(added, e)
            <4>1. CASE x.type.kind = "block"
                BY <3>1, <4>1, PrefixNone
            <4>2. CASE x.type.kind # "block"
                <5> DEFINE first == SubSeq(e, 1, Room)
                <5>1. /\ first \in Seq(Bytes) /\ Len(first) = Room /\ Room <= Len(e)
                      /\ \A i \in 1 .. Room : first[i] = e[i]
                    BY <2>3, ThrownAfter
                <5>2. added = first
                    BY <4>2
                <5> HIDE DEF first, added, e
                <5>3. IsPrefix(first, e)
                    BY <3>1, <5>1, PrefixIs
                <5> QED
                    BY <5>2, <5>3
            <4> QED
                BY <4>1, <4>2
        <3>4. Grow(added)
            BY <2>3
        <3> HIDE DEF added
        <3>5. Contents' = Contents \o added
            BY <3>2, <3>4, GrowIs
        <3>6. AllEncoded(Append(xs, x)) = AllEncoded(xs) \o e
            BY <1>2, OneMore
        <3>7. x \in Fitting
            BY <2>3 DEF Fitting
        <3>8. Append(xs, x) \in Seq(Fitting)
            BY <3>7, AppendProperties
        <3> HIDE DEF e
        <3>9. IsPrefix(Contents \o added, Contents \o e)
            BY <1>2, <3>1, <3>2, <3>3, PrefixBehind
        <3>10. Remains(Contents', unread', cut', Append(xs, x))
            BY <1>4, <2>1, <3>5, <3>6, <3>9 DEF Remains
        <3> QED
            BY <3>8, <3>10
    <2> QED
        BY <1>6, <2>2, <2>3 DEF WriteThrows
<1>7. CASE Transfer
    <2> DEFINE n == Len(m_Data) % (Max16 + 1)
    <2>1. /\ ~cut /\ m_StartOffset = 0 /\ m_Data' = SubSeq(m_Data, 1, n) /\ cut' = TRUE
          /\ m_StartOffset' = 0 /\ unread' = unread /\ m_Data \in Seq(Bytes) /\ m_Data' \in Seq(Bytes)
        BY <1>7 DEF Transfer, TypeOK
    <2>2. n \in 0 .. Len(m_Data)
        BY <1>7, CutIsShorter
    <2> HIDE DEF n
    <2>3. Contents = m_Data /\ Contents' = m_Data'
        <3>1. Contents = SubSeq(m_Data, 0 + 1, Len(m_Data)) /\ Contents' = SubSeq(m_Data', 0 + 1, Len(m_Data'))
            BY <2>1 DEF Contents
        <3>2. SubSeq(m_Data, 1, Len(m_Data)) = m_Data /\ SubSeq(m_Data', 1, Len(m_Data')) = m_Data'
            BY <2>1, SubSeqFull
        <3> QED
            BY <3>1, <3>2
    <2>4. Len(m_Data') = n /\ \A i \in 1 .. n : m_Data'[i] = m_Data[i]
        BY <2>1, <2>2, FirstN
    <2>5. IsPrefix(m_Data', m_Data)
        <3>1. Len(m_Data) \in Nat /\ n <= Len(m_Data)
            BY <2>1, <2>2
        <3> QED
            BY <2>1, <2>4, <3>1, PrefixIs
    <2>6. Remains(Contents', unread', cut', xs)
        BY <1>4, <2>1, <2>3, <2>5 DEF Remains
    <2> QED
        BY <2>6
<1>8. CASE Clear
    <2>1. m_Data' = << >> /\ m_StartOffset' = 0 /\ unread' = << >> /\ cut' = FALSE
        BY <1>8 DEF Clear
    <2>2. << >> \in Seq(Fitting) /\ << >> \in Seq(Bytes)
        OBVIOUS
    <2>3. Contents' = << >>
        <3>1. SubSeq(<< >>, 1, Len(<< >>)) = << >>
            BY <2>2, SubSeqFull
        <3>2. Contents' = SubSeq(<< >>, 0 + 1, Len(<< >>))
            BY <2>1 DEF Contents
        <3> QED
            BY <3>1, <3>2
    <2>4. IsPrefix(<< >>, << >>)
        BY <2>2, PrefixItself
    <2>5. Remains(Contents', unread', cut', << >>)
        BY <2>1, <2>3, <2>4, NoneEncoded DEF Remains
    <2> QED
        BY <2>2, <2>5
<1>9. CASE Read
    <2> DEFINE x == Head(unread)
    <2>1. /\ unread # << >> /\ Len(Contents) >= Asked(x, Contents)
          /\ m_StartOffset' = m_StartOffset + Used(x) /\ m_Data' = m_Data
          /\ unread' = Tail(unread) /\ cut' = cut
        BY <1>9 DEF Read, Enough
    <2>2. Used(x) = Moves(x, Contents)
        BY DEF Used, Moves
    <2>3. Used(x) \in Nat
        <3>1. x \in Values
            BY <2>1, HeadTailProperties DEF TypeOK
        <3>2. Asked(x, Contents) \in Nat
            BY <1>2, <3>1, AskedIsNat
        <3> QED
            BY <3>2 DEF Used
    <2>4. \E ys \in Seq(Fitting) : Remains(From(Contents, Moves(x, Contents)), Tail(unread), cut, ys)
        BY <1>1, <1>2, <2>1, RightValue
    <2> HIDE DEF x
    <2>5. Contents' = From(Contents, Moves(x, Contents))
        BY <2>1, <2>2, <2>3, MovedBy
    <2> QED
        BY <2>1, <2>4, <2>5
<1>10. ASSUME unread # << >>, ~Enough PROVE cut = TRUE
    <2>1. ~(Len(Contents) >= Asked(Head(unread), Contents))
        BY <1>10 DEF Enough
    <2>2. cut # FALSE
        BY <1>1, <1>2, <1>10, <2>1, EnoughIfWhole
    <2> QED
        BY <1>2, <2>2
<1>11. CASE ReadThrows
    <2>1. cut = TRUE /\ unread' = unread /\ cut' = cut
        BY <1>10, <1>11 DEF ReadThrows
    <2>2. Contents' = << >>
        BY <1>11, MovedPastAll DEF ReadThrows
    <2>3. Remains(<< >>, unread, TRUE, xs)
        BY <1>1, <1>2, <2>1, NothingLeft
    <2> QED
        BY <2>1, <2>2, <2>3
<1>12. CASE ReadShort
    <2>1. cut = TRUE /\ unread' = Tail(unread) /\ cut' = cut /\ unread # << >> /\ Head(unread).type.kind = "block"
        BY <1>10, <1>12 DEF ReadShort
    <2>2. Contents' = << >>
        BY <1>12, MovedPastAll DEF ReadShort
    <2>3. \E ys \in Seq(Fitting) : Remains(<< >>, Tail(unread), TRUE, ys)
        BY <1>1, <1>2, <2>1, NothingLeft
    <2> QED
        BY <2>1, <2>2, <2>3
<1>13. CASE PeekArray
    <2>1. Grow(<< >>) /\ unread' = unread /\ cut' = cut
        BY <1>13 DEF PeekArray
    <2>2. Contents' = Contents
        <3>1. << >> \in Seq(Bytes) /\ Len(<< >>) <= Room
            BY NoneYet, ContentsIs DEF Room
        <3>2. Contents' = Contents \o << >>
            BY <2>1, <3>1, GrowIs
        <3> QED
            BY <1>2, <3>2, ConcatEmptySeq
    <2> QED
        BY <1>1, <2>1, <2>2
<1>14. CASE UNCHANGED vars
    <2>1. Contents' = Contents /\ unread' = unread /\ cut' = cut
        BY <1>14 DEF vars, Contents
    <2> QED
        BY <1>1, <2>1
<1> QED
    BY <1>5, <1>6, <1>7, <1>8, <1>9, <1>11, <1>12, <1>13, <1>14 DEF Next

\* A value that is read is right: this is what the bytes left are an invariant for.
LEMMA ReadBackStep ==
    ASSUME OneByteArrays, TypeOK, Intact, ReadBack, [Next]_vars
    PROVE  ReadBack'
<1>1. CASE Read
    <2> DEFINE x == Head(unread)
               value == Decoded(x, SubSeq(Contents, 1, Asked(x, Contents)))
    <2>1. got' = Got(x, value) /\ unread # << >> /\ Len(Contents) >= Asked(x, Contents)
        BY <1>1 DEF Read, Enough
    <2>2. PICK xs \in Seq(Fitting) : Remains(Contents, unread, cut, xs)
        BY DEF Intact
    <2>3. value = WithZeros(x)
        BY <2>1, <2>2, ContentsIs, RightValue DEF TypeOK
    <2> HIDE DEF x, value
    <2>4. got'.read = value /\ got'.written = x
        BY <2>1 DEF Got
    <2>5. got'.read = WithZeros(got'.written)
        BY <2>3, <2>4
    <2>6. ReadBack' = (got'.outcome = "read" => got'.read = WithZeros(got'.written))
        BY DEF ReadBack, WithZeros
    <2> QED
        BY <2>5, <2>6
<1>2. CASE got' = Nothing \/ got' = Thrown \/ got' = Short
    <2>1. got'.outcome # "read"
        BY <1>2 DEF Nothing, Thrown, Short
    <2> QED
        BY <2>1 DEF ReadBack
<1>3. CASE got' = got
    BY <1>3 DEF ReadBack, WithZeros
<1>4. [Next]_vars => Read \/ (got' = Nothing \/ got' = Thrown \/ got' = Short) \/ got' = got
    BY DEF Next, Write, WriteThrows, Transfer, Clear, ReadThrows, ReadShort, PeekArray, vars
<1> QED
    BY <1>1, <1>2, <1>3, <1>4

LEMMA InitIsIntact ==
    ASSUME Init
    PROVE  Intact /\ ReadBack
<1>1. << >> \in Seq(Fitting) /\ << >> \in Seq(Bytes)
    OBVIOUS
<1>2. Contents = << >>
    <2>1. SubSeq(<< >>, 1, Len(<< >>)) = << >>
        BY <1>1, SubSeqFull
    <2>2. Contents = SubSeq(<< >>, 0 + 1, Len(<< >>))
        BY DEF Init, Contents
    <2> QED
        BY <2>1, <2>2
<1>3. IsPrefix(<< >>, << >>)
    BY <1>1, PrefixItself
<1>4. Remains(Contents, unread, cut, << >>)
    BY <1>2, <1>3, NoneEncoded DEF Init, Remains
<1>5. got.outcome # "read"
    BY DEF Init, Nothing
<1> QED
    BY <1>1, <1>4, <1>5 DEF Intact, ReadBack

LEMMA InductiveInvariant ==
    ASSUME OneByteArrays
    PROVE  Spec => [](TypeOK /\ Intact /\ ReadBack)
<1> DEFINE IInv == TypeOK /\ Intact /\ ReadBack
<1>1. Init => IInv
    BY EmptyIsTyped, InitIsIntact DEF Init, TypeOK
<1>2. IInv /\ [Next]_vars => IInv'
    BY TypeStep, IntactStep, ReadBackStep
<1> HIDE DEF IInv
<1>3. Spec => []IInv
    BY <1>1, <1>2, PTL DEF Spec
<1> QED
    BY <1>3 DEF IInv

\* The bytes left in the buffer are those of the values not yet read, in their order, or
\* of a body cut short the beginning of them.
THEOREM StreamStaysIntact ==
    ASSUME OneByteArrays
    PROVE  Spec => []StreamIntact
<1>1. TypeOK /\ Intact /\ ReadBack => StreamIntact
    BY IntactMeans
<1> QED
    BY <1>1, InductiveInvariant, PTL

\* What operator>> returns is what operator<< was given, with the zeros behind a vector.
THEOREM WhatIsReadWasWritten ==
    ASSUME OneByteArrays
    PROVE  Spec => []ReadBack
<1>1. TypeOK /\ Intact /\ ReadBack => ReadBack
    OBVIOUS
<1> QED
    BY <1>1, InductiveInvariant, PTL
==============================================================================
