-------------------------- MODULE SequenceInduction --------------------------
(***************************************************************************)
(* Induction over the naturals, stated with sets so that no operator has   *)
(* to be instantiated, and the functions recursive definitions stand for.  *)
(***************************************************************************)
EXTENDS Naturals, Sequences, SequenceTheorems, WellFoundedInduction, TLAPS

LEMMA Least ==
    ASSUME NEW T, T \subseteq Nat, T # {}
    PROVE  \E n \in T : \A m \in T : n <= m
  <1>1. IsWellFoundedOn(OpToRel(<, Nat), Nat)
    BY NatLessThanWellFounded
  <1>2. \E x \in T : \A y \in T : ~ (<<y, x>> \in OpToRel(<, Nat))
    BY <1>1, WFMin
  <1>3. ASSUME NEW x \in Nat, NEW y \in Nat, y < x
        PROVE  <<y, x>> \in OpToRel(<, Nat)
    BY <1>3, Zenon DEF OpToRel
  <1>4. PICK x \in T : \A y \in T : ~ (<<y, x>> \in OpToRel(<, Nat))
    BY <1>2
  <1>5. \A y \in T : ~ (y < x)
    BY <1>3, <1>4
  <1> QED
    BY <1>5

\* A set that has zero and with every number the next one has all numbers.
LEMMA SetInduction ==
    ASSUME NEW S, 0 \in S, \A n \in Nat : n \in S => n + 1 \in S
    PROVE  Nat \subseteq S
  <1> DEFINE T == {n \in Nat : n \notin S}
  <1>1. SUFFICES ASSUME T # {} PROVE FALSE
    OBVIOUS
  <1>2. PICK n \in T : \A m \in T : n <= m
    BY <1>1, Least
  <1>3. n # 0 /\ n - 1 \in Nat /\ n = (n - 1) + 1
    OBVIOUS
  <1>4. n - 1 \notin T
    BY <1>2, <1>3
  <1> QED
    BY <1>3, <1>4

-----------------------------------------------------------------------------
(* Single facts about sequences, each small enough to be applied to terms. *)

LEMMA FunctionIsSeq ==
    ASSUME NEW S, NEW n \in Nat, NEW f \in [1..n -> S]
    PROVE  f \in Seq(S) /\ Len(f) = n
  BY SeqDef

\* One sequence and then the other.  Kept folded, it is rewritten like any operator.
Then(a, b) == a \o b

LEMMA Laid == ASSUME NEW S, NEW a \in Seq(S), NEW b \in Seq(S) PROVE Then(a, b) \in Seq(S)
  BY DEF Then

LEMMA Regroup ==
    ASSUME NEW S, NEW a \in Seq(S), NEW b \in Seq(S), NEW c \in Seq(S)
    PROVE  Then(Then(a, b), c) = Then(a, Then(b, c))
  BY ConcatAssociative DEF Then

LEMMA NothingBehind ==
    ASSUME NEW S, NEW a \in Seq(S), NEW b \in Seq(S), a = Then(a, b)
    PROVE  b = <<>>
  BY ConcatEqualIffEmpty DEF Then

LEMMA SameFront ==
    ASSUME NEW S, NEW a \in Seq(S), NEW b \in Seq(S), NEW c \in Seq(S), Then(a, b) = Then(a, c)
    PROVE  b = c
  BY ConcatSimplifications DEF Then

LEMMA ThenNothing == ASSUME NEW S, NEW a \in Seq(S) PROVE Then(a, <<>>) = a /\ Then(<<>>, a) = a
  BY ConcatEmptySeq DEF Then

First(s, n) == SubSeq(s, 1, n)

Skip(s, n) == SubSeq(s, n + 1, Len(s))

\* Taking from the front of a sequence that is there in two parts.
LEMMA TakeMany ==
    ASSUME NEW S, NEW w \in Seq(S), NEW t \in Seq(S), NEW p \in Seq(S), NEW z \in Seq(S),
           Then(w, t) = Then(p, z), NEW n \in Nat, Len(p) = n, n <= Len(w)
    PROVE  First(w, n) = p /\ Skip(w, n) \in Seq(S) /\ Then(Skip(w, n), t) = z
  <1> DEFINE a == SubSeq(w, 1, Len(p))
             b == SubSeq(w, Len(p) + 1, Len(w))
  <1>0. Len(w) \in Nat /\ Len(p) \in Nat
    OBVIOUS
  <1>1. a \in Seq(S) /\ b \in Seq(S) /\ Len(a) = Len(p) /\ Len(b) = Len(w) - Len(p)
    BY <1>0
  <1>2. \A i \in 1..Len(p) : (w \o t)[i] = w[i] /\ (p \o z)[i] = p[i]
    BY <1>0
  <1>3. a = p
    <2>1. \A i \in 1..Len(a) : a[i] = p[i]
      BY <1>0, <1>1, <1>2 DEF Then
    <2> HIDE DEF a
    <2> QED
      BY <1>1, <2>1, SeqEqual
  <1>4. w = a \o b
    <2>1. 1 \in 1..(Len(w) + 1) /\ Len(p) \in (1 - 1)..Len(w) /\ Len(w) \in Len(p)..Len(w)
      BY <1>0
    <2>2. SubSeq(w, 1, Len(p)) \o SubSeq(w, Len(p) + 1, Len(w)) = SubSeq(w, 1, Len(w))
      BY <2>1, ConcatAdjacentSubSeq
    <2> QED
      BY <2>2, SubSeqFull
  <1> HIDE DEF a, b
  <1>5. Then(w, t) = Then(a, Then(b, t))
    <2>1. w = Then(a, b)
      BY <1>4 DEF Then
    <2> QED
      BY <1>1, <2>1, Regroup
  <1>6. Then(b, t) = z
    <2>1. Then(p, Then(b, t)) = Then(p, z) /\ Then(b, t) \in Seq(S)
      BY <1>1, <1>3, <1>5, Laid
    <2> QED
      BY <2>1, SameFront
  <1> QED
    BY <1>1, <1>3, <1>6 DEF a, b, First, Skip

One(x) == <<x>>

LEMMA OneAhead ==
    ASSUME NEW S, NEW a \in S, NEW b \in S, NEW s \in Seq(S), NEW t \in Seq(S),
           Then(One(a), s) = Then(One(b), t)
    PROVE  a = b /\ s = t
  <1>1. (<<a>> \o s)[1] = a /\ Tail(<<a>> \o s) = s
    OBVIOUS
  <1>2. (<<b>> \o t)[1] = b /\ Tail(<<b>> \o t) = t
    OBVIOUS
  <1> QED
    BY <1>1, <1>2, Zenon DEF Then, One

LEMMA HeadFirst ==
    ASSUME NEW S, NEW a \in Seq(S), a # <<>>
    PROVE  Head(a) \in S /\ Tail(a) \in Seq(S) /\ a = Then(One(Head(a)), Tail(a))
  <1>1. a = <<Head(a)>> \o Tail(a) /\ Head(a) \in S /\ Tail(a) \in Seq(S)
    OBVIOUS
  <1> QED
    BY <1>1, Zenon DEF Then, One

LEMMA LenThen ==
    ASSUME NEW S, NEW a \in Seq(S), NEW b \in Seq(S)
    PROVE  Len(Then(a, b)) = Len(a) + Len(b) /\ Len(a) \in Nat /\ Len(b) \in Nat
  BY DEF Then

LEMMA HasHead ==
    ASSUME NEW S, NEW a \in Seq(S), a # <<>>
    PROVE  \E x \in S, y \in Seq(S) : a = Then(One(x), y)
  BY HeadFirst

LEMMA FrontIs ==
    ASSUME NEW S, NEW x \in S, NEW t \in Seq(S)
    PROVE  Then(One(x), t) # <<>> /\ Head(Then(One(x), t)) = x
  <1>1. <<x>> \o t # <<>> /\ Head(<<x>> \o t) = x
    OBVIOUS
  <1> QED
    BY <1>1, Zenon DEF Then, One

LEMMA OneSeq == ASSUME NEW S, NEW x \in S PROVE One(x) \in Seq(S)
  BY DEF One

LEMMA TakeFirst ==
    ASSUME NEW S, NEW h \in S, NEW r \in Seq(S), NEW t \in Seq(S), NEW x \in S, NEW z \in Seq(S),
           Then(Then(One(h), r), t) = Then(One(x), z)
    PROVE  h = x /\ Then(r, t) = z
  <1>1. One(h) \in Seq(S)
    BY OneSeq
  <1>2. Then(One(h), Then(r, t)) = Then(One(x), z) /\ Then(r, t) \in Seq(S)
    BY <1>1, Regroup, Laid
  <1> QED
    BY <1>2, OneAhead

LEMMA TakeOne ==
    ASSUME NEW S, NEW w \in Seq(S), NEW t \in Seq(S), NEW x \in S, NEW z \in Seq(S),
           Then(w, t) = Then(One(x), z), w # <<>>
    PROVE  Head(w) = x /\ Tail(w) \in Seq(S) /\ Then(Tail(w), t) = z
  <1> DEFINE h == Head(w)
             r == Tail(w)
  <1>1. h \in S /\ r \in Seq(S) /\ w = Then(One(h), r)
    BY HeadFirst
  <1> HIDE DEF h, r
  <1>2. Then(Then(One(h), r), t) = Then(One(x), z)
    BY <1>1
  <1>3. h = x /\ Then(r, t) = z
    BY <1>1, <1>2, TakeFirst
  <1> QED
    BY <1>1, <1>3 DEF h, r

\* One element goes from the front of one sequence to the end of the other.
LEMMA MoveOne ==
    ASSUME NEW S, NEW w \in Seq(S), NEW t \in Seq(S), t # <<>>
    PROVE  Then(Append(w, Head(t)), Tail(t)) = Then(w, t)
  <1>1. Append(w, Head(t)) \o Tail(t) = w \o t
    OBVIOUS
  <1> QED
    BY <1>1 DEF Then

\* What a sequence has in it.
Elems(s) == {s[j] : j \in 1..Len(s)}

LEMMA ElemsTyped == ASSUME NEW S, NEW a \in Seq(S) PROVE Elems(a) \subseteq S
  BY DEF Elems

LEMMA ElemsNone == Elems(<<>>) = {}
  BY DEF Elems

LEMMA ElemsOne == ASSUME NEW x PROVE Elems(One(x)) = {x}
  BY DEF Elems, One

LEMMA ElemsThen ==
    ASSUME NEW S, NEW a \in Seq(S), NEW b \in Seq(S)
    PROVE  Elems(Then(a, b)) = Elems(a) \cup Elems(b)
  <1>1. Len(a) \in Nat /\ Len(b) \in Nat /\ Len(a \o b) = Len(a) + Len(b)
    OBVIOUS
  <1>2. ASSUME NEW i \in 1..Len(a \o b)
        PROVE  (a \o b)[i] \in Elems(a) \cup Elems(b)
    <2>1. CASE i <= Len(a)
      BY <1>1, <2>1 DEF Elems
    <2>2. CASE i > Len(a)
      <3>1. i - Len(a) \in 1..Len(b) /\ (a \o b)[i] = b[i - Len(a)]
        BY <1>1, <2>2
      <3> QED
        BY <3>1 DEF Elems
    <2> QED
      BY <1>1, <2>1, <2>2
  <1>3. ASSUME NEW i \in 1..Len(a)
        PROVE  a[i] \in Elems(a \o b)
    <2>1. i \in 1..Len(a \o b) /\ (a \o b)[i] = a[i]
      BY <1>1
    <2> QED
      BY <2>1 DEF Elems
  <1>4. ASSUME NEW i \in 1..Len(b)
        PROVE  b[i] \in Elems(a \o b)
    <2>1. i + Len(a) \in 1..Len(a \o b) /\ (a \o b)[i + Len(a)] = b[i]
      BY <1>1
    <2> QED
      BY <2>1 DEF Elems
  <1> QED
    BY <1>2, <1>3, <1>4 DEF Elems, Then

LEMMA EmptyOrHead ==
    ASSUME NEW S, NEW a \in Seq(S), a # <<>>
    PROVE  /\ Head(a) \in S /\ Tail(a) \in Seq(S) /\ a = Then(One(Head(a)), Tail(a))
           /\ Head(a) \in Elems(a)
  <1>1. Head(a) = a[1] /\ 1 \in 1..Len(a)
    OBVIOUS
  <1> QED
    BY <1>1, HeadFirst DEF Elems

-----------------------------------------------------------------------------
(* Laying sequences one behind the other.                                  *)

\* f has in f[i] the first i sequences of ss, one behind the other.
Flattens(f, ss, n) == f = [i \in 1..n |-> IF i = 1 THEN ss[i] ELSE Then(f[i - 1], ss[i])]

LEMMA FlattensExists ==
    ASSUME NEW ss, NEW n \in Nat
    PROVE  \E f : Flattens(f, ss, n)
  <1> DEFINE S == {m \in Nat : \E f : Flattens(f, ss, m)}
  <1>1. 0 \in S
    <2> DEFINE f == [i \in 1..0 |-> ss[i]]
    <2>1. f = [i \in 1..0 |-> IF i = 1 THEN ss[i] ELSE Then(f[i - 1], ss[i])]
      OBVIOUS
    <2> QED
      BY <2>1 DEF Flattens
  <1>2. ASSUME NEW m \in Nat, m \in S
        PROVE  m + 1 \in S
    <2>1. PICK f : Flattens(f, ss, m)
      BY <1>2
    <2> DEFINE g == [i \in 1..(m + 1) |->
                        IF i = m + 1 THEN (IF i = 1 THEN ss[i] ELSE Then(f[m], ss[i])) ELSE f[i]]
    <2>2. ASSUME NEW i \in 1..(m + 1)
          PROVE  g[i] = IF i = 1 THEN ss[i] ELSE Then(g[i - 1], ss[i])
      <3>1. CASE i = m + 1
        <4>1. i # 1 => g[m] = f[m] /\ m = i - 1
          BY <3>1
        <4> QED
          BY <3>1, <4>1
      <3>2. CASE i # m + 1
        <4>1. i \in 1..m /\ g[i] = f[i]
          BY <3>2
        <4>2. f[i] = IF i = 1 THEN ss[i] ELSE Then(f[i - 1], ss[i])
          BY <2>1, <4>1 DEF Flattens
        <4>3. i # 1 => i - 1 \in 1..m /\ g[i - 1] = f[i - 1]
          BY <4>1
        <4> QED
          BY <4>1, <4>2, <4>3
      <3> QED
        BY <3>1, <3>2
    <2>3. g = [i \in 1..(m + 1) |-> IF i = 1 THEN ss[i] ELSE Then(g[i - 1], ss[i])]
      BY <2>2
    <2>4. Flattens(g, ss, m + 1)
      BY <2>3 DEF Flattens
    <2> QED
      BY <2>4
  <1> HIDE DEF S
  <1>3. n \in S
    BY <1>1, <1>2, SetInduction
  <1> QED
    BY <1>3 DEF S


LEMMA FlattensTyped ==
    ASSUME NEW S, NEW ss \in Seq(Seq(S)), NEW f, Flattens(f, ss, Len(ss))
    PROVE  \A i \in 1..Len(ss) : f[i] \in Seq(S)
  <1> DEFINE G == {n \in Nat : n \in 1..Len(ss) => f[n] \in Seq(S)}
  <1>1. 0 \in G
    OBVIOUS
  <1>2. ASSUME NEW n \in Nat, n \in G
        PROVE  n + 1 \in G
    <2>1. SUFFICES ASSUME n + 1 \in 1..Len(ss) PROVE f[n + 1] \in Seq(S)
      OBVIOUS
    <2>2. ss[n + 1] \in Seq(S)
      BY <2>1
    <2>3. CASE n = 0
      BY <2>1, <2>2, <2>3 DEF Flattens
    <2>4. CASE n # 0
      <3>1. f[n] \in Seq(S)
        BY <1>2, <2>1, <2>4
      <3>2. f[n + 1] = Then(f[n], ss[n + 1])
        BY <2>1, <2>4 DEF Flattens
      <3> QED
        BY <2>2, <3>1, <3>2, Laid
    <2> QED
      BY <2>3, <2>4
  <1> HIDE DEF G
  <1>3. Nat \subseteq G
    BY <1>1, <1>2, SetInduction
  <1>4. Len(ss) \in Nat
    OBVIOUS
  <1> QED
    BY <1>3, <1>4 DEF G

\* What is laid behind the first m of them.
LEMMA FlattensSplit ==
    ASSUME NEW S, NEW ss \in Seq(Seq(S)), NEW f, Flattens(f, ss, Len(ss)), NEW m \in 1..Len(ss)
    PROVE  \E t \in Seq(S) : f[Len(ss)] = Then(f[m], t)
  <1> DEFINE n == Len(ss)
             G == {k \in Nat : k < n => \E t \in Seq(S) : f[n] = Then(f[n - k], t)}
  <1>0. n \in Nat /\ \A i \in 1..n : f[i] \in Seq(S)
    BY FlattensTyped
  <1>5. \A i \in 1..n : f[i] = IF i = 1 THEN ss[i] ELSE Then(f[i - 1], ss[i])
    BY DEF Flattens
  <1>6. \A i \in 1..n : ss[i] \in Seq(S)
    OBVIOUS
  <1>1. 0 \in G
    <2>1. n \in 1..n /\ n - 0 = n /\ <<>> \in Seq(S)
      OBVIOUS
    <2>2. f[n] = Then(f[n], <<>>)
      BY <1>0, <2>1, ThenNothing
    <2> HIDE DEF n
    <2> QED
      BY <1>0, <2>1, <2>2
  <1>2. ASSUME NEW k \in Nat, k \in G
        PROVE  k + 1 \in G
    <2>1. SUFFICES ASSUME k + 1 < n PROVE \E t \in Seq(S) : f[n] = Then(f[n - (k + 1)], t)
      OBVIOUS
    <2>2. PICK t \in Seq(S) : f[n] = Then(f[n - k], t)
      BY <1>0, <1>2, <2>1
    <2>3. n - k \in 1..n /\ n - k # 1 /\ n - (k + 1) = (n - k) - 1 /\ n - (k + 1) \in 1..n
      BY <1>0, <2>1
    <2>4. f[n - k] = Then(f[n - (k + 1)], ss[n - k])
      <3> HIDE DEF n
      <3> QED
        BY <1>5, <2>3
    <2>5. f[n - (k + 1)] \in Seq(S) /\ ss[n - k] \in Seq(S)
      <3> HIDE DEF n
      <3> QED
        BY <1>0, <1>6, <2>3
    <2>6. f[n] = Then(f[n - (k + 1)], Then(ss[n - k], t))
      BY <2>2, <2>4, <2>5, Regroup
    <2>7. Then(ss[n - k], t) \in Seq(S)
      BY <2>2, <2>5, Laid
    <2> QED
      BY <2>6, <2>7
  <1> HIDE DEF G
  <1>3. n - m \in Nat /\ n - m < n /\ n - (n - m) = m
    BY <1>0
  <1> HIDE DEF n
  <1>4. n - m \in G
    BY <1>1, <1>2, <1>3, SetInduction
  <1> QED
    BY <1>3, <1>4 DEF G, n

\* The same from the other end: r[m] is what comes behind the first m sequences.
AreRests(r, ss) ==
    /\ r[Len(ss)] = <<>>
    /\ \A m \in 0..(Len(ss) - 1) : r[m] = Then(ss[m + 1], r[m + 1])

Rests(ss) == CHOOSE r : AreRests(r, ss)

LEMMA TheseAreRests ==
    ASSUME NEW S, NEW ss \in Seq(Seq(S)), ss # <<>>, NEW f, NEW r,
           \A m \in 1..Len(ss) : f[m] = IF m = 1 THEN ss[m] ELSE Then(f[m - 1], ss[m]),
           \A m \in 1..Len(ss) : f[m] \in Seq(S),
           \A m \in 1..Len(ss) : r[m] \in Seq(S) /\ f[Len(ss)] = Then(f[m], r[m]),
           r[0] = f[Len(ss)]
    PROVE  AreRests(r, ss)
  <1> DEFINE n == Len(ss)
  <1>1. n \in Nat /\ n # 0 /\ n \in 1..n
    BY EmptySeq
  <1>2. \A m \in 1..n : ss[m] \in Seq(S)
    OBVIOUS
  <1> HIDE DEF n
  <1>3. r[n] = <<>>
    <2>1. r[n] \in Seq(S) /\ f[n] = Then(f[n], r[n]) /\ f[n] \in Seq(S)
      BY <1>1 DEF n
    <2> QED
      BY <2>1, NothingBehind
  <1>4. ASSUME NEW m \in 0..(n - 1)
        PROVE  r[m] = Then(ss[m + 1], r[m + 1])
    <2>1. m \in Nat /\ m + 1 \in 1..n /\ (m + 1) - 1 = m /\ (m # 0 => m \in 1..n /\ m + 1 # 1)
      BY <1>1
    <2>2. r[m + 1] \in Seq(S) /\ f[n] = Then(f[m + 1], r[m + 1]) /\ ss[m + 1] \in Seq(S)
      BY <1>2, <2>1 DEF n
    <2>3. CASE m = 0
      <3>1. f[m + 1] = ss[m + 1]
        BY <2>1, <2>3 DEF n
      <3> QED
        BY <2>2, <2>3, <3>1 DEF n
    <2>4. CASE m # 0
      <3>1. f[m + 1] = Then(f[m], ss[m + 1])
        BY <2>1, <2>4 DEF n
      <3>2. f[m] \in Seq(S) /\ r[m] \in Seq(S) /\ f[n] = Then(f[m], r[m])
        BY <2>1, <2>4 DEF n
      <3>4. f[n] = Then(f[m], Then(ss[m + 1], r[m + 1]))
        BY <2>2, <3>1, <3>2, Regroup
      <3>5. Then(f[m], r[m]) = Then(f[m], Then(ss[m + 1], r[m + 1]))
        BY <3>2, <3>4
      <3>6. Then(ss[m + 1], r[m + 1]) \in Seq(S)
        BY <2>2, Laid
      <3> QED
        BY <3>2, <3>5, <3>6, SameFront
    <2> QED
      BY <2>3, <2>4
  <1> QED
    BY <1>3, <1>4 DEF AreRests, n

LEMMA FlattensHasRests ==
    ASSUME NEW S, NEW ss \in Seq(Seq(S)), ss # <<>>, NEW f, Flattens(f, ss, Len(ss))
    PROVE  \E r : AreRests(r, ss) /\ r[0] = f[Len(ss)]
  <1> DEFINE Rest(m) == CHOOSE t \in Seq(S) : f[Len(ss)] = Then(f[m], t)
             r == [m \in 0..Len(ss) |-> IF m = 0 THEN f[Len(ss)] ELSE Rest(m)]
  <1>1. \A m \in 1..Len(ss) : f[m] \in Seq(S)
    BY FlattensTyped
  <1>2. ASSUME NEW m \in 1..Len(ss)
        PROVE  Rest(m) \in Seq(S) /\ f[Len(ss)] = Then(f[m], Rest(m))
    <2>1. \E t \in Seq(S) : f[Len(ss)] = Then(f[m], t)
      <3> HIDE DEF Rest, r
      <3> QED
        BY FlattensSplit
    <2> QED
      BY <2>1
  <1>3. \A m \in 1..Len(ss) : f[m] = IF m = 1 THEN ss[m] ELSE Then(f[m - 1], ss[m])
    BY DEF Flattens
  <1> HIDE DEF Rest
  <1>4. \A m \in 1..Len(ss) : r[m] = Rest(m)
    OBVIOUS
  <1>5. r[0] = f[Len(ss)]
    OBVIOUS
  <1> HIDE DEF r
  <1>6. \A m \in 1..Len(ss) : r[m] \in Seq(S) /\ f[Len(ss)] = Then(f[m], r[m])
    BY <1>2, <1>4
  <1>7. AreRests(r, ss)
    BY <1>1, <1>3, <1>5, <1>6, TheseAreRests
  <1> QED
    BY <1>5, <1>7

LEMMA RestsExist ==
    ASSUME NEW S, NEW ss \in Seq(Seq(S))
    PROVE  AreRests(Rests(ss), ss)
  <1>1. CASE ss = <<>>
    <2>1. AreRests([m \in {0} |-> <<>>], ss)
      BY <1>1 DEF AreRests
    <2> QED
      BY <2>1 DEF Rests
  <1>2. CASE ss # <<>>
    <2>1. Len(ss) \in Nat
      OBVIOUS
    <2>2. \E r : AreRests(r, ss)
      BY <1>2, <2>1, FlattensExists, FlattensHasRests
    <2> QED
      BY <2>2 DEF Rests
  <1> QED
    BY <1>1, <1>2

\* There is but one such function, as far as it is looked at.
LEMMA RestsDetermined ==
    ASSUME NEW ss, Len(ss) \in Nat, NEW r, NEW q, AreRests(r, ss), AreRests(q, ss),
           NEW m \in 0..Len(ss)
    PROVE  r[m] = q[m]
  <1> DEFINE n == Len(ss)
             G == {k \in Nat : k <= n => r[n - k] = q[n - k]}
  <1>1. 0 \in G
    BY DEF AreRests
  <1>2. ASSUME NEW k \in Nat, k \in G
        PROVE  k + 1 \in G
    <2>1. SUFFICES ASSUME k + 1 <= n PROVE r[n - (k + 1)] = q[n - (k + 1)]
      OBVIOUS
    <2>2. n - (k + 1) \in 0..(n - 1) /\ n - (k + 1) + 1 = n - k
      BY <2>1
    <2>3. r[n - k] = q[n - k]
      BY <1>2, <2>1
    <2> QED
      BY <2>2, <2>3 DEF AreRests
  <1> HIDE DEF G
  <1>3. n - m \in G
    BY <1>1, <1>2, SetInduction
  <1>4. n - m <= n /\ n - (n - m) = m
    OBVIOUS
  <1> QED
    BY <1>3, <1>4 DEF G

LEMMA RestsTyped ==
    ASSUME NEW S, NEW ss \in Seq(Seq(S)), NEW m \in 0..Len(ss)
    PROVE  Rests(ss)[m] \in Seq(S)
  <1> DEFINE n == Len(ss)
             r == Rests(ss)
             G == {k \in Nat : k <= n => r[n - k] \in Seq(S)}
  <1>0. n \in Nat /\ AreRests(r, ss)
    BY RestsExist
  <1> HIDE DEF r
  <1>1. 0 \in G
    <2>1. r[n] = <<>> /\ n - 0 = n
      BY <1>0 DEF AreRests
    <2>2. r[n - 0] \in Seq(S)
      <3>1. <<>> \in Seq(S)
        OBVIOUS
      <3> HIDE DEF n
      <3> QED
        BY <2>1, <3>1
    <2> HIDE DEF n
    <2> QED
      BY <2>2
  <1>2. ASSUME NEW k \in Nat, k \in G
        PROVE  k + 1 \in G
    <2>1. SUFFICES ASSUME k + 1 <= n PROVE r[n - (k + 1)] \in Seq(S)
      OBVIOUS
    <2>2. n - (k + 1) \in 0..(n - 1) /\ n - (k + 1) + 1 = n - k /\ n - k \in 1..n
      BY <1>0, <2>1
    <2>3. r[n - k] \in Seq(S) /\ ss[n - k] \in Seq(S)
      BY <1>2, <2>1, <2>2
    <2>4. r[n - (k + 1)] = Then(ss[n - k], r[n - k])
      BY <1>0, <2>2 DEF AreRests
    <2> QED
      BY <2>3, <2>4, Laid
  <1> HIDE DEF G
  <1>3. n - m \in G
    <2>1. n - m \in Nat
      BY <1>0
    <2> HIDE DEF n
    <2> QED
      BY <1>1, <1>2, <2>1, SetInduction
  <1>4. n - m <= n /\ n - (n - m) = m
    BY <1>0
  <1> QED
    BY <1>3, <1>4 DEF G, r

-----------------------------------------------------------------------------
(* Functions defined by recursion.                                         *)

\* A step, for each number up to n, that stays within S.
Within(step, n, S) == \A i \in 1..n : \A x \in S : step[<<i, x>>] \in S

\* The function that starts with base and goes on by the step.
Runs(f, n, base, step) == f[0] = base /\ \A i \in 1..n : f[i] = step[<<i, f[i - 1]>>]

\* A function that its value at zero and a step define is there.
LEMMA Recursion ==
    ASSUME NEW S, NEW n \in Nat, NEW base \in S, NEW step, Within(step, n, S)
    PROVE  \E f \in [0..n -> S] : Runs(f, n, base, step)
  <1> USE DEF Within, Runs
  <1> DEFINE Is(f, m) == f[0] = base /\ \A i \in 1..m : f[i] = step[<<i, f[i - 1]>>]
             G == {m \in Nat : m <= n => \E f \in [0..m -> S] : Is(f, m)}
  <1>1. 0 \in G
    <2> DEFINE f == [i \in 0..0 |-> base]
    <2>1. f \in [0..0 -> S] /\ Is(f, 0)
      OBVIOUS
    <2> QED
      BY <2>1
  <1>2. ASSUME NEW m \in Nat, m \in G
        PROVE  m + 1 \in G
    <2>1. SUFFICES ASSUME m + 1 <= n PROVE \E f \in [0..(m + 1) -> S] : Is(f, m + 1)
      OBVIOUS
    <2>2. PICK f \in [0..m -> S] : Is(f, m)
      BY <1>2, <2>1
    <2> DEFINE last == step[<<m + 1, f[m]>>]
               g == [i \in 0..(m + 1) |-> IF i = m + 1 THEN last ELSE f[i]]
    <2>3. last \in S
      BY <2>1
    <2>4. g \in [0..(m + 1) -> S]
      BY <2>3
    <2>5. g[0] = base
      BY <2>2
    <2>6. ASSUME NEW i \in 1..(m + 1)
          PROVE  g[i] = step[<<i, g[i - 1]>>]
      <3>1. CASE i = m + 1
        <4>1. i - 1 = m /\ g[m] = f[m] /\ g[i] = last
          BY <3>1
        <4> QED
          BY <3>1, <4>1
      <3>2. CASE i # m + 1
        <4>1. i \in 1..m /\ g[i] = f[i] /\ g[i - 1] = f[i - 1]
          BY <3>2
        <4> QED
          BY <2>2, <4>1
      <3> QED
        BY <3>1, <3>2
    <2> HIDE DEF g
    <2> QED
      BY <2>4, <2>5, <2>6
  <1> HIDE DEF G
  <1>3. n \in G
    BY <1>1, <1>2, SetInduction
  <1> QED
    BY <1>3 DEF G

\* What holds at j and is kept by each step holds from j on.
LEMMA Carried ==
    ASSUME NEW P, NEW n \in Nat, NEW j \in 0..n, NEW f, f[j] \in P,
           \A i \in (j + 1)..n : f[i - 1] \in P => f[i] \in P
    PROVE  \A i \in j..n : f[i] \in P
  <1> DEFINE G == {i \in Nat : i \in j..n => f[i] \in P}
  <1>1. 0 \in G
    OBVIOUS
  <1>2. ASSUME NEW i \in Nat, i \in G
        PROVE  i + 1 \in G
    <2>1. SUFFICES ASSUME i + 1 \in j..n PROVE f[i + 1] \in P
      OBVIOUS
    <2>2. CASE i + 1 = j
      BY <2>2
    <2>3. CASE i + 1 # j
      <3>1. i \in j..n /\ i + 1 \in (j + 1)..n /\ (i + 1) - 1 = i
        BY <2>1, <2>3
      <3> QED
        BY <1>2, <3>1
    <2> QED
      BY <2>2, <2>3
  <1> HIDE DEF G
  <1>3. Nat \subseteq G
    BY <1>1, <1>2, SetInduction
  <1> QED
    BY <1>3 DEF G

LEMMA AppendTyped == ASSUME NEW S, NEW s \in Seq(S), NEW x \in S PROVE Append(s, x) \in Seq(S)
  OBVIOUS

LEMMA TwoTyped ==
    ASSUME NEW S, NEW s \in Seq(S), NEW x \in S, NEW y \in S
    PROVE  s \o <<x, y>> \in Seq(S) /\ s \o <<x>> \in Seq(S)
  OBVIOUS
=============================================================================
