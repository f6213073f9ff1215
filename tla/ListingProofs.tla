--------------------------- MODULE ListingProofs ---------------------------
(***************************************************************************)
(* Theorems about Listing: however the bucket changes under it, a listing  *)
(* goes up, misses nothing that stays and invents nothing; and a page of a *)
(* bucket that does not change is the one S3 defines.                      *)
(***************************************************************************)
EXTENDS ListingInvariant, SequenceInduction, FiniteSetTheorems

-----------------------------------------------------------------------------
(* The order of byte strings.                                              *)

LEMMA PrefixIs ==
    ASSUME NEW a \in Key, NEW b \in Key
    PROVE  IsPrefix(a, b) <=> Len(a) <= Len(b) /\ \A i \in 1..Len(a) : a[i] = b[i]
  <1>1. Len(a) \in Nat /\ Len(b) \in Nat
    BY DEF Key
  <1>2. CASE Len(a) <= Len(b)
    <2>1. SubSeq(a, 1, Len(a)) = [i \in 1..Len(a) |-> a[i]]
      BY <1>1, <1>2 DEF Key
    <2>2. SubSeq(b, 1, Len(a)) = [i \in 1..Len(a) |-> b[i]]
      BY <1>1, <1>2 DEF Key
    <2> QED
      BY <2>1, <2>2, <1>2 DEF IsPrefix
  <1> QED
    BY <1>2 DEF IsPrefix

LEMMA SameKey ==
    ASSUME NEW a \in Key, NEW b \in Key, Len(a) = Len(b), \A i \in 1..Len(a) : a[i] = b[i]
    PROVE  a = b
  BY DEF Key

LEMMA EmptyKey ==
    /\ <<>> \in Key
    /\ \A a \in Key : IsPrefix(<<>>, a) /\ (Len(a) = 0 <=> a = <<>>)
  <1>1. <<>> \in Key /\ Len(<<>>) = 0
    BY DEF Key
  <1>2. \A a \in Key : Len(a) \in Nat
    BY DEF Key
  <1>3. ASSUME NEW a \in Key PROVE IsPrefix(<<>>, a)
    BY <1>1, <1>2, PrefixIs
  <1>4. ASSUME NEW a \in Key PROVE Len(a) = 0 <=> a = <<>>
    BY <1>1, SameKey
  <1> QED
    BY <1>1, <1>3, <1>4

LEMMA Initial ==
    ASSUME NEW a \in Key, NEW n \in Nat, n <= Len(a)
    PROVE  /\ SubSeq(a, 1, n) \in Key /\ Len(SubSeq(a, 1, n)) = n
           /\ \A i \in 1..n : SubSeq(a, 1, n)[i] = a[i]
           /\ IsPrefix(SubSeq(a, 1, n), a)
  <1> DEFINE b == SubSeq(a, 1, n)
  <1>1. b \in Key /\ Len(b) = n /\ \A i \in 1..n : b[i] = a[i]
    BY DEF Key
  <1> QED
    BY <1>1, PrefixIs

\* The first place at which b goes beyond a.
Splits(a, b, i) ==
    /\ i \in 1..Len(b)
    /\ \A j \in 1..(i - 1) : j <= Len(a) /\ a[j] = b[j]
    /\ i <= Len(a) + 1
    /\ i <= Len(a) => a[i] < b[i]

LEMMA LessIs ==
    ASSUME NEW a \in Key, NEW b \in Key
    PROVE  Less(a, b) <=> \E i \in 1..Len(b) : Splits(a, b, i)
  <1> USE DEF Splits
  <1>1. Len(a) \in Nat /\ Len(b) \in Nat
    BY DEF Key
  <1>2. ASSUME IsStrictPrefix(a, b) PROVE \E i \in 1..Len(b) : Splits(a, b, i)
    <2>1. Len(a) <= Len(b) /\ \A i \in 1..Len(a) : a[i] = b[i]
      BY <1>2, PrefixIs DEF IsStrictPrefix
    <2>2. Len(a) # Len(b)
      BY <2>1, <1>2, SameKey DEF IsStrictPrefix
    <2>3. Splits(a, b, Len(a) + 1)
      BY <2>1, <2>2, <1>1
    <2> QED
      BY <2>3, <2>1, <2>2, <1>1
  <1>3. ASSUME NEW i \in 1..Len(a), i <= Len(b), a[i] < b[i], \A j \in 1..(i - 1) : a[j] = b[j]
        PROVE  \E n \in 1..Len(b) : Splits(a, b, n)
    <2>1. Splits(a, b, i)
      BY <1>3, <1>1
    <2> QED
      BY <2>1, <1>3, <1>1
  <1>4. ASSUME NEW i \in 1..Len(b), Splits(a, b, i) PROVE Less(a, b)
    <2>1. CASE i = Len(a) + 1
      <3>1. Len(a) <= Len(b) /\ \A j \in 1..Len(a) : a[j] = b[j]
        BY <1>4, <1>1, <2>1
      <3>2. a # b
        BY <1>4, <1>1, <2>1
      <3> QED
        BY <3>1, <3>2, PrefixIs DEF Less, IsStrictPrefix
    <2>2. CASE i # Len(a) + 1
      BY <1>4, <1>1, <2>2 DEF Less
    <2> QED
      BY <2>1, <2>2
  <1> QED
    BY <1>2, <1>3, <1>4 DEF Less

LEMMA LessIrreflexive == ASSUME NEW a \in Key PROVE ~Less(a, a)
  <1>1. ASSUME NEW i \in 1..Len(a), Splits(a, a, i) PROVE FALSE
    <2>1. Len(a) \in Nat /\ a[i] \in Nat
      BY DEF Key
    <2> QED
      BY <1>1, <2>1 DEF Splits
  <1> QED
    BY <1>1, LessIs

LEMMA LessTransitive ==
    ASSUME NEW a \in Key, NEW b \in Key, NEW c \in Key, Less(a, b), Less(b, c)
    PROVE  Less(a, c)
  <1>1. PICK i \in 1..Len(b) : Splits(a, b, i)
    BY LessIs
  <1>2. PICK j \in 1..Len(c) : Splits(b, c, j)
    BY LessIs
  <1>3. /\ Len(a) \in Nat /\ Len(b) \in Nat /\ Len(c) \in Nat
        /\ \A n \in 1..Len(a) : a[n] \in Nat
        /\ \A n \in 1..Len(b) : b[n] \in Nat
        /\ \A n \in 1..Len(c) : c[n] \in Nat
    BY DEF Key
  <1>4. CASE i < j
    <2>1. i <= Len(c) /\ b[i] = c[i] /\ \A n \in 1..(i - 1) : n <= Len(a) /\ a[n] = c[n]
      BY <1>1, <1>2, <1>3, <1>4 DEF Splits
    <2>2. i <= Len(a) => a[i] < c[i]
      BY <1>1, <2>1 DEF Splits
    <2>3. Splits(a, c, i)
      BY <1>1, <1>3, <2>1, <2>2 DEF Splits
    <2> QED
      BY <2>3, <2>1, <1>3, LessIs
  <1>5. CASE j < i
    <2>1. j <= Len(a) /\ a[j] = b[j] /\ \A n \in 1..(j - 1) : n <= Len(a) /\ a[n] = c[n]
      BY <1>1, <1>2, <1>3, <1>5 DEF Splits
    <2>2. b[j] < c[j]
      BY <1>1, <1>2, <1>3, <1>5 DEF Splits
    <2>3. Splits(a, c, j)
      BY <1>2, <1>3, <2>1, <2>2 DEF Splits
    <2> QED
      BY <2>3, LessIs
  <1>6. CASE i = j
    <2>1. \A n \in 1..(i - 1) : n <= Len(a) /\ a[n] = c[n]
      BY <1>1, <1>2, <1>3, <1>6 DEF Splits
    <2>2. i <= Len(a) => a[i] < c[i]
      BY <1>1, <1>2, <1>3, <1>6 DEF Splits
    <2>3. Splits(a, c, i)
      BY <1>1, <1>2, <1>3, <1>6, <2>1, <2>2 DEF Splits
    <2> QED
      BY <2>3, <1>6, LessIs
  <1> QED
    BY <1>3, <1>4, <1>5, <1>6

LEMMA LessTotal ==
    ASSUME NEW a \in Key, NEW b \in Key, a # b
    PROVE  Less(a, b) \/ Less(b, a)
  <1> DEFINE D == {n \in Nat : n \in 1..Len(a) /\ n \in 1..Len(b) /\ a[n] # b[n]}
  <1>1. /\ Len(a) \in Nat /\ Len(b) \in Nat
        /\ \A n \in 1..Len(a) : a[n] \in Nat
        /\ \A n \in 1..Len(b) : b[n] \in Nat
    BY DEF Key
  <1>2. CASE D = {}
    <2>1. \A n \in 1..Len(a) : n <= Len(b) => a[n] = b[n]
      BY <1>2, <1>1
    <2>2. Len(a) # Len(b)
      BY <2>1, <1>1, SameKey
    <2>3. CASE Len(a) < Len(b)
      <3>1. Splits(a, b, Len(a) + 1)
        BY <2>1, <2>3, <1>1 DEF Splits
      <3> QED
        BY <3>1, <2>3, <1>1, LessIs
    <2>4. CASE Len(b) < Len(a)
      <3>1. Splits(b, a, Len(b) + 1)
        BY <2>1, <2>4, <1>1 DEF Splits
      <3> QED
        BY <3>1, <2>4, <1>1, LessIs
    <2> QED
      BY <2>2, <2>3, <2>4, <1>1
  <1>3. CASE D # {}
    <2>1. PICK n \in D : \A m \in D : n <= m
      BY <1>3, Least
    <2>2. \A m \in 1..(n - 1) : m <= Len(a) /\ m <= Len(b) /\ a[m] = b[m]
      BY <2>1, <1>1
    <2>3. CASE a[n] < b[n]
      <3>1. Splits(a, b, n)
        BY <2>1, <2>2, <2>3, <1>1 DEF Splits
      <3> QED
        BY <3>1, <2>1, LessIs
    <2>4. CASE b[n] < a[n]
      <3>1. Splits(b, a, n)
        BY <2>1, <2>2, <2>4, <1>1 DEF Splits
      <3> QED
        BY <3>1, <2>1, LessIs
    <2> QED
      BY <2>1, <2>3, <2>4, <1>1
  <1> QED
    BY <1>2, <1>3

LEMMA LessOneWay ==
    ASSUME NEW a \in Key, NEW b \in Key, Less(a, b)
    PROVE  ~Less(b, a) /\ a # b
  BY LessTransitive, LessIrreflexive

LEMMA PrefixReflexive == ASSUME NEW a \in Key PROVE IsPrefix(a, a)
  BY PrefixIs DEF Key

LEMMA PrefixTransitive ==
    ASSUME NEW a \in Key, NEW b \in Key, NEW c \in Key, IsPrefix(a, b), IsPrefix(b, c)
    PROVE  IsPrefix(a, c)
  <1>1. Len(a) \in Nat /\ Len(b) \in Nat /\ Len(c) \in Nat
    BY DEF Key
  <1> QED
    BY <1>1, PrefixIs

LEMMA PrefixLess ==
    ASSUME NEW a \in Key, NEW b \in Key, IsPrefix(a, b)
    PROVE  a = b \/ Less(a, b)
  BY DEF Less, IsStrictPrefix

\* Of two prefixes of one string the shorter is one of the longer.
LEMMA PrefixesNest ==
    ASSUME NEW a \in Key, NEW b \in Key, NEW c \in Key, IsPrefix(a, c), IsPrefix(b, c)
    PROVE  /\ Len(a) <= Len(b) => IsPrefix(a, b)
           /\ IsPrefix(a, b) \/ IsPrefix(b, a)
  <1>1. Len(a) \in Nat /\ Len(b) \in Nat /\ Len(c) \in Nat
    BY DEF Key
  <1> QED
    BY <1>1, PrefixIs

\* What begins with the smaller of two strings is below the greater.
LEMMA BlockBelow ==
    ASSUME NEW a \in Key, NEW b \in Key, NEW c \in Key,
           Less(a, b), ~IsPrefix(a, b), IsPrefix(a, c)
    PROVE  Less(c, b) /\ ~IsPrefix(c, b)
  <1>1. Len(a) \in Nat /\ Len(b) \in Nat /\ Len(c) \in Nat
    BY DEF Key
  <1>2. PICK i \in 1..Len(b) : Splits(a, b, i)
    BY LessIs
  <1>3. Len(a) <= Len(c) /\ \A n \in 1..Len(a) : a[n] = c[n]
    BY PrefixIs
  <1>4. i # Len(a) + 1
    <2> SUFFICES ASSUME i = Len(a) + 1 PROVE FALSE
      OBVIOUS
    <2>1. Len(a) <= Len(b) /\ \A n \in 1..Len(a) : a[n] = b[n]
      BY <1>1, <1>2 DEF Splits
    <2> QED
      BY <2>1, PrefixIs
  <1>5. Splits(c, b, i)
    BY <1>1, <1>2, <1>3, <1>4 DEF Splits
  <1>6. ~IsPrefix(c, b)
    BY <1>5, LessIs, PrefixTransitive
  <1> QED
    BY <1>5, <1>6, LessIs

LEMMA LessLonger ==
    ASSUME NEW a \in Key, NEW b \in Key, NEW c \in Key, Less(a, b), IsPrefix(b, c)
    PROVE  Less(a, c)
  BY PrefixLess, LessTransitive

\* What lies between a string and one that begins with it begins with it too.
LEMMA PrefixBetween ==
    ASSUME NEW p \in Key, NEW a \in Key, NEW c \in Key, IsPrefix(p, c), Less(p, a), Less(a, c)
    PROVE  IsPrefix(p, a)
  <1> SUFFICES ASSUME ~IsPrefix(p, a) PROVE FALSE
    OBVIOUS
  <1>1. Less(c, a)
    BY BlockBelow
  <1> QED
    BY <1>1, LessOneWay

-----------------------------------------------------------------------------
(* Groups.                                                                 *)

LEMMA QueryTyped ==
    ASSUME query \in Queries
    PROVE  /\ query.prefix \in Key /\ query.delimiter \in Key \cup {NoKey}
           /\ query.maxKeys \in Nat /\ query.marker \in Key \cup {NoKey}
           /\ NoKey \notin Key
  BY QueryAssumption, KeyAssumption DEF Key

\* The delimiter stands in k from n on.
DelimiterAt(k, n) ==
    /\ n \in (Len(query.prefix) + 1)..(Len(k) - Len(query.delimiter) + 1)
    /\ \A i \in 1..Len(query.delimiter) : k[n + i - 1] = query.delimiter[i]

\* Its first place is n.
Cut(k, n) ==
    /\ query.delimiter # NoKey /\ DelimiterAt(k, n)
    /\ \A j \in (Len(query.prefix) + 1)..(n - 1) : ~DelimiterAt(k, j)

LEMMA DelimiterIs ==
    ASSUME query \in Queries, query.delimiter # NoKey, NEW k \in Key,
           NEW n \in (Len(query.prefix) + 1)..(Len(k) - Len(query.delimiter) + 1)
    PROVE  SubSeq(k, n, n + Len(query.delimiter) - 1) = query.delimiter <=> DelimiterAt(k, n)
  <1> DEFINE d == query.delimiter
             p == query.prefix
             s == SubSeq(k, n, n + Len(d) - 1)
  <1>1. d \in Seq(Nat) /\ p \in Seq(Nat) /\ k \in Seq(Nat)
    BY QueryTyped DEF Key
  <1> HIDE DEF d, p
  <1>2. Len(d) \in Nat /\ Len(p) \in Nat /\ Len(k) \in Nat
    BY <1>1
  <1>3. n \in (Len(p) + 1)..(Len(k) - Len(d) + 1)
    BY DEF d, p
  <1>4. s \in Seq(Nat) /\ Len(s) = Len(d) /\ \A i \in 1..Len(d) : s[i] = k[n + i - 1]
    BY <1>1, <1>2, <1>3
  <1> HIDE DEF s
  <1>5. s = d <=> \A i \in 1..Len(d) : k[n + i - 1] = d[i]
    BY <1>1, <1>4, SameKey DEF Key
  <1> QED
    BY <1>3, <1>5 DEF DelimiterAt, s, d, p

LEMMA GroupedAt ==
    ASSUME query \in Queries, NEW k \in Key, NEW n, Cut(k, n)
    PROVE  Grouped(k) = SubSeq(k, 1, n + Len(query.delimiter) - 1)
  <1> DEFINE d == query.delimiter
             D == {i \in (Len(query.prefix) + 1)..(Len(k) - Len(d) + 1) :
                      SubSeq(k, i, i + Len(d) - 1) = d}
             first == CHOOSE i \in D : \A j \in D : i <= j
  <1>1. Len(k) \in Nat /\ Len(query.prefix) \in Nat /\ d # NoKey /\ Len(d) \in Nat
    BY QueryTyped DEF Key, Cut
  <1>2. \A i \in (Len(query.prefix) + 1)..(Len(k) - Len(d) + 1) : i \in D <=> DelimiterAt(k, i)
    BY DelimiterIs, <1>1
  <1>3. n \in D
    BY <1>2 DEF Cut, DelimiterAt
  <1>4. \A j \in D : n <= j
    <2> SUFFICES ASSUME NEW j \in D, j < n PROVE FALSE
      BY <1>1, <1>3
    <2>1. j \in (Len(query.prefix) + 1)..(n - 1)
      BY <1>1, <1>3
    <2> QED
      BY <2>1, <1>2 DEF Cut
  <1>5. \A i \in D : (\A j \in D : i <= j) => i = n
    BY <1>1, <1>3, <1>4
  <1>6. first = n
    BY <1>3, <1>4, <1>5
  <1>7. Grouped(k) = SubSeq(k, 1, first + Len(d) - 1)
    BY <1>1, <1>3 DEF Grouped
  <1> QED
    BY <1>6, <1>7

LEMMA GroupedCut ==
    ASSUME query \in Queries, NEW k \in Key, Grouped(k) # NoKey
    PROVE  \E n : Cut(k, n)
  <1> DEFINE d == query.delimiter
             D == {i \in (Len(query.prefix) + 1)..(Len(k) - Len(d) + 1) :
                      SubSeq(k, i, i + Len(d) - 1) = d}
  <1>1. d # NoKey /\ D # {}
    BY DEF Grouped
  <1>2. Len(k) \in Nat /\ Len(query.prefix) \in Nat /\ Len(d) \in Nat
    BY <1>1, QueryTyped DEF Key
  <1>3. \A i \in (Len(query.prefix) + 1)..(Len(k) - Len(d) + 1) : i \in D <=> DelimiterAt(k, i)
    BY DelimiterIs, <1>1
  <1>4. D \subseteq Nat
    <2> SUFFICES ASSUME NEW i \in (Len(query.prefix) + 1)..(Len(k) - Len(d) + 1) PROVE i \in Nat
      OBVIOUS
    <2> HIDE DEF d
    <2> QED
      BY <1>2
  <1>5. PICK n \in D : \A m \in D : n <= m
    BY <1>1, <1>4, Least
  <1>6. \A j \in (Len(query.prefix) + 1)..(n - 1) : ~DelimiterAt(k, j)
    <2> SUFFICES ASSUME NEW j \in (Len(query.prefix) + 1)..(n - 1), DelimiterAt(k, j) PROVE FALSE
      OBVIOUS
    <2>1. j \in D
      BY <1>3, <1>2 DEF DelimiterAt
    <2> QED
      BY <2>1, <1>5, <1>2, <1>4
  <1>7. Cut(k, n)
    BY <1>1, <1>3, <1>5, <1>6 DEF Cut
  <1> QED
    BY <1>7

\* A group is the part of its key up to the delimiter; it has the prefix if the key has.
LEMMA GroupTyped ==
    ASSUME query \in Queries, NEW k \in Key, Grouped(k) # NoKey
    PROVE  /\ Grouped(k) \in Key /\ IsPrefix(Grouped(k), k)
           /\ Len(query.prefix) <= Len(Grouped(k))
           /\ IsPrefix(query.prefix, k) => IsPrefix(query.prefix, Grouped(k))
  <1>1. PICK n : Cut(k, n)
    BY GroupedCut
  <1>2. Len(k) \in Nat /\ Len(query.prefix) \in Nat /\ Len(query.delimiter) \in Nat /\ n \in Nat
        /\ query.prefix \in Key
    BY QueryTyped, <1>1 DEF Key, Cut, DelimiterAt
  <1> DEFINE m == n + Len(query.delimiter) - 1
             g == SubSeq(k, 1, m)
  <1>3. m \in 0..Len(k) /\ Len(query.prefix) <= m
    BY <1>1, <1>2 DEF Cut, DelimiterAt
  <1>4. Grouped(k) = g
    BY <1>1, GroupedAt
  <1> HIDE DEF m
  <1>5. g \in Key /\ Len(g) = m /\ \A i \in 1..m : g[i] = k[i]
    BY <1>2, <1>3 DEF Key
  <1> HIDE DEF g
  <1>6. IsPrefix(g, k)
    BY <1>2, <1>3, <1>5, PrefixIs
  <1>7. IsPrefix(query.prefix, k) => IsPrefix(query.prefix, g)
    BY <1>6, <1>5, <1>3, <1>2, PrefixesNest
  <1> QED
    BY <1>3, <1>4, <1>5, <1>6, <1>7

\* What begins with a group is in it.
LEMMA GroupShared ==
    ASSUME query \in Queries, NEW k \in Key, Grouped(k) # NoKey,
           NEW l \in Key, IsPrefix(Grouped(k), l)
    PROVE  Grouped(l) = Grouped(k)
  <1> DEFINE d == query.delimiter
             p == query.prefix
  <1>1. PICK n : Cut(k, n)
    BY GroupedCut
  <1>2. d \in Key /\ p \in Key /\ d # NoKey
    BY QueryTyped, <1>1 DEF Cut
  <1>3. Len(k) \in Nat /\ Len(p) \in Nat /\ Len(d) \in Nat /\ Len(l) \in Nat
    BY <1>2 DEF Key
  <1>4. n \in (Len(p) + 1)..(Len(k) - Len(d) + 1) /\ \A i \in 1..Len(d) : k[n + i - 1] = d[i]
    BY <1>1 DEF Cut, DelimiterAt
  <1> DEFINE m == n + Len(d) - 1
             g == SubSeq(k, 1, m)
  <1>5. Grouped(k) = g
    BY <1>1, GroupedAt
  <1>6. n \in Nat /\ m \in Nat /\ m <= Len(k)
    BY <1>3, <1>4
  <1>7. g \in Key /\ Len(g) = m /\ \A i \in 1..m : g[i] = k[i]
    BY <1>6, <1>3 DEF Key
  <1> HIDE DEF g
  <1>8. m <= Len(l) /\ \A i \in 1..m : l[i] = k[i]
    BY <1>5, <1>7, PrefixIs
  <1>9. \A j \in (Len(p) + 1)..n : DelimiterAt(l, j) <=> DelimiterAt(k, j)
    <2> SUFFICES ASSUME NEW j \in (Len(p) + 1)..n PROVE DelimiterAt(l, j) <=> DelimiterAt(k, j)
      OBVIOUS
    <2>1. \A i \in 1..Len(d) : j + i - 1 \in 1..m
      BY <1>3, <1>4, <1>6
    <2>2. \A i \in 1..Len(d) : l[j + i - 1] = k[j + i - 1]
      BY <2>1, <1>8
    <2>3. j \in (Len(p) + 1)..(Len(k) - Len(d) + 1) /\ j \in (Len(p) + 1)..(Len(l) - Len(d) + 1)
      BY <1>3, <1>4, <1>6, <1>8
    <2> QED
      BY <2>2, <2>3 DEF DelimiterAt
  <1>10. Cut(l, n)
    <2>1. n \in (Len(p) + 1)..n
      BY <1>3, <1>4
    <2>2. \A j \in (Len(p) + 1)..(n - 1) : j \in (Len(p) + 1)..n
      BY <1>3, <1>4
    <2> QED
      BY <2>1, <2>2, <1>9, <1>1 DEF Cut
  <1>11. Grouped(l) = SubSeq(l, 1, m)
    BY <1>10, GroupedAt
  <1>12. SubSeq(l, 1, m) \in Key /\ Len(SubSeq(l, 1, m)) = m /\ \A i \in 1..m : SubSeq(l, 1, m)[i] = l[i]
    BY <1>6, <1>8, Initial
  <1>13. SubSeq(l, 1, m) = g
    BY <1>12, <1>7, <1>8, SameKey
  <1> QED
    BY <1>11, <1>13, <1>5

LEMMA GroupFixed ==
    ASSUME query \in Queries, NEW k \in Key, Grouped(k) # NoKey
    PROVE  Grouped(Grouped(k)) = Grouped(k)
  BY GroupTyped, GroupShared, PrefixReflexive

\* What a key is listed as.
LEMMA ItemTyped ==
    ASSUME query \in Queries, NEW k \in Key
    PROVE  /\ ItemOf(k) \in Key /\ IsPrefix(ItemOf(k), k) /\ ItemOf(ItemOf(k)) = ItemOf(k)
           /\ IsPrefix(query.prefix, k) => IsPrefix(query.prefix, ItemOf(k))
           /\ ItemOf(k) = k \/ Less(ItemOf(k), k)
  <1>1. NoKey \notin Key
    BY QueryTyped
  <1>2. CASE Grouped(k) = NoKey
    BY <1>2, PrefixReflexive DEF ItemOf
  <1>3. CASE Grouped(k) # NoKey
    BY <1>1, <1>3, GroupTyped, GroupFixed, PrefixLess DEF ItemOf
  <1> QED
    BY <1>2, <1>3

\* An item that is not below a group which begins the next entry is that group.
LEMMA GroupNext ==
    ASSUME query \in Queries, NEW k \in Key, Grouped(k) # NoKey,
           NEW i \in Key, ItemOf(i) = i, Less(i, k)
    PROVE  Less(i, Grouped(k)) \/ i = Grouped(k)
  <1> DEFINE g == Grouped(k)
  <1>1. g \in Key /\ IsPrefix(g, k) /\ NoKey \notin Key
    BY GroupTyped, QueryTyped
  <1> SUFFICES ASSUME Less(g, i) PROVE i = g
    BY <1>1, LessTotal
  <1>2. IsPrefix(g, i)
    BY <1>1, PrefixBetween
  <1>3. Grouped(i) = g
    BY <1>2, GroupShared
  <1> QED
    BY <1>1, <1>3 DEF ItemOf

-----------------------------------------------------------------------------
(* The tree.                                                               *)

\* The slashes within a name: behind each of them begins what lies below.
Cuts(k) == {j \in 1..(Len(k) - 1) : k[j] = Slash}

LEMMA AncestorIs ==
    ASSUME NEW k \in Key
    PROVE  Ancestors(k) = {SubSeq(k, 1, i) : i \in Cuts(k)}
  BY DEF Ancestors, Cuts

LEMMA AncestorTyped ==
    ASSUME NEW k \in Key, NEW i \in Cuts(k)
    PROVE  /\ i \in Nat /\ i >= 1 /\ i < Len(k)
           /\ SubSeq(k, 1, i) \in Key /\ Len(SubSeq(k, 1, i)) = i
           /\ SubSeq(k, 1, i) # <<>> /\ SubSeq(k, 1, i) # k
           /\ IsSubtree(SubSeq(k, 1, i)) /\ IsPrefix(SubSeq(k, 1, i), k)
  <1>1. i \in Nat /\ i >= 1 /\ i < Len(k) /\ k[i] = Slash
    BY DEF Cuts, Key
  <1>2. Len(k) \in Nat
    BY DEF Key
  <1>3. SubSeq(k, 1, i) \in Key /\ Len(SubSeq(k, 1, i)) = i /\ IsPrefix(SubSeq(k, 1, i), k)
        /\ SubSeq(k, 1, i)[i] = k[i]
    BY <1>1, <1>2, Initial
  <1>4. SubSeq(k, 1, i) # <<>> /\ SubSeq(k, 1, i) # k
    BY <1>1, <1>3
  <1> QED
    BY <1>1, <1>3, <1>4 DEF IsSubtree, Last

\* A directory that begins a longer name is above it.
LEMMA AncestorByPrefix ==
    ASSUME NEW d \in Key, NEW k \in Key, d # <<>>, IsSubtree(d), IsPrefix(d, k), d # k
    PROVE  d \in Ancestors(k)
  <1>1. Len(d) \in Nat /\ Len(k) \in Nat /\ Len(d) # 0
    BY DEF Key
  <1>2. Len(d) <= Len(k) /\ \A i \in 1..Len(d) : d[i] = k[i]
    BY PrefixIs
  <1>3. Len(d) # Len(k)
    BY <1>2, SameKey
  <1>4. Len(d) \in Cuts(k)
    BY <1>1, <1>2, <1>3 DEF Cuts, IsSubtree, Last
  <1>5. SubSeq(k, 1, Len(d)) = d
    <2> DEFINE c == SubSeq(k, 1, Len(d))
    <2>1. c \in Key /\ Len(c) = Len(d) /\ \A i \in 1..Len(d) : c[i] = k[i]
      BY <1>1, <1>2, Initial
    <2> HIDE DEF c
    <2>2. c = d
      BY <2>1, <1>2, SameKey
    <2> QED
      BY <2>2 DEF c
  <1> QED
    BY <1>4, <1>5, AncestorIs

\* The last slash, or none.
LastCut(k, n) == n \in Cuts(k) \cup {0} /\ \A i \in Cuts(k) : i <= n

LEMMA LastCutThere == ASSUME NEW k \in Key PROVE \E n : LastCut(k, n)
  <1>1. Len(k) \in Nat
    BY DEF Key
  <1> DEFINE T == {m \in Nat : \A i \in Cuts(k) : i <= m}
  <1>2. Len(k) \in T
    BY <1>1 DEF Cuts
  <1>3. PICK m \in T : \A i \in T : m <= i
    BY <1>2, Least
  <1>4. CASE m \in Cuts(k) \cup {0}
    BY <1>3, <1>4 DEF LastCut
  <1>5. CASE m \notin Cuts(k) \cup {0}
    <2>1. m - 1 \in Nat /\ \A i \in Cuts(k) : i <= m - 1
      BY <1>1, <1>3, <1>5 DEF Cuts
    <2> QED
      BY <2>1, <1>3
  <1> QED
    BY <1>4, <1>5

LEMMA ParentIs ==
    ASSUME NEW k \in Key, NEW n, LastCut(k, n)
    PROVE  Parent(k) = SubSeq(k, 1, n)
  <1> DEFINE d == SubSeq(k, 1, n)
             A == Ancestors(k) \cup {<<>>}
  <1>1. n \in Nat /\ n <= Len(k) /\ Len(k) \in Nat
    BY DEF LastCut, Cuts, Key
  <1>2. d \in Key /\ Len(d) = n /\ IsPrefix(d, k)
    BY <1>1, Initial
  <1>3. d \in A
    <2>1. CASE n \in Cuts(k)
      BY <2>1, AncestorIs
    <2>2. CASE n = 0
      BY <2>2, <1>2 DEF Key
    <2> QED
      BY <2>1, <2>2 DEF LastCut
  <1>4. \A e \in Ancestors(k) : e \in Key /\ IsPrefix(e, k) /\ Len(e) <= n
    <2> SUFFICES ASSUME NEW e \in Ancestors(k) PROVE e \in Key /\ IsPrefix(e, k) /\ Len(e) <= n
      OBVIOUS
    <2>1. PICK i \in Cuts(k) : e = SubSeq(k, 1, i)
      BY AncestorIs
    <2> QED
      BY <2>1, AncestorTyped DEF LastCut
  <1>5. \A e \in Ancestors(k) : IsPrefix(e, d)
    BY <1>2, <1>4, PrefixesNest
  <1>6. ASSUME NEW c \in A, \A e \in Ancestors(k) : IsPrefix(e, c) PROVE c = d
    <2>1. c \in Key /\ IsPrefix(c, d)
      <3>1. CASE c \in Ancestors(k)
        BY <3>1, <1>4, <1>5
      <3>2. CASE c = <<>>
        BY <3>2, EmptyKey, <1>2
      <3> QED
        BY <3>1, <3>2
    <2>2. IsPrefix(d, c)
      <3>1. CASE n = 0
        <4>1. d = <<>>
          BY <3>1, <1>2, EmptyKey
        <4> QED
          BY <4>1, <2>1, EmptyKey
      <3>2. CASE n \in Cuts(k)
        BY <3>2, <1>6, AncestorIs
      <3> QED
        BY <3>1, <3>2 DEF LastCut
    <2> QED
      BY <2>1, <2>2, <1>2, PrefixLess, LessOneWay
  <1>7. Parent(k) = CHOOSE c \in A : \A e \in Ancestors(k) : IsPrefix(e, c)
    BY DEF Parent
  <1> HIDE DEF A, d
  <1>8. (CHOOSE c \in A : \A e \in Ancestors(k) : IsPrefix(e, c)) = d
    BY <1>3, <1>5, <1>6
  <1> QED
    BY <1>7, <1>8 DEF d

LEMMA ParentTyped ==
    ASSUME NEW k \in Key
    PROVE  /\ Parent(k) \in Key /\ IsPrefix(Parent(k), k)
           /\ Parent(k) = <<>> \/ Parent(k) \in Ancestors(k)
           /\ \A d \in Ancestors(k) : IsPrefix(d, Parent(k))
  <1>1. PICK n : LastCut(k, n)
    BY LastCutThere
  <1>2. n \in Nat /\ n <= Len(k) /\ Len(k) \in Nat
    BY <1>1 DEF LastCut, Cuts, Key
  <1>3. Parent(k) = SubSeq(k, 1, n)
    BY <1>1, ParentIs
  <1>4. Parent(k) \in Key /\ IsPrefix(Parent(k), k) /\ Len(Parent(k)) = n
    BY <1>2, <1>3, Initial
  <1>5. Parent(k) = <<>> \/ Parent(k) \in Ancestors(k)
    <2>1. CASE n \in Cuts(k)
      BY <2>1, <1>3, AncestorIs
    <2>2. CASE n = 0
      BY <2>2, <1>4, EmptyKey
    <2> QED
      BY <1>1, <2>1, <2>2 DEF LastCut
  <1>6. ASSUME NEW d \in Ancestors(k) PROVE IsPrefix(d, Parent(k))
    <2>1. PICK i \in Cuts(k) : d = SubSeq(k, 1, i)
      BY AncestorIs
    <2>2. d \in Key /\ Len(d) = i /\ IsPrefix(d, k) /\ i <= n
      BY <2>1, <1>1, AncestorTyped DEF LastCut
    <2> QED
      BY <2>2, <1>4, PrefixesNest
  <1> QED
    BY <1>4, <1>5, <1>6

\* The nearest entry of d on the way to x.
LEMMA Towards ==
    ASSUME NEW x \in Key, x # <<>>, NEW d \in Ancestors(x) \cup {<<>>}
    PROVE  \E e \in Key : /\ Parent(e) = d /\ e # <<>>
                          /\ e = x \/ (e \in Ancestors(x) /\ IsSubtree(e) /\ IsPrefix(e, x))
  <1>1. d \in Key /\ IsPrefix(d, x) /\ (Len(d) = 0 \/ Len(d) \in Cuts(x)) /\ Len(d) \in Nat
    <2>1. CASE d = <<>>
      BY <2>1, EmptyKey
    <2>2. CASE d \in Ancestors(x)
      <3>1. PICK i \in Cuts(x) : d = SubSeq(x, 1, i)
        BY <2>2, AncestorIs
      <3> QED
        BY <3>1, AncestorTyped
    <2> QED
      BY <2>1, <2>2
  <1>2. Len(x) \in Nat
    BY DEF Key
  <1> DEFINE T == {i \in Cuts(x) : i > Len(d)}
  <1>3. T \subseteq Nat
    BY <1>2 DEF Cuts
  <1>4. CASE T = {}
    <2>1. LastCut(x, Len(d))
      BY <1>1, <1>2, <1>4 DEF LastCut, Cuts
    <2>2. Parent(x) = SubSeq(x, 1, Len(d))
      BY <2>1, ParentIs
    <2>3. Parent(x) = d
      <3>1. Len(d) <= Len(x) /\ \A i \in 1..Len(d) : d[i] = x[i]
        BY <1>1, PrefixIs
      <3> DEFINE c == SubSeq(x, 1, Len(d))
      <3>2. c \in Key /\ Len(c) = Len(d) /\ \A i \in 1..Len(d) : c[i] = x[i]
        BY <1>1, <3>1, Initial
      <3> HIDE DEF c
      <3>3. c = d
        BY <3>1, <3>2, <1>1, SameKey
      <3> QED
        BY <2>2, <3>3 DEF c
    <2> QED
      BY <2>3
  <1>5. CASE T # {}
    <2>1. PICK j \in T : \A i \in T : j <= i
      BY <1>3, <1>5, Least
    <2> DEFINE e == SubSeq(x, 1, j)
    <2>2. /\ j \in Nat /\ j < Len(x) /\ e \in Key /\ Len(e) = j /\ e # <<>>
          /\ IsSubtree(e) /\ IsPrefix(e, x)
      BY <2>1, AncestorTyped
    <2>3. e \in Ancestors(x)
      BY <2>1, AncestorIs
    <2>4. \A i \in 1..j : e[i] = x[i]
      BY <2>2, PrefixIs
    <2> HIDE DEF e
    <2>5. Cuts(e) = {i \in Cuts(x) : i < j}
      BY <2>2, <2>4, <1>2 DEF Cuts
    <2>6. LastCut(e, Len(d))
      <3>1. Len(d) < j
        BY <2>1
      <3>2. \A i \in Cuts(x) : i \in Nat
        BY <1>2 DEF Cuts
      <3>3. \A i \in Cuts(x) : i < j => i <= Len(d)
        BY <2>1, <1>1, <1>3, <2>2, <3>2
      <3> QED
        BY <3>1, <3>3, <2>5, <1>1 DEF LastCut
    <2>7. Parent(e) = SubSeq(e, 1, Len(d))
      BY <2>2, <2>6, ParentIs
    <2>8. Len(d) <= j /\ \A i \in 1..Len(d) : d[i] = e[i]
      BY <1>1, <2>1, <2>2, <2>4, PrefixIs
    <2> DEFINE c == SubSeq(e, 1, Len(d))
    <2>9. c \in Key /\ Len(c) = Len(d) /\ \A i \in 1..Len(d) : c[i] = e[i]
      BY <1>1, <2>2, <2>8, Initial
    <2> HIDE DEF c
    <2>10. c = d
      BY <2>8, <2>9, <1>1, SameKey
    <2> QED
      BY <2>2, <2>3, <2>7, <2>10 DEF c
  <1> QED
    BY <1>4, <1>5

\* What lies in a directory is ahead of what comes behind it there.
LEMMA SiblingsAhead ==
    ASSUME NEW e \in Key, NEW f \in Key, e # <<>>, Parent(e) = Parent(f), Less(e, f)
    PROVE  Ahead(e, f)
  <1> SUFFICES ASSUME IsSubtree(e), IsPrefix(e, f) PROVE FALSE
    BY DEF Ahead
  <1>1. e # f
    BY LessOneWay
  <1>2. e \in Ancestors(f)
    BY <1>1, AncestorByPrefix
  <1>3. IsPrefix(e, Parent(e)) /\ IsPrefix(Parent(e), e) /\ Parent(e) \in Key
    BY <1>2, ParentTyped
  <1>4. Parent(e) = e
    BY <1>3, PrefixLess, LessOneWay
  <1>5. e \in Ancestors(e)
    BY <1>4, ParentTyped
  <1>6. PICK i \in Cuts(e) : e = SubSeq(e, 1, i)
    BY <1>5, AncestorIs
  <1> QED
    BY <1>6, AncestorTyped

-----------------------------------------------------------------------------
(* Sorting.                                                                *)

Below(S, e) == {f \in S : Less(f, e)}

LEMMA BelowFinite ==
    ASSUME NEW S, S \subseteq Key, IsFiniteSet(S), NEW e \in S
    PROVE  /\ IsFiniteSet(Below(S, e)) /\ Cardinality(Below(S, e)) \in Nat
           /\ Cardinality(Below(S, e)) < Cardinality(S) /\ Cardinality(S) \in Nat
  <1>1. IsFiniteSet(S \ {e}) /\ Cardinality(S \ {e}) = Cardinality(S) - 1
    BY FS_RemoveElement
  <1>2. Below(S, e) \in SUBSET (S \ {e})
    BY LessIrreflexive DEF Below
  <1>3. IsFiniteSet(Below(S, e)) /\ Cardinality(Below(S, e)) <= Cardinality(S \ {e})
    BY <1>1, <1>2, FS_Subset
  <1> QED
    BY <1>1, <1>3, FS_CardinalityType

LEMMA BelowGrows ==
    ASSUME NEW S, S \subseteq Key, IsFiniteSet(S), NEW e \in S, NEW f \in S, Less(e, f)
    PROVE  Cardinality(Below(S, e)) < Cardinality(Below(S, f))
  <1>1. e \notin Below(S, e)
    BY LessIrreflexive DEF Below
  <1>2. Below(S, e) \cup {e} \in SUBSET Below(S, f)
    BY LessTransitive DEF Below
  <1>3. IsFiniteSet(Below(S, e)) /\ IsFiniteSet(Below(S, f))
        /\ Cardinality(Below(S, e)) \in Nat /\ Cardinality(Below(S, f)) \in Nat
    BY BelowFinite
  <1>4. Cardinality(Below(S, e) \cup {e}) = Cardinality(Below(S, e)) + 1
    BY <1>1, <1>3, FS_AddElement
  <1>5. Cardinality(Below(S, e) \cup {e}) <= Cardinality(Below(S, f))
    BY <1>2, <1>3, FS_Subset
  <1> QED
    BY <1>3, <1>4, <1>5

LEMMA BelowTells ==
    ASSUME NEW S, S \subseteq Key, IsFiniteSet(S), NEW e \in S, NEW f \in S,
           Cardinality(Below(S, e)) = Cardinality(Below(S, f))
    PROVE  e = f
  <1>1. Cardinality(Below(S, e)) \in Nat
    BY BelowFinite
  <1>2. ~Less(e, f) /\ ~Less(f, e)
    BY <1>1, BelowGrows
  <1> QED
    BY <1>2, LessTotal

\* There is an element with any number of others below it.
LEMMA BelowMeets ==
    ASSUME NEW S, S \subseteq Key, IsFiniteSet(S), NEW n \in 1..Cardinality(S)
    PROVE  \E e \in S : Cardinality(Below(S, e)) = n - 1
  <1> DEFINE c == Cardinality(S)
             T == 0..(c - 1)
             r == [e \in S |-> Cardinality(Below(S, e))]
  <1>1. c \in Nat
    BY FS_CardinalityType
  <1>2. \A e \in S : Cardinality(Below(S, e)) \in T
    BY <1>1, BelowFinite
  <1>3. r \in [S -> T]
    BY <1>2
  <1>4. r \in Injection(S, T)
    BY <1>3, BelowTells DEF Injection, IsInjective
  <1>5. IsFiniteSet(T) /\ Cardinality(T) = c
    <2>1. 0 \in Int /\ c - 1 \in Int
      BY <1>1
    <2>2. IsFiniteSet(0..(c - 1)) /\ Cardinality(0..(c - 1)) = IF 0 > c - 1 THEN 0 ELSE (c - 1) - 0 + 1
      BY <2>1, FS_Interval
    <2> QED
      BY <1>1, <2>2
  <1> HIDE DEF r, T
  <1>6. r \in Surjection(S, T)
    BY <1>4, <1>5, FS_Injection DEF c
  <1>7. n - 1 \in T
    BY <1>1 DEF T
  <1>8. \E e \in S : r[e] = n - 1
    BY <1>6, <1>7 DEF Surjection
  <1> QED
    BY <1>8 DEF r

LEMMA SortedIs ==
    ASSUME NEW S, S \subseteq Key, IsFiniteSet(S), NEW s, s = Sorted(S, Less)
    PROVE  /\ s \in Seq(S) /\ Len(s) = Cardinality(S) /\ Len(s) \in Nat
           /\ Ranged(s) = S /\ Ascending(s)
           /\ \A n \in 1..Len(s) : Cardinality(Below(S, s[n])) = n - 1
  <1> DEFINE c == Cardinality(S)
             At(n) == CHOOSE e \in S : Cardinality(Below(S, e)) = n - 1
  <1>1. c \in Nat
    BY FS_CardinalityType
  <1>2. s = [n \in 1..c |-> At(n)]
    BY DEF Sorted, Below
  <1>3. \A n \in 1..c : At(n) \in S /\ Cardinality(Below(S, At(n))) = n - 1
    BY BelowMeets
  <1> HIDE DEF At
  <1>4. s \in Seq(S) /\ Len(s) = c
    BY <1>1, <1>2, <1>3, FunctionIsSeq
  <1>5. \A n \in 1..c : s[n] \in S /\ Cardinality(Below(S, s[n])) = n - 1
    BY <1>2, <1>3
  <1>6. Ranged(s) = S
    <2>1. ASSUME NEW e \in S PROVE \E n \in 1..c : e = s[n]
      <3>1. Cardinality(Below(S, e)) + 1 \in 1..c /\ Cardinality(Below(S, e)) \in Nat
        BY <1>1, BelowFinite
      <3>2. e = s[Cardinality(Below(S, e)) + 1]
        BY <3>1, <1>5, BelowTells
      <3> QED
        BY <3>1, <3>2
    <2> QED
      BY <2>1, <1>4, <1>5 DEF Ranged
  <1>7. ASSUME NEW i \in 1..c, NEW j \in 1..c, i < j PROVE Less(s[i], s[j])
    <2>1. s[i] # s[j]
      BY <1>5, <1>7, <1>1
    <2>2. ~Less(s[j], s[i])
      <3> SUFFICES ASSUME Less(s[j], s[i]) PROVE FALSE
        OBVIOUS
      <3>1. Cardinality(Below(S, s[j])) < Cardinality(Below(S, s[i]))
        BY <1>5, BelowGrows
      <3> QED
        BY <3>1, <1>5, <1>7, <1>1
    <2> QED
      BY <2>1, <2>2, <1>5, LessTotal
  <1> QED
    BY <1>1, <1>4, <1>5, <1>6, <1>7 DEF Ascending

-----------------------------------------------------------------------------
(* What the file system has.                                               *)

LEMMA ObjectTyped ==
    ASSUME NEW k \in Names
    PROVE  k \in Key /\ k # <<>> /\ ~IsSubtree(k) /\ PlainPath(k)
  BY KeyAssumption DEF Key, IsSubtree

Present == files \cup dirs

LEMMA PresentTyped ==
    ASSUME TypeOK, TreeInv
    PROVE  /\ Present \subseteq Key /\ IsFiniteSet(Present)
           /\ \A e \in Present : e # <<>> /\ (IsSubtree(e) <=> e \in dirs) /\ (~IsSubtree(e) <=> e \in files)
           /\ \A e \in Present : Ancestors(e) \subseteq dirs
  <1>1. \A e \in files : e \in Key /\ e # <<>> /\ ~IsSubtree(e)
    BY ObjectTyped DEF TypeOK
  <1>2. \A e \in dirs : e \in Key /\ e # <<>> /\ IsSubtree(e)
    BY DEF TypeOK, TreeInv
  <1>3. IsFiniteSet(files \cup dirs)
    BY FS_Union DEF TreeInv
  <1>4. \A e \in files \cup dirs : Ancestors(e) \subseteq dirs
    BY DEF TreeInv, IsTree
  <1> QED
    BY <1>1, <1>2, <1>3, <1>4 DEF Present

\* A directory is read in order, with all that lies in it.
LEMMA ChildrenAre ==
    ASSUME TypeOK, TreeInv, NEW d, NEW s, s = ReadChildren(d)
    PROVE  /\ s \in Seq(Key) /\ Ascending(s)
           /\ \A e \in Ranged(s) : e \in Present /\ Parent(e) = d
           /\ d = <<>> \/ d \in dirs => \A e \in Present : Parent(e) = d => e \in Ranged(s)
  <1> DEFINE S == {e \in Present : Parent(e) = d}
  <1>1. S \subseteq Key /\ IsFiniteSet(S)
    <2>1. S \in SUBSET Present
      OBVIOUS
    <2> QED
      BY <2>1, PresentTyped, FS_Subset
  <1>2. CASE d # <<>> /\ d \notin dirs
    <2>1. s = <<>>
      BY <1>2 DEF ReadChildren
    <2> QED
      BY <2>1, <1>2 DEF Ascending, Ranged
  <1>3. CASE ~(d # <<>> /\ d \notin dirs)
    <2>1. s = Sorted(S, Less)
      BY <1>3 DEF ReadChildren, Sorted, EntryOrder, Present
    <2> HIDE DEF S
    <2>2. s \in Seq(S) /\ Len(s) \in Nat /\ Ranged(s) = S /\ Ascending(s)
      BY <1>1, <2>1, SortedIs
    <2>3. s \in Seq(Key)
      BY <1>1, <2>2
    <2> QED
      BY <2>2, <2>3 DEF S
  <1> QED
    BY <1>2, <1>3

\* What a directory on the way to x is read as leads to x.
LEMMA LeadsTo ==
    ASSUME TypeOK, TreeInv, NEW x \in Present, NEW d \in Ancestors(x) \cup {<<>>}
    PROVE  \E e \in Ranged(ReadChildren(d)) : StandsFor(e, x)
  <1>1. x \in Key /\ x # <<>> /\ Ancestors(x) \subseteq dirs
    BY PresentTyped
  <1>2. PICK e \in Key : /\ Parent(e) = d /\ e # <<>>
                         /\ e = x \/ (e \in Ancestors(x) /\ IsSubtree(e) /\ IsPrefix(e, x))
    BY <1>1, Towards
  <1>3. e \in Present
    BY <1>1, <1>2 DEF Present
  <1>4. e \in Ranged(ReadChildren(d))
    BY <1>1, <1>2, <1>3, ChildrenAre
  <1> QED
    BY <1>2, <1>4 DEF StandsFor

-----------------------------------------------------------------------------
(* The stack.                                                              *)

LEMMA RangedIs ==
    ASSUME NEW s \in Seq(Key)
    PROVE  Ranged(s) \subseteq Key /\ \A e : e \in Ranged(s) <=> \E i \in 1..Len(s) : e = s[i]
  BY DEF Ranged

LEMMA RangedAppend ==
    ASSUME NEW s \in Seq(Key), NEW e \in Key
    PROVE  /\ Append(s, e) \in Seq(Key) /\ Len(Append(s, e)) = Len(s) + 1
           /\ Ranged(Append(s, e)) = Ranged(s) \cup {e}
  <1>1. Append(s, e) \in Seq(Key) /\ Len(Append(s, e)) = Len(s) + 1 /\ Len(s) \in Nat
    OBVIOUS
  <1>2. \A i \in 1..(Len(s) + 1) : Append(s, e)[i] = IF i <= Len(s) THEN s[i] ELSE e
    OBVIOUS
  <1> HIDE DEF Key
  <1>3. ASSUME NEW x \in Ranged(s) PROVE x \in Ranged(Append(s, e))
    BY <1>1, <1>2 DEF Ranged
  <1>4. e \in Ranged(Append(s, e))
    <2>1. Len(s) + 1 \in 1..Len(Append(s, e)) /\ Append(s, e)[Len(s) + 1] = e
      BY <1>1, <1>2
    <2> QED
      BY <2>1 DEF Ranged
  <1>5. ASSUME NEW x \in Ranged(Append(s, e)) PROVE x \in Ranged(s) \cup {e}
    BY <1>1, <1>2 DEF Ranged
  <1> QED
    BY <1>1, <1>3, <1>4, <1>5

LEMMA AscendingAppend ==
    ASSUME NEW s \in Seq(Key), NEW e \in Key, Ascending(s), \A x \in Ranged(s) : Less(x, e)
    PROVE  Ascending(Append(s, e))
  <1>1. Len(Append(s, e)) = Len(s) + 1 /\ Len(s) \in Nat
    OBVIOUS
  <1>2. \A i \in 1..(Len(s) + 1) : Append(s, e)[i] = IF i <= Len(s) THEN s[i] ELSE e
    OBVIOUS
  <1>3. \A i \in 1..Len(s) : Less(s[i], e)
    BY RangedIs
  <1> QED
    BY <1>1, <1>2, <1>3 DEF Ascending

LEMMA EntriesAre ==
    ASSUME NEW st \in Seq(Seq(Key)), NEW e
    PROVE  e \in Entries(st) <=> \E l \in 1..Len(st) : \E i \in 1..Len(st[l]) : e = st[l][i]
  <1>1. \A l \in 1..Len(st) : st[l] \in Seq(Key)
    OBVIOUS
  <1>2. \A l \in 1..Len(st) : e \in Ranged(st[l]) <=> \E i \in 1..Len(st[l]) : e = st[l][i]
    BY <1>1, RangedIs
  <1>3. e \in Entries(st) <=> \E l \in 1..Len(st) : e \in Ranged(st[l])
    BY DEF Entries
  <1> QED
    BY <1>2, <1>3

\* A stack as a table of cells.
Rows(st) == 1..Len(st)

Columns(st, l) == 1..Len(st[l])

Cell(st, l, i) == st[l][i]

LEMMA TableIs ==
    ASSUME NEW st \in Seq(Seq(Key))
    PROVE  /\ \A f : f \in Entries(st) <=> \E l \in Rows(st) : \E i \in Columns(st, l) : f = Cell(st, l, i)
           /\ Ordered(st) <=>
                 \A l, m \in Rows(st) : \A i \in Columns(st, l), j \in Columns(st, m) :
                     m < l \/ (m = l /\ i < j) => Ahead(Cell(st, l, i), Cell(st, m, j))
           /\ OneParent(st) <=>
                 \A l \in Rows(st) : \A i, j \in Columns(st, l) :
                     Parent(Cell(st, l, i)) = Parent(Cell(st, l, j))
  <1>1. ASSUME NEW f
        PROVE  f \in Entries(st) <=> \E l \in Rows(st) : \E i \in Columns(st, l) : f = Cell(st, l, i)
    BY EntriesAre DEF Rows, Columns, Cell
  <1>2. Ordered(st) <=>
                 \A l, m \in Rows(st) : \A i \in Columns(st, l), j \in Columns(st, m) :
                     m < l \/ (m = l /\ i < j) => Ahead(Cell(st, l, i), Cell(st, m, j))
    BY DEF Ordered, Rows, Columns, Cell
  <1>3. OneParent(st) <=>
                 \A l \in Rows(st) : \A i, j \in Columns(st, l) :
                     Parent(Cell(st, l, i)) = Parent(Cell(st, l, j))
    BY DEF OneParent, Rows, Columns, Cell
  <1> QED
    BY <1>1, <1>2, <1>3

LEMMA EntriesTyped == ASSUME NEW st \in Seq(Seq(Key)) PROVE Entries(st) \subseteq Key
  <1> SUFFICES ASSUME NEW e \in Entries(st) PROVE e \in Key
    OBVIOUS
  <1>1. PICK l \in 1..Len(st) : \E i \in 1..Len(st[l]) : e = st[l][i]
    BY EntriesAre
  <1>2. st[l] \in Seq(Key)
    OBVIOUS
  <1> QED
    BY <1>1, <1>2

\* The first level of a stack.
LEMMA StackOne ==
    ASSUME NEW c \in Seq(Key), Ascending(c),
           NEW d, \A e \in Ranged(c) : Parent(e) = d /\ e # <<>>
    PROVE  /\ <<c>> \in Seq(Seq(Key)) /\ Entries(<<c>>) = Ranged(c)
           /\ Ordered(<<c>>) /\ OneParent(<<c>>)
  <1>1. <<c>> \in Seq(Seq(Key)) /\ Len(<<c>>) = 1 /\ <<c>>[1] = c /\ Len(c) \in Nat
    OBVIOUS
  <1>2. \A i \in 1..Len(c) : c[i] \in Key /\ c[i] \in Ranged(c)
    BY RangedIs
  <1>3. Entries(<<c>>) = Ranged(c)
    <2>1. \A l \in 1..Len(<<c>>) : l = 1
      BY <1>1
    <2> QED
      BY <2>1, <1>1 DEF Entries
  <1>4. \A i, j \in 1..Len(c) : i < j => Ahead(c[i], c[j])
    BY <1>2, SiblingsAhead DEF Ascending
  <1> QED
    BY <1>1, <1>2, <1>3, <1>4 DEF Ordered, OneParent

LEMMA FrontOf ==
    ASSUME NEW S, NEW s \in Seq(S), s # <<>>
    PROVE  /\ Front(s) \in Seq(S) /\ Len(Front(s)) = Len(s) - 1 /\ Len(s) \in Nat /\ Len(s) >= 1
           /\ \A i \in 1..(Len(s) - 1) : Front(s)[i] = s[i]
           /\ Last(s) \in S /\ Last(s) = s[Len(s)]
  <1>1. Len(s) \in Nat /\ Len(s) >= 1
    OBVIOUS
  <1> DEFINE n == Len(s) - 1
             t == SubSeq(s, 1, n)
  <1>2. n \in Nat /\ n < Len(s)
    BY <1>1
  <1> HIDE DEF n
  <1>3. t \in Seq(S) /\ Len(t) = n /\ \A i \in 1..n : t[i] = s[i]
    BY <1>1, <1>2
  <1>4. Last(s) = s[Len(s)] /\ s[Len(s)] \in S
    BY <1>1 DEF Last
  <1>5. Front(s) = t
    BY DEF Front, n
  <1> HIDE DEF t
  <1> QED
    BY <1>1, <1>3, <1>4, <1>5 DEF n

LEMMA AppendOf ==
    ASSUME NEW S, NEW s \in Seq(S), NEW x \in S
    PROVE  /\ Append(s, x) \in Seq(S) /\ Len(Append(s, x)) = Len(s) + 1 /\ Len(s) \in Nat
           /\ Append(s, x)[Len(s) + 1] = x
           /\ \A i \in 1..Len(s) : Append(s, x)[i] = s[i]
  OBVIOUS

LEMMA TailOf ==
    ASSUME NEW S, NEW s \in Seq(S), s # <<>>
    PROVE  /\ Len(s) \in Nat /\ Len(s) >= 1 /\ Head(s) = s[1] /\ s[1] \in S
           /\ Tail(s) \in Seq(S) /\ Len(Tail(s)) = Len(s) - 1
           /\ \A i \in 1..(Len(s) - 1) : Tail(s)[i] = s[i + 1]
  OBVIOUS

\* A stack without its last level.
LEMMA StackLess ==
    ASSUME NEW st \in Seq(Seq(Key)), st # <<>>, NEW t, t = Front(st)
    PROVE  /\ t \in Seq(Seq(Key)) /\ Len(t) = Len(st) - 1 /\ Len(st) \in Nat /\ Len(st) >= 1
           /\ \A l \in 1..Len(t) : l \in 1..Len(st) /\ t[l] = st[l]
           /\ Entries(t) \subseteq Entries(st)
           /\ Ordered(st) => Ordered(t)
           /\ OneParent(st) => OneParent(t)
  <1>1. Len(st) \in Nat /\ Len(st) >= 1
    OBVIOUS
  <1>2. t \in Seq(Seq(Key)) /\ Len(t) = Len(st) - 1 /\ \A l \in 1..Len(t) : t[l] = st[l]
    BY FrontOf
  <1>3. \A l \in 1..Len(t) : l \in 1..Len(st) /\ t[l] = st[l]
    BY <1>1, <1>2
  <1>4. Entries(t) \subseteq Entries(st)
    BY <1>3 DEF Entries
  <1>5. Ordered(st) => Ordered(t)
    BY <1>3 DEF Ordered
  <1>6. OneParent(st) => OneParent(t)
    BY <1>3 DEF OneParent
  <1> QED
    BY <1>1, <1>2, <1>3, <1>4, <1>5, <1>6

\* Nothing is lost with a level that is empty.
LEMMA StackEmptied ==
    ASSUME NEW st \in Seq(Seq(Key)), st # <<>>, Last(st) = <<>>
    PROVE  Entries(Front(st)) = Entries(st)
  <1> DEFINE t == Front(st)
  <1>1. t \in Seq(Seq(Key)) /\ Len(t) = Len(st) - 1 /\ Len(st) \in Nat /\ Len(st) >= 1
        /\ (\A l \in 1..Len(t) : l \in 1..Len(st) /\ t[l] = st[l]) /\ Entries(t) \subseteq Entries(st)
    BY StackLess
  <1> HIDE DEF t
  <1>2. ASSUME NEW e \in Entries(st) PROVE e \in Entries(t)
    <2>1. PICK l \in 1..Len(st) : \E i \in 1..Len(st[l]) : e = st[l][i]
      BY EntriesAre
    <2>2. l # Len(st)
      BY <2>1 DEF Last
    <2>3. l \in 1..Len(t) /\ t[l] = st[l]
      BY <1>1, <2>2
    <2> QED
      BY <2>1, <2>3, <1>1, EntriesAre
  <1> QED
    BY <1>1, <1>2 DEF t

\* In t the cells of the last row of st have moved up by one, and the first has gone.
Shorter(st, t, n, c) ==
    /\ st \in Seq(Seq(Key)) /\ t \in Seq(Seq(Key)) /\ n \in Nat /\ c \in Nat /\ c >= 1 /\ n >= 1
    /\ Rows(st) = 1..n /\ Rows(t) = 1..n
    /\ Columns(st, n) = 1..c /\ Columns(t, n) = 1..(c - 1)
    /\ \A i \in 1..(c - 1) : Cell(t, n, i) = Cell(st, n, i + 1)
    /\ \A l \in 1..n : l # n => Columns(t, l) = Columns(st, l)
    /\ \A l \in 1..n : l # n => \A i \in Columns(st, l) : Cell(t, l, i) = Cell(st, l, i)
    /\ \A l \in 1..n : Columns(st, l) \subseteq Nat

LEMMA StackShorter ==
    ASSUME NEW st, NEW t, NEW n, NEW c, Shorter(st, t, n, c), NEW e, e = Cell(st, n, 1)
    PROVE  /\ Entries(st) = Entries(t) \cup {e}
           /\ Ordered(st) => Ordered(t) /\ \A f \in Entries(t) : Ahead(e, f)
           /\ OneParent(st) => OneParent(t)
  <1> USE DEF Shorter
  <1>1. n \in 1..n /\ 1 \in 1..c /\ \A l \in 1..n : l # n => l < n
    OBVIOUS
  \* Where a cell of t was in st.
  <1> DEFINE Was(l, i) == IF l = n THEN i + 1 ELSE i
  <1>2. ASSUME NEW l \in 1..n, NEW i \in Columns(t, l)
        PROVE  Was(l, i) \in Columns(st, l) /\ Cell(t, l, i) = Cell(st, l, Was(l, i))
    <2>1. CASE l = n
      <3>1. i \in 1..(c - 1) /\ i + 1 \in 1..c
        BY <2>1
      <3> QED
        BY <2>1, <3>1
    <2>2. CASE l # n
      BY <2>2
    <2> QED
      BY <2>1, <2>2
  <1>3. ASSUME NEW l \in 1..n, NEW i \in Columns(st, l), ~(l = n /\ i = 1)
        PROVE  \E j \in Columns(t, l) : Cell(t, l, j) = Cell(st, l, i)
    <2>1. CASE l = n
      <3>1. i \in 1..c /\ i - 1 \in 1..(c - 1) /\ (i - 1) + 1 = i
        BY <2>1, <1>3
      <3>2. Cell(t, n, i - 1) = Cell(st, n, i)
        BY <3>1
      <3> QED
        BY <2>1, <3>1, <3>2
    <2>2. CASE l # n
      BY <2>2
    <2> QED
      BY <2>1, <2>2
  <1>4. ASSUME NEW l \in 1..n, NEW m \in 1..n, NEW i \in Columns(t, l), NEW j \in Columns(t, m),
               m < l \/ (m = l /\ i < j)
        PROVE  m < l \/ (m = l /\ Was(l, i) < Was(m, j))
    <2>1. i \in Nat /\ j \in Nat
      <3>1. \A k \in 1..n : Columns(t, k) \subseteq Nat
        <4> SUFFICES ASSUME NEW k \in 1..n, NEW x \in Columns(t, k) PROVE x \in Nat
          OBVIOUS
        <4> QED
          OBVIOUS
      <3> QED
        BY <3>1
    <2> QED
      BY <2>1, <1>4
  <1>5. ASSUME NEW m \in 1..n, NEW j \in Columns(t, m)
        PROVE  m < n \/ (m = n /\ 1 < Was(m, j))
    <2>1. CASE m = n
      <3>1. j \in 1..(c - 1)
        BY <2>1
      <3> QED
        BY <2>1, <3>1
    <2>2. CASE m # n
      BY <2>2
    <2> QED
      BY <2>1, <2>2
  <1> HIDE DEF Was
  <1>12. /\ Ordered(st) =>
               \A l, m \in 1..n : \A i \in Columns(st, l), j \in Columns(st, m) :
                   m < l \/ (m = l /\ i < j) => Ahead(Cell(st, l, i), Cell(st, m, j))
         /\ OneParent(st) =>
               \A l \in 1..n : \A i, j \in Columns(st, l) :
                   Parent(Cell(st, l, i)) = Parent(Cell(st, l, j))
    BY TableIs
  <1>6. \A f \in Entries(t) : f \in Entries(st)
    <2> SUFFICES ASSUME NEW f \in Entries(t) PROVE f \in Entries(st)
      OBVIOUS
    <2>1. PICK l \in 1..n : \E i \in Columns(t, l) : f = Cell(t, l, i)
      BY TableIs
    <2> QED
      BY <2>1, <1>2, TableIs
  <1>7. e \in Entries(st)
    BY <1>1, TableIs
  <1>8. \A f \in Entries(st) : f = e \/ f \in Entries(t)
    <2> SUFFICES ASSUME NEW f \in Entries(st), f # e PROVE f \in Entries(t)
      OBVIOUS
    <2>1. PICK l \in 1..n : \E i \in Columns(st, l) : f = Cell(st, l, i)
      BY TableIs
    <2> QED
      BY <2>1, <1>3, TableIs
  <1>9. ASSUME Ordered(st), NEW f \in Entries(t) PROVE Ahead(e, f)
    <2>1. PICK m \in 1..n : \E j \in Columns(t, m) : f = Cell(t, m, j)
      BY TableIs
    <2>2. PICK j \in Columns(t, m) : f = Cell(t, m, j)
      BY <2>1
    <2>3. f = Cell(st, m, Was(m, j)) /\ Was(m, j) \in Columns(st, m) /\ (m < n \/ (m = n /\ 1 < Was(m, j)))
      BY <2>2, <1>2, <1>5
    <2> QED
      BY <2>3, <1>1, <1>9, <1>12
  <1>10. ASSUME Ordered(st) PROVE Ordered(t)
    <2> SUFFICES ASSUME NEW l \in 1..n, NEW m \in 1..n, NEW i \in Columns(t, l), NEW j \in Columns(t, m),
                        m < l \/ (m = l /\ i < j)
                 PROVE  Ahead(Cell(t, l, i), Cell(t, m, j))
      BY TableIs
    <2>1. /\ Cell(t, l, i) = Cell(st, l, Was(l, i)) /\ Was(l, i) \in Columns(st, l)
          /\ Cell(t, m, j) = Cell(st, m, Was(m, j)) /\ Was(m, j) \in Columns(st, m)
          /\ m < l \/ (m = l /\ Was(l, i) < Was(m, j))
      BY <1>2, <1>4
    <2> QED
      BY <2>1, <1>10, <1>12
  <1>11. ASSUME OneParent(st) PROVE OneParent(t)
    <2> SUFFICES ASSUME NEW l \in 1..n, NEW i \in Columns(t, l), NEW j \in Columns(t, l)
                 PROVE  Parent(Cell(t, l, i)) = Parent(Cell(t, l, j))
      BY TableIs
    <2> QED
      BY <1>2, <1>11, <1>12
  <1> QED
    BY <1>6, <1>7, <1>8, <1>9, <1>10, <1>11

\* A stack whose next entry is taken.
LEMMA StackTaken ==
    ASSUME NEW st \in Seq(Seq(Key)), st # <<>>, Last(st) # <<>>,
           NEW e, e = Head(Last(st)), NEW t, t = Append(Front(st), Tail(Last(st)))
    PROVE  /\ t \in Seq(Seq(Key)) /\ e \in Key /\ e \in Ranged(Last(st))
           /\ Entries(st) = Entries(t) \cup {e}
           /\ Ordered(st) => Ordered(t) /\ \A f \in Entries(t) : Ahead(e, f)
           /\ OneParent(st) => OneParent(t)
  <1> DEFINE n == Len(st)
             s == Last(st)
             u == Front(st)
             v == Tail(s)
             w == Append(u, v)
  <1>1. n \in Nat /\ n >= 1 /\ s \in Seq(Key) /\ s = st[n]
        /\ u \in Seq(Seq(Key)) /\ Len(u) = n - 1 /\ \A l \in 1..(n - 1) : u[l] = st[l]
    BY FrontOf
  <1>2. /\ Len(s) \in Nat /\ Len(s) >= 1 /\ Head(s) = s[1] /\ s[1] \in Key
        /\ v \in Seq(Key) /\ Len(v) = Len(s) - 1
        /\ \A i \in 1..(Len(s) - 1) : v[i] = s[i + 1]
    BY <1>1, TailOf
  <1> HIDE DEF n, s, u, v
  <1>3. /\ w \in Seq(Seq(Key)) /\ Len(w) = (n - 1) + 1 /\ w[(n - 1) + 1] = v
        /\ \A l \in 1..(n - 1) : w[l] = u[l]
    BY <1>1, <1>2, AppendOf
  <1> HIDE DEF w
  <1>4. Len(w) = n /\ w[n] = v /\ \A l \in 1..(n - 1) : w[l] = st[l]
    BY <1>1, <1>3
  <1>5. st[n] = s /\ Len(st) = n /\ Len(s) \in Nat
    BY <1>1, <1>2 DEF n
  <1>6. e = s[1] /\ t = w
    BY <1>2 DEF s, u, v, w
  <1>7. /\ Entries(st) = Entries(w) \cup {e}
        /\ Ordered(st) => Ordered(w) /\ \A f \in Entries(w) : Ahead(e, f)
        /\ OneParent(st) => OneParent(w)
    <2>1. Rows(st) = 1..n /\ Rows(w) = 1..n
      BY <1>4, <1>5 DEF Rows
    <2>2. Columns(st, n) = 1..Len(s) /\ Columns(w, n) = 1..(Len(s) - 1)
      BY <1>4, <1>5, <1>2 DEF Columns
    <2>3. \A i \in 1..(Len(s) - 1) : Cell(w, n, i) = Cell(st, n, i + 1)
      BY <1>4, <1>5, <1>2 DEF Cell
    <2>4. \A l \in 1..n : l # n => w[l] = st[l]
      BY <1>1, <1>4
    <2>5. \A l \in 1..n : Columns(st, l) \subseteq Nat
      BY DEF Columns
    <2>6. e = Cell(st, n, 1)
      BY <1>5, <1>6 DEF Cell
    <2>7. \A l \in 1..n : l # n => Columns(w, l) = Columns(st, l)
      BY <2>4 DEF Columns
    <2>8. \A l \in 1..n : l # n => \A i \in Columns(st, l) : Cell(w, l, i) = Cell(st, l, i)
      BY <2>4 DEF Cell
    <2>9. Shorter(st, w, n, Len(s))
      BY <1>1, <1>2, <1>3, <1>5, <2>1, <2>2, <2>3, <2>5, <2>7, <2>8 DEF Shorter
    <2> QED
      BY <2>6, <2>9, StackShorter
  <1>8. e \in Ranged(s)
    BY <1>2, <1>6 DEF Ranged
  <1> QED
    BY <1>2, <1>3, <1>6, <1>7, <1>8 DEF s


\* A stack with another level on it.
LEMMA StackEntered ==
    ASSUME NEW st \in Seq(Seq(Key)), NEW c \in Seq(Key), Ascending(c),
           NEW d, \A x \in Ranged(c) : Parent(x) = d /\ x # <<>>,
           Ordered(st), \A x \in Ranged(c), f \in Entries(st) : Ahead(x, f),
           NEW t, t = Append(st, c)
    PROVE  /\ t \in Seq(Seq(Key)) /\ Entries(t) = Entries(st) \cup Ranged(c)
           /\ Ordered(t)
           /\ OneParent(st) => OneParent(t)
  <1> DEFINE n == Len(st)
  <1>1. /\ t \in Seq(Seq(Key)) /\ Len(t) = n + 1 /\ n \in Nat /\ t[n + 1] = c
        /\ \A l \in 1..n : t[l] = st[l]
    BY AppendOf
  <1>2. n + 1 \in 1..(n + 1) /\ \A l \in 1..(n + 1) : l # n + 1 => l \in 1..n /\ t[l] = st[l] /\ l < n + 1
    BY <1>1
  <1>3. Rows(t) = 1..(n + 1) /\ Rows(st) = 1..n /\ n + 1 \in Rows(t)
    BY <1>1, <1>2 DEF Rows
  <1>4. Columns(t, n + 1) = 1..Len(c) /\ \A i \in 1..Len(c) : Cell(t, n + 1, i) = c[i]
    BY <1>1 DEF Columns, Cell
  <1>5. \A l \in Rows(st) : /\ l \in Rows(t) /\ l < n + 1 /\ Columns(t, l) = Columns(st, l)
                            /\ \A i \in Columns(st, l) : Cell(t, l, i) = Cell(st, l, i)
    BY <1>1, <1>3 DEF Columns, Cell
  <1>6. \A l \in Rows(t) : l = n + 1 \/ l \in Rows(st)
    BY <1>2, <1>3
  <1>7. \A x : x \in Ranged(c) <=> \E i \in 1..Len(c) : x = c[i]
    BY RangedIs
  <1>8. \A i, j \in 1..Len(c) : i < j => Ahead(c[i], c[j])
    <2> SUFFICES ASSUME NEW i \in 1..Len(c), NEW j \in 1..Len(c), i < j PROVE Ahead(c[i], c[j])
      OBVIOUS
    <2>1. c[i] \in Key /\ c[j] \in Key /\ c[i] \in Ranged(c) /\ c[j] \in Ranged(c)
      BY <1>7, RangedIs
    <2>2. Less(c[i], c[j])
      BY DEF Ascending
    <2>3. Parent(c[i]) = Parent(c[j]) /\ c[i] # <<>>
      BY <2>1
    <2> QED
      BY <2>1, <2>2, <2>3, SiblingsAhead
  <1>9. \A l \in Rows(st) : \A i \in Columns(st, l) : Cell(st, l, i) \in Entries(st)
    BY TableIs
  <1> HIDE DEF n
  <1>10. ASSUME NEW x PROVE x \in Entries(t) <=> x \in Entries(st) \/ x \in Ranged(c)
    <2>1. x \in Entries(t) <=> \E l \in 1..(n + 1) : x \in Ranged(t[l])
      BY <1>1 DEF Entries
    <2>2. x \in Entries(st) <=> \E l \in 1..n : x \in Ranged(st[l])
      BY DEF Entries, n
    <2>3. \A l \in 1..n : l \in 1..(n + 1)
      BY <1>1
    <2> QED
      BY <2>1, <2>2, <2>3, <1>1, <1>2
  <1>11. Ordered(t)
    <2> SUFFICES ASSUME NEW l \in Rows(t), NEW m \in Rows(t), NEW i \in Columns(t, l), NEW j \in Columns(t, m),
                        m < l \/ (m = l /\ i < j)
                 PROVE  Ahead(Cell(t, l, i), Cell(t, m, j))
      BY <1>1, TableIs
    <2>1. CASE l = n + 1 /\ m = n + 1
      <3>1. i \in 1..Len(c) /\ j \in 1..Len(c) /\ Cell(t, l, i) = c[i] /\ Cell(t, m, j) = c[j]
        BY <2>1, <1>4
      <3>2. i < j
        BY <2>1, <1>1
      <3> QED
        BY <3>1, <3>2, <1>8
    <2>2. CASE l = n + 1 /\ m # n + 1
      <3>1. Cell(t, l, i) \in Ranged(c)
        BY <2>2, <1>4, <1>7
      <3>2. Cell(t, m, j) \in Entries(st)
        BY <2>2, <1>5, <1>6, <1>9
      <3> QED
        BY <3>1, <3>2
    <2>3. CASE l # n + 1
      <3>1. l \in Rows(st) /\ l < n + 1 /\ l \in Nat /\ m \in Nat
        BY <2>3, <1>1, <1>3, <1>5, <1>6
      <3>2. m # n + 1
        BY <3>1, <1>1
      <3>3. m \in Rows(st)
        BY <3>2, <1>6
      <3>4. /\ Cell(t, l, i) = Cell(st, l, i) /\ i \in Columns(st, l)
            /\ Cell(t, m, j) = Cell(st, m, j) /\ j \in Columns(st, m)
        BY <3>1, <3>3, <1>5
      <3>5. \A a, b \in Rows(st) : \A p \in Columns(st, a), q \in Columns(st, b) :
                b < a \/ (b = a /\ p < q) => Ahead(Cell(st, a, p), Cell(st, b, q))
        BY TableIs
      <3> QED
        BY <3>1, <3>3, <3>4, <3>5
    <2> QED
      BY <2>1, <2>2, <2>3
  <1>12. ASSUME OneParent(st) PROVE OneParent(t)
    <2> SUFFICES ASSUME NEW l \in Rows(t), NEW i \in Columns(t, l), NEW j \in Columns(t, l)
                 PROVE  Parent(Cell(t, l, i)) = Parent(Cell(t, l, j))
      BY <1>1, TableIs
    <2>1. CASE l = n + 1
      <3>1. Cell(t, l, i) \in Ranged(c) /\ Cell(t, l, j) \in Ranged(c)
        BY <2>1, <1>4, <1>7
      <3> QED
        BY <3>1
    <2>2. CASE l # n + 1
      <3>1. \A a \in Rows(st) : \A p, q \in Columns(st, a) : Parent(Cell(st, a, p)) = Parent(Cell(st, a, q))
        BY <1>12, TableIs
      <3> QED
        BY <2>2, <3>1, <1>5, <1>6
    <2> QED
      BY <2>1, <2>2
  <1> QED
    BY <1>1, <1>10, <1>11, <1>12

\* What is in a directory is ahead of all that the directory is ahead of.
LEMMA EnteredAhead ==
    ASSUME NEW d \in Key, d # <<>>, IsSubtree(d), NEW x \in Key, x # <<>>, Parent(x) = d
    PROVE  /\ IsPrefix(d, x) /\ Less(d, x)
           /\ \A f \in Key : Ahead(d, f) => Ahead(x, f)
  <1>1. IsPrefix(d, x) /\ d \in Ancestors(x)
    BY ParentTyped
  <1>2. PICK i \in Cuts(x) : d = SubSeq(x, 1, i)
    BY <1>1, AncestorIs
  <1>3. d # x
    BY <1>2, AncestorTyped
  <1>4. Less(d, x)
    BY <1>1, <1>3, PrefixLess
  <1>5. ASSUME NEW f \in Key, Ahead(d, f) PROVE Ahead(x, f)
    BY <1>1, <1>5, BlockBelow DEF Ahead
  <1> QED
    BY <1>1, <1>4, <1>5

\* The last level and what is below it in the stack.
LEMMA StackLast ==
    ASSUME NEW st \in Seq(Seq(Key)), st # <<>>
    PROVE  /\ Last(st) \in Seq(Key)
           /\ Entries(st) = Entries(Front(st)) \cup Ranged(Last(st))
           /\ OneParent(st) => \A e, f \in Ranged(Last(st)) : Parent(e) = Parent(f)
  <1> DEFINE t == Front(st)
             n == Len(st)
  <1>1. /\ t \in Seq(Seq(Key)) /\ Len(t) = n - 1 /\ n \in Nat /\ n >= 1
        /\ \A l \in 1..(n - 1) : t[l] = st[l]
        /\ Last(st) \in Seq(Key) /\ Last(st) = st[n]
    BY FrontOf
  <1> HIDE DEF t
  <1>2. \A l \in 1..n : l # n => l \in 1..Len(t) /\ t[l] = st[l]
    BY <1>1
  <1>3. \A l \in 1..Len(t) : l \in 1..n /\ t[l] = st[l]
    BY <1>1
  <1>4. n \in 1..n
    BY <1>1
  <1>5. Entries(st) = UNION {Ranged(st[l]) : l \in 1..n} /\ Entries(t) = UNION {Ranged(t[l]) : l \in 1..Len(t)}
    BY DEF Entries
  <1>6. \A x : x \in Entries(st) <=> x \in Entries(t) \/ x \in Ranged(st[n])
    BY <1>2, <1>3, <1>4, <1>5
  <1>7. OneParent(st) => \A e, f \in Ranged(st[n]) : Parent(e) = Parent(f)
    BY <1>4 DEF OneParent, Ranged
  <1> QED
    BY <1>1, <1>6, <1>7 DEF t

-----------------------------------------------------------------------------
(* The steps of the walk.                                                  *)

LEMMA SameQuery ==
    ASSUME query' = query
    PROVE  \A k : Grouped(k)' = Grouped(k) /\ ItemOf(k)' = ItemOf(k)
  <1>1. ASSUME NEW k PROVE Grouped(k)' = Grouped(k)
    BY DEF Grouped
  <1>2. ASSUME NEW k PROVE ItemOf(k)' = ItemOf(k)
    BY <1>1 DEF ItemOf
  <1> QED
    BY <1>1, <1>2

LEMMA WalkTyped ==
    ASSUME TypeOK
    PROVE  /\ walk.stack \in Seq(Seq(Key)) /\ walk.items \in Seq(Key) /\ walk.seen \subseteq Key
           /\ walk.settled \in Key \cup {NoKey} /\ token \in Key \cup {NoKey}
           /\ query \in Queries /\ Limit = query.maxKeys + 1 /\ Limit \in Nat
           /\ Len(walk.items) \in Nat /\ \A i \in Ranged(walk.items) : i \in Key
           /\ Entries(walk.stack) \subseteq Key
  <1>1. /\ walk.stack \in Seq(Seq(Key)) /\ walk.items \in Seq(Key) /\ walk.seen \subseteq Key
        /\ walk.settled \in Key \cup {NoKey}
    BY DEF TypeOK, Walks
  <1>2. query \in Queries /\ query.maxKeys \in Nat
    BY QueryTyped DEF TypeOK
  <1>3. Len(walk.items) \in Nat /\ \A i \in Ranged(walk.items) : i \in Key
    BY <1>1, RangedIs
  <1>4. Entries(walk.stack) \subseteq Key
    BY <1>1, EntriesTyped
  <1> QED
    BY <1>1, <1>2, <1>3, <1>4 DEF TypeOK, Limit

Unmoved == UNCHANGED <<tree, query, token, listed, history>>

\* What is right of a walk stays so in a step that changes nothing else.
LEMMA RightStays ==
    ASSUME Unmoved, NEW w, WalkRight(w), walk' = w
    PROVE  WalkRight(walk)'
  <1> USE DEF Unmoved, tree, history
  <1>1. query' = query /\ \A k : Grouped(k)' = Grouped(k) /\ ItemOf(k)' = ItemOf(k)
    BY SameQuery
  <1>2. EntriesRight(walk)'
    BY DEF WalkRight, EntriesRight, Limit
  <1>3. ShownRight(walk)'
    BY <1>1 DEF WalkRight, ShownRight, Shown
  <1>4. OrderRight(walk)'
    BY <1>1 DEF WalkRight, OrderRight, Behind
  <1>5. SeenRight(walk)'
    BY <1>1 DEF WalkRight, SeenRight, Behind
  <1>6. FoundRight(walk)'
    BY <1>1 DEF WalkRight, FoundRight
  <1> QED
    BY <1>2, <1>3, <1>4, <1>5, <1>6 DEF WalkRight

LEMMA TreeStays ==
    ASSUME TreeInv, Unmoved PROVE TreeInv'
  BY DEF TreeInv, Unmoved, tree, history

LEMMA ListedStays ==
    ASSUME ListedInv, Unmoved, pc # "end" PROVE ListedInv'
  <1> USE DEF Unmoved, tree, history
  <1>1. \A k : Grouped(k)' = Grouped(k) /\ ItemOf(k)' = ItemOf(k)
    BY SameQuery
  <1> QED
    BY <1>1 DEF ListedInv, Shown

LEMMA OwedStays ==
    ASSUME Unmoved, NEW w, walk' = w
    PROVE  /\ ToCome(w) => ToCome(walk)'
           /\ Complete(w) => Complete(walk)'
  <1> USE DEF Unmoved, tree, history
  <1>1. query' = query /\ \A k : Grouped(k)' = Grouped(k) /\ ItemOf(k)' = ItemOf(k)
    BY SameQuery
  <1>2. Sure' = Sure
    BY DEF Sure
  <1>3. \A k : Wanted(k)' <=> Wanted(k)
    BY <1>1 DEF Wanted, Behind
  <1>4. ToCome(w) => ToCome(walk)'
    BY <1>1, <1>2, <1>3 DEF ToCome
  <1>5. Complete(w) => Complete(walk)'
    BY <1>1, <1>2, <1>3 DEF Complete, Limit
  <1> QED
    BY <1>4, <1>5

\* A step of the walk, from what it makes of the walk.
LEMMA WalkGoesOn ==
    ASSUME ListingInv, pc = "walk", NEW w \in Walks, Continue(w), WalkRight(w), ToCome(w)
    PROVE  ListingInv'
  <1>1. Unmoved /\ pc' = pc /\ walk' = w
    BY DEF Continue, Unmoved
  <1>2. TypeOK'
    BY <1>1 DEF ListingInv, TypeOK, Unmoved, tree, history
  <1>3. TreeInv' /\ ListedInv'
    BY <1>1, TreeStays, ListedStays DEF ListingInv
  <1>4. WalkInv'
    BY <1>1, RightStays DEF WalkInv
  <1>5. OwedInv'
    BY <1>1, OwedStays DEF OwedInv
  <1> QED
    BY <1>2, <1>3, <1>4, <1>5 DEF ListingInv

\* An item that may come next.
MayCome(i, w) ==
    /\ ItemOf(i) = i /\ Behind(token, i) /\ Shown(i)
    /\ Grouped(i) # NoKey => i \in w.seen
    /\ \A j \in Ranged(walk.items) : Less(j, i)
    /\ \A e \in Entries(w.stack) : Less(i, e)
    /\ still => \E k \in files : IsPrefix(query.prefix, k) /\ ItemOf(k) = i

\* The walk has taken some entries, and has listed one item or none.
Advances(w) ==
    /\ Entries(w.stack) \subseteq Entries(walk.stack) /\ Ordered(w.stack) /\ OneParent(w.stack)
    /\ w.settled = walk.settled \/ w.settled \in w.seen
    /\ walk.seen \subseteq w.seen
    /\ \A g \in w.seen : g \in walk.seen \/ (Grouped(g) = g /\ (g \in Ranged(w.items) \/ ~Behind(token, g)))

LEMMA AdvancesRight ==
    ASSUME ListingInv, NEW w \in Walks, Advances(w),
           \/ w.items = walk.items
           \/ \E i \in Key : w.items = Append(walk.items, i) /\ Len(walk.items) < Limit /\ MayCome(i, w)
    PROVE  WalkRight(w) /\ Ranged(walk.items) \subseteq Ranged(w.items)
  <1>1. /\ walk.items \in Seq(Key) /\ Limit \in Nat /\ Len(walk.items) \in Nat
        /\ EntriesRight(walk) /\ ShownRight(walk) /\ OrderRight(walk) /\ SeenRight(walk) /\ FoundRight(walk)
    BY WalkTyped DEF ListingInv, WalkInv, WalkRight
  <1>2. /\ Len(w.items) <= Limit /\ Ascending(w.items)
        /\ Ranged(walk.items) \subseteq Ranged(w.items)
        /\ \A i \in Ranged(w.items) : i \in Ranged(walk.items) \/ MayCome(i, w)
    <2>1. CASE w.items = walk.items
      BY <1>1, <2>1 DEF EntriesRight, OrderRight
    <2>2. CASE w.items # walk.items
      <3>1. PICK i \in Key : w.items = Append(walk.items, i) /\ Len(walk.items) < Limit /\ MayCome(i, w)
        BY <2>2
      <3>2. Len(w.items) = Len(walk.items) + 1 /\ Ranged(w.items) = Ranged(walk.items) \cup {i}
        BY <1>1, <3>1, RangedAppend
      <3>3. Ascending(w.items)
        BY <1>1, <3>1, AscendingAppend DEF OrderRight, MayCome
      <3> QED
        BY <1>1, <3>1, <3>2, <3>3
    <2> QED
      BY <2>1, <2>2
  <1>3. EntriesRight(w)
    BY <1>1, <1>2 DEF EntriesRight, Advances
  <1>4. ShownRight(w)
    BY <1>1, <1>2 DEF ShownRight, MayCome
  <1>5. OrderRight(w)
    BY <1>1, <1>2 DEF OrderRight, MayCome, Advances
  <1>6. SeenRight(w)
    <2>1. w.settled # NoKey => w.settled \in w.seen
      BY <1>1 DEF SeenRight, Advances
    <2>2. \A g \in w.seen : Grouped(g) = g /\ (g \in Ranged(w.items) \/ ~Behind(token, g))
      BY <1>1, <1>2 DEF SeenRight, Advances
    <2> QED
      BY <2>1, <2>2 DEF SeenRight, Advances
  <1>7. FoundRight(w)
    BY <1>1, <1>2 DEF FoundRight, MayCome
  <1> QED
    BY <1>2, <1>3, <1>4, <1>5, <1>6, <1>7 DEF WalkRight

\* The next entry, and the stack without it.
LEMMA EntryIs ==
    ASSUME ListingInv, AtEntry, NEW e, e = Entry, NEW t, t = Taken
    PROVE  /\ pc = "walk" /\ Len(walk.items) < Limit /\ walk.stack # <<>>
           /\ e \in Key /\ e # <<>> /\ e \in Ranged(Last(walk.stack))
           /\ t \in Seq(Seq(Key)) /\ Entries(walk.stack) = Entries(t) \cup {e}
           /\ Ordered(t) /\ OneParent(t)
           /\ \A f \in Entries(t) : Ahead(e, f) /\ Less(e, f) /\ f \in Key
           /\ \A i \in Ranged(walk.items) : i \in Key /\ Less(i, e)
           /\ ~IsSubtree(e) => e \in ever
           /\ still => e \in Present
  <1>1. pc = "walk" /\ Len(walk.items) < Limit /\ walk.stack # <<>> /\ Last(walk.stack) # <<>>
    BY DEF AtEntry, Walking
  <1>2. walk.stack \in Seq(Seq(Key)) /\ Entries(walk.stack) \subseteq Key /\ \A i \in Ranged(walk.items) : i \in Key
    BY WalkTyped DEF ListingInv
  <1>3. EntriesRight(walk) /\ OrderRight(walk) /\ SeenRight(walk)
    BY DEF ListingInv, WalkInv, WalkRight
  <1>4. Ordered(walk.stack) /\ OneParent(walk.stack)
    BY <1>3 DEF OrderRight, SeenRight
  <1> DEFINE st == walk.stack
  <1>5. e = Head(Last(st)) /\ t = Append(Front(st), Tail(Last(st)))
    BY DEF Entry, Taken
  <1>6. st \in Seq(Seq(Key)) /\ st # <<>> /\ Last(st) # <<>> /\ Ordered(st) /\ OneParent(st)
    BY <1>1, <1>2, <1>4
  <1> HIDE DEF st
  <1>7. /\ t \in Seq(Seq(Key)) /\ e \in Key /\ e \in Ranged(Last(st))
        /\ Entries(st) = Entries(t) \cup {e}
        /\ Ordered(t) /\ OneParent(t) /\ \A f \in Entries(t) : Ahead(e, f)
    BY <1>5, <1>6, StackTaken
  <1>8. e \in Entries(walk.stack) /\ Entries(t) \subseteq Key
    BY <1>2, <1>7 DEF st
  <1>9. /\ e # <<>>
        /\ ~IsSubtree(e) => e \in ever
        /\ still => e \in Present
        /\ \A i \in Ranged(walk.items) : Less(i, e)
    BY <1>3, <1>8 DEF EntriesRight, OrderRight, Present
  <1>10. \A f \in Entries(t) : Less(e, f)
    BY <1>7 DEF Ahead
  <1>11. e \in Ranged(Last(walk.stack)) /\ Entries(walk.stack) = Entries(t) \cup {e}
    BY <1>7 DEF st
  <1> QED
    BY <1>1, <1>2, <1>7, <1>8, <1>9, <1>10, <1>11

LEMMA LeaveGoesOn ==
    ASSUME ListingInv, LeaveDirectory PROVE ListingInv'
  <1> DEFINE t == Front(walk.stack)
             w == [walk EXCEPT !.stack = t]
  <1>1. pc = "walk" /\ walk.stack # <<>> /\ Last(walk.stack) = <<>> /\ Continue(w)
    BY DEF LeaveDirectory, Walking
  <1>2. walk \in Walks /\ walk.stack \in Seq(Seq(Key)) /\ Ordered(walk.stack) /\ OneParent(walk.stack)
        /\ ToCome(walk)
    BY <1>1, WalkTyped DEF ListingInv, TypeOK, WalkInv, WalkRight, OrderRight, SeenRight, OwedInv
  <1>3. t \in Seq(Seq(Key)) /\ Ordered(t) /\ OneParent(t) /\ Entries(t) = Entries(walk.stack)
    BY <1>1, <1>2, StackLess, StackEmptied
  <1> HIDE DEF t
  <1>4. w \in Walks /\ w.stack = t /\ w.items = walk.items /\ w.seen = walk.seen /\ w.settled = walk.settled
    BY <1>2, <1>3 DEF Walks
  <1> HIDE DEF w
  <1>5. Advances(w)
    BY <1>3, <1>4 DEF Advances
  <1>6. WalkRight(w)
    BY <1>4, <1>5, AdvancesRight
  <1>7. ToCome(w)
    BY <1>2, <1>3, <1>4 DEF ToCome
  <1> QED
    BY <1>1, <1>4, <1>6, <1>7, WalkGoesOn

\* The keys that the page owes are objects there are.
LEMMA SureTyped ==
    ASSUME ListingInv
    PROVE  \A k \in Sure : k \in files /\ k \in Key /\ k \in Present /\ ~IsSubtree(k)
  <1>1. stable \subseteq files /\ files \subseteq Names
    BY DEF ListingInv, TreeInv, TypeOK
  <1> QED
    BY <1>1, ObjectTyped DEF Sure, Present

\* What w has no entry for any more, it has listed.
Pays(w) ==
    \A x \in Entries(walk.stack) : x \notin Entries(w.stack) =>
        \A k \in Sure : Wanted(k) /\ StandsFor(x, k) =>
            ItemOf(k) \in Ranged(w.items) \/ \E f \in Entries(w.stack) : StandsFor(f, k)

LEMMA PaidGoesOn ==
    ASSUME ListingInv, pc = "walk", NEW w \in Walks, Continue(w), WalkRight(w),
           Ranged(walk.items) \subseteq Ranged(w.items), Pays(w)
    PROVE  ListingInv'
  <1>1. ToCome(walk)
    BY DEF ListingInv, OwedInv
  <1>2. ToCome(w)
    BY <1>1 DEF ToCome, Pays
  <1> QED
    BY <1>2, WalkGoesOn

\* A group seen is listed if it may be.
LEMMA SeenPays ==
    ASSUME ListingInv, NEW g \in walk.seen, NEW k \in Key, IsPrefix(g, k)
    PROVE  /\ g \in Key /\ Grouped(k) = g /\ ItemOf(k) = g
           /\ Behind(token, ItemOf(k)) => g \in Ranged(walk.items)
  <1>1. walk.seen \subseteq Key /\ query \in Queries /\ NoKey \notin Key
    BY WalkTyped, QueryTyped DEF ListingInv
  <1>2. Grouped(g) = g /\ (g \in Ranged(walk.items) \/ ~Behind(token, g))
    BY DEF ListingInv, WalkInv, WalkRight, SeenRight
  <1>3. Grouped(k) = g
    BY <1>1, <1>2, GroupShared
  <1> QED
    BY <1>1, <1>2, <1>3 DEF ItemOf

LEMMA StandsBegins ==
    ASSUME NEW e \in Key, NEW k \in Key, StandsFor(e, k)
    PROVE  IsPrefix(e, k)
  BY PrefixReflexive DEF StandsFor

\* A directory that is passed over holds no key that is owed.
LEMMA MayContainOwed ==
    ASSUME ListingInv, NEW e \in Key, NEW k \in Key, Wanted(k), IsPrefix(e, k)
    PROVE  MayContain(e)
  <1>1. query \in Queries /\ query.prefix \in Key /\ token \in Key \cup {NoKey}
    BY WalkTyped, QueryTyped DEF ListingInv
  <1>2. IsPrefix(query.prefix, e) \/ IsPrefix(e, query.prefix)
    BY <1>1, PrefixesNest DEF Wanted
  <1>3. ASSUME token # NoKey, ~Less(token, e), ~IsPrefix(e, token) PROVE FALSE
    <2>1. token \in Key /\ token # e
      BY <1>1, <1>3, PrefixReflexive
    <2>2. Less(e, token)
      BY <2>1, <1>3, LessTotal
    <2>3. Less(k, token)
      BY <2>1, <2>2, <1>3, BlockBelow
    <2>4. ItemOf(k) \in Key /\ (ItemOf(k) = k \/ Less(ItemOf(k), k))
      BY <1>1, ItemTyped
    <2>5. Less(ItemOf(k), token)
      BY <2>1, <2>3, <2>4, LessTransitive
    <2>6. Less(token, ItemOf(k))
      BY <1>3 DEF Wanted, Behind
    <2> QED
      BY <2>1, <2>4, <2>5, <2>6, LessOneWay
  <1> QED
    BY <1>2, <1>3 DEF MayContain, MayFollow

LEMMA SkipGoesOn ==
    ASSUME ListingInv, SkipEntry PROVE ListingInv'
  <1>1. PICK e, t : e = Entry /\ t = Taken
    OBVIOUS
  <1> DEFINE w == [walk EXCEPT !.stack = t]
  <1>2. /\ AtEntry /\ Continue(w)
        /\ \/ Settled(e)
           \/ IsSubtree(e) /\ ~MayContain(e)
           \/ ~IsSubtree(e) /\ ~IsPrefix(query.prefix, e)
    BY <1>1 DEF SkipEntry
  <1>3. /\ pc = "walk" /\ e \in Key /\ t \in Seq(Seq(Key)) /\ Entries(walk.stack) = Entries(t) \cup {e}
        /\ Ordered(t) /\ OneParent(t)
    BY <1>1, <1>2, EntryIs
  <1>4. walk \in Walks
    BY DEF ListingInv, TypeOK
  <1>5. w \in Walks /\ w.stack = t /\ w.items = walk.items /\ w.seen = walk.seen /\ w.settled = walk.settled
    BY <1>3, <1>4 DEF Walks
  <1> HIDE DEF w
  <1>6. Advances(w)
    BY <1>3, <1>5 DEF Advances
  <1>7. WalkRight(w) /\ Ranged(walk.items) \subseteq Ranged(w.items)
    BY <1>5, <1>6, AdvancesRight
  <1>8. ASSUME NEW k \in Sure, Wanted(k), StandsFor(e, k) PROVE ItemOf(k) \in Ranged(w.items)
    <2>1. k \in Key /\ ~IsSubtree(k) /\ IsPrefix(e, k)
      BY <1>3, <1>8, SureTyped, StandsBegins
    <2>2. CASE Settled(e)
      <3>1. walk.settled # NoKey /\ IsPrefix(walk.settled, e)
        BY <2>2 DEF Settled
      <3>2. walk.settled \in walk.seen /\ walk.settled \in Key
        BY <3>1, WalkTyped DEF ListingInv, WalkInv, WalkRight, SeenRight
      <3>3. IsPrefix(walk.settled, k)
        BY <3>1, <3>2, <2>1, <1>3, PrefixTransitive
      <3> QED
        BY <3>2, <3>3, <2>1, <1>5, <1>8, SeenPays DEF Wanted
    <2>3. ~(IsSubtree(e) /\ ~MayContain(e))
      BY <1>3, <1>8, <2>1, MayContainOwed
    <2>4. ~(~IsSubtree(e) /\ ~IsPrefix(query.prefix, e))
      BY <1>8 DEF StandsFor, Wanted
    <2> QED
      BY <1>2, <2>2, <2>3, <2>4
  <1>9. Pays(w)
    BY <1>3, <1>5, <1>8 DEF Pays
  <1> QED
    BY <1>2, <1>3, <1>5, <1>7, <1>9, PaidGoesOn

LEMMA CollapseGoesOn ==
    ASSUME ListingInv, CollapseDirectory PROVE ListingInv'
  <1>1. PICK e, t : e = Entry /\ t = Taken
    OBVIOUS
  <1> DEFINE shown == AfterStart(token, e) /\ e \notin walk.seen /\ HasFile(e)
             w == IF shown THEN [walk EXCEPT !.stack = t, !.seen = @ \cup {e}, !.items = Append(@, e)]
                  ELSE [walk EXCEPT !.stack = t]
  <1>2. AtEntry /\ Continue(w) /\ IsSubtree(e) /\ IsPrefix(query.prefix, e) /\ Grouped(e) = e
    BY <1>1 DEF CollapseDirectory, Collapses
  <1>3. /\ pc = "walk" /\ e \in Key /\ t \in Seq(Seq(Key)) /\ Entries(walk.stack) = Entries(t) \cup {e}
        /\ Ordered(t) /\ OneParent(t) /\ Len(walk.items) < Limit
        /\ \A f \in Entries(t) : Less(e, f)
        /\ \A i \in Ranged(walk.items) : Less(i, e)
        /\ still => e \in Present
    BY <1>1, <1>2, EntryIs
  <1>4. walk \in Walks /\ walk.items \in Seq(Key) /\ query \in Queries /\ query.prefix \in Key
        /\ NoKey \notin Key /\ files \subseteq Names
    BY WalkTyped, QueryTyped DEF ListingInv, TypeOK
  <1>5. \A k \in Key : IsPrefix(e, k) => Grouped(k) = e /\ ItemOf(k) = e
    BY <1>2, <1>3, <1>4, GroupShared DEF ItemOf
  <1>6. /\ w \in Walks /\ w.stack = t /\ w.settled = walk.settled
        /\ shown => w.items = Append(walk.items, e) /\ w.seen = walk.seen \cup {e}
        /\ ~shown => w.items = walk.items /\ w.seen = walk.seen
    <2>1. Append(walk.items, e) \in Seq(Key)
      BY <1>3, <1>4, RangedAppend
    <2> QED
      BY <1>3, <1>4, <2>1 DEF Walks
  <1> HIDE DEF w
  <1>7. shown => MayCome(e, w)
    <2> SUFFICES ASSUME shown PROVE MayCome(e, w)
      OBVIOUS
    <2>1. ItemOf(e) = e /\ Behind(token, e) /\ e \in w.seen
      BY <1>3, <1>5, <1>6, PrefixReflexive DEF AfterStart
    <2>2. \E f \in files : Named(e) = f \/ IsPrefix(e, f)
      BY DEF HasFile
    <2>3. PICK f \in files : Named(e) = f \/ IsPrefix(e, f)
      BY <2>2
    <2>4. f \in ever /\ f \in Key
      BY <1>4, ObjectTyped DEF ListingInv, TreeInv
    <2>5. Shown(e)
      BY <1>2, <1>5, <2>3, <2>4 DEF Shown
    <2>6. ASSUME still PROVE IsPrefix(query.prefix, f) /\ ItemOf(f) = e
      <3>1. e \in dirs
        BY <2>6, <1>2, <1>3, PresentTyped DEF ListingInv
      <3>2. Named(e) \notin files
        BY <3>1 DEF ListingInv, TreeInv, IsTree
      <3>3. IsPrefix(e, f)
        BY <2>3, <3>2
      <3> QED
        BY <3>3, <2>4, <1>2, <1>3, <1>4, <1>5, PrefixTransitive
    <2> QED
      BY <1>3, <1>6, <2>1, <2>5, <2>6 DEF MayCome
  <1>8. Advances(w)
    <2>1. shown => e \in Ranged(w.items)
      BY <1>3, <1>4, <1>6, RangedAppend
    <2> HIDE DEF shown
    <2>2. walk.seen \subseteq w.seen /\ \A g \in w.seen : g \in walk.seen \/ (shown /\ g = e)
      BY <1>6
    <2> QED
      BY <1>2, <1>3, <1>6, <2>1, <2>2 DEF Advances
  <1>9. WalkRight(w) /\ Ranged(walk.items) \subseteq Ranged(w.items)
    BY <1>3, <1>6, <1>7, <1>8, AdvancesRight
  <1>10. ASSUME NEW k \in Sure, Wanted(k), StandsFor(e, k) PROVE ItemOf(k) \in Ranged(w.items)
    <2>1. k \in Key /\ k \in files /\ IsPrefix(e, k)
      BY <1>3, <1>10, SureTyped, StandsBegins
    <2>2. ItemOf(k) = e /\ Behind(token, e) /\ HasFile(e)
      BY <2>1, <1>5, <1>10 DEF Wanted, HasFile
    <2>3. CASE e \in walk.seen
      BY <2>1, <2>2, <2>3, <1>9, SeenPays
    <2>4. CASE e \notin walk.seen
      BY <2>2, <2>4, <1>3, <1>4, <1>6, RangedAppend DEF AfterStart
    <2> QED
      BY <2>3, <2>4
  <1>11. Pays(w)
    BY <1>3, <1>6, <1>10 DEF Pays
  <1> QED
    BY <1>2, <1>3, <1>6, <1>9, <1>11, PaidGoesOn

LEMMA EnterGoesOn ==
    ASSUME ListingInv, EnterDirectory PROVE ListingInv'
  <1>1. PICK e, t, c : e = Entry /\ t = Taken /\ c = ReadChildren(e)
    OBVIOUS
  <1>2. PICK st : st = Append(t, c)
    OBVIOUS
  <1> DEFINE w == [walk EXCEPT !.stack = st]
  <1>3. AtEntry /\ Continue(w) /\ IsSubtree(e)
    BY <1>1, <1>2 DEF EnterDirectory
  <1>4. /\ pc = "walk" /\ e \in Key /\ e # <<>> /\ t \in Seq(Seq(Key))
        /\ Entries(walk.stack) = Entries(t) \cup {e}
        /\ Ordered(t) /\ OneParent(t)
        /\ \A f \in Entries(t) : Ahead(e, f) /\ f \in Key
        /\ \A i \in Ranged(walk.items) : i \in Key /\ Less(i, e)
    BY <1>1, <1>3, EntryIs
  <1>5. /\ c \in Seq(Key) /\ Ascending(c)
        /\ \A x \in Ranged(c) : x \in Present /\ Parent(x) = e
    BY <1>1, ChildrenAre DEF ListingInv
  <1>6. \A x \in Ranged(c) : x \in Key /\ x # <<>> /\ (~IsSubtree(x) => x \in files)
    BY <1>5, PresentTyped DEF ListingInv
  <1>7. \A x \in Ranged(c) : Less(e, x) /\ \A f \in Entries(t) : Ahead(x, f)
    BY <1>3, <1>4, <1>5, <1>6, EnteredAhead
  <1>8. st \in Seq(Seq(Key)) /\ Entries(st) = Entries(t) \cup Ranged(c) /\ Ordered(st) /\ OneParent(st)
    BY <1>2, <1>4, <1>5, <1>6, <1>7, StackEntered
  <1>9. walk \in Walks /\ WalkRight(walk) /\ files \subseteq ever
    BY DEF ListingInv, TypeOK, WalkInv, TreeInv
  <1>10. w \in Walks /\ w.stack = st /\ w.items = walk.items /\ w.seen = walk.seen /\ w.settled = walk.settled
    BY <1>8, <1>9 DEF Walks
  <1> HIDE DEF w
  <1>11. EntriesRight(w)
    BY <1>4, <1>5, <1>6, <1>8, <1>9, <1>10 DEF EntriesRight, WalkRight, Present
  <1>12. OrderRight(w)
    <2>1. ASSUME NEW i \in Ranged(walk.items), NEW f \in Entries(st) PROVE Less(i, f)
      <3>1. CASE f \in Entries(t)
        <4>1. f \in Entries(walk.stack)
          BY <3>1, <1>4
        <4> QED
          BY <4>1, <1>9 DEF WalkRight, OrderRight
      <3>2. CASE f \in Ranged(c)
        BY <3>2, <1>4, <1>6, <1>7, LessTransitive
      <3> QED
        BY <3>1, <3>2, <1>8
    <2> QED
      BY <2>1, <1>8, <1>9, <1>10 DEF OrderRight, WalkRight
  <1>13. WalkRight(w)
    BY <1>8, <1>9, <1>10, <1>11, <1>12 DEF WalkRight, ShownRight, SeenRight, FoundRight
  <1>14. ASSUME NEW k \in Sure, StandsFor(e, k) PROVE \E f \in Entries(st) : StandsFor(f, k)
    <2>1. k \in Key /\ k \in Present /\ ~IsSubtree(k) /\ IsPrefix(e, k)
      BY <1>4, <1>14, SureTyped, StandsBegins
    <2>2. e \in Ancestors(k)
      BY <2>1, <1>3, <1>4, AncestorByPrefix
    <2> QED
      BY <2>1, <2>2, <1>1, <1>8, LeadsTo DEF ListingInv
  <1>15. Pays(w)
    BY <1>4, <1>8, <1>10, <1>14 DEF Pays
  <1> QED
    BY <1>3, <1>4, <1>10, <1>13, <1>15, PaidGoesOn

LEMMA GroupGoesOn ==
    ASSUME ListingInv, GroupFile PROVE ListingInv'
  <1>1. PICK e, t, g : e = Entry /\ t = Taken /\ g = Grouped(e)
    OBVIOUS
  <1>2. PICK st : st = IF GroupCovers(g, e) THEN Front(walk.stack) ELSE t
    OBVIOUS
  <1> DEFINE shown == AfterStart(token, g) /\ g \notin walk.seen
             w == [walk EXCEPT !.stack = st, !.settled = g, !.seen = @ \cup {g},
                               !.items = IF shown THEN Append(@, g) ELSE @]
  <1>3. AtEntry /\ Continue(w) /\ ~IsSubtree(e) /\ IsPrefix(query.prefix, e) /\ g # NoKey
    BY <1>1, <1>2 DEF GroupFile
  <1>4. /\ pc = "walk" /\ e \in Key /\ e # <<>>
        /\ t \in Seq(Seq(Key)) /\ Entries(walk.stack) = Entries(t) \cup {e}
        /\ Ordered(t) /\ OneParent(t) /\ Len(walk.items) < Limit /\ walk.stack # <<>>
        /\ e \in Ranged(Last(walk.stack))
        /\ \A f \in Entries(t) : Less(e, f) /\ f \in Key
        /\ \A i \in Ranged(walk.items) : i \in Key /\ Less(i, e)
        /\ e \in ever
        /\ still => e \in Present
    BY <1>1, <1>3, EntryIs
  <1>5. /\ walk \in Walks /\ walk.items \in Seq(Key) /\ walk.seen \subseteq Key /\ query \in Queries
        /\ walk.stack \in Seq(Seq(Key)) /\ NoKey \notin Key /\ WalkRight(walk)
        /\ Entries(walk.stack) \subseteq Key
    BY WalkTyped, QueryTyped DEF ListingInv, TypeOK, WalkInv
  <1>6. g \in Key /\ IsPrefix(g, e) /\ Grouped(g) = g /\ ItemOf(g) = g /\ ItemOf(e) = g
    BY <1>1, <1>3, <1>4, <1>5, GroupTyped, GroupFixed DEF ItemOf
  <1>7. \A k \in Key : IsPrefix(g, k) => ItemOf(k) = g
    BY <1>1, <1>3, <1>4, <1>5, GroupShared DEF ItemOf
  \* The entries that are left are behind the group, and the others begin with it.
  <1>8. /\ st \in Seq(Seq(Key)) /\ Ordered(st) /\ OneParent(st)
        /\ Entries(st) \subseteq Entries(walk.stack)
        /\ \A f \in Entries(st) : Less(g, f)
        /\ \A x \in Entries(walk.stack) : x \notin Entries(st) => IsPrefix(g, x)
    <2>1. CASE GroupCovers(g, e)
      <3>1. st = Front(walk.stack) /\ IsPrefix(g, Parent(e))
        BY <2>1, <1>2 DEF GroupCovers
      <3>2. /\ st \in Seq(Seq(Key)) /\ Entries(st) \subseteq Entries(walk.stack)
            /\ Ordered(st) /\ OneParent(st)
        BY <3>1, <1>4, <1>5, StackLess DEF WalkRight, OrderRight, SeenRight
      <3>3. /\ Last(walk.stack) \in Seq(Key) /\ Entries(walk.stack) = Entries(st) \cup Ranged(Last(walk.stack))
            /\ \A x \in Ranged(Last(walk.stack)) : Parent(x) = Parent(e)
        BY <3>1, <1>4, <1>5, StackLast DEF WalkRight, SeenRight
      <3>4. ASSUME NEW x \in Ranged(Last(walk.stack)) PROVE IsPrefix(g, x)
        <4>1. x \in Key /\ Parent(x) = Parent(e)
          BY <3>3, <1>5
        <4>2. Parent(x) \in Key /\ IsPrefix(Parent(x), x)
          BY <4>1, ParentTyped
        <4> QED
          BY <4>1, <4>2, <3>1, <1>6, PrefixTransitive
      <3>5. g # e
        <4>1. Parent(e) \in Key /\ IsPrefix(Parent(e), e) /\ (Parent(e) = <<>> \/ Parent(e) \in Ancestors(e))
          BY <1>4, ParentTyped
        <4>2. Parent(e) # e
          BY <4>1, <1>4, AncestorIs, AncestorTyped
        <4>3. Less(Parent(e), e)
          BY <4>1, <4>2, <1>4, PrefixLess
        <4>4. ~IsPrefix(e, Parent(e))
          BY <4>1, <4>3, <1>4, PrefixLess, LessOneWay
        <4> QED
          BY <4>4, <3>1
      <3>6. Less(g, e)
        BY <3>5, <1>4, <1>6, PrefixLess
      <3>7. \A f \in Entries(walk.stack) : f = e \/ (f \in Entries(t) /\ Less(e, f) /\ f \in Key)
        BY <1>4
      <3>8. \A f \in Entries(st) : Less(g, f)
        BY <3>2, <3>6, <3>7, <1>4, <1>6, LessTransitive
      <3> QED
        BY <3>2, <3>3, <3>4, <3>8
    <2>2. CASE ~GroupCovers(g, e)
      <3>1. st = t
        BY <2>2, <1>2
      <3>2. \A f \in Entries(t) : Less(g, f)
        <4> SUFFICES ASSUME NEW f \in Entries(t) PROVE Less(g, f)
          OBVIOUS
        <4>1. Less(e, f) /\ f \in Key
          BY <1>4
        <4>2. g = e \/ Less(g, e)
          BY <1>4, <1>6, PrefixLess
        <4> QED
          BY <4>1, <4>2, <1>4, <1>6, LessTransitive
      <3> QED
        BY <3>1, <3>2, <1>4, <1>6
    <2> QED
      BY <2>1, <2>2
  <1>9. /\ w \in Walks /\ w.stack = st /\ w.settled = g /\ w.seen = walk.seen \cup {g}
        /\ w.items = IF shown THEN Append(walk.items, g) ELSE walk.items
    <2>1. Append(walk.items, g) \in Seq(Key)
      BY <1>5, <1>6, RangedAppend
    <2> QED
      BY <1>5, <1>6, <1>8, <2>1 DEF Walks
  <1> HIDE DEF w
  <1>10. shown => MayCome(g, w)
    <2> SUFFICES ASSUME shown PROVE MayCome(g, w)
      OBVIOUS
    <2>1. Behind(token, g) /\ g \in w.seen /\ Shown(g)
      BY <1>4, <1>6, <1>9 DEF AfterStart, Shown
    <2>2. ASSUME NEW j \in Ranged(walk.items) PROVE Less(j, g)
      <3>1. j \in Key /\ Less(j, e) /\ ItemOf(j) = j /\ (Grouped(j) # NoKey => j \in walk.seen)
        BY <1>4, <1>5 DEF WalkRight, OrderRight
      <3>2. Less(j, g) \/ j = g
        BY <3>1, <1>1, <1>3, <1>4, <1>5, GroupNext
      <3> QED
        BY <3>1, <3>2, <1>5, <1>6
    <2>3. still => e \in files
      BY <1>3, <1>4, PresentTyped DEF ListingInv
    <2> QED
      BY <1>3, <1>6, <1>8, <1>9, <2>1, <2>2, <2>3 DEF MayCome
  <1>11. g \in Ranged(w.items) \/ ~Behind(token, g)
    <2>1. CASE shown
      BY <2>1, <1>5, <1>6, <1>9, RangedAppend
    <2>2. CASE ~shown
      <3>1. w.items = walk.items
        BY <2>2, <1>9
      <3> QED
        BY <3>1, <2>2, <1>5 DEF AfterStart, WalkRight, SeenRight
    <2> QED
      BY <2>1, <2>2
  <1>12. w.items = walk.items \/ (w.items = Append(walk.items, g) /\ shown)
    BY <1>9
  <1> HIDE DEF shown
  <1>13. Advances(w)
    BY <1>6, <1>8, <1>9, <1>11 DEF Advances
  <1>14. WalkRight(w) /\ Ranged(walk.items) \subseteq Ranged(w.items)
    BY <1>4, <1>6, <1>9, <1>10, <1>12, <1>13, AdvancesRight
  <1>15. ASSUME NEW x \in Entries(walk.stack), x \notin Entries(st),
                NEW k \in Sure, Wanted(k), StandsFor(x, k)
         PROVE  ItemOf(k) \in Ranged(w.items)
    <2>1. x \in Key /\ k \in Key /\ IsPrefix(x, k) /\ IsPrefix(g, x)
      BY <1>5, <1>8, <1>15, SureTyped, StandsBegins
    <2>2. ItemOf(k) = g
      BY <2>1, <1>6, <1>7, PrefixTransitive
    <2> QED
      BY <2>2, <1>11, <1>15 DEF Wanted
  <1>16. Pays(w)
    BY <1>9, <1>15 DEF Pays
  <1> QED
    BY <1>3, <1>4, <1>9, <1>14, <1>16, PaidGoesOn

LEMMA ListGoesOn ==
    ASSUME ListingInv, ListFile PROVE ListingInv'
  <1>1. PICK e, t : e = Entry /\ t = Taken
    OBVIOUS
  <1> DEFINE shown == AfterStart(token, e) /\ (e \in files \/ Append(e, Slash) \in dirs)
             w == IF shown THEN [walk EXCEPT !.stack = t, !.items = Append(@, e)]
                  ELSE [walk EXCEPT !.stack = t]
  <1>2. AtEntry /\ Continue(w) /\ ~IsSubtree(e) /\ IsPrefix(query.prefix, e) /\ Grouped(e) = NoKey
    BY <1>1 DEF ListFile
  <1>3. /\ pc = "walk" /\ e \in Key /\ t \in Seq(Seq(Key)) /\ Entries(walk.stack) = Entries(t) \cup {e}
        /\ Ordered(t) /\ OneParent(t) /\ Len(walk.items) < Limit
        /\ \A f \in Entries(t) : Less(e, f)
        /\ \A i \in Ranged(walk.items) : Less(i, e)
        /\ e \in ever
        /\ still => e \in Present
    BY <1>1, <1>2, EntryIs
  <1>4. walk \in Walks /\ walk.items \in Seq(Key) /\ ItemOf(e) = e
    BY <1>2 DEF ListingInv, TypeOK, Walks, ItemOf
  <1>5. /\ w \in Walks /\ w.stack = t /\ w.settled = walk.settled /\ w.seen = walk.seen
        /\ shown => w.items = Append(walk.items, e)
        /\ ~shown => w.items = walk.items
    <2>1. Append(walk.items, e) \in Seq(Key)
      BY <1>3, <1>4, RangedAppend
    <2> QED
      BY <1>3, <1>4, <2>1 DEF Walks
  <1> HIDE DEF w
  <1>6. shown => MayCome(e, w)
    <2>1. still => e \in files
      BY <1>2, <1>3, PresentTyped DEF ListingInv
    <2>2. Shown(e)
      BY <1>3, <1>4 DEF Shown
    <2> QED
      BY <1>2, <1>3, <1>4, <1>5, <2>1, <2>2 DEF MayCome, AfterStart
  <1>7. Advances(w)
    BY <1>3, <1>5 DEF Advances
  <1>8. WalkRight(w) /\ Ranged(walk.items) \subseteq Ranged(w.items)
    BY <1>3, <1>5, <1>6, <1>7, AdvancesRight
  <1>9. ASSUME NEW k \in Sure, Wanted(k), StandsFor(e, k) PROVE ItemOf(k) \in Ranged(w.items)
    <2>1. k = e /\ k \in files /\ ItemOf(k) = e /\ Behind(token, e)
      BY <1>2, <1>4, <1>9, SureTyped DEF StandsFor, Wanted
    <2> QED
      BY <2>1, <1>3, <1>4, <1>5, RangedAppend DEF AfterStart
  <1>10. Pays(w)
    BY <1>3, <1>5, <1>9 DEF Pays
  <1> QED
    BY <1>2, <1>3, <1>5, <1>8, <1>10, PaidGoesOn

-----------------------------------------------------------------------------
(* The directory that the walk begins in.                                  *)

\* A path without empty components is normal.
LEMMA NormalisedPlain ==
    ASSUME NEW s \in Key, PlainPath(s)
    PROVE  Normalised(s) = s
  <1> DEFINE N == 0..Len(s)
             part(n) == SubSeq(s, 1, n)
             F(f) == [n \in N |->
                        IF n = 0 THEN <<>>
                        ELSE IF s[n] = Slash /\ (n = 1 \/ s[n - 1] = Slash) THEN f[n - 1]
                        ELSE Append(f[n - 1], s[n])]
             g == [n \in N |-> part(n)]
             f == CHOOSE h : h = F(h)
  <1>1. Len(s) \in Nat /\ part(0) = <<>> /\ part(Len(s)) = s
        /\ \A n \in 1..Len(s) : s[n] \in Nat /\ part(n) = Append(part(n - 1), s[n])
    BY DEF Key
  <1>2. \A n \in 1..Len(s) : ~(s[n] = Slash /\ (n = 1 \/ s[n - 1] = Slash))
    BY <1>1 DEF PlainPath
  <1> HIDE DEF part
  <1>3. \A n \in N : n = 0 \/ n \in 1..Len(s)
    BY <1>1
  <1>4. \A n \in N : g[n] = part(n)
    OBVIOUS
  <1>5. \A n \in 1..Len(s) : n - 1 \in N
    BY <1>1
  <1>6. \A n \in N : g[n] = F(g)[n]
    BY <1>1, <1>2, <1>3, <1>4, <1>5
  <1>7. g = F(g)
    BY <1>6
  <1>8. f = F(f)
    BY <1>7
  <1>9. Normalised(s) = f[Len(s)]
    BY DEF Normalised
  <1> HIDE DEF f
  <1>10. f[0] = part(0) /\ \A n \in 1..Len(s) : f[n] = Append(f[n - 1], s[n])
    <2>1. \A n \in N : f[n] = F(f)[n]
      BY <1>8
    <2>2. f[0] = part(0)
      <3>1. 0 \in N
        BY <1>1
      <3> QED
        BY <3>1, <2>1, <1>1
    <2>3. ASSUME NEW n \in 1..Len(s) PROVE f[n] = Append(f[n - 1], s[n])
      <3>1. n \in N /\ n # 0
        BY <1>1
      <3> QED
        BY <3>1, <2>1, <1>2
    <2> QED
      BY <2>2, <2>3
  <1> DEFINE T == {n \in Nat : n <= Len(s) => f[n] = part(n)}
  <1>11. 0 \in T
    BY <1>10
  <1>12. ASSUME NEW n \in Nat, n \in T PROVE n + 1 \in T
    <2> SUFFICES ASSUME n + 1 <= Len(s) PROVE f[n + 1] = part(n + 1)
      OBVIOUS
    <2>1. f[n] = part(n) /\ n + 1 \in 1..Len(s) /\ (n + 1) - 1 = n
      BY <1>1, <1>12
    <2>2. f[n + 1] = Append(f[n], s[n + 1]) /\ part(n + 1) = Append(part(n), s[n + 1])
      BY <2>1, <1>1, <1>10
    <2> QED
      BY <2>1, <2>2
  <1>13. Len(s) \in T
    BY <1>1, <1>11, <1>12, SetInduction
  <1> QED
    BY <1>1, <1>9, <1>13

\* The last of some places.
LEMMA Greatest ==
    ASSUME NEW n \in Nat, NEW T, T \subseteq 0..n, T # {}
    PROVE  \E i \in T : \A j \in T : j <= i
  <1> DEFINE U == {m \in Nat : \A j \in T : j <= m}
  <1>1. n \in U
    OBVIOUS
  <1>2. PICK m \in U : \A i \in U : m <= i
    BY <1>1, Least
  <1>3. ASSUME m \notin T PROVE FALSE
    <2>1. \A j \in T : j <= m /\ j # m /\ j \in Nat
      BY <1>2, <1>3
    <2>2. \A j \in T : j <= m - 1 /\ m - 1 \in Nat
      BY <2>1, <1>2
    <2>3. m - 1 \in U
      BY <2>2
    <2> QED
      BY <2>3, <1>2
  <1> QED
    BY <1>2, <1>3

\* It is above every key with the prefix.
LEMMA RootAbove ==
    ASSUME query \in Queries, NEW k \in Names, IsPrefix(query.prefix, k)
    PROVE  SearchRoot \in Ancestors(k) \cup {<<>>}
  <1> DEFINE p == query.prefix
             C == {0} \cup {i \in 1..Len(p) : p[i] = Slash}
             last == CHOOSE i \in C : \A j \in C : j <= i
             s == SubSeq(p, 1, last)
  <1>1. k \in Key /\ k # <<>> /\ ~IsSubtree(k) /\ PlainPath(k) /\ p \in Key
    BY ObjectTyped, QueryTyped
  <1>2. Len(p) \in Nat /\ Len(k) \in Nat /\ Len(p) <= Len(k) /\ \A i \in 1..Len(p) : p[i] = k[i]
    BY <1>1, PrefixIs DEF Key
  <1> HIDE DEF p
  <1>3. C \subseteq 0..Len(p) /\ C # {}
    BY <1>2
  <1>4. \E i \in C : \A j \in C : j <= i
    BY <1>2, <1>3, Greatest
  <1>5. last \in C
    BY <1>4
  <1>6. SearchRoot = Normalised(s)
    BY DEF SearchRoot, p
  <1> HIDE DEF last, C
  <1>7. last \in Nat /\ last <= Len(p)
    BY <1>2, <1>3, <1>5
  <1>8. s \in Key /\ Len(s) = last /\ \A i \in 1..last : s[i] = k[i]
    BY <1>1, <1>2, <1>7, Initial
  <1> HIDE DEF s
  <1>9. PlainPath(s)
    BY <1>1, <1>2, <1>7, <1>8 DEF PlainPath
  <1>10. SearchRoot = s
    BY <1>6, <1>8, <1>9, NormalisedPlain
  <1>11. CASE last = 0
    BY <1>8, <1>10, <1>11, EmptyKey
  <1>12. CASE last # 0
    <2>1. p[last] = Slash
      BY <1>5, <1>12 DEF C
    <2>2. last \in 1..Len(p) /\ k[last] = Slash
      BY <2>1, <1>2, <1>7, <1>12
    <2>3. last # Len(k)
      BY <2>2, <1>1 DEF IsSubtree, Last
    <2>4. last \in Cuts(k)
      BY <2>2, <2>3, <1>2 DEF Cuts
    <2>5. s = SubSeq(k, 1, last)
      <3>1. SubSeq(k, 1, last) \in Key /\ Len(SubSeq(k, 1, last)) = last
            /\ \A i \in 1..last : SubSeq(k, 1, last)[i] = k[i]
        BY <1>1, <1>2, <1>7, Initial
      <3> QED
        BY <3>1, <1>8, SameKey
    <2> QED
      BY <2>4, <2>5, <1>1, <1>10, AncestorIs
  <1> QED
    BY <1>11, <1>12

-----------------------------------------------------------------------------
(* The steps of the client.                                                *)

LEMMA NoWalkTyped ==
    /\ NoWalk \in Walks /\ NoWalk.stack = <<>> /\ NoWalk.items = <<>> /\ NoWalk.seen = {}
    /\ NoWalk.settled = NoKey
    /\ Ranged(<<>>) = {} /\ Entries(<<>>) = {} /\ Len(<<>>) = 0
  BY DEF NoWalk, Walks, Ranged, Entries

LEMMA NoWalkRight ==
    ASSUME query \in Queries
    PROVE  WalkRight(NoWalk)
  <1>1. Limit \in Nat
    BY QueryTyped DEF Limit
  <1>2. EntriesRight(NoWalk)
    BY <1>1, NoWalkTyped DEF EntriesRight
  <1>3. Ordered(<<>>) /\ OneParent(<<>>) /\ Ascending(<<>>)
    BY DEF Ordered, OneParent, Ascending
  <1> QED
    BY <1>2, <1>3, NoWalkTyped DEF WalkRight, ShownRight, OrderRight, SeenRight, FoundRight

LEMMA OpenGoesOn ==
    ASSUME ListingInv, OpenRoot PROVE ListingInv'
  <1>1. PICK c : c = ReadChildren(SearchRoot)
    OBVIOUS
  <1> DEFINE w == [NoWalk EXCEPT !.stack = <<c>>]
  <1>2. pc = "request" /\ walk' = w /\ pc' = "walk" /\ still' = TRUE
        /\ UNCHANGED <<tree, query, token, listed, stable, ever>>
    BY <1>1 DEF OpenRoot
  <1>3. /\ c \in Seq(Key) /\ Ascending(c)
        /\ \A x \in Ranged(c) : x \in Present /\ Parent(x) = SearchRoot
    BY <1>1, ChildrenAre DEF ListingInv
  <1>4. \A x \in Ranged(c) : x \in Key /\ x # <<>> /\ (~IsSubtree(x) => x \in files)
    BY <1>3, PresentTyped DEF ListingInv
  <1>5. <<c>> \in Seq(Seq(Key)) /\ Entries(<<c>>) = Ranged(c) /\ Ordered(<<c>>) /\ OneParent(<<c>>)
    BY <1>3, <1>4, StackOne
  <1>6. w \in Walks /\ w.stack = <<c>> /\ w.items = <<>> /\ w.seen = {} /\ w.settled = NoKey
    BY <1>5, NoWalkTyped DEF Walks
  <1> HIDE DEF w
  <1>7. TypeOK'
    BY <1>2, <1>6 DEF ListingInv, TypeOK, Places, tree
  <1>8. TreeInv'
    BY <1>2 DEF ListingInv, TreeInv, tree
  <1>9. query' = query /\ \A k : ItemOf(k)' = ItemOf(k)
    BY <1>2, SameQuery
  <1>10. ListedInv'
    BY <1>2, <1>9 DEF ListingInv, ListedInv, Shown
  <1>11. Limit \in Nat /\ query \in Queries
    BY WalkTyped DEF ListingInv
  <1>12. EntriesRight(walk)'
    <2>1. \A e \in Entries(<<c>>) : e # <<>> /\ (~IsSubtree(e) => e \in ever) /\ e \in Present
      BY <1>3, <1>4, <1>5 DEF ListingInv, TreeInv
    <2>2. Limit' = Limit
      BY <1>9 DEF Limit
    <2> QED
      BY <2>1, <2>2, <1>2, <1>6, <1>11, NoWalkTyped DEF EntriesRight, Present, tree
  <1>13. WalkRight(walk)'
    <2>1. Ascending(<<>>)
      BY DEF Ascending
    <2> QED
      BY <2>1, <1>2, <1>5, <1>6, <1>12, NoWalkTyped
         DEF WalkRight, ShownRight, OrderRight, SeenRight, FoundRight
  <1>14. ToCome(walk)'
    <2>1. ASSUME NEW k \in files, IsPrefix(query.prefix, k) PROVE \E e \in Entries(<<c>>) : StandsFor(e, k)
      <3>1. k \in Names /\ k \in Present
        BY DEF ListingInv, TypeOK, Present
      <3>2. SearchRoot \in Ancestors(k) \cup {<<>>}
        BY <3>1, <2>1, <1>11, RootAbove
      <3> QED
        BY <3>1, <3>2, <1>1, <1>5, LeadsTo DEF ListingInv
    <2>2. Sure' = files
      BY <1>2 DEF Sure, tree
    <2> QED
      BY <2>1, <2>2, <1>2, <1>6 DEF ToCome, Wanted
  <1>15. WalkInv' /\ OwedInv'
    BY <1>2, <1>13, <1>14 DEF WalkInv, OwedInv
  <1> QED
    BY <1>7, <1>8, <1>10, <1>15 DEF ListingInv

\* An item that is ahead of an entry is ahead of what the entry's keys are listed as.
LEMMA ItemAhead ==
    ASSUME query \in Queries, NEW i \in Key, ItemOf(i) = i, NEW e \in Key, Less(i, e),
           NEW k \in Key, StandsFor(e, k)
    PROVE  i = ItemOf(k) \/ Less(i, ItemOf(k))
  <1>1. IsPrefix(e, k)
    BY StandsBegins
  <1>2. Less(i, k)
    BY <1>1, LessLonger
  <1>3. CASE Grouped(k) = NoKey
    BY <1>2, <1>3 DEF ItemOf
  <1>4. CASE Grouped(k) # NoKey
    BY <1>2, <1>4, GroupNext DEF ItemOf
  <1> QED
    BY <1>3, <1>4

LEMMA EndGoesOn ==
    ASSUME ListingInv, WalkEnds PROVE ListingInv'
  <1>1. pc = "walk" /\ ~Walking /\ pc' = "page" /\ walk' = walk
        /\ UNCHANGED <<tree, query, token, listed, history>>
    BY DEF WalkEnds
  <1>2. Unmoved
    BY <1>1 DEF Unmoved
  <1>3. TypeOK' /\ TreeInv' /\ ListedInv'
    BY <1>1, <1>2, TreeStays, ListedStays DEF ListingInv, TypeOK, Places, tree, history
  <1>4. WalkInv'
    BY <1>1, <1>2, RightStays DEF ListingInv, WalkInv
  <1>5. Complete(walk)
    <2> SUFFICES ASSUME NEW k \in Sure, Wanted(k), ItemOf(k) \notin Ranged(walk.items)
                 PROVE  Len(walk.items) = Limit /\ \A i \in Ranged(walk.items) : Less(i, ItemOf(k))
      BY DEF Complete
    <2>1. PICK e \in Entries(walk.stack) : StandsFor(e, k)
      BY <1>1 DEF ListingInv, OwedInv, ToCome
    <2>2. /\ query \in Queries /\ Limit \in Nat /\ Len(walk.items) \in Nat
          /\ Entries(walk.stack) \subseteq Key /\ \A i \in Ranged(walk.items) : i \in Key
      BY WalkTyped DEF ListingInv
    <2>3. walk.stack # <<>>
      BY <2>1, NoWalkTyped
    <2>4. Len(walk.items) = Limit
      BY <2>2, <2>3, <1>1 DEF Walking, ListingInv, WalkInv, WalkRight, EntriesRight
    <2>5. ASSUME NEW i \in Ranged(walk.items) PROVE Less(i, ItemOf(k))
      <3>1. ItemOf(i) = i /\ Less(i, e)
        BY <2>1 DEF ListingInv, WalkInv, WalkRight, OrderRight
      <3>2. i \in Key /\ e \in Key /\ k \in Key
        BY <2>1, <2>2, SureTyped
      <3>3. i = ItemOf(k) \/ Less(i, ItemOf(k))
        BY <3>1, <3>2, <2>1, <2>2, ItemAhead
      <3> QED
        BY <3>3
    <2> QED
      BY <2>4, <2>5
  <1>6. OwedInv'
    BY <1>1, <1>2, <1>5, OwedStays DEF OwedInv
  <1> QED
    BY <1>3, <1>4, <1>6 DEF ListingInv

\* The page is the items up to max_keys.
LEMMA PageIs ==
    ASSUME TypeOK
    PROVE  /\ Page \in Seq(Key) /\ Len(Page) \in Nat
           /\ Len(Page) = IF Truncated THEN query.maxKeys ELSE Len(walk.items)
           /\ \A i \in 1..Len(Page) : i \in 1..Len(walk.items) /\ Page[i] = walk.items[i]
           /\ Ranged(Page) \subseteq Ranged(walk.items)
           /\ Page # <<>> => Last(Page) = Page[Len(Page)] /\ Len(Page) \in 1..Len(Page)
                             /\ Last(Page) \in Ranged(Page)
  <1> DEFINE s == walk.items
             m == query.maxKeys
             n == IF m < Len(s) THEN m ELSE Len(s)
             p == SubSeq(s, 1, n)
  <1>1. s \in Seq(Key) /\ m \in Nat /\ Len(s) \in Nat
    BY WalkTyped, QueryTyped DEF TypeOK
  <1>2. Page = p /\ (Truncated <=> m < Len(s))
    BY <1>1 DEF Page, UpTo, Truncated
  <1> HIDE DEF s, m
  <1>3. n \in Nat /\ n <= Len(s)
    BY <1>1
  <1> HIDE DEF n
  <1>4. p \in Seq(Key) /\ Len(p) = n /\ \A i \in 1..n : p[i] = s[i]
    BY <1>1, <1>3
  <1> HIDE DEF p
  <1>5. \A i \in 1..n : i \in 1..Len(s)
    BY <1>1, <1>3
  <1>6. Ranged(p) \subseteq Ranged(s)
    BY <1>4, <1>5 DEF Ranged
  <1>7. ASSUME p # <<>> PROVE Last(p) = p[Len(p)] /\ Len(p) \in 1..Len(p) /\ Last(p) \in Ranged(p)
    <2>1. Len(p) \in Nat /\ Len(p) >= 1 /\ Last(p) = p[Len(p)]
      BY <1>4, <1>7, FrontOf
    <2> QED
      BY <2>1 DEF Ranged
  <1> QED
    BY <1>2, <1>3, <1>4, <1>5, <1>6, <1>7 DEF n, s, m

\* The page goes up, behind the token.
LEMMA PageRight ==
    ASSUME ListingInv
    PROVE  /\ Ascending(Page)
           /\ \A i \in Ranged(Page) : i \in Key /\ Shown(i) /\ Behind(token, i)
           /\ Page # <<>> => \A i \in Ranged(Page) : i = Last(Page) \/ Less(i, Last(Page))
  <1>1. /\ Page \in Seq(Key) /\ Len(Page) \in Nat
        /\ \A i \in 1..Len(Page) : i \in 1..Len(walk.items) /\ Page[i] = walk.items[i]
        /\ Ranged(Page) \subseteq Ranged(walk.items)
        /\ Page # <<>> => Last(Page) = Page[Len(Page)] /\ Len(Page) \in 1..Len(Page)
    BY PageIs DEF ListingInv
  <1>2. Ascending(walk.items) /\ \A i \in Ranged(walk.items) : i \in Key /\ Shown(i) /\ Behind(token, i)
    BY WalkTyped DEF ListingInv, WalkInv, WalkRight, OrderRight, ShownRight
  <1>3. Ascending(Page)
    BY <1>1, <1>2 DEF Ascending
  <1>4. ASSUME Page # <<>>, NEW i \in Ranged(Page) PROVE i = Last(Page) \/ Less(i, Last(Page))
    <2>1. PICK j \in 1..Len(Page) : i = Page[j]
      BY DEF Ranged
    <2>2. j = Len(Page) \/ j < Len(Page)
      BY <1>1
    <2> QED
      BY <2>1, <2>2, <1>1, <1>3, <1>4 DEF Ascending
  <1> QED
    BY <1>1, <1>2, <1>3, <1>4

LEMMA TakeGoesOn ==
    ASSUME ListingInv, TakePage PROVE ListingInv'
  <1>1. /\ pc = "page" /\ listed' = listed \cup Ranged(Page) /\ walk' = NoWalk
        /\ IF Truncated /\ Page # <<>> THEN pc' = "request" /\ token' = Last(Page)
           ELSE pc' = "end" /\ token' = token
        /\ UNCHANGED <<tree, query, history>>
    BY DEF TakePage
  <1>2. /\ \A i \in Ranged(Page) : i \in Key /\ Shown(i) /\ Behind(token, i)
        /\ Page # <<>> => /\ Last(Page) \in Ranged(Page)
                          /\ \A i \in Ranged(Page) : i = Last(Page) \/ Less(i, Last(Page))
    BY PageRight, PageIs DEF ListingInv
  <1>3. query \in Queries /\ listed \subseteq Key /\ NoKey \notin Key /\ token \in Key \cup {NoKey}
    BY QueryTyped DEF ListingInv, TypeOK
  <1>4. query' = query /\ \A k : ItemOf(k)' = ItemOf(k)
    BY <1>1, SameQuery
  <1>5. TypeOK'
    BY <1>1, <1>2, NoWalkTyped DEF ListingInv, TypeOK, Places, tree, history
  <1>6. TreeInv'
    BY <1>1 DEF ListingInv, TreeInv, tree, history
  <1>7. WalkInv' /\ OwedInv'
    <2>1. (query \in Queries)'
      BY <1>3, <1>4
    <2>2. WalkRight(NoWalk)'
      BY <2>1, NoWalkRight, PTL
    <2> QED
      BY <2>2, <1>1 DEF WalkInv, OwedInv, WalkRight, EntriesRight, ShownRight, OrderRight, SeenRight, FoundRight
  <1>8. ListedInv'
    <2>1. \A i \in listed' : Shown(i)
      BY <1>1, <1>2 DEF ListingInv, ListedInv
    <2>2. \A i \in listed' : Shown(i)'
      BY <2>1, <1>1, <1>4 DEF Shown, history
    <2>3. ASSUME pc' # "end", NEW i \in listed' PROVE token' # NoKey /\ (i = token' \/ Less(i, token'))
      <3>1. Page # <<>> /\ token' = Last(Page) /\ token' \in Ranged(Page) /\ token' \in Key
        BY <1>1, <1>2, <2>3
      <3>2. CASE i \in Ranged(Page)
        BY <3>1, <3>2, <1>2, <1>3
      <3>3. CASE i \in listed
        <4>1. token # NoKey /\ (i = token \/ Less(i, token)) /\ Less(token, token')
          BY <3>1, <3>3, <1>1, <1>2 DEF ListingInv, ListedInv, Behind
        <4> QED
          BY <4>1, <3>1, <3>3, <1>3, LessTransitive
      <3> QED
        BY <3>2, <3>3, <1>1
    <2> QED
      BY <2>2, <2>3 DEF ListedInv
  <1> QED
    BY <1>5, <1>6, <1>7, <1>8 DEF ListingInv

-----------------------------------------------------------------------------
(* The steps of the other clients.                                         *)

LEMMA AncestorsFinite == ASSUME NEW k \in Key PROVE IsFiniteSet(Ancestors(k))
  <1> DEFINE C == Cuts(k)
             A == Ancestors(k)
             f == [i \in C |-> SubSeq(k, 1, i)]
  <1>1. Len(k) \in Nat
    BY DEF Key
  <1>2. IsFiniteSet(C)
    <2>1. C \in SUBSET (1..Len(k))
      BY <1>1 DEF Cuts
    <2>2. 1 \in Int /\ Len(k) \in Int
      BY <1>1
    <2>3. IsFiniteSet(1..Len(k))
      BY <2>2, FS_Interval
    <2> QED
      BY <2>1, <2>3, FS_Subset
  <1>3. A = {SubSeq(k, 1, i) : i \in C}
    BY AncestorIs
  <1> HIDE DEF A, C
  <1>4. f \in Surjection(C, A)
    BY <1>3 DEF Surjection
  <1> QED
    BY <1>2, <1>4, FS_Surjection DEF A

LEMMA AncestorsTyped ==
    ASSUME NEW k \in Key
    PROVE  \A d \in Ancestors(k) : d \in Key /\ d # <<>> /\ IsSubtree(d)
  <1> SUFFICES ASSUME NEW d \in Ancestors(k) PROVE d \in Key /\ d # <<>> /\ IsSubtree(d)
    OBVIOUS
  <1>1. PICK i \in Cuts(k) : d = SubSeq(k, 1, i)
    BY AncestorIs
  <1> QED
    BY <1>1, AncestorTyped

\* A write of another client leaves the listing right.
LEMMA OthersGoOn ==
    ASSUME ListingInv, Meanwhile, TypeOK', TreeInv', stable' \subseteq stable, ever \subseteq ever'
    PROVE  ListingInv'
  <1>1. pc # "end" /\ still' = FALSE /\ UNCHANGED <<query, token, pc, walk, listed>>
    BY DEF Meanwhile
  <1>2. query' = query /\ \A k : Grouped(k)' = Grouped(k) /\ ItemOf(k)' = ItemOf(k)
    BY <1>1, SameQuery
  <1>3. \A i : Shown(i) => Shown(i)'
    BY <1>2 DEF Shown
  <1>4. /\ EntriesRight(walk) /\ ShownRight(walk) /\ OrderRight(walk) /\ SeenRight(walk)
    BY DEF ListingInv, WalkInv, WalkRight
  <1>5. EntriesRight(walk)'
    BY <1>1, <1>4 DEF EntriesRight, Limit
  <1>6. ShownRight(walk)'
    BY <1>1, <1>3, <1>4 DEF ShownRight
  <1>7. OrderRight(walk)' /\ SeenRight(walk)' /\ FoundRight(walk)'
    BY <1>1, <1>2, <1>4 DEF OrderRight, SeenRight, FoundRight, Behind
  <1>8. WalkInv'
    BY <1>1, <1>5, <1>6, <1>7 DEF ListingInv, WalkInv, WalkRight
  <1>9. ListedInv'
    BY <1>1, <1>3 DEF ListingInv, ListedInv
  <1>10. Sure' \subseteq Sure
    BY <1>1 DEF Sure, ListingInv, TreeInv
  <1>11. \A k : Wanted(k)' <=> Wanted(k)
    BY <1>1, <1>2 DEF Wanted, Behind
  <1>12. OwedInv'
    BY <1>1, <1>2, <1>10, <1>11 DEF ListingInv, OwedInv, ToCome, Complete, Limit
  <1> QED
    BY <1>8, <1>9, <1>12 DEF ListingInv

\* An object's key and the names of its temporary files name files.
LEMMA NamesAre ==
    ASSUME NEW k \in Objects
    PROVE  k \in Names /\ Temps[k] \subseteq Names
  BY DEF Names

LEMMA CreateGoesOn ==
    ASSUME ListingInv, NEW f \in Names, CreateFile(f), Meanwhile PROVE ListingInv'
  <1>1. /\ files' = files \cup {f} /\ dirs' = dirs \cup Ancestors(f)
        /\ IsTree(files \cup {f}, dirs \cup Ancestors(f))
        /\ ever' = ever \cup {f} /\ stable' = stable
    BY DEF CreateFile
  <1>2. f \in Key /\ IsFiniteSet(Ancestors(f)) /\ \A d \in Ancestors(f) : d \in Key /\ d # <<>> /\ IsSubtree(d)
    BY ObjectTyped, AncestorsFinite, AncestorsTyped
  <1>3. TypeOK'
    BY <1>1, <1>2 DEF ListingInv, TypeOK, Meanwhile
  <1>4. IsFiniteSet(files') /\ IsFiniteSet(dirs')
    BY <1>1, <1>2, FS_AddElement, FS_Union DEF ListingInv, TreeInv
  <1>5. TreeInv'
    BY <1>1, <1>2, <1>4 DEF ListingInv, TreeInv
  <1> QED
    BY <1>1, <1>3, <1>5, OthersGoOn

LEMMA RemoveGoesOn ==
    ASSUME ListingInv, NEW f \in Names, RemoveFile(f), Meanwhile PROVE ListingInv'
  <1>1. /\ files' = files \ {f} /\ stable' = stable \ {f} /\ dirs' = dirs /\ ever' = ever
    BY DEF RemoveFile
  <1>2. TypeOK'
    BY <1>1 DEF ListingInv, TypeOK, Meanwhile
  <1>3. IsFiniteSet(files')
    BY <1>1, FS_RemoveElement DEF ListingInv, TreeInv
  <1>4. IsTree(files', dirs')
    BY <1>1 DEF ListingInv, TreeInv, IsTree
  <1>5. TreeInv'
    BY <1>1, <1>3, <1>4 DEF ListingInv, TreeInv
  <1> QED
    BY <1>1, <1>2, <1>5, OthersGoOn

\* The rename takes the temporary file away and leaves the object in the same directory.
LEMMA FinishGoesOn ==
    ASSUME ListingInv, NEW k \in Objects, NEW t \in Temps[k], FinishPut(k, t) PROVE ListingInv'
  <1>1. /\ t \in files /\ Append(k, Slash) \notin dirs
        /\ files' = (files \ {t}) \cup {k} /\ dirs' = dirs
        /\ stable' = stable \ {t} /\ ever' = ever \cup {k} /\ Meanwhile
    BY DEF FinishPut
  <1>2. k \in Key /\ k # <<>> /\ ~IsSubtree(k) /\ k \in Names
    BY NamesAre, ObjectTyped
  <1>3. TypeOK'
    BY <1>1, <1>2 DEF ListingInv, TypeOK, Meanwhile
  <1>4. IsFiniteSet(files')
    BY <1>1, FS_AddElement, FS_RemoveElement DEF ListingInv, TreeInv
  <1>5. IsTree(files', dirs')
    <2>1. /\ \A f \in files : Append(f, Slash) \notin dirs /\ Ancestors(f) \subseteq dirs
          /\ \A d \in dirs : Named(d) \notin files /\ Ancestors(d) \subseteq dirs
      BY DEF ListingInv, TreeInv, IsTree
    <2>2. Ancestors(k) \subseteq dirs
      BY <1>1, <2>1, TempAssumption
    <2>3. ASSUME NEW d \in dirs PROVE Named(d) # k
      <3>1. d \in Key /\ d # <<>> /\ Last(d) = Slash
        BY DEF ListingInv, TypeOK, TreeInv, IsSubtree
      <3>2. Append(Front(d), Last(d)) = d
        BY <3>1 DEF Key, Front, Last
      <3> QED
        BY <1>1, <3>1, <3>2 DEF Named
    <2> QED
      BY <1>1, <2>1, <2>2, <2>3 DEF IsTree
  <1>6. TreeInv'
    BY <1>1, <1>4, <1>5 DEF ListingInv, TreeInv
  <1> QED
    BY <1>1, <1>3, <1>6, OthersGoOn

LEMMA WritesGoOn ==
    ASSUME ListingInv, NEW k \in Objects,
           \/ CopyObject(k) \/ DeleteObject(k)
           \/ \E t \in Temps[k] : BeginPut(k, t) \/ FinishPut(k, t) \/ FailPut(k, t)
    PROVE  ListingInv'
  <1>1. CASE CopyObject(k)
    BY <1>1, NamesAre, CreateGoesOn DEF CopyObject
  <1>2. CASE DeleteObject(k)
    BY <1>2, NamesAre, RemoveGoesOn DEF DeleteObject
  <1>3. ASSUME NEW t \in Temps[k], BeginPut(k, t) PROVE ListingInv'
    BY <1>3, NamesAre, CreateGoesOn DEF BeginPut
  <1>4. ASSUME NEW t \in Temps[k], FinishPut(k, t) PROVE ListingInv'
    BY <1>4, FinishGoesOn
  <1>5. ASSUME NEW t \in Temps[k], FailPut(k, t) PROVE ListingInv'
    BY <1>5, NamesAre, RemoveGoesOn DEF FailPut
  <1> QED
    BY <1>1, <1>2, <1>3, <1>4, <1>5

LEMMA PruneGoesOn ==
    ASSUME ListingInv, NEW d \in dirs, PruneDirectory(d) PROVE ListingInv'
  <1>1. /\ \A e \in Present : Parent(e) # d
        /\ dirs' = dirs \ {d} /\ files' = files /\ stable' = stable /\ ever' = ever /\ Meanwhile
    BY DEF PruneDirectory, Present
  <1>2. TypeOK'
    BY <1>1 DEF ListingInv, TypeOK, Meanwhile
  <1>3. IsFiniteSet(dirs')
    BY <1>1, FS_RemoveElement DEF ListingInv, TreeInv
  <1>4. Present \subseteq Key /\ \A x \in Present : x # <<>> /\ Ancestors(x) \subseteq dirs
    BY PresentTyped DEF ListingInv
  <1>5. ASSUME NEW x \in Present, d \in Ancestors(x) PROVE FALSE
    <2>1. PICK e \in Key : Parent(e) = d /\ (e = x \/ e \in Ancestors(x))
      BY <1>4, <1>5, Towards
    <2>2. e \in Present
      BY <2>1, <1>4 DEF Present
    <2> QED
      BY <2>1, <2>2, <1>1
  <1>6. IsTree(files', dirs')
    BY <1>1, <1>5 DEF ListingInv, TreeInv, IsTree, Present
  <1>7. TreeInv'
    BY <1>1, <1>3, <1>6 DEF ListingInv, TreeInv
  <1> QED
    BY <1>1, <1>2, <1>7, OthersGoOn

-----------------------------------------------------------------------------
(* The invariant.                                                          *)

LEMMA ListingStarts == Init => ListingInv
  <1> SUFFICES ASSUME Init PROVE ListingInv
    OBVIOUS
  <1>1. PICK vacant \in SUBSET Vacant :
            dirs = vacant \cup UNION {Ancestors(e) : e \in files \cup vacant}
    BY DEF Init
  <1>2. /\ files \subseteq Names /\ IsFiniteSet(files) /\ IsTree(files, dirs) /\ query \in Queries
        /\ token = query.marker /\ pc = "request" /\ walk = NoWalk /\ listed = {}
        /\ stable = files /\ ever = files /\ still = TRUE
    BY TreeAssumption DEF Init
  <1>3. IsFiniteSet(vacant) /\ \A d \in vacant : d \in Key /\ d # <<>> /\ IsSubtree(d)
    BY TreeAssumption, FS_Subset DEF Key, IsSubtree
  <1> DEFINE P == files \cup vacant
             Q == {Ancestors(e) : e \in P}
             f == [e \in P |-> Ancestors(e)]
  <1>4. P \subseteq Key /\ IsFiniteSet(P)
    BY <1>2, <1>3, FS_Union, ObjectTyped
  <1>5. f \in Surjection(P, Q)
    BY DEF Surjection
  <1>6. IsFiniteSet(Q)
    BY <1>4, <1>5, FS_Surjection
  <1>7. \A S \in Q : IsFiniteSet(S) /\ \A d \in S : d \in Key /\ d # <<>> /\ IsSubtree(d)
    BY <1>4, AncestorsFinite, AncestorsTyped
  <1>8. IsFiniteSet(UNION Q) /\ \A d \in UNION Q : d \in Key /\ d # <<>> /\ IsSubtree(d)
    BY <1>6, <1>7, FS_UNION
  <1>9. IsFiniteSet(dirs) /\ \A d \in dirs : d \in Key /\ d # <<>> /\ IsSubtree(d)
    BY <1>1, <1>3, <1>8, FS_Union
  <1>10. TypeOK
    BY <1>2, <1>9, NoWalkTyped, QueryTyped DEF TypeOK, Places
  <1>11. TreeInv
    BY <1>2, <1>9 DEF TreeInv
  <1>12. WalkInv /\ OwedInv /\ ListedInv
    BY <1>2, NoWalkRight DEF WalkInv, OwedInv, ListedInv
  <1> QED
    BY <1>10, <1>11, <1>12 DEF ListingInv

LEMMA StutterGoesOn ==
    ASSUME ListingInv, UNCHANGED vars PROVE ListingInv'
  <1>1. Unmoved /\ walk' = walk /\ pc' = pc
    BY DEF vars, Unmoved
  <1>2. TypeOK'
    BY <1>1 DEF ListingInv, TypeOK, Unmoved, tree, history
  <1>3. TreeInv'
    BY <1>1, TreeStays DEF ListingInv
  <1>4. WalkInv'
    BY <1>1, RightStays DEF ListingInv, WalkInv
  <1>5. OwedInv'
    BY <1>1, OwedStays DEF ListingInv, OwedInv
  <1>6. \A k : Grouped(k)' = Grouped(k) /\ ItemOf(k)' = ItemOf(k)
    BY <1>1, SameQuery DEF Unmoved
  <1>7. ListedInv'
    BY <1>1, <1>6 DEF ListingInv, ListedInv, Shown, Unmoved, history
  <1> QED
    BY <1>2, <1>3, <1>4, <1>5, <1>7 DEF ListingInv

LEMMA ListingGoesOn ==
    ASSUME ListingInv, [Next]_vars PROVE ListingInv'
  <1>1. ASSUME List PROVE ListingInv'
    BY <1>1, OpenGoesOn, LeaveGoesOn, SkipGoesOn, CollapseGoesOn, EnterGoesOn, GroupGoesOn,
       ListGoesOn, EndGoesOn, TakeGoesOn DEF List
  <1>2. ASSUME NEW k \in Objects,
               \/ CopyObject(k) \/ DeleteObject(k)
               \/ \E t \in Temps[k] : BeginPut(k, t) \/ FinishPut(k, t) \/ FailPut(k, t)
        PROVE  ListingInv'
    BY <1>2, WritesGoOn
  <1>3. ASSUME NEW d \in dirs, PruneDirectory(d) PROVE ListingInv'
    BY <1>3, PruneGoesOn
  <1>4. ASSUME UNCHANGED vars PROVE ListingInv'
    BY <1>4, StutterGoesOn
  <1> QED
    BY <1>1, <1>2, <1>3, <1>4 DEF Next

\* The walk's entries, its items, the tree and the pages so far are right at every
\* step of every listing.
THEOREM ListingIsRight == Spec => []ListingInv
  <1>1. ListingInv /\ [Next]_vars => ListingInv'
    BY ListingGoesOn
  <1> QED
    BY <1>1, ListingStarts, PTL DEF Spec

-----------------------------------------------------------------------------
(* What follows of a listing.                                              *)

\* Whatever is put, copied, deleted and pruned between the steps of the walk, no page has an
\* item that no file ever stood for, an object or the temporary file of a PUT: list_objects
\* shows no vacant directory and no group of which all files are gone since before the
\* listing began.
THEOREM NothingIsInvented == Spec => []NothingInvented
  <1>1. ListingInv => NothingInvented
    BY DEF ListingInv, ListedInv, Shown, NothingInvented
  <1> QED
    BY <1>1, ListingIsRight, PTL

\* The items of a page go up, and every page is behind the ones before it, so that
\* list_objects repeats nothing however the bucket changes.
THEOREM PagesGoUp == Spec => []PagesAscend
  <1>1. ASSUME ListingInv PROVE PagesAscend
    <2>1. /\ Ascending(Page) /\ \A i \in Ranged(Page) : i \in Key /\ Behind(token, i)
          /\ Len(Page) \in Nat
      BY <1>1, PageRight, PageIs DEF ListingInv
    <2>2. ASSUME NEW n \in 1..(Len(Page) - 1) PROVE Less(Page[n], Page[n + 1])
      BY <2>1 DEF Ascending
    <2>3. ASSUME pc = "page", NEW i \in listed, NEW j \in Ranged(Page) PROVE Less(i, j)
      <3>1. token # NoKey /\ (i = token \/ Less(i, token)) /\ Less(token, j)
        BY <1>1, <2>1, <2>3 DEF ListingInv, ListedInv, Behind
      <3>2. i \in Key /\ j \in Key /\ token \in Key
        BY <1>1, <2>1, <3>1 DEF ListingInv, TypeOK
      <3> QED
        BY <3>1, <3>2, LessTransitive
    <2> QED
      BY <2>2, <2>3 DEF PagesAscend
  <1> QED
    BY <1>1, ListingIsRight, PTL

\* What the pages so far have not listed is behind the token, when every page may
\* have an item.
LEMMA PagesGoOn ==
    ASSUME \A q \in Queries : q.maxKeys >= 1, ListingInv, PagesInv, [Next]_vars
    PROVE  PagesInv'
  <1>1. query' = query
    BY DEF Next, List, OpenRoot, LeaveDirectory, SkipEntry, CollapseDirectory, EnterDirectory,
       GroupFile, ListFile, WalkEnds, TakePage, Continue, CopyObject, BeginPut, FinishPut, FailPut,
       DeleteObject, PruneDirectory, Meanwhile, vars
  <1>2. \A k : ItemOf(k)' = ItemOf(k)
    BY <1>1, SameQuery
  <1>3. ASSUME UNCHANGED <<token, listed>>, stable' \subseteq stable, pc' = "end" => pc = "end"
        PROVE  PagesInv'
    BY <1>1, <1>2, <1>3 DEF PagesInv, Behind
  <1>4. ASSUME TakePage PROVE PagesInv'
    <2>1. /\ pc = "page" /\ listed' = listed \cup Ranged(Page) /\ stable' = stable
          /\ IF Truncated /\ Page # <<>> THEN pc' = "request" /\ token' = Last(Page)
             ELSE pc' = "end" /\ token' = token
      BY <1>4 DEF TakePage, history
    <2>2. /\ query \in Queries /\ query.maxKeys \in Nat /\ query.maxKeys >= 1
          /\ Limit = query.maxKeys + 1 /\ Len(walk.items) \in Nat
      BY WalkTyped, QueryTyped DEF ListingInv
    <2>3. /\ Len(Page) = IF Truncated THEN query.maxKeys ELSE Len(walk.items)
          /\ \A i \in 1..Len(Page) : i \in 1..Len(walk.items) /\ Page[i] = walk.items[i]
          /\ Page # <<>> => Last(Page) = Page[Len(Page)] /\ Len(Page) \in 1..Len(Page)
      BY PageIs DEF ListingInv
    <2>4. Ascending(walk.items) /\ Complete(walk) /\ Len(walk.items) <= Limit
      BY <2>1 DEF ListingInv, WalkInv, OwedInv, WalkRight, OrderRight, EntriesRight
    <2>5. ASSUME NEW k \in stable, IsPrefix(query.prefix, k), Behind(token, ItemOf(k)),
                 ItemOf(k) \notin Ranged(Page)
          PROVE  pc' = "request" /\ Behind(token', ItemOf(k))
      <3> DEFINE i == ItemOf(k)
      <3>1. k \in Sure /\ Wanted(k)
        BY <2>5 DEF Sure, Wanted, ListingInv, TreeInv
      <3>2. \/ i \in Ranged(walk.items)
            \/ Len(walk.items) = Limit /\ \A j \in Ranged(walk.items) : Less(j, i)
        BY <3>1, <2>4 DEF Complete
      <3> HIDE DEF i
      <3>3. i \notin Ranged(Page)
        BY <2>5 DEF i
      <3>4. Truncated
        <4> SUFFICES ASSUME ~Truncated PROVE FALSE
          OBVIOUS
        <4>1. Len(walk.items) <= query.maxKeys /\ Len(Page) = Len(walk.items)
          BY <2>2, <2>3 DEF Truncated
        <4>2. i \in Ranged(walk.items)
          BY <3>2, <4>1, <2>2
        <4> QED
          BY <4>1, <4>2, <3>3, <2>3 DEF Ranged
      <3>5. Len(walk.items) = query.maxKeys + 1 /\ Len(Page) = query.maxKeys
        BY <3>4, <2>2, <2>3, <2>4 DEF Truncated
      <3>6. Page # <<>>
        BY <3>5, <2>2
      <3>7. /\ pc' = "request" /\ token' = walk.items[query.maxKeys]
            /\ walk.items[query.maxKeys] \in Ranged(walk.items)
        BY <3>4, <3>5, <3>6, <2>1, <2>2, <2>3 DEF Ranged
      <3>8. Less(walk.items[query.maxKeys], i)
        <4>1. CASE i \in Ranged(walk.items)
          <5>1. PICK j \in 1..Len(walk.items) : i = walk.items[j]
            BY <4>1 DEF Ranged
          <5>2. j \notin 1..Len(Page)
            BY <5>1, <3>3, <2>3 DEF Ranged
          <5>3. query.maxKeys < j /\ query.maxKeys \in 1..Len(walk.items)
            BY <5>2, <3>5, <2>2
          <5> QED
            BY <5>1, <5>3, <2>4 DEF Ascending
        <4>2. CASE i \notin Ranged(walk.items)
          BY <4>2, <3>2, <3>7
        <4> QED
          BY <4>1, <4>2
      <3> QED
        BY <3>7, <3>8 DEF i, Behind
    <2>6. ASSUME NEW k \in stable, IsPrefix(query.prefix, k), Behind(query.marker, ItemOf(k))
          PROVE  ItemOf(k) \in listed' \/ (pc' # "end" /\ Behind(token', ItemOf(k)))
      <3>1. ItemOf(k) \in listed \/ Behind(token, ItemOf(k))
        BY <2>6 DEF PagesInv
      <3> QED
        BY <3>1, <2>1, <2>5, <2>6
    <2>7. \A k \in stable' : IsPrefix(query.prefix, k)' /\ Behind(query.marker, ItemOf(k))'
              => ItemOf(k)' \in listed' \/ (pc' # "end" /\ Behind(token, ItemOf(k))')
      BY <2>1, <2>6, <1>1, <1>2 DEF Behind
    <2> QED
      BY <2>7 DEF PagesInv
  <1>5. ASSUME OpenRoot \/ WalkEnds PROVE PagesInv'
    BY <1>3, <1>5 DEF OpenRoot, WalkEnds, history
  <1>6. ASSUME LeaveDirectory \/ SkipEntry \/ CollapseDirectory \/ EnterDirectory \/ GroupFile \/ ListFile
        PROVE  PagesInv'
    BY <1>3, <1>6 DEF LeaveDirectory, SkipEntry, CollapseDirectory, EnterDirectory, GroupFile,
       ListFile, Continue, history
  <1>7. ASSUME NEW k, NEW t,
               \/ CopyObject(k) \/ DeleteObject(k) \/ PruneDirectory(k)
               \/ BeginPut(k, t) \/ FinishPut(k, t) \/ FailPut(k, t)
        PROVE  PagesInv'
    <2>1. UNCHANGED <<token, listed>> /\ pc' = pc
      BY <1>7 DEF CopyObject, BeginPut, FinishPut, FailPut, DeleteObject, PruneDirectory, Meanwhile
    <2>2. stable' \subseteq stable
      BY <1>7 DEF CopyObject, BeginPut, FinishPut, FailPut, DeleteObject, PruneDirectory, CreateFile,
         RemoveFile
    <2> QED
      BY <1>3, <2>1, <2>2
  <1>8. ASSUME UNCHANGED vars PROVE PagesInv'
    BY <1>3, <1>8 DEF vars, history
  <1> QED
    BY <1>4, <1>5, <1>6, <1>7, <1>8 DEF Next, List

\* A key that is there from the first request to the last page is on one of the pages,
\* itself or as its group, whatever else is written and deleted between the steps of
\* the walk and between the pages.  The one hypothesis is that no page is asked to be
\* empty: the page of max-keys 0 is truncated without a token, and ends the listing.
THEOREM NothingIsMissed ==
    ASSUME \A q \in Queries : q.maxKeys >= 1
    PROVE  Spec => []NothingMissed
  <1>1. Init => PagesInv
    BY DEF Init, PagesInv
  <1>2. ListingInv /\ PagesInv /\ [Next]_vars => PagesInv'
    BY PagesGoOn
  <1>3. PagesInv => NothingMissed
    BY DEF PagesInv, NothingMissed
  <1> QED
    BY <1>1, <1>2, <1>3, ListingIsRight, PTL DEF Spec

-----------------------------------------------------------------------------
(* The page that S3 defines.                                               *)

LEMMA SameItems ==
    ASSUME NEW S, NEW a \in Seq(S), NEW b \in Seq(S), Len(a) = Len(b), \A i \in 1..Len(a) : a[i] = b[i]
    PROVE  a = b
  OBVIOUS

\* As many elements lie before a place as there are places before it.
LEMMA FirstOnes ==
    ASSUME NEW s \in Seq(Key), Ascending(s), NEW n \in 1..Len(s)
    PROVE  Cardinality({s[j] : j \in 1..(n - 1)}) = n - 1
  <1> DEFINE N == 1..(n - 1)
             T == {s[j] : j \in N}
             f == [j \in N |-> s[j]]
  <1>1. Len(s) \in Nat /\ n \in Nat /\ \A j \in 1..Len(s) : s[j] \in Key
    OBVIOUS
  <1>2. IsFiniteSet(N) /\ Cardinality(N) = n - 1
    <2>1. 1 \in Int /\ n - 1 \in Int
      BY <1>1
    <2>2. IsFiniteSet(1..(n - 1)) /\ Cardinality(1..(n - 1)) = IF 1 > n - 1 THEN 0 ELSE (n - 1) - 1 + 1
      BY <2>1, FS_Interval
    <2> QED
      BY <2>2, <1>1
  <1>3. \A i, j \in N : s[i] = s[j] => i = j
    <2> SUFFICES ASSUME NEW i \in N, NEW j \in N, s[i] = s[j], i # j PROVE FALSE
      OBVIOUS
    <2>1. i \in 1..Len(s) /\ j \in 1..Len(s) /\ (i < j \/ j < i)
      BY <1>1
    <2>2. Less(s[i], s[j]) \/ Less(s[j], s[i])
      BY <2>1 DEF Ascending
    <2> QED
      BY <2>1, <2>2, <1>1, LessIrreflexive
  <1> HIDE DEF N
  <1>4. f \in Surjection(N, T)
    BY DEF Surjection
  <1>5. f \in Injection(N, T)
    BY <1>3 DEF Injection, IsInjective
  <1> HIDE DEF f, T
  <1>6. Cardinality(T) = Cardinality(N)
    BY <1>2, <1>4, <1>5, FS_Surjection
  <1> QED
    BY <1>2, <1>6 DEF T, N

\* The items that S3 defines, before they are cut to a page.
ToList == {i \in {ItemOf(k) : k \in {f \in files : IsPrefix(query.prefix, f)}} : Behind(token, i)}

LEMMA ToListTyped ==
    ASSUME ListingInv
    PROVE  /\ ToList \subseteq Key /\ IsFiniteSet(ToList)
           /\ \A i : i \in ToList <=>
                  Behind(token, i) /\ \E k \in files : IsPrefix(query.prefix, k) /\ ItemOf(k) = i
  <1> DEFINE F == {f \in files : IsPrefix(query.prefix, f)}
             T == {ItemOf(k) : k \in F}
             g == [k \in F |-> ItemOf(k)]
  <1>1. query \in Queries /\ files \subseteq Key /\ IsFiniteSet(files)
    BY ObjectTyped DEF ListingInv, TypeOK, TreeInv
  <1>2. IsFiniteSet(F)
    BY <1>1, FS_Subset
  <1>3. ToList \subseteq T /\ T \subseteq Key
    BY <1>1, ItemTyped DEF ToList
  <1>4. \A i : i \in ToList <=>
            Behind(token, i) /\ \E k \in files : IsPrefix(query.prefix, k) /\ ItemOf(k) = i
    BY DEF ToList
  <1> HIDE DEF F
  <1>5. g \in Surjection(F, T)
    BY DEF Surjection
  <1>6. IsFiniteSet(T)
    BY <1>2, <1>5, FS_Surjection
  <1> QED
    BY <1>3, <1>4, <1>6, FS_Subset

\* While nothing changes, the items are the first of those that S3 defines,
\* and all of them if the walk was not cut short.
LEMMA ItemsMatch ==
    ASSUME ListingInv, pc = "page", still,
           NEW r, r = Sorted(ToList, Less)
    PROVE  /\ r \in Seq(Key) /\ Len(r) \in Nat /\ Len(walk.items) <= Len(r)
           /\ \A n \in 1..Len(walk.items) : walk.items[n] = r[n]
           /\ Len(walk.items) < Limit => Len(r) = Len(walk.items)
  <1> DEFINE s == walk.items
  <1>1. ToList \subseteq Key /\ IsFiniteSet(ToList)
    BY ToListTyped
  <1>2. /\ r \in Seq(ToList) /\ Len(r) = Cardinality(ToList) /\ Len(r) \in Nat
        /\ Ranged(r) = ToList /\ Ascending(r)
        /\ \A n \in 1..Len(r) : Cardinality(Below(ToList, r[n])) = n - 1
    BY <1>1, SortedIs
  <1>3. r \in Seq(Key)
    BY <1>1, <1>2
  <1>4. /\ s \in Seq(Key) /\ Len(s) \in Nat /\ Len(s) <= Limit /\ Limit \in Nat /\ Ascending(s)
        /\ \A i \in Ranged(s) : i \in Key
    BY WalkTyped DEF ListingInv, WalkInv, WalkRight, EntriesRight, OrderRight
  <1>5. \A i \in Ranged(s) : i \in ToList
    BY ToListTyped DEF ListingInv, WalkInv, WalkRight, OrderRight, FoundRight
  <1>6. ASSUME NEW i \in ToList, i \notin Ranged(s)
        PROVE  Len(s) = Limit /\ \A j \in Ranged(s) : Less(j, i)
    <2>1. PICK k \in files : IsPrefix(query.prefix, k) /\ ItemOf(k) = i /\ Behind(token, i)
      BY <1>6, ToListTyped
    <2>2. k \in Sure /\ Wanted(k)
      BY <2>1 DEF Sure, Wanted
    <2> QED
      BY <2>1, <2>2, <1>6 DEF ListingInv, OwedInv, Complete
  <1> HIDE DEF s
  <1>7. ASSUME NEW n \in 1..Len(s) PROVE n \in 1..Len(r) /\ s[n] = r[n]
    <2> DEFINE T == {s[j] : j \in 1..(n - 1)}
    <2>1. s[n] \in ToList /\ s[n] \in Key /\ s[n] \in Ranged(s)
      BY <1>4, <1>5 DEF Ranged
    <2>2. ASSUME NEW j \in 1..(n - 1) PROVE s[j] \in Below(ToList, s[n])
      <3>1. j \in 1..Len(s) /\ j < n
        BY <1>4
      <3> QED
        BY <3>1, <1>4, <1>5 DEF Ascending, Below, Ranged
    <2>3. ASSUME NEW i \in Below(ToList, s[n]) PROVE \E j \in 1..(n - 1) : i = s[j]
      <3>1. i \in ToList /\ i \in Key /\ Less(i, s[n])
        BY <1>1 DEF Below
      <3>2. i \in Ranged(s)
        BY <3>1, <2>1, <1>6, LessOneWay
      <3>3. PICK j \in 1..Len(s) : i = s[j]
        BY <3>2 DEF Ranged
      <3>4. j # n
        BY <3>1, <3>3, LessIrreflexive
      <3>5. ~(n < j)
        <4> SUFFICES ASSUME n < j PROVE FALSE
          OBVIOUS
        <4>1. Less(s[n], s[j])
          BY <3>3, <1>4 DEF Ascending
        <4> QED
          BY <4>1, <3>1, <3>3, <2>1, LessOneWay
      <3> QED
        BY <3>3, <3>4, <3>5, <1>4
    <2>4. Below(ToList, s[n]) = T
      BY <2>2, <2>3
    <2>5. Cardinality(Below(ToList, s[n])) = n - 1
      BY <2>4, <1>4, FirstOnes
    <2>6. PICK m \in 1..Len(r) : s[n] = r[m]
      BY <2>1, <1>2 DEF Ranged
    <2>7. m = n
      BY <2>5, <2>6, <1>2, <1>4
    <2> QED
      BY <2>6, <2>7
  <1>8. Len(s) <= Len(r)
    <2>1. CASE Len(s) = 0
      BY <2>1, <1>2
    <2>2. CASE Len(s) # 0
      <3>1. Len(s) \in 1..Len(s)
        BY <2>2, <1>4
      <3> QED
        BY <3>1, <1>7
    <2> QED
      BY <2>1, <2>2
  <1>9. ASSUME Len(s) < Limit, Len(s) < Len(r) PROVE FALSE
    <2> DEFINE q == Len(s) + 1
    <2>1. q \in 1..Len(r) /\ r[q] \in ToList /\ r[q] \in Key
      BY <1>1, <1>2, <1>4, <1>9
    <2>2. r[q] \in Ranged(s)
      <3>1. ASSUME NEW i \in ToList, i \notin Ranged(s) PROVE FALSE
        <4>1. Len(s) = Limit
          BY <3>1, <1>6
        <4>2. Len(s) < Limit
          BY <1>9
        <4> QED
          BY <4>1, <4>2, <1>4
      <3> QED
        BY <3>1, <2>1
    <2>3. PICK j \in 1..Len(s) : r[q] = s[j]
      BY <2>2 DEF Ranged
    <2>4. j \in 1..Len(r) /\ r[q] = r[j] /\ j < q
      BY <2>3, <1>4, <1>7
    <2>5. Less(r[j], r[q])
      BY <2>1, <2>4, <1>2 DEF Ascending
    <2> QED
      BY <2>1, <2>4, <2>5, LessIrreflexive
  <1> QED
    BY <1>2, <1>3, <1>4, <1>7, <1>8, <1>9 DEF s

\* When nothing changes while a page is made, the page is the one S3 defines: all the
\* skipping, collapsing and early leaving of collect_entries drops nothing and the
\* first max-keys items are there in their order; and list_objects says it is truncated
\* exactly when there is more.
THEOREM PagesMatch == Spec => []PageMatches
  <1>1. ASSUME ListingInv, pc = "page", still
        PROVE  /\ Page = UpTo(query.maxKeys, ReferenceItems(files))
               /\ Truncated <=> Len(ReferenceItems(files)) > query.maxKeys
    <2>1. PICK r : r = ReferenceItems(files)
      OBVIOUS
    <2>2. r = Sorted(ToList, Less)
      BY <2>1 DEF ReferenceItems, ToList
    <2>3. /\ r \in Seq(Key) /\ Len(r) \in Nat /\ Len(walk.items) <= Len(r)
          /\ \A n \in 1..Len(walk.items) : walk.items[n] = r[n]
          /\ Len(walk.items) < Limit => Len(r) = Len(walk.items)
      BY <2>2, <1>1, ItemsMatch
    <2>4. /\ query.maxKeys \in Nat /\ Limit = query.maxKeys + 1 /\ Len(walk.items) \in Nat
          /\ Len(walk.items) <= Limit
      BY <1>1, WalkTyped, QueryTyped DEF ListingInv, WalkInv, WalkRight, EntriesRight
    <2>5. /\ Page \in Seq(Key)
          /\ Len(Page) = IF Truncated THEN query.maxKeys ELSE Len(walk.items)
          /\ \A i \in 1..Len(Page) : i \in 1..Len(walk.items) /\ Page[i] = walk.items[i]
      BY <1>1, PageIs DEF ListingInv
    <2>6. Truncated <=> Len(r) > query.maxKeys
      BY <2>3, <2>4 DEF Truncated
    <2> DEFINE n == IF query.maxKeys < Len(r) THEN query.maxKeys ELSE Len(r)
               t == SubSeq(r, 1, n)
    <2>7. Len(Page) = n /\ n \in Nat /\ n <= Len(r)
      BY <2>3, <2>4, <2>5, <2>6 DEF Truncated
    <2> HIDE DEF n
    <2>8. t \in Seq(Key) /\ Len(t) = n /\ \A i \in 1..n : t[i] = r[i]
      BY <2>3, <2>7
    <2>9. UpTo(query.maxKeys, r) = t
      BY DEF UpTo, n
    <2> HIDE DEF t
    <2>10. Page = t
      BY <2>3, <2>5, <2>7, <2>8, SameItems
    <2> QED
      BY <2>1, <2>6, <2>9, <2>10
  <1>2. ListingInv => PageMatches
    BY <1>1 DEF PageMatches
  <1> QED
    BY <1>2, ListingIsRight, PTL
=============================================================================
