---------------------------- MODULE GatewayProofs ----------------------------
(***************************************************************************)
(* Whatever requests clients make, with keys and sources of any length and *)
(* files and numbers of any size:                                          *)
(*                                                                         *)
(*   - ranges are answered as RFC 9110 has them (RangeAsAsked), from what  *)
(*     parse_range returns and the sizes of the objects;                   *)
(*   - objects are inside the storage of a bucket (InsideBuckets) and the  *)
(*     handlers and the cache together are S3's map (AnswersMap), from     *)
(*     what decoding and joining do to a text, character by character, and *)
(*     the invariant that under the key last written at a path S3 holds    *)
(*     what is there, and the cache's entry of that key says so (MapInv).  *)
(***************************************************************************)
EXTENDS Gateway, SequenceInduction

-----------------------------------------------------------------------------
(* parse_range.                                                            *)

LEMMA SmallRemainder ==
    ASSUME NEW n \in Nat, NEW x \in 0 .. n
    PROVE  x % (n + 1) = x
  OBVIOUS

\* A satisfiable range is inside the file and selects just what was asked for.
LEMMA SatisfiableIsAsked ==
    ASSUME NEW h \in Headers, NEW size \in Sizes, ParseRange(h, size).kind = "satisfiable"
    PROVE  LET r == ParseRange(h, size)
           IN  /\ r.start \in Nat /\ r.end \in Nat /\ r.start <= r.end /\ r.end < size
               /\ WellFormed(h)
               /\ Asked(h, size) = r.start .. r.end
  <1> USE RangeAssumption
  <1>1. CASE h.first = Blank
    <2>1. /\ h.unit = "bytes" /\ h.pieces = 2 /\ h.last # Blank
          /\ ParseRange(h, size) = SuffixRange(h, size)
      BY <1>1 DEF ParseRange, Invalid
    <2>2. /\ h.last \in 0 .. MaxU64 /\ h.last # 0 /\ size # 0
          /\ ParseRange(h, size) = Satisfiable(Less(size, h.last), size - 1)
      BY <2>1 DEF SuffixRange, Invalid, Unsatisfiable, Parses
    <2>3. Asked(h, size) = Less(size, h.last) .. size - 1
      BY <1>1, <2>2 DEF Asked, Less, Sizes
    <2>4. WellFormed(h)
      BY <1>1, <2>1, <2>2 DEF WellFormed
    <2> QED
      BY <2>2, <2>3, <2>4 DEF Satisfiable, Less, Sizes
  <1>2. CASE h.first # Blank
    <2> DEFINE end == IF h.last = Blank THEN Less(size, 1) ELSE Smaller(h.last, Less(size, 1))
    <2>1. h.unit = "bytes" /\ h.pieces = 2 /\ ParseRange(h, size) = FromRange(h, size)
      BY <1>2 DEF ParseRange, Invalid
    <2>2. /\ h.first \in 0 .. MaxU64 /\ h.first < size
          /\ h.last = Blank \/ h.last \in 0 .. MaxU64
          /\ h.first <= end
          /\ ParseRange(h, size) = Satisfiable(h.first, end)
      BY <2>1 DEF FromRange, Invalid, Unsatisfiable, Parses, Sizes
    <2>3. end \in Nat /\ end < size /\ (h.last = Blank => end = size - 1)
          /\ (h.last # Blank => end <= h.last /\ (end = h.last \/ end = size - 1))
      BY <2>2 DEF Less, Smaller, Sizes
    <2>4. Asked(h, size) = h.first .. end
      BY <1>2, <2>2, <2>3 DEF Asked, Sizes
    <2>5. WellFormed(h)
      BY <1>2, <2>1, <2>2, <2>3 DEF WellFormed
    <2> HIDE DEF end
    <2> QED
      BY <2>2, <2>3, <2>4, <2>5 DEF Satisfiable
  <1> QED
    BY <1>1, <1>2

\* A range that is answered 416 asks for nothing there is.
LEMMA UnsatisfiableAsksNothing ==
    ASSUME NEW h \in Headers, NEW size \in Sizes, ParseRange(h, size).kind = "unsatisfiable"
    PROVE  ~ WellFormed(h) \/ Asked(h, size) = {}
  <1> USE RangeAssumption
  <1>1. CASE h.first = Blank
    <2>1. size = 0
      BY <1>1 DEF ParseRange, SuffixRange, Invalid, Satisfiable
    <2> QED
      BY <2>1 DEF Asked
  <1>2. CASE h.first # Blank
    <2>1. h.first \in 0 .. MaxU64 /\ h.first >= size
      BY <1>2 DEF ParseRange, FromRange, Invalid, Satisfiable, Parses
    <2> QED
      BY <1>2, <2>1 DEF Asked, Sizes
  <1> QED
    BY <1>1, <1>2

\* A range that is passed over is malformed, empty or too wide for u64.
LEMMA InvalidAsksNothing ==
    ASSUME NEW h \in Headers, NEW size \in Sizes, ParseRange(h, size).kind = "invalid"
    PROVE  ~ WellFormed(h) \/ Asked(h, size) = {} \/ ~ Fits(h)
  <1> USE RangeAssumption
  <1> SUFFICES ASSUME WellFormed(h), Fits(h)
               PROVE  Asked(h, size) = {}
    OBVIOUS
  <1>1. CASE h.first = Blank
    <2>1. h.last \in 0 .. MaxU64 /\ ParseRange(h, size) = SuffixRange(h, size)
      BY <1>1 DEF ParseRange, WellFormed, Fits
    <2>2. h.last = 0
      BY <2>1 DEF SuffixRange, Parses, Satisfiable, Unsatisfiable
    <2> QED
      BY <1>1, <2>2 DEF Asked, Sizes
  <1>2. CASE h.first # Blank
    <2>1. /\ h.first \in 0 .. MaxU64 /\ h.last \in 0 .. MaxU64 \cup {Blank}
          /\ ParseRange(h, size) = FromRange(h, size)
          /\ h.last # Blank => h.first <= h.last
      BY <1>2 DEF ParseRange, WellFormed, Fits
    <2>2. h.first < size
      BY <2>1 DEF FromRange, Parses, Unsatisfiable, Sizes
    <2> QED
      BY <2>1, <2>2 DEF FromRange, Parses, Satisfiable, Less, Smaller, Sizes
  <1> QED
    BY <1>1, <1>2

LEMMA ParseRangeKinds ==
    ASSUME NEW h \in Headers, NEW size \in Sizes
    PROVE  ParseRange(h, size).kind \in {"satisfiable", "unsatisfiable", "invalid"}
  BY DEF ParseRange, SuffixRange, FromRange, Satisfiable, Unsatisfiable, Invalid

-----------------------------------------------------------------------------
(* The answers of GET.                                                     *)

\* What a file that can be read through a range has: a size that u64 holds.
SizesKnown == \A p \in DOMAIN object : object[p].size \in Sizes

RangeInv == SizesKnown /\ RangeAsAsked

LEMMA PartialIsAsked ==
    ASSUME NEW a, NEW body, NEW c, c.range \in Headers, body.size \in Sizes,
           a = Answer("GET", c, "200", body),
           NEW r, r = ParseRange(c.range, body.size), r.kind = "satisfiable"
    PROVE  /\ Partial(a, r).status = "206"
           /\ WellFormed(c.range) /\ Asked(c.range, body.size) # {}
           /\ Asked(c.range, body.size)
                = Partial(a, r).from .. Partial(a, r).from + Partial(a, r).length - 1
  <1>1. /\ r.start \in Nat /\ r.end \in Nat /\ r.start <= r.end /\ r.end < body.size
        /\ WellFormed(c.range)
        /\ Asked(c.range, body.size) = r.start .. r.end
    BY SatisfiableIsAsked
  <1>2. r.end - r.start + 1 \in 0 .. MaxU64
    BY <1>1, RangeAssumption DEF Sizes
  <1>3. (r.end - r.start + 1) % (MaxU64 + 1) = r.end - r.start + 1
    BY <1>2, SmallRemainder, RangeAssumption
  <1>4. Partial(a, r).status = "206" /\ Partial(a, r).from = r.start
        /\ Partial(a, r).length = r.end - r.start + 1
    BY <1>3 DEF Partial, Answer
  <1> QED
    BY <1>1, <1>4

LEMMA GetKeepsRange ==
    ASSUME RangeInv, NEW c \in GetCalls, GetObject(c)
    PROVE  RangeInv'
  <1> DEFINE p == PathOf(c)
             a == Answer("GET", c, "200", object[p])
             size == object[p].size
             r == ParseRange(c.range, size)
  <1>1. SizesKnown'
    BY DEF RangeInv, SizesKnown, GetObject, stored
  <1>2. \/ answer'.body \in {Nothing, Acl}
        \/ /\ Exists(p)
           /\ answer' = IF c.range = NoRange THEN Whole(a, size) ELSE Ranged(a, r, size)
    <2>1. CASE Refusal(c) # "none"
      BY <2>1 DEF GetObject, Say, Answer
    <2>2. CASE Refusal(c) = "none" /\ Exists(p) /\ HasAclQuery(c)
      BY <2>2 DEF GetObject, Say, Answer
    <2>3. CASE Refusal(c) = "none" /\ Exists(p) /\ ~ HasAclQuery(c)
      BY <2>3 DEF GetObject, Say
    <2>4. CASE Refusal(c) = "none" /\ ~ Exists(p)
      <3> DEFINE d == Answer("GET", c, "200", Nothing)
      <3>1. /\ d.body = Nothing
            /\ Whole(d, DirectorySize).body = Nothing
            /\ \A q : Ranged(d, q, DirectorySize).body = Nothing
                     \/ q.kind \notin {"satisfiable", "unsatisfiable", "invalid"}
        BY DEF Answer, Whole, Ranged, Partial
      <3>2. c.range # NoRange =>
              ParseRange(c.range, DirectorySize).kind
                \in {"satisfiable", "unsatisfiable", "invalid"}
        BY CallAssumption, ParseRangeKinds
      <3>3. answer' \in {Answer("GET", c, "NoSuchKey", Nothing), Answer("GET", c, "200", Acl),
                         IF c.range = NoRange THEN Whole(d, DirectorySize)
                         ELSE Ranged(d, ParseRange(c.range, DirectorySize), DirectorySize)}
        BY <2>4 DEF GetObject, Say
      <3>4. /\ Answer("GET", c, "NoSuchKey", Nothing).body = Nothing
            /\ Answer("GET", c, "200", Acl).body = Acl
        BY DEF Answer
      <3> QED
        BY <3>1, <3>2, <3>3, <3>4
    <2> QED
      BY <2>1, <2>2, <2>3, <2>4
  <1>3. CASE answer'.body \in {Nothing, Acl}
    BY <1>1, <1>3 DEF RangeInv, RangeAsAsked
  <1>4. CASE /\ Exists(p)
             /\ answer' = IF c.range = NoRange THEN Whole(a, size) ELSE Ranged(a, r, size)
    <2>1. size \in Sizes
      BY <1>4 DEF RangeInv, SizesKnown, Exists
    <2>2. CASE c.range = NoRange
      BY <1>1, <1>4, <2>2 DEF RangeInv, RangeAsAsked, Whole, Answer
    <2>3. CASE c.range # NoRange
      <3>1. c.range \in Headers
        BY <2>3, CallAssumption
      <3>2. answer' = Ranged(a, r, size)
        BY <1>4, <2>3
      <3>3. CASE r.kind = "satisfiable"
        <4>1. answer' = Partial(a, r)
          BY <3>2, <3>3 DEF Ranged
        <4>2. answer'.call = c /\ answer'.body = object[p]
          BY <4>1 DEF Partial, Answer
        <4>3. /\ answer'.status = "206" /\ WellFormed(c.range) /\ Asked(c.range, size) # {}
              /\ Asked(c.range, size) = answer'.from .. answer'.from + answer'.length - 1
          BY <2>1, <3>1, <3>3, <4>1, PartialIsAsked
        <4> QED
          BY <1>1, <2>3, <4>2, <4>3 DEF RangeInv, RangeAsAsked
      <3>4. CASE r.kind = "unsatisfiable"
        <4>1. ~ WellFormed(c.range) \/ Asked(c.range, size) = {}
          BY <2>1, <3>1, <3>4, UnsatisfiableAsksNothing
        <4>2. answer'.call = c /\ answer'.body = object[p] /\ answer'.status = "416"
          BY <3>2, <3>4 DEF Ranged, Answer
        <4> QED
          BY <1>1, <2>3, <4>1, <4>2 DEF RangeInv, RangeAsAsked
      <3>5. CASE r.kind = "invalid"
        <4>1. ~ WellFormed(c.range) \/ Asked(c.range, size) = {} \/ ~ Fits(c.range)
          BY <2>1, <3>1, <3>5, InvalidAsksNothing
        <4>2. /\ answer'.call = c /\ answer'.body = object[p]
              /\ answer'.status = "200" /\ answer'.length = size
          BY <3>2, <3>5 DEF Ranged, Whole, Answer
        <4> QED
          BY <1>1, <2>3, <4>1, <4>2 DEF RangeInv, RangeAsAsked
      <3> QED
        BY <2>1, <3>1, <3>3, <3>4, <3>5, ParseRangeKinds
    <2> QED
      BY <2>2, <2>3
  <1> QED
    BY <1>2, <1>3, <1>4

\* The answers to everything but GET are no matter.
LEMMA OtherAnswer ==
    ASSUME NEW op \in {"HEAD", "PUT", "COPY", "DELETE", "HEADBUCKET"}, NEW c, NEW status, NEW body,
           Say(Answer(op, c, status, body))
    PROVE  RangeAsAsked'
  BY DEF Say, Answer, RangeAsAsked

LEMMA StoreKeepsRange ==
    ASSUME RangeInv, NEW op \in {"PUT", "COPY"}, NEW c, NEW body, body.size \in Sizes,
           Store(op, c, body)
    PROVE  RangeInv'
  <1>1. RangeAsAsked'
    BY OtherAnswer DEF Store
  <1>2. SizesKnown'
    BY DEF Store, stored, With, SizesKnown, RangeInv
  <1> QED
    BY <1>1, <1>2 DEF RangeInv

LEMMA InitRange == Init => RangeInv
  BY DEF Init, RangeInv, SizesKnown, RangeAsAsked

LEMMA NextRange == RangeInv /\ [Next]_vars => RangeInv'
  <1> SUFFICES ASSUME RangeInv, [Next]_vars PROVE RangeInv'
    OBVIOUS
  <1>1. ASSUME NEW c \in GetCalls, GetObject(c) PROVE RangeInv'
    BY <1>1, GetKeepsRange
  <1>2. ASSUME NEW c \in HeadCalls, HeadObject(c) PROVE RangeInv'
    <2>1. RangeAsAsked'
      BY <1>2, OtherAnswer DEF HeadObject
    <2> QED
      BY <1>2, <2>1 DEF HeadObject, stored, RangeInv, SizesKnown
  <1>3. ASSUME NEW c \in PutCalls, Put(c) PROVE RangeInv'
    <2>1. CASE PutAcl(c) \/ Refusal(c) # "none"
      <3>1. RangeAsAsked'
        BY <1>3, <2>1, OtherAnswer DEF Put
      <3> QED
        BY <1>3, <2>1, <3>1 DEF Put, stored, RangeInv, SizesKnown
    <2>2. CASE ~ (PutAcl(c) \/ Refusal(c) # "none")
      <3> DEFINE body == [name |-> MeantBy(c), size |-> c.size]
      <3>1. Store("PUT", c, body)
        BY <1>3, <2>2 DEF Put
      <3>2. body.size \in Sizes
        BY CallAssumption
      <3> QED
        BY <3>1, <3>2, StoreKeepsRange
    <2> QED
      BY <2>1, <2>2
  <1>4. ASSUME NEW c \in CopyCalls, Copy(c) PROVE RangeInv'
    <2> DEFINE source == CopySource(c.source)
               p == At(source.bucket, source.key)
    <2>1. CASE PutAcl(c) \/ Refusal(c) # "none" \/ CopyRefusal(c) # "none"
      <3>1. RangeAsAsked'
        BY <1>4, <2>1, OtherAnswer DEF Copy
      <3> QED
        BY <1>4, <2>1, <3>1 DEF Copy, stored, RangeInv, SizesKnown
    <2>2. CASE ~ (PutAcl(c) \/ Refusal(c) # "none" \/ CopyRefusal(c) # "none")
      <3>1. Store("COPY", c, object[p])
        BY <1>4, <2>2 DEF Copy
      <3>2. Exists(p)
        BY <2>2 DEF CopyRefusal
      <3>3. object[p].size \in Sizes
        BY <3>2 DEF Exists, RangeInv, SizesKnown
      <3> QED
        BY <3>1, <3>3, StoreKeepsRange
    <2> QED
      BY <2>1, <2>2
  <1>5. ASSUME NEW c \in DeleteCalls, Delete(c) PROVE RangeInv'
    <2>1. RangeAsAsked'
      BY <1>5, OtherAnswer DEF Delete
    <2>2. SizesKnown'
      BY <1>5 DEF Delete, stored, Without, SizesKnown, RangeInv
    <2> QED
      BY <2>1, <2>2 DEF RangeInv
  <1>6. ASSUME NEW c \in BucketCalls, HeadBucket(c) PROVE RangeInv'
    <2>1. RangeAsAsked'
      BY <1>6, OtherAnswer DEF HeadBucket
    <2> QED
      BY <1>6, <2>1 DEF HeadBucket, stored, RangeInv, SizesKnown
  <1>7. ASSUME NEW e \in DOMAIN cache, Forget(e) PROVE RangeInv'
    BY <1>7 DEF Forget, stored, RangeInv, SizesKnown, RangeAsAsked
  <1>8. CASE Finish
    BY <1>8 DEF Finish, stored, RangeInv, SizesKnown, RangeAsAsked
  <1>9. CASE UNCHANGED vars
    BY <1>9 DEF vars, RangeInv, SizesKnown, RangeAsAsked
  <1> QED
    BY <1>1, <1>2, <1>3, <1>4, <1>5, <1>6, <1>7, <1>8, <1>9 DEF Next

\* get_object with parse_range: whatever was written, a 206 has just the bytes
\* asked for, a 416 means there are none, and 200 the whole object.
THEOREM RangesAsAsked == Spec => []RangeAsAsked
  <1>1. RangeInv => RangeAsAsked
    BY DEF RangeInv
  <1> QED
    BY InitRange, NextRange, <1>1, PTL DEF Spec

-----------------------------------------------------------------------------
(* Decoding.                                                               *)

\* The characters texts have, those named in the code among them.
Char == STRING \cup {"%", "/", ".", "a", "broken"}

LEMMA CharFacts ==
    /\ "%" \in Char /\ "/" \in Char /\ "." \in Char
    /\ \A c \in DOMAIN Byte : Byte[c] \in Char
  BY DEF Char, Byte

Reads == [out : Seq(Char), escape : BOOLEAN]

LEMMA UnescapeTyped ==
    ASSUME NEW acc \in Reads, NEW c \in Char
    PROVE  Unescape(acc, c) \in Reads
  <1>1. acc.out \in Seq(Char) /\ acc.escape \in BOOLEAN
    BY DEF Reads
  <1>3. CASE acc.escape /\ c \in DOMAIN Byte
    <2>0. Byte[c] \in Char
      BY <1>3, CharFacts
    <2> DEFINE s == Append(acc.out, Byte[c])
    <2>1. s \in Seq(Char)
      BY <1>1, <2>0, AppendTyped
    <2>2. c # "%"
      BY <1>3 DEF Byte
    <2>3. Unescape(acc, c) = [out |-> s, escape |-> FALSE]
      BY <1>3, <2>2 DEF Unescape
    <2> HIDE DEF s
    <2> QED
      BY <2>1, <2>3 DEF Reads
  <1>4. CASE ~ (acc.escape /\ c \in DOMAIN Byte) /\ c = "%"
    <2> DEFINE s == IF acc.escape THEN Append(acc.out, "%") ELSE acc.out
    <2>1. s \in Seq(Char)
      BY <1>1, CharFacts, AppendTyped, Zenon
    <2>2. Unescape(acc, c) = [out |-> s, escape |-> TRUE]
      BY <1>4 DEF Unescape
    <2> HIDE DEF s
    <2> QED
      BY <2>1, <2>2 DEF Reads
  <1>5. CASE ~ (acc.escape /\ c \in DOMAIN Byte) /\ c # "%"
    <2> DEFINE s == acc.out \o (IF acc.escape THEN <<"%", c>> ELSE <<c>>)
    <2>1. s \in Seq(Char)
      <3>1. acc.out \o <<"%", c>> \in Seq(Char) /\ acc.out \o <<c>> \in Seq(Char)
        BY <1>1, CharFacts, TwoTyped, Zenon
      <3> QED
        BY <3>1, Zenon
    <2>2. Unescape(acc, c) = [out |-> s, escape |-> FALSE]
      BY <1>5 DEF Unescape
    <2> HIDE DEF s
    <2> QED
      BY <2>1, <2>2 DEF Reads
  <1> QED
    BY <1>3, <1>4, <1>5

Start == [out |-> <<>>, escape |-> FALSE]

ReadBy(f, text) ==
    f = [i \in 0..Len(text) |-> IF i = 0 THEN Start ELSE Unescape(f[i - 1], text[i])]

\* The function that a decoded text is read off: one step for each character.
LEMMA UnescapedIs ==
    ASSUME NEW text \in Seq(Char)
    PROVE  \E f \in [0..Len(text) -> Reads] :
               /\ ReadBy(f, text)
               /\ Unescaped(text) = IF f[Len(text)].escape THEN Append(f[Len(text)].out, "%")
                                    ELSE f[Len(text)].out
  <1> DEFINE n == Len(text)
             step == [z \in (1..n) \X Reads |-> Unescape(z[2], text[z[1]])]
  <1>1. n \in Nat /\ \A i \in 1..n : text[i] \in Char
    OBVIOUS
  <1>2. Start \in Reads
    BY DEF Reads, Start
  <1>3. \A i \in 1..n : \A x \in Reads : step[<<i, x>>] = Unescape(x, text[i])
    OBVIOUS
  <1>4. \A i \in 1..n : \A x \in Reads : step[<<i, x>>] \in Reads
    BY <1>1, <1>3, UnescapeTyped
  <1> HIDE DEF step
  <1>5. PICK f \in [0..n -> Reads] :
            f[0] = Start /\ \A i \in 1..n : f[i] = step[<<i, f[i - 1]>>]
    <2> HIDE DEF n
    <2>1. n \in Nat
      BY <1>1
    <2>2. Within(step, n, Reads)
      BY <1>4 DEF Within
    <2>3. \E f \in [0..n -> Reads] : Runs(f, n, Start, step)
      BY <2>1, <1>2, <2>2, Recursion
    <2> QED
      BY <2>3 DEF Runs
  <1>6. ReadBy(f, text)
    <2> HIDE DEF n
    <2>1. ASSUME NEW i \in 0..n
          PROVE  f[i] = IF i = 0 THEN Start ELSE Unescape(f[i - 1], text[i])
      <3>1. i # 0 => i \in 1..n /\ f[i - 1] \in Reads
        BY <1>1
      <3> QED
        BY <1>3, <1>5, <3>1
    <2>2. f = [i \in 0..n |-> f[i]]
      OBVIOUS
    <2> QED
      BY <2>1, <2>2 DEF ReadBy, n
  <1> DEFINE r == CHOOSE g : ReadBy(g, text)
  <1>7. ReadBy(r, text)
    BY <1>6
  <1>8. Unescaped(text) = IF r[n].escape THEN Append(r[n].out, "%") ELSE r[n].out
    BY DEF Unescaped, ReadBy, Start
  <1> HIDE DEF r
  <1>9. r \in [0..n -> Reads]
    <2>1. \A i \in 0..n : r[i] = IF i = 0 THEN Start ELSE Unescape(r[i - 1], text[i])
      BY <1>7 DEF ReadBy
    <2>2. r[0] \in Reads
      BY <1>1, <1>2, <2>1
    <2>3. \A i \in (0 + 1)..n : r[i - 1] \in Reads => r[i] \in Reads
      <3>1. SUFFICES ASSUME NEW i \in 1..n, r[i - 1] \in Reads PROVE r[i] \in Reads
        OBVIOUS
      <3>2. r[i] = Unescape(r[i - 1], text[i])
        BY <1>1, <2>1
      <3> QED
        BY <1>1, <3>1, <3>2, UnescapeTyped
    <2>4. \A i \in 0..n : r[i] \in Reads
      <3> HIDE DEF n
      <3>1. 0 \in 0..n
        BY <1>1
      <3> QED
        BY <1>1, <2>2, <2>3, <3>1, Carried
    <2>5. r = [i \in 0..n |-> r[i]]
      BY <1>7 DEF ReadBy
    <2> QED
      BY <2>4, <2>5
  <1> QED
    BY <1>7, <1>8, <1>9

LEMMA UnescapedTyped == ASSUME NEW text \in Seq(Char) PROVE Unescaped(text) \in Seq(Char)
  <1>1. PICK f \in [0..Len(text) -> Reads] :
            Unescaped(text) = IF f[Len(text)].escape THEN Append(f[Len(text)].out, "%")
                              ELSE f[Len(text)].out
    BY UnescapedIs
  <1>2. f[Len(text)] \in Reads
    OBVIOUS
  <1>3. f[Len(text)].out \in Seq(Char)
    BY <1>2 DEF Reads
  <1>4. Append(f[Len(text)].out, "%") \in Seq(Char)
    BY <1>3, CharFacts, AppendTyped
  <1> QED
    BY <1>1, <1>3, <1>4

\* Text without a percent sign says what it is.
LEMMA PlainUnescaped ==
    ASSUME NEW text \in Seq(Char), Plain(text)
    PROVE  Unescaped(text) = text
  <1>1. PICK f \in [0..Len(text) -> Reads] :
            /\ ReadBy(f, text)
            /\ Unescaped(text) = IF f[Len(text)].escape THEN Append(f[Len(text)].out, "%")
                                 ELSE f[Len(text)].out
    BY UnescapedIs
  <1> DEFINE n == Len(text)
             G == {i \in Nat : i <= n => f[i] = [out |-> SubSeq(text, 1, i), escape |-> FALSE]}
  <1>2. n \in Nat /\ \A i \in 1..n : text[i] \in Char /\ text[i] # "%"
    BY DEF Plain
  <1>3. f[0] = Start /\ \A i \in 1..n : f[i] = Unescape(f[i - 1], text[i])
    BY <1>1, <1>2 DEF ReadBy
  <1>4. 0 \in G
    <2>1. SubSeq(text, 1, 0) = <<>>
      OBVIOUS
    <2> QED
      BY <1>2, <1>3, <2>1 DEF Start
  <1>5. ASSUME NEW i \in Nat, i \in G
        PROVE  i + 1 \in G
    <2>1. SUFFICES ASSUME i + 1 <= n
                   PROVE  f[i + 1] = [out |-> SubSeq(text, 1, i + 1), escape |-> FALSE]
      OBVIOUS
    <2>2. f[i] = [out |-> SubSeq(text, 1, i), escape |-> FALSE]
      BY <1>2, <1>5, <2>1
    <2>3. f[i + 1] = Unescape(f[i], text[i + 1]) /\ text[i + 1] # "%"
      <3>1. i + 1 \in 1..n /\ (i + 1) - 1 = i
        BY <1>2, <2>1
      <3> QED
        BY <1>2, <1>3, <3>1
    <2>4. Unescape(f[i], text[i + 1]) = [out |-> f[i].out \o <<text[i + 1]>>, escape |-> FALSE]
      BY <2>2, <2>3 DEF Unescape
    <2>5. SubSeq(text, 1, i) \o <<text[i + 1]>> = SubSeq(text, 1, i + 1)
      BY <1>2, <2>1
    <2>6. f[i].out = SubSeq(text, 1, i)
      BY <2>2
    <2> QED
      BY <2>3, <2>4, <2>5, <2>6
  <1>6. n \in G
    <2> HIDE DEF G, n
    <2> QED
      BY <1>2, <1>4, <1>5, SetInduction
  <1>7. f[n] = [out |-> SubSeq(text, 1, n), escape |-> FALSE]
    BY <1>2, <1>6
  <1>8. SubSeq(text, 1, n) = text
    OBVIOUS
  <1> QED
    BY <1>1, <1>7, <1>8

-----------------------------------------------------------------------------
(* The names of a path.                                                    *)

Name == Seq(Char) \ {<<>>, <<".">>}

Paths == [names : Seq(Name), name : Seq(Char)]

LEMMA NamedTyped == ASSUME NEW z \in Paths PROVE Named(z) \in Seq(Name)
  <1>1. z.names \in Seq(Name) /\ z.name \in Seq(Char)
    BY DEF Paths
  <1>2. z.name \notin {<<>>, <<".">>} => z.name \in Name
    BY <1>1 DEF Name
  <1>3. z.name \notin {<<>>, <<".">>} => Append(z.names, z.name) \in Seq(Name)
    BY <1>1, <1>2, AppendTyped
  <1> QED
    BY <1>1, <1>3 DEF Named

LEMMA StepTyped == ASSUME NEW z \in Paths, NEW c \in Char PROVE Step(z, c) \in Paths
  <1>1. z.names \in Seq(Name) /\ z.name \in Seq(Char) /\ <<>> \in Seq(Char)
    BY DEF Paths
  <1>2. Named(z) \in Seq(Name)
    BY NamedTyped
  <1>3. Append(z.name, c) \in Seq(Char)
    BY <1>1, AppendTyped
  <1>4. CASE c = "/"
    BY <1>1, <1>2, <1>4 DEF Step, Paths
  <1>5. CASE c # "/"
    <2> DEFINE s == Append(z.name, c)
    <2>1. Step(z, c) = [names |-> z.names, name |-> s]
      BY <1>5 DEF Step
    <2>2. s \in Seq(Char)
      BY <1>3
    <2> HIDE DEF s
    <2> QED
      BY <1>1, <2>1, <2>2 DEF Paths
  <1> QED
    BY <1>4, <1>5

Root == [names |-> <<>>, name |-> <<>>]

PathBy(f, text) ==
    f = [i \in 0..Len(text) |-> IF i = 0 THEN Root ELSE Step(f[i - 1], text[i])]

\* The same for the names of a path.
LEMMA ComponentsIs ==
    ASSUME NEW text \in Seq(Char)
    PROVE  \E f \in [0..Len(text) -> Paths] :
               PathBy(f, text) /\ Components(text) = Named(f[Len(text)])
  <1> DEFINE n == Len(text)
             step == [z \in (1..n) \X Paths |-> Step(z[2], text[z[1]])]
  <1>1. n \in Nat /\ \A i \in 1..n : text[i] \in Char
    OBVIOUS
  <1>2. Root \in Paths
    BY DEF Paths, Root
  <1>3. \A i \in 1..n : \A x \in Paths : step[<<i, x>>] = Step(x, text[i])
    OBVIOUS
  <1>4. \A i \in 1..n : \A x \in Paths : step[<<i, x>>] \in Paths
    BY <1>1, <1>3, StepTyped
  <1> HIDE DEF step
  <1>5. PICK f \in [0..n -> Paths] :
            f[0] = Root /\ \A i \in 1..n : f[i] = step[<<i, f[i - 1]>>]
    <2> HIDE DEF n
    <2>1. n \in Nat
      BY <1>1
    <2>2. Within(step, n, Paths)
      BY <1>4 DEF Within
    <2>3. \E f \in [0..n -> Paths] : Runs(f, n, Root, step)
      BY <2>1, <1>2, <2>2, Recursion
    <2> QED
      BY <2>3 DEF Runs
  <1>6. PathBy(f, text)
    <2> HIDE DEF n
    <2>1. ASSUME NEW i \in 0..n
          PROVE  f[i] = IF i = 0 THEN Root ELSE Step(f[i - 1], text[i])
      <3>1. i # 0 => i \in 1..n /\ f[i - 1] \in Paths
        BY <1>1
      <3> QED
        BY <1>3, <1>5, <3>1
    <2>2. f = [i \in 0..n |-> f[i]]
      OBVIOUS
    <2> QED
      BY <2>1, <2>2 DEF PathBy, n
  <1> DEFINE r == CHOOSE g : PathBy(g, text)
  <1>7. PathBy(r, text)
    BY <1>6
  <1>8. Components(text) = Named(r[n])
    BY DEF Components, PathBy, Root
  <1> HIDE DEF r
  <1>9. r \in [0..n -> Paths]
    <2>1. \A i \in 0..n : r[i] = IF i = 0 THEN Root ELSE Step(r[i - 1], text[i])
      BY <1>7 DEF PathBy
    <2>2. r[0] \in Paths
      BY <1>1, <1>2, <2>1
    <2>3. \A i \in (0 + 1)..n : r[i - 1] \in Paths => r[i] \in Paths
      <3>1. SUFFICES ASSUME NEW i \in 1..n, r[i - 1] \in Paths PROVE r[i] \in Paths
        OBVIOUS
      <3>2. r[i] = Step(r[i - 1], text[i])
        BY <1>1, <2>1
      <3> QED
        BY <1>1, <3>1, <3>2, StepTyped
    <2>4. \A i \in 0..n : r[i] \in Paths
      <3> HIDE DEF n
      <3>1. 0 \in 0..n
        BY <1>1
      <3> QED
        BY <1>1, <2>2, <2>3, <3>1, Carried
    <2>5. r = [i \in 0..n |-> r[i]]
      BY <1>7 DEF PathBy
    <2> QED
      BY <2>4, <2>5
  <1> QED
    BY <1>7, <1>8, <1>9

LEMMA ComponentsTyped == ASSUME NEW text \in Seq(Char) PROVE Components(text) \in Seq(Name)
  <1>1. PICK f \in [0..Len(text) -> Paths] :
            PathBy(f, text) /\ Components(text) = Named(f[Len(text)])
    BY ComponentsIs
  <1>2. f[Len(text)] \in Paths
    OBVIOUS
  <1> QED
    BY <1>1, <1>2, NamedTyped

\* Where a text has its first slash, and where its first other character.
SlashAt(s) == SelectInSeq(s, LAMBDA c : c = "/")

OtherAt(s) == SelectInSeq(s, LAMBDA c : c # "/")

LEMMA FirstPlace ==
    ASSUME NEW T, T \subseteq Nat, NEW i \in T, \A j \in T : i <= j
    PROVE  Min(T) = i
  <1>1. \A x \in T : (\A y \in T : x <= y) => x = i
    OBVIOUS
  <1> QED
    BY <1>1 DEF Min

LEMMA FirstSlash ==
    ASSUME NEW S, NEW s \in Seq(S), NEW n \in 1..Len(s), s[n] = "/",
           \A i \in 1..Len(s) : i < n => s[i] # "/"
    PROVE  SlashAt(s) = n
  <1> DEFINE T == {i \in 1..Len(s) : s[i] = "/"}
  <1>1. T \subseteq Nat /\ n \in T /\ \A j \in T : n <= j
    OBVIOUS
  <1>2. SlashAt(s) = IF T # {} THEN Min(T) ELSE 0
    BY DEF SlashAt, SelectInSeq
  <1> HIDE DEF T
  <1> QED
    BY <1>1, <1>2, FirstPlace

LEMMA FirstOther ==
    ASSUME NEW S, NEW s \in Seq(S), NEW n \in 1..Len(s), s[n] # "/",
           \A i \in 1..Len(s) : i < n => s[i] = "/"
    PROVE  OtherAt(s) = n
  <1> DEFINE T == {i \in 1..Len(s) : s[i] # "/"}
  <1>1. T \subseteq Nat /\ n \in T /\ \A j \in T : n <= j
    OBVIOUS
  <1>2. OtherAt(s) = IF T # {} THEN Min(T) ELSE 0
    BY DEF OtherAt, SelectInSeq
  <1> HIDE DEF T
  <1> QED
    BY <1>1, <1>2, FirstPlace

\* What joins a bucket and a key, one character after another.
Slashed(a, b) == a \o <<"/">> \o b

IsSlashed(s, a, b) ==
    /\ s \in Seq(Char) /\ Len(s) = Len(a) + 1 + Len(b)
    /\ \A i \in 1..Len(a) : s[i] = a[i]
    /\ s[Len(a) + 1] = "/"
    /\ \A i \in 1..Len(b) : s[Len(a) + 1 + i] = b[i]
    /\ SubSeq(s, 1, Len(a)) = a
    /\ SubSeq(s, Len(a) + 2, Len(s)) = b

LEMMA Joined ==
    ASSUME NEW a \in Seq(Char), NEW b \in Seq(Char)
    PROVE  IsSlashed(Slashed(a, b), a, b)
  <1> DEFINE n == Len(a)
             m == Len(b)
             s == Slashed(a, b)
  <1>1. n \in Nat /\ m \in Nat
    OBVIOUS
  <1>2. <<"/">> \in Seq(Char) /\ Len(<<"/">>) = 1
    BY CharFacts
  <1>3. s \in Seq(Char) /\ Len(s) = n + 1 + m
    BY <1>2 DEF Slashed
  <1>4. /\ \A i \in 1..n : s[i] = a[i]
        /\ s[n + 1] = "/"
        /\ \A i \in 1..m : s[n + 1 + i] = b[i]
    BY <1>1, <1>2 DEF Slashed
  <1> HIDE DEF s
  <1>5. SubSeq(s, 1, n) = a
    <2> DEFINE t == SubSeq(s, 1, n)
    <2>1. t \in Seq(Char) /\ Len(t) = n /\ \A i \in 1..n : t[i] = s[i]
      BY <1>1, <1>3
    <2> HIDE DEF t
    <2>2. t = a
      BY <1>4, <2>1, SeqEqual
    <2> QED
      BY <2>2 DEF t
  <1>6. SubSeq(s, n + 2, Len(s)) = b
    <2> DEFINE t == SubSeq(s, n + 2, Len(s))
    <2>1. t \in Seq(Char) /\ Len(t) = m
      BY <1>1, <1>3
    <2>2. ASSUME NEW i \in 1..m PROVE t[i] = b[i]
      <3>1. t[i] = s[n + 2 + i - 1] /\ n + 2 + i - 1 = n + 1 + i
        BY <1>1, <1>3
      <3> QED
        BY <1>4, <3>1
    <2> HIDE DEF t
    <2>3. t = b
      BY <2>1, <2>2, SeqEqual
    <2> QED
      BY <2>3 DEF t
  <1> QED
    BY <1>3, <1>4, <1>5, <1>6 DEF IsSlashed, s

\* parse_copy_source gives back the bucket and the key that a source joins.
LEMMA SplitsSource ==
    ASSUME NEW bucket \in Seq(Char), bucket # <<>>, \A i \in DOMAIN bucket : bucket[i] # "/",
           NEW key \in Seq(Char), NEW text \in SourcesOf(bucket, key)
    PROVE  SplitSource(text) = [bucket |-> bucket, key |-> key]
  <1> DEFINE n == Len(bucket)
             rest == Slashed(bucket, key)
  <1>1. n \in Nat /\ Len(key) \in Nat /\ n # 0 /\ \A i \in 1..n : bucket[i] # "/"
    OBVIOUS
  <1>2. PICK r : r = rest
    OBVIOUS
  <1>3. /\ r \in Seq(Char) /\ Len(r) = n + 1 + Len(key)
        /\ \A i \in 1..n : r[i] = bucket[i]
        /\ r[n + 1] = "/"
        /\ SubSeq(r, 1, n) = bucket
        /\ SubSeq(r, n + 2, Len(r)) = key
    BY <1>2, Joined DEF IsSlashed
  <1>4. text \in {r, <<"/">> \o r}
    <2>1. <<"/">> \o bucket \o <<"/">> \o key = <<"/">> \o rest
      BY CharFacts DEF Slashed
    <2> QED
      BY <1>2, <2>1 DEF SourcesOf, Slashed
  <1> HIDE DEF rest, n
  <1>5. SlashAt(r) = n + 1
    BY <1>1, <1>3, FirstSlash
  <1>6. \E at \in 1..Len(text) : OtherAt(text) = at /\ SubSeq(text, at, Len(text)) = r
    <2>1. CASE text = r
      <3>1. 1 \in 1..Len(r) /\ r[1] # "/"
        BY <1>1, <1>3
      <3>2. OtherAt(r) = 1
        BY <1>1, <1>3, <3>1, FirstOther
      <3>3. SubSeq(r, 1, Len(r)) = r
        BY <1>3
      <3> QED
        BY <2>1, <3>1, <3>2, <3>3
    <2>2. CASE text = <<"/">> \o r
      <3>1. <<>> \in Seq(Char) /\ text = Slashed(<<>>, r)
        BY <1>3, <2>2, CharFacts DEF Slashed
      <3>2. /\ text \in Seq(Char) /\ Len(text) = 1 + Len(r)
            /\ text[1] = "/" /\ text[2] = r[1] /\ SubSeq(text, 2, Len(text)) = r
        <4>1. Len(<<>>) = 0 /\ 1 \in 1..Len(r)
          BY <1>1, <1>3
        <4>2. IsSlashed(text, <<>>, r)
          BY <1>3, <3>1, Joined
        <4> QED
          BY <1>3, <4>1, <4>2 DEF IsSlashed
      <3>3. 2 \in 1..Len(text) /\ text[2] # "/"
        BY <1>1, <1>3, <3>2
      <3>4. OtherAt(text) = 2
        BY <3>2, <3>3, FirstOther
      <3> QED
        BY <3>2, <3>3, <3>4
    <2> QED
      BY <1>4, <2>1, <2>2
  <1>7. PICK at \in 1..Len(text) : OtherAt(text) = at /\ SubSeq(text, at, Len(text)) = r
    BY <1>6
  <1>8. at # 0 /\ n + 1 # 0
    BY <1>1
  <1> DEFINE t == IF OtherAt(text) = 0 THEN <<>> ELSE SubSeq(text, OtherAt(text), Len(text))
  <1>9. t = r
    BY <1>7, <1>8
  <1>10. SplitSource(text) =
            IF SlashAt(t) = 0 THEN Bad
            ELSE [bucket |-> SubSeq(t, 1, SlashAt(t) - 1),
                  key |-> SubSeq(t, SlashAt(t) + 1, Len(t))]
    BY DEF SplitSource, SlashAt, OtherAt
  <1>11. SlashAt(r) - 1 = n /\ SlashAt(r) + 1 = n + 2
    BY <1>1, <1>5
  <1> HIDE DEF t
  <1> QED
    BY <1>3, <1>5, <1>8, <1>9, <1>10, <1>11


LEMMA StringsAreChars == Seq(STRING) \subseteq Seq(Char)
  <1>1. STRING \subseteq Char
    BY DEF Char
  <1> QED
    BY <1>1, SeqMonotonic, Zenon

\* Decoding once more: plain text is what it was.
LEMMA Decoded ==
    ASSUME NEW text \in Seq(Char), Decode(text) # Bad \/ Decode(text) = Unescaped(text)
    PROVE  /\ Decode(text) = Unescaped(text) /\ Decode(text) \in Seq(Char)
           /\ Plain(text) => Decode(text) = text
  <1>1. Decode(text) = Unescaped(text)
    BY DEF Decode
  <1> QED
    BY <1>1, UnescapedTyped, PlainUnescaped

\* What follows the bucket are the names in the text of a key.
LEMMA NamesHas ==
    ASSUME NEW bucket, NEW text \in Seq(Char)
    PROVE  LET p == NamesOf(bucket, text)
               names == Components(text)
           IN  /\ p[1] = bucket /\ Len(p) = 1 + Len(names) /\ Len(names) \in Nat
               /\ \A i \in 2..Len(p) :
                      p[i] \in Name /\ i - 1 \in DOMAIN names /\ p[i] = names[i - 1]
  <1> DEFINE T == Name \cup {bucket}
  <1>1. Components(text) \in Seq(Name)
    BY ComponentsTyped
  <1>2. PICK names : names = Components(text)
    OBVIOUS
  <1>3. PICK p : p = <<bucket>> \o names
    OBVIOUS
  <1>4. names \in Seq(Name) /\ Len(names) \in Nat /\ DOMAIN names = 1..Len(names)
    BY <1>1, <1>2
  <1>5. Name \subseteq T /\ bucket \in T
    OBVIOUS
  <1> HIDE DEF T
  <1>6. names \in Seq(T) /\ <<bucket>> \in Seq(T)
    BY <1>4, <1>5
  <1>7. p \in Seq(T) /\ Len(p) = 1 + Len(names) /\ p[1] = bucket
    BY <1>3, <1>6
  <1>8. ASSUME NEW i \in 2..Len(p)
        PROVE  p[i] \in Name /\ i - 1 \in DOMAIN names /\ p[i] = names[i - 1]
    <2>1. i - 1 \in 1..Len(names)
      BY <1>4, <1>7
    <2>2. p[i] = names[i - 1]
      BY <1>3, <1>4, <1>6, <2>1
    <2> QED
      BY <1>4, <2>1, <2>2
  <1>9. NamesOf(bucket, text) = p
    BY <1>2, <1>3 DEF NamesOf
  <1> QED
    BY <1>2, <1>4, <1>7, <1>8, <1>9

\* safe_join: a path is a key's names, and none of them leads up.
LEMMA Joins ==
    ASSUME NEW bucket, NEW text \in Seq(Char), SafeJoin(text) # Bad
    PROVE  LET p == At(bucket, text)
           IN  /\ p = NamesOf(bucket, text)
               /\ \A i \in 2..Len(p) : p[i] \notin {<<>>, <<".">>, <<".", ".">>}
  <1>1. SafeJoin(text) = Components(text)
        /\ \A i \in DOMAIN Components(text) : Components(text)[i] # <<".", ".">>
    BY DEF SafeJoin
  <1>2. At(bucket, text) = NamesOf(bucket, text)
    BY <1>1 DEF At, NamesOf
  <1>3. PICK p : p = NamesOf(bucket, text)
    OBVIOUS
  <1>4. \A i \in 2..Len(p) : /\ p[i] \in Name /\ i - 1 \in DOMAIN Components(text)
                             /\ p[i] = Components(text)[i - 1]
    BY <1>3, NamesHas
  <1>5. \A i \in 2..Len(p) : p[i] \notin {<<>>, <<".">>, <<".", ".">>}
    BY <1>1, <1>4 DEF Name
  <1> QED
    BY <1>2, <1>3, <1>5

-----------------------------------------------------------------------------
(* The keys of S3 and where the server has them: at a path, and in the     *)
(* cache under a text of which only one path is.                           *)

Located(k) ==
    /\ k.bucket \in Buckets /\ k.key \in Seq(Char)
    /\ Decode(k.key) = Unescaped(k.key) /\ SafeJoin(Decode(k.key)) # Bad

PlaceOf(k) == At(k.bucket, Decode(k.key))

EntryOf(k) == CacheKey(k.bucket, Decode(k.key))

LEMMA BucketText ==
    ASSUME NEW b \in Buckets
    PROVE  b \in Seq(Char) /\ \A i \in 1..Len(b) : b[i] # "/"
  <1>1. b \in Seq(STRING) /\ \A i \in DOMAIN b : b[i] # "/"
    BY BucketAssumption
  <1> QED
    BY <1>1, StringsAreChars

\* A bucket's name has no slash: the text of an entry is of one bucket and one key.
LEMMA Apart ==
    ASSUME NEW a \in Buckets, NEW x \in Seq(Char), NEW b \in Buckets, NEW y \in Seq(Char),
           CacheKey(a, x) = CacheKey(b, y)
    PROVE  a = b /\ x = y
  <1>1. PICK s : s = CacheKey(a, x)
    OBVIOUS
  <1>2. IsSlashed(s, a, x) /\ IsSlashed(s, b, y)
    BY <1>1, BucketText, Joined DEF CacheKey, Slashed
  <1>3. ASSUME NEW c \in Buckets, NEW z \in Seq(Char), IsSlashed(s, c, z)
        PROVE  SlashAt(s) = Len(c) + 1
    <2>1. Len(c) \in Nat /\ Len(z) \in Nat /\ \A i \in 1..Len(c) : c[i] # "/"
      BY BucketText
    <2>2. /\ s \in Seq(Char) /\ Len(s) = Len(c) + 1 + Len(z)
          /\ \A i \in 1..Len(c) : s[i] = c[i]
          /\ s[Len(c) + 1] = "/"
      BY <1>3 DEF IsSlashed
    <2>3. /\ Len(c) + 1 \in 1..Len(s)
          /\ \A i \in 1..Len(s) : i < Len(c) + 1 => s[i] # "/"
      BY <2>1, <2>2
    <2> QED
      BY <2>2, <2>3, FirstSlash
  <1>4. Len(a) + 1 = Len(b) + 1 /\ Len(a) \in Nat /\ Len(b) \in Nat
    BY <1>2, <1>3, BucketText
  <1>5. Len(a) = Len(b)
    BY <1>4
  <1> QED
    BY <1>2, <1>5 DEF IsSlashed

LEMMA SameEntry ==
    ASSUME NEW k, Located(k), NEW l, Located(l), EntryOf(k) = EntryOf(l)
    PROVE  PlaceOf(k) = PlaceOf(l)
  <1>1. Decode(k.key) \in Seq(Char) /\ Decode(l.key) \in Seq(Char)
    BY Decoded DEF Located
  <1>2. k.bucket = l.bucket /\ Decode(k.key) = Decode(l.key)
    BY <1>1, Apart DEF Located, EntryOf
  <1> QED
    BY <1>2 DEF PlaceOf

\* A key without a percent sign is where its names say.
LEMMA PlainPlace ==
    ASSUME NEW k, Located(k), Plain(k.key)
    PROVE  PlaceOf(k) = NamesOf(k.bucket, k.key)
  <1>1. Decode(k.key) = k.key
    BY Decoded DEF Located
  <1> QED
    BY <1>1, Joins DEF Located, PlaceOf

\* The requests that Refusal lets pass name such a key.
LEMMA Passed ==
    ASSUME NEW c, c.key \in Seq(Char), Refusal(c) = "none"
    PROVE  /\ Located(MeantBy(c))
           /\ PlaceOf(MeantBy(c)) = PathOf(c) /\ EntryOf(MeantBy(c)) = CachedAs(c)
           /\ MeantBy(c).bucket = Decode(c.bucket) /\ MeantBy(c).key = Meant(c.key)
  <1> DEFINE bucket == Decode(c.bucket)
             key == HandlerKey(c.key)
             meant == Meant(c.key)
  <1>1. bucket \in Buckets /\ key # Bad /\ SafeJoin(key) # Bad
    BY DEF Refusal
  <1>2. Decode(c.key) # Bad /\ key = Decode(Decode(c.key)) /\ meant = Decode(c.key)
    BY <1>1 DEF HandlerKey, Meant
  <1>3. meant \in Seq(Char)
    BY <1>2, Decoded
  <1>4. MeantBy(c).bucket = bucket /\ MeantBy(c).key = meant
    BY DEF MeantBy, KeyOf
  <1>5. key = Decode(meant) /\ Decode(meant) = Unescaped(meant)
    BY <1>1, <1>2, <1>3, Decoded
  <1>6. PathOf(c) = At(bucket, key) /\ CachedAs(c) = CacheKey(bucket, key)
    BY DEF PathOf, CachedAs
  <1> HIDE DEF bucket, key, meant
  <1>7. Located(MeantBy(c))
    BY <1>1, <1>3, <1>4, <1>5 DEF Located
  <1>8. PlaceOf(MeantBy(c)) = PathOf(c) /\ EntryOf(MeantBy(c)) = CachedAs(c)
    BY <1>4, <1>5, <1>6 DEF PlaceOf, EntryOf
  <1> QED
    BY <1>4, <1>7, <1>8 DEF bucket, meant

LEMMA PlaceInside ==
    ASSUME NEW k, Located(k)
    PROVE  LET p == PlaceOf(k)
           IN  /\ p[1] \in Buckets /\ Len(p) \in Nat /\ Len(p) >= 1
               /\ \A i \in 2..Len(p) : p[i] \notin {<<>>, <<".">>, <<".", ".">>}
  <1>1. Decode(k.key) \in Seq(Char) /\ SafeJoin(Decode(k.key)) # Bad /\ k.bucket \in Buckets
    BY Decoded DEF Located
  <1>2. PICK p : p = PlaceOf(k)
    OBVIOUS
  <1>3. /\ p = NamesOf(k.bucket, Decode(k.key))
        /\ \A i \in 2..Len(p) : p[i] \notin {<<>>, <<".">>, <<".", ".">>}
    BY <1>1, <1>2, Joins DEF PlaceOf
  <1>4. p[1] = k.bucket /\ Len(p) \in Nat /\ Len(p) >= 1
    BY <1>1, <1>3, NamesHas
  <1> QED
    BY <1>1, <1>2, <1>3, <1>4

-----------------------------------------------------------------------------
(* What S3 would hold, what the server has, and what the cache says.       *)

HeldAt(k) == IF k \in DOMAIN meaning THEN meaning[k] ELSE Nothing

ObjectAt(p) == IF Exists(p) THEN object[p] ELSE Nothing

CachedAt(e, body) == e \in DOMAIN cache => cache[e] = body

\* The key last written at a path is one the server has there, S3 holds under it what is
\* there, and its own entry in the cache says so.
HoldersHold ==
    \A p \in DOMAIN holder :
        LET k == holder[p]
        IN  /\ Located(k) /\ PlaceOf(k) = p
            /\ HeldAt(k) = ObjectAt(p) /\ CachedAt(EntryOf(k), ObjectAt(p))

ObjectsWritten == \A p \in DOMAIN object : p \in DOMAIN holder

KeysWritten == \A k \in DOMAIN meaning : Located(k) /\ PlaceOf(k) \in DOMAIN holder

EntriesWritten ==
    \A e \in DOMAIN cache :
        \E k : Located(k) /\ EntryOf(k) = e /\ PlaceOf(k) \in DOMAIN holder

MapInv == InsideBuckets /\ HoldersHold /\ ObjectsWritten /\ KeysWritten /\ EntriesWritten

\* What a write or a delete of key k changes: what is at its path, held under it, and
\* cached for it.
Rewrites(k) ==
    LET p == PlaceOf(k)
    IN  /\ Located(k)
        /\ DOMAIN object' \subseteq DOMAIN object \cup {p}
        /\ \A q : q # p => ObjectAt(q)' = ObjectAt(q)
        /\ DOMAIN holder' = DOMAIN holder \cup {p} /\ holder'[p] = k
        /\ \A q \in DOMAIN holder : q # p => holder'[q] = holder[q]
        /\ DOMAIN meaning' \subseteq DOMAIN meaning \cup {k}
        /\ HeldAt(k)' = ObjectAt(p)' /\ \A l : l # k => HeldAt(l)' = HeldAt(l)
        /\ DOMAIN cache' \subseteq DOMAIN cache \cup {EntryOf(k)}
        /\ EntryOf(k) \in DOMAIN cache' => cache'[EntryOf(k)] = ObjectAt(p)'
        /\ \A e \in DOMAIN cache' : e # EntryOf(k) => cache'[e] = cache[e]

\* The keys that other paths have are other keys, of other entries.
LEMMA RewritingKeepsMap ==
    ASSUME MapInv, NEW k, Rewrites(k), PlaceOf(k) \in DOMAIN object' => Len(PlaceOf(k)) > 1
    PROVE  MapInv'
  <1>1. PICK p : p = PlaceOf(k)
    OBVIOUS
  <1>2. PICK entry : entry = EntryOf(k)
    OBVIOUS
  <1>3. /\ Located(k) /\ DOMAIN object' \subseteq DOMAIN object \cup {p}
        /\ \A q : q # p => ObjectAt(q)' = ObjectAt(q)
        /\ DOMAIN holder' = DOMAIN holder \cup {p} /\ holder'[p] = k
        /\ \A q \in DOMAIN holder : q # p => holder'[q] = holder[q]
        /\ DOMAIN meaning' \subseteq DOMAIN meaning \cup {k}
        /\ HeldAt(k)' = ObjectAt(p)' /\ \A l : l # k => HeldAt(l)' = HeldAt(l)
        /\ DOMAIN cache' \subseteq DOMAIN cache \cup {entry}
        /\ entry \in DOMAIN cache' => cache'[entry] = ObjectAt(p)'
        /\ \A e \in DOMAIN cache' : e # entry => cache'[e] = cache[e]
    BY <1>1, <1>2 DEF Rewrites
  <1>4. InsideBuckets'
    <2>1. /\ p[1] \in Buckets /\ (p \in DOMAIN object' => Len(p) > 1)
          /\ \A i \in 2..Len(p) : p[i] \notin {<<>>, <<".">>, <<".", ".">>}
      BY <1>1, <1>3, PlaceInside
    <2>2. \A q \in DOMAIN object' : q \in DOMAIN object \/ q = p
      BY <1>3
    <2> QED
      BY <2>1, <2>2 DEF MapInv, InsideBuckets
  <1>5. HoldersHold'
    <2>1. SUFFICES ASSUME NEW q \in DOMAIN holder', NEW l, l = holder'[q]
                   PROVE  /\ Located(l) /\ PlaceOf(l) = q
                          /\ HeldAt(l)' = ObjectAt(q)'
                          /\ EntryOf(l) \in DOMAIN cache' => cache'[EntryOf(l)] = ObjectAt(q)'
      BY DEF HoldersHold, CachedAt, HeldAt
    <2>2. CASE q = p
      <3>1. l = k
        BY <1>3, <2>1, <2>2
      <3> QED
        BY <1>1, <1>2, <1>3, <2>2, <3>1
    <2>3. CASE q # p
      <3>1. q \in DOMAIN holder /\ holder'[q] = holder[q]
        BY <1>3, <2>3
      <3>2. l = holder[q]
        BY <2>1, <3>1
      <3>3. /\ Located(l) /\ PlaceOf(l) = q /\ HeldAt(l) = ObjectAt(q)
            /\ EntryOf(l) \in DOMAIN cache => cache[EntryOf(l)] = ObjectAt(q)
        BY <3>1, <3>2 DEF MapInv, HoldersHold, CachedAt
      <3>4. l # k /\ EntryOf(l) # entry
        BY <1>1, <1>2, <1>3, <2>3, <3>3, SameEntry
      <3>5. HeldAt(l)' = HeldAt(l) /\ ObjectAt(q)' = ObjectAt(q)
        BY <1>3, <2>3, <3>4
      <3>6. EntryOf(l) \in DOMAIN cache' =>
                EntryOf(l) \in DOMAIN cache /\ cache'[EntryOf(l)] = cache[EntryOf(l)]
        BY <1>3, <3>4
      <3> QED
        BY <3>3, <3>5, <3>6
    <2> QED
      BY <2>2, <2>3
  <1>6. ObjectsWritten'
    BY <1>3 DEF MapInv, ObjectsWritten
  <1>7. KeysWritten'
    BY <1>1, <1>3 DEF MapInv, KeysWritten
  <1>8. EntriesWritten'
    <2>1. SUFFICES ASSUME NEW e \in DOMAIN cache'
                   PROVE  \E l : Located(l) /\ EntryOf(l) = e /\ PlaceOf(l) \in DOMAIN holder'
      BY DEF EntriesWritten
    <2>2. CASE e = entry
      BY <1>1, <1>2, <1>3, <2>2
    <2>3. CASE e # entry
      BY <1>3, <2>1, <2>3 DEF MapInv, EntriesWritten
    <2> QED
      BY <2>2, <2>3
  <1> QED
    BY <1>4, <1>5, <1>6, <1>7, <1>8 DEF MapInv

\* An upload or a copy to the path of a key; the entry goes, or is the new object.
LEMMA WriteKeepsMap ==
    ASSUME MapInv, NEW c, c.key \in Seq(Char), Refusal(c) = "none", CanWrite(PathOf(c)), NEW body,
           NEW op, Store(op, c, body), NEW entry, entry \in {Nothing, body}, Recache(c, entry)
    PROVE  MapInv' /\ ObjectAt(PathOf(c))' = body
               /\ \A q : q # PathOf(c) => ObjectAt(q)' = ObjectAt(q)
  <1>1. PICK p : p = PathOf(c)
    OBVIOUS
  <1>2. PICK k : k = MeantBy(c)
    OBVIOUS
  <1>3. PICK e : e = CachedAs(c)
    OBVIOUS
  <1>4. Located(k) /\ PlaceOf(k) = p /\ EntryOf(k) = e
    BY <1>1, <1>2, <1>3, Passed
  <1>5. /\ object' = With(object, p, body) /\ meaning' = With(meaning, k, body)
        /\ holder' = With(holder, p, k)
    BY <1>1, <1>2 DEF Store
  <1>6. cache' = With(cache, e, body) \/ cache' = Without(cache, e)
    BY <1>3 DEF Recache
  <1>7. DOMAIN object' = DOMAIN object \cup {p} /\ object'[p] = body
        /\ \A q \in DOMAIN object : q # p => object'[q] = object[q]
    BY <1>5 DEF With
  <1>8. ObjectAt(p)' = body /\ \A q : q # p => ObjectAt(q)' = ObjectAt(q)
    BY <1>7 DEF ObjectAt, Exists
  <1>9. DOMAIN meaning' = DOMAIN meaning \cup {k} /\ meaning'[k] = body
        /\ \A l \in DOMAIN meaning : l # k => meaning'[l] = meaning[l]
    BY <1>5 DEF With
  <1>10. HeldAt(k)' = body /\ \A l : l # k => HeldAt(l)' = HeldAt(l)
    BY <1>9 DEF HeldAt
  <1>11. DOMAIN holder' = DOMAIN holder \cup {p} /\ holder'[p] = k
         /\ \A q \in DOMAIN holder : q # p => holder'[q] = holder[q]
    BY <1>5 DEF With
  <1>12. /\ DOMAIN cache' \subseteq DOMAIN cache \cup {e}
         /\ e \in DOMAIN cache' => cache'[e] = body
         /\ \A f \in DOMAIN cache' : f # e => cache'[f] = cache[f]
    BY <1>6 DEF With, Without
  <1>13. Rewrites(k)
    BY <1>4, <1>7, <1>8, <1>9, <1>10, <1>11, <1>12 DEF Rewrites
  <1>14. Len(p) > 1
    <2>1. Len(p) \in Nat /\ Len(p) >= 1
      BY <1>4, PlaceInside
    <2>2. Len(p) # 1
      BY <1>1 DEF CanWrite, IsDirectory
    <2>3. \A n \in Nat : n >= 1 /\ n # 1 => n > 1
      OBVIOUS
    <2> QED
      BY <2>1, <2>2, <2>3
  <1>15. MapInv'
    BY <1>4, <1>13, <1>14, RewritingKeepsMap
  <1> QED
    BY <1>1, <1>8, <1>15

LEMMA SameMap ==
    ASSUME MapInv, UNCHANGED <<stored, cache>>
    PROVE  MapInv'
  BY DEF stored, MapInv, InsideBuckets, HoldersHold, ObjectsWritten, KeysWritten, EntriesWritten,
         HeldAt, ObjectAt, CachedAt, Exists

\* A delete that removes the object, and one that finds none.
LEMMA DeleteKeepsMap ==
    ASSUME MapInv, NEW c \in DeleteCalls, Delete(c)
    PROVE  MapInv'
  <1>0. c.key \in Seq(Char)
    BY TextAssumption, StringsAreChars
  <1>1. CASE Refusal(c) # "none"
    BY <1>1, SameMap DEF Delete
  <1>2. CASE Refusal(c) = "none"
    <2>1. PICK p : p = PathOf(c)
      OBVIOUS
    <2>2. PICK k : k = MeantBy(c)
      OBVIOUS
    <2>3. PICK e : e = CachedAs(c)
      OBVIOUS
    <2>4. Located(k) /\ PlaceOf(k) = p /\ EntryOf(k) = e
      BY <1>0, <1>2, <2>1, <2>2, <2>3, Passed
    <2>5. object' = Without(object, p) /\ meaning' = Without(meaning, k)
      BY <1>2, <2>1, <2>2 DEF Delete
    <2>6. DOMAIN object' = DOMAIN object \ {p}
          /\ \A q \in DOMAIN object : q # p => object'[q] = object[q]
      BY <2>5 DEF Without
    <2>7. ObjectAt(p)' = Nothing /\ \A q : q # p => ObjectAt(q)' = ObjectAt(q)
      BY <2>6 DEF ObjectAt, Exists
    <2>8. DOMAIN meaning' = DOMAIN meaning \ {k}
          /\ \A l \in DOMAIN meaning : l # k => meaning'[l] = meaning[l]
      BY <2>5 DEF Without
    <2>9. HeldAt(k)' = Nothing /\ \A l : l # k => HeldAt(l)' = HeldAt(l)
      BY <2>8 DEF HeldAt
    <2>10. CASE Exists(p)
      <3>1. holder' = With(holder, p, k) /\ cache' = Without(cache, e)
        BY <1>2, <2>1, <2>2, <2>3, <2>10 DEF Delete, Recache
      <3>2. DOMAIN holder' = DOMAIN holder \cup {p} /\ holder'[p] = k
            /\ \A q \in DOMAIN holder : q # p => holder'[q] = holder[q]
        BY <3>1 DEF With
      <3>3. /\ DOMAIN cache' \subseteq DOMAIN cache /\ e \notin DOMAIN cache'
            /\ \A f \in DOMAIN cache' : f # e => cache'[f] = cache[f]
        BY <3>1 DEF Without
      <3>4. Rewrites(k)
        BY <2>4, <2>6, <2>7, <2>8, <2>9, <3>2, <3>3 DEF Rewrites
      <3> QED
        BY <2>4, <2>6, <3>4, RewritingKeepsMap
    <2>11. CASE ~ Exists(p)
      <3>1. UNCHANGED <<holder, cache>>
        BY <1>2, <2>1, <2>11 DEF Delete
      <3>2. ObjectAt(p) = Nothing
        BY <2>11 DEF ObjectAt
      <3>3. \A q : ObjectAt(q)' = ObjectAt(q)
        BY <2>7, <3>2
      <3>4. HoldersHold'
        <4>1. SUFFICES ASSUME NEW q \in DOMAIN holder
                       PROVE  /\ Located(holder[q]) /\ PlaceOf(holder[q]) = q
                              /\ HeldAt(holder[q])' = ObjectAt(q)
                              /\ CachedAt(EntryOf(holder[q]), ObjectAt(q))
          BY <3>1, <3>3 DEF HoldersHold, CachedAt, HeldAt
        <4>2. PICK l : l = holder[q]
          OBVIOUS
        <4>3. /\ Located(l) /\ PlaceOf(l) = q /\ HeldAt(l) = ObjectAt(q)
              /\ CachedAt(EntryOf(l), ObjectAt(q))
          BY <4>2 DEF MapInv, HoldersHold
        <4>4. HeldAt(l)' = ObjectAt(q)
          BY <2>4, <2>9, <3>2, <4>3
        <4>5. HeldAt(l)' = HeldAt(holder[q])'
          BY <3>1, <4>2 DEF HeldAt
        <4> QED
          BY <4>2, <4>3, <4>4, <4>5
      <3>5. InsideBuckets' /\ ObjectsWritten' /\ KeysWritten' /\ EntriesWritten'
        BY <2>6, <2>8, <3>1
           DEF MapInv, InsideBuckets, ObjectsWritten, KeysWritten, EntriesWritten
      <3> QED
        BY <3>4, <3>5 DEF MapInv
    <2> QED
      BY <2>10, <2>11
  <1> QED
    BY <1>1, <1>2

\* The cache takes what a HEAD found, or loses an entry.
LEMMA CachingKeepsMap ==
    ASSUME MapInv, UNCHANGED stored, NEW k, Located(k), Exists(PlaceOf(k)),
           cache' = With(cache, EntryOf(k), object[PlaceOf(k)])
    PROVE  MapInv'
  <1>1. PICK p : p = PlaceOf(k)
    OBVIOUS
  <1>2. PICK e : e = EntryOf(k)
    OBVIOUS
  <1>3. /\ DOMAIN cache' = DOMAIN cache \cup {e} /\ cache'[e] = object[p]
        /\ \A f \in DOMAIN cache : f # e => cache'[f] = cache[f]
    BY <1>1, <1>2 DEF With
  <1>4. InsideBuckets' /\ ObjectsWritten' /\ KeysWritten'
    BY DEF stored, MapInv, InsideBuckets, ObjectsWritten, KeysWritten
  <1>5. p \in DOMAIN holder /\ ObjectAt(p) = object[p]
    BY <1>1 DEF MapInv, ObjectsWritten, ObjectAt, Exists
  <1>6. EntriesWritten'
    BY <1>1, <1>2, <1>3, <1>5 DEF stored, MapInv, EntriesWritten
  <1>7. HoldersHold'
    <2>1. SUFFICES ASSUME NEW q \in DOMAIN holder
                   PROVE  /\ Located(holder[q]) /\ PlaceOf(holder[q]) = q
                          /\ HeldAt(holder[q]) = ObjectAt(q)
                          /\ CachedAt(EntryOf(holder[q]), ObjectAt(q))'
      BY DEF stored, HoldersHold, HeldAt, ObjectAt, Exists
    <2>2. PICK l : l = holder[q]
      OBVIOUS
    <2>3. /\ Located(l) /\ PlaceOf(l) = q /\ HeldAt(l) = ObjectAt(q)
          /\ EntryOf(l) \in DOMAIN cache => cache[EntryOf(l)] = ObjectAt(q)
      BY <2>2 DEF MapInv, HoldersHold, CachedAt
    <2>4. EntryOf(l) = e => q = p
      BY <1>1, <1>2, <2>3, SameEntry
    <2>5. EntryOf(l) \in DOMAIN cache' => cache'[EntryOf(l)] = ObjectAt(q)
      BY <1>3, <1>5, <2>3, <2>4
    <2>6. ObjectAt(q)' = ObjectAt(q) /\ holder' = holder
      BY DEF stored, ObjectAt, Exists
    <2> QED
      BY <2>2, <2>3, <2>5, <2>6 DEF CachedAt
  <1> QED
    BY <1>4, <1>6, <1>7 DEF MapInv

LEMMA ForgettingKeepsMap ==
    ASSUME MapInv, NEW e, Forget(e)
    PROVE  MapInv'
  <1>1. /\ UNCHANGED stored /\ DOMAIN cache' \subseteq DOMAIN cache
        /\ \A f \in DOMAIN cache' : cache'[f] = cache[f]
    BY DEF Forget, Without
  <1>2. InsideBuckets' /\ ObjectsWritten' /\ KeysWritten' /\ EntriesWritten'
    BY <1>1 DEF stored, MapInv, InsideBuckets, ObjectsWritten, KeysWritten, EntriesWritten
  <1>3. HoldersHold'
    <2>1. \A f, x : CachedAt(f, x) => (f \in DOMAIN cache' => cache'[f] = x)
      BY <1>1 DEF CachedAt
    <2>2. object' = object /\ meaning' = meaning /\ holder' = holder
      BY <1>1 DEF stored
    <2> QED
      BY <2>1, <2>2 DEF MapInv, HoldersHold, HeldAt, ObjectAt, Exists, CachedAt
  <1> QED
    BY <1>2, <1>3 DEF MapInv

LEMMA RangedSays ==
    ASSUME NEW op, NEW c, NEW body, NEW a, a = Answer(op, c, "200", body), NEW r, NEW size
    PROVE  LET same(z) == z.op = op /\ z.call = c /\ z.body = body
           IN  /\ same(Whole(a, size))
               /\ r.kind \in {"satisfiable", "unsatisfiable", "invalid"} => same(Ranged(a, r, size))
  BY DEF Answer, Whole, Partial, Ranged

\* Whatever the range, GET answers from what is at the path, or with the policy.
LEMMA GetSays ==
    ASSUME NEW c \in GetCalls, GetObject(c), \A p \in DOMAIN object : object[p].size \in Sizes
    PROVE  /\ answer'.op = "GET" /\ answer'.call = c
           /\ Refusal(c) = "none" /\ answer'.body # Acl => answer'.body = ObjectAt(PathOf(c))
  <1> DEFINE p == PathOf(c)
             body == IF Exists(p) THEN object[p] ELSE Nothing
             a == Answer("GET", c, "200", body)
             size == IF Exists(p) THEN object[p].size ELSE DirectorySize
  <1>1. CASE Refusal(c) # "none"
    BY <1>1 DEF GetObject, Say, Answer
  <1>2. CASE Refusal(c) = "none" /\ ~ Exists(p) /\ ~ IsDirectory(p)
    BY <1>2 DEF GetObject, Say, Answer, ObjectAt
  <1>3. CASE Refusal(c) = "none" /\ (Exists(p) \/ IsDirectory(p)) /\ HasAclQuery(c)
    BY <1>3 DEF GetObject, Say, Answer
  <1>4. CASE Refusal(c) = "none" /\ (Exists(p) \/ IsDirectory(p)) /\ ~ HasAclQuery(c)
    <2>1. answer' = IF c.range = NoRange THEN Whole(a, size)
                    ELSE Ranged(a, ParseRange(c.range, size), size)
      BY <1>4 DEF GetObject, Say
    <2>2. size \in Sizes
      BY CallAssumption DEF Exists
    <2>3. c.range # NoRange => c.range \in Headers
      BY CallAssumption
    <2>4. c.range # NoRange =>
              ParseRange(c.range, size).kind \in {"satisfiable", "unsatisfiable", "invalid"}
      BY <2>2, <2>3, ParseRangeKinds
    <2>5. body = ObjectAt(p)
      BY DEF ObjectAt
    <2> HIDE DEF body, size
    <2>6. PICK b : b = a
      OBVIOUS
    <2>7. /\ Whole(b, size).op = "GET" /\ Whole(b, size).call = c /\ Whole(b, size).body = body
          /\ \A r : r.kind \in {"satisfiable", "unsatisfiable", "invalid"} =>
                /\ Ranged(b, r, size).op = "GET" /\ Ranged(b, r, size).call = c
                /\ Ranged(b, r, size).body = body
      BY <2>6, RangedSays
    <2> QED
      BY <2>1, <2>4, <2>5, <2>6, <2>7
  <1> QED
    BY <1>1, <1>2, <1>3, <1>4

\* A plain key that is not displaced: S3 holds what is at its path, and the cache knows no
\* other.
LEMMA ReadsMap ==
    ASSUME MapInv, NEW k, Located(k), k = KeyOf(k.bucket, k.key), Plain(k.key),
           ~ Displaced(k.bucket, k.key)
    PROVE  /\ HeldAt(k) = ObjectAt(PlaceOf(k))
           /\ CachedAt(EntryOf(k), ObjectAt(PlaceOf(k)))
  <1>1. PICK p : p = PlaceOf(k)
    OBVIOUS
  <1>2. NamesOf(k.bucket, k.key) = p
    BY <1>1, PlainPlace
  <1>3. CASE p \in DOMAIN holder
    <2>1. PICK l : l = holder[p]
      OBVIOUS
    <2>2. /\ Located(l) /\ PlaceOf(l) = p
          /\ HeldAt(l) = ObjectAt(p) /\ CachedAt(EntryOf(l), ObjectAt(p))
      BY <1>3, <2>1 DEF MapInv, HoldersHold
    <2>3. Plain(l.key) => NamesOf(l.bucket, l.key) = p
      BY <2>2, PlainPlace
    <2>4. l = k
      BY <1>2, <1>3, <2>1, <2>3 DEF Displaced
    <2> QED
      BY <1>1, <2>2, <2>4
  <1>4. CASE p \notin DOMAIN holder
    <2>1. ObjectAt(p) = Nothing
      BY <1>4 DEF MapInv, ObjectsWritten, ObjectAt, Exists
    <2>2. HeldAt(k) = Nothing
      BY <1>1, <1>4 DEF MapInv, KeysWritten, HeldAt
    <2>3. EntryOf(k) \notin DOMAIN cache
      <3>1. SUFFICES ASSUME EntryOf(k) \in DOMAIN cache PROVE FALSE
        OBVIOUS
      <3>2. PICK l : Located(l) /\ EntryOf(l) = EntryOf(k) /\ PlaceOf(l) \in DOMAIN holder
        BY <3>1 DEF MapInv, EntriesWritten
      <3>3. PlaceOf(l) = p
        BY <1>1, <3>2, SameEntry
      <3> QED
        BY <1>4, <3>2, <3>3
    <2> QED
      BY <1>1, <2>1, <2>2, <2>3 DEF CachedAt
  <1> QED
    BY <1>3, <1>4

ReadsAt(k) ==
    MapInv /\ ~ Displaced(k.bucket, k.key) =>
        HeldAt(k) = ObjectAt(PlaceOf(k)) /\ CachedAt(EntryOf(k), ObjectAt(PlaceOf(k)))

\* The same of the state after a step.
LEMMA ReadsMapThen ==
    ASSUME NEW k, Located(k), k = KeyOf(k.bucket, k.key), Plain(k.key)
    PROVE  ReadsAt(k)'
  <1>1. ReadsAt(k)
    BY ReadsMap DEF ReadsAt
  <1> QED
    BY <1>1, PTL

\* What is answered from the path or from the cache is what S3 holds.
LEMMA ReadAnswers ==
    ASSUME MapInv', NEW c, c.key \in Seq(Char), answer'.op \in {"GET", "HEAD"}, answer'.call = c,
           Refusal(c) = "none" /\ answer'.body # Acl =>
               \/ answer'.body = ObjectAt(PathOf(c))'
               \/ CachedAs(c) \in DOMAIN cache' /\ answer'.body = cache'[CachedAs(c)]
    PROVE  AnswersMap'
  <1>1. SUFFICES ASSUME Refusal(c) = "none", answer'.body # Acl, Plain(Meant(c.key)),
                        ~ Displaced(Decode(c.bucket), Meant(c.key))'
                 PROVE  answer'.body = Held(Decode(c.bucket), Meant(c.key))'
    BY DEF AnswersMap
  <1>2. PICK k : k = MeantBy(c)
    OBVIOUS
  <1>3. /\ Located(k) /\ PlaceOf(k) = PathOf(c) /\ EntryOf(k) = CachedAs(c)
        /\ k.bucket = Decode(c.bucket) /\ k.key = Meant(c.key)
        /\ k = KeyOf(k.bucket, k.key)
    BY <1>1, <1>2, Passed DEF MeantBy
  <1>4. Held(Decode(c.bucket), Meant(c.key))' = HeldAt(k)'
    BY <1>3 DEF Held, HeldAt
  <1>5. ~ Displaced(k.bucket, k.key)'
    BY <1>1, <1>3 DEF Displaced
  <1>6. HeldAt(k)' = ObjectAt(PlaceOf(k))' /\ CachedAt(EntryOf(k), ObjectAt(PlaceOf(k)))'
    BY <1>1, <1>3, <1>5, ReadsMapThen DEF ReadsAt
  <1> QED
    BY <1>1, <1>3, <1>4, <1>6 DEF CachedAt

LEMMA OtherMaps ==
    ASSUME answer'.op \in {"PUT", "DELETE", "HEADBUCKET"}
    PROVE  AnswersMap'
  BY DEF AnswersMap

\* parse_copy_source finds the object the client means, or none.
LEMMA CopyMeans ==
    ASSUME NEW c \in CopyCalls, CopySource(c.source) # Bad
    PROVE  CopySource(c.source) = [bucket |-> c.from.bucket, key |-> c.from.key]
  <1>1. /\ c.from.bucket \in Seq(Char) /\ c.from.bucket # <<>> /\ c.from.key \in Seq(Char)
        /\ \A i \in DOMAIN c.from.bucket : c.from.bucket[i] # "/"
        /\ Decode(c.source) \in SourcesOf(c.from.bucket, c.from.key)
    BY TextAssumption, StringsAreChars
  <1>2. CopySource(c.source) = SplitSource(Decode(c.source))
    BY DEF CopySource
  <1> QED
    BY <1>1, <1>2, SplitsSource

\* The key of a source that can be decoded is text, and if it is plain decodes to itself.
LEMMA SourceDecodes ==
    ASSUME NEW c \in CopyCalls, CopySource(c.source) # Bad, Plain(c.from.key)
    PROVE  Decode(c.from.key) = c.from.key /\ Unescaped(c.from.key) = c.from.key
  <1>1. PICK bucket, key : bucket = c.from.bucket /\ key = c.from.key
    OBVIOUS
  <1>2. PICK text : text = Decode(c.source)
    OBVIOUS
  <1>3. bucket \in Seq(Char) /\ key \in Seq(Char) /\ text \in SourcesOf(bucket, key)
    BY <1>1, <1>2, TextAssumption, StringsAreChars
  <1>4. text # Bad
    BY <1>2 DEF CopySource
  <1>5. \A i \in DOMAIN text : text[i] # "broken"
    BY <1>2, <1>4 DEF Decode
  <1>6. PICK rest : rest = Slashed(bucket, key)
    OBVIOUS
  <1>7. IsSlashed(rest, bucket, key)
    BY <1>3, <1>6, Joined
  <1>8. text \in {rest, Slashed(<<>>, rest)}
    <2>1. rest \in Seq(Char)
      BY <1>7 DEF IsSlashed
    <2>2. Slashed(<<>>, rest) = <<"/">> \o rest
      BY <2>1, CharFacts DEF Slashed
    <2>3. <<"/">> \o bucket \o <<"/">> \o key = <<"/">> \o Slashed(bucket, key)
      BY <1>3, CharFacts DEF Slashed
    <2> QED
      BY <1>3, <1>6, <2>2, <2>3 DEF SourcesOf, Slashed
  <1>9. \A i \in 1..Len(rest) : rest[i] # "broken"
    <2>1. CASE text = rest
      <3>1. rest \in Seq(Char)
        BY <1>7 DEF IsSlashed
      <3> QED
        BY <1>5, <2>1, <3>1
    <2>2. CASE text = Slashed(<<>>, rest)
      <3>1. rest \in Seq(Char) /\ <<>> \in Seq(Char) /\ Len(<<>>) = 0 /\ Len(rest) \in Nat
        BY <1>7 DEF IsSlashed
      <3>2. IsSlashed(text, <<>>, rest)
        BY <2>2, <3>1, Joined
      <3>3. /\ text \in Seq(Char) /\ Len(text) = 1 + Len(rest)
            /\ \A i \in 1..Len(rest) : text[1 + i] = rest[i]
        BY <3>1, <3>2 DEF IsSlashed
      <3>4. \A i \in 1..Len(rest) : 1 + i \in DOMAIN text
        BY <3>1, <3>3
      <3> QED
        BY <1>5, <3>3, <3>4
    <2> QED
      BY <1>8, <2>1, <2>2
  <1>10. \A i \in DOMAIN key : key[i] # "broken"
    <2>1. /\ rest \in Seq(Char) /\ Len(rest) = Len(bucket) + 1 + Len(key)
          /\ \A i \in 1..Len(key) : rest[Len(bucket) + 1 + i] = key[i]
          /\ Len(bucket) \in Nat /\ Len(key) \in Nat /\ DOMAIN key = 1..Len(key)
      BY <1>3, <1>7 DEF IsSlashed
    <2>2. \A i \in 1..Len(key) : Len(bucket) + 1 + i \in 1..Len(rest)
      BY <2>1
    <2> QED
      BY <1>9, <2>1, <2>2
  <1>11. Unescaped(key) = key
    BY <1>1, <1>3, PlainUnescaped
  <1> QED
    BY <1>1, <1>10, <1>11 DEF Decode

\* Where a source can be joined, the server has its key at the path it copies from.
LEMMA SourceLocated ==
    ASSUME NEW c \in CopyCalls, CopySource(c.source) # Bad, Plain(c.from.key),
           CopySource(c.source).bucket \in Buckets, SafeJoin(CopySource(c.source).key) # Bad
    PROVE  LET k == KeyOf(c.from.bucket, c.from.key)
           IN  /\ Located(k) /\ Plain(k.key) /\ k = KeyOf(k.bucket, k.key)
               /\ PlaceOf(k) = At(CopySource(c.source).bucket, CopySource(c.source).key)
  <1>1. PICK bucket, key : bucket = c.from.bucket /\ key = c.from.key
    OBVIOUS
  <1>2. CopySource(c.source).bucket = bucket /\ CopySource(c.source).key = key
    <2>1. CopySource(c.source) = [bucket |-> bucket, key |-> key]
      BY <1>1, CopyMeans
    <2> QED
      BY <2>1
  <1>3. key \in Seq(Char) /\ Decode(key) = key /\ Unescaped(key) = key /\ Plain(key)
    BY <1>1, SourceDecodes, TextAssumption, StringsAreChars
  <1>4. PICK k : k = KeyOf(bucket, key)
    OBVIOUS
  <1>5. k.bucket = bucket /\ k.key = key
    BY <1>4 DEF KeyOf
  <1>7. Located(k) /\ PlaceOf(k) = At(bucket, key)
    BY <1>2, <1>3, <1>5 DEF Located, PlaceOf
  <1> QED
    BY <1>1, <1>2, <1>3, <1>4, <1>5, <1>7

\* A copy has the object of its source, and is refused as missing only where S3 has none.
LEMMA CopyMaps ==
    ASSUME MapInv, NEW c \in CopyCalls, Copy(c)
    PROVE  MapInv' /\ AnswersMap'
  <1> DEFINE source == CopySource(c.source)
  <1>1. c.key \in Seq(Char)
    BY TextAssumption, StringsAreChars
  <1>2. PICK k : k = KeyOf(c.from.bucket, c.from.key)
    OBVIOUS
  <1>3. k.bucket = c.from.bucket /\ k.key = c.from.key
    BY <1>2 DEF KeyOf
  <1>4. PICK p : p = At(source.bucket, source.key)
    OBVIOUS
  <1>5. /\ Held(c.from.bucket, c.from.key)' = HeldAt(k)'
        /\ Displaced(c.from.bucket, c.from.key)' = Displaced(k.bucket, k.key)'
    BY <1>2, <1>3 DEF Held, HeldAt
  <1>6. source # Bad => source.bucket = k.bucket
    <2>1. SUFFICES ASSUME source # Bad PROVE source.bucket = k.bucket
      OBVIOUS
    <2>2. source = [bucket |-> c.from.bucket, key |-> c.from.key]
      BY <2>1, CopyMeans
    <2> QED
      BY <1>3, <2>2
  <1>7. source # Bad /\ source.bucket \in Buckets /\ SafeJoin(source.key) # Bad /\ Plain(c.from.key)
            => Located(k) /\ Plain(k.key) /\ k = KeyOf(k.bucket, k.key) /\ PlaceOf(k) = p
    BY <1>2, <1>4, SourceLocated
  <1>8. CASE PutAcl(c) \/ Refusal(c) # "none" \/ CopyRefusal(c) # "none"
    <2>1. UNCHANGED <<stored, cache>>
      BY <1>8 DEF Copy
    <2>2. MapInv'
      BY <2>1, SameMap
    <2>3. HeldAt(k)' = HeldAt(k) /\ Displaced(k.bucket, k.key)' = Displaced(k.bucket, k.key)
      BY <2>1 DEF stored, HeldAt, Displaced
    <2>4. /\ answer'.op = "COPY" /\ answer'.call = c /\ answer'.body = Nothing
          /\ answer'.status = CASE PutAcl(c) -> "200"
                                [] ~ PutAcl(c) /\ Refusal(c) # "none" -> Refusal(c)
                                [] OTHER -> CopyRefusal(c)
      BY <1>8 DEF Copy, Say, Answer
    <2>5. SUFFICES ASSUME Refusal(c) = "none", Plain(c.from.key),
                          ~ Displaced(k.bucket, k.key),
                          answer'.status \in {"NoSuchBucket", "NoSuchKey"}
                   PROVE  HeldAt(k) = Nothing
      BY <1>5, <2>2, <2>3, <2>4 DEF AnswersMap
    <2>6. CopyRefusal(c) \in {"NoSuchBucket", "NoSuchKey"}
      BY <2>4, <2>5
    <2>7. \/ source # Bad /\ source.bucket \notin Buckets
          \/ /\ source # Bad /\ source.bucket \in Buckets /\ SafeJoin(source.key) # Bad
             /\ ~ Exists(p)
      BY <1>4, <2>6 DEF CopyRefusal
    <2>8. CASE source # Bad /\ source.bucket \notin Buckets
      <3>1. ~ Located(k)
        BY <1>6, <2>8 DEF Located
      <3> QED
        BY <3>1 DEF MapInv, KeysWritten, HeldAt
    <2>9. CASE /\ source # Bad /\ source.bucket \in Buckets /\ SafeJoin(source.key) # Bad
               /\ ~ Exists(p)
      <3>1. Located(k) /\ Plain(k.key) /\ k = KeyOf(k.bucket, k.key) /\ PlaceOf(k) = p
        BY <1>7, <2>5, <2>9
      <3>2. HeldAt(k) = ObjectAt(p)
        BY <2>5, <3>1, ReadsMap
      <3> QED
        BY <2>9, <3>2 DEF ObjectAt
    <2> QED
      BY <2>7, <2>8, <2>9
  <1>9. CASE ~ (PutAcl(c) \/ Refusal(c) # "none" \/ CopyRefusal(c) # "none")
    <2>1. /\ source # Bad /\ source.bucket \in Buckets /\ SafeJoin(source.key) # Bad
          /\ Exists(p) /\ p # PathOf(c)
      BY <1>4, <1>9 DEF CopyRefusal
    <2>2. PICK body : body = object[p]
      OBVIOUS
    <2>3. /\ Store("COPY", c, body)
          /\ IF CanWrite(PathOf(c)) THEN Recache(c, Nothing) ELSE UNCHANGED cache
      BY <1>4, <1>9, <2>2 DEF Copy
    <2>4. CASE ~ CanWrite(PathOf(c))
      <3>1. UNCHANGED <<stored, cache>> /\ Say(Answer("COPY", c, "500", Nothing))
        BY <2>3, <2>4 DEF Store
      <3>2. MapInv'
        BY <3>1, SameMap
      <3>3. AnswersMap'
        BY <3>1 DEF Say, Answer, AnswersMap
      <3> QED
        BY <3>2, <3>3
    <2>5. CASE CanWrite(PathOf(c))
      <3>1. Recache(c, Nothing)
        BY <2>3, <2>5
      <3>2. MapInv' /\ \A q : q # PathOf(c) => ObjectAt(q)' = ObjectAt(q)
        <4>1. Refusal(c) = "none"
          BY <1>9
        <4> HIDE DEF source
        <4> QED
          BY <1>1, <2>3, <2>5, <3>1, <4>1, WriteKeepsMap
      <3>3. ObjectAt(p)' = body
        BY <2>1, <2>2, <3>2 DEF ObjectAt
      <3>4. answer'.op = "COPY" /\ answer'.call = c /\ answer'.body = body /\ answer'.status = "200"
        BY <2>3, <2>5 DEF Store, Say, Answer
      <3>5. SUFFICES ASSUME Plain(c.from.key), ~ Displaced(k.bucket, k.key)'
                     PROVE  HeldAt(k)' = body
        BY <1>5, <3>2, <3>4 DEF AnswersMap
      <3>6. Located(k) /\ Plain(k.key) /\ k = KeyOf(k.bucket, k.key) /\ PlaceOf(k) = p
        BY <1>7, <2>1, <3>5
      <3>7. HeldAt(k)' = ObjectAt(p)'
        BY <3>2, <3>5, <3>6, ReadsMapThen DEF ReadsAt
      <3> QED
        BY <3>3, <3>7
    <2> QED
      BY <2>4, <2>5
  <1> QED
    BY <1>8, <1>9

LEMMA PutMaps ==
    ASSUME MapInv, NEW c \in PutCalls, Put(c)
    PROVE  MapInv' /\ AnswersMap'
  <1>1. c.key \in Seq(Char)
    BY TextAssumption, StringsAreChars
  <1>2. answer'.op = "PUT"
    BY DEF Put, Store, Say, Answer
  <1>3. CASE UNCHANGED <<stored, cache>>
    BY <1>2, <1>3, OtherMaps, SameMap
  <1>4. CASE ~ UNCHANGED <<stored, cache>>
    <2>1. PICK body : body = [name |-> MeantBy(c), size |-> c.size]
      OBVIOUS
    <2>2. /\ Refusal(c) = "none" /\ Store("PUT", c, body)
          /\ IF CanWrite(PathOf(c)) THEN Recache(c, body) ELSE UNCHANGED cache
      BY <1>4, <2>1 DEF Put
    <2>3. CanWrite(PathOf(c))
      BY <1>4, <2>2 DEF Store
    <2>4. MapInv'
      BY <1>1, <2>2, <2>3, WriteKeepsMap
    <2> QED
      BY <1>2, <2>4, OtherMaps
  <1> QED
    BY <1>3, <1>4

LEMMA InitMaps == Init => MapInv /\ AnswersMap
  BY DEF Init, MapInv, InsideBuckets, HoldersHold, ObjectsWritten, KeysWritten, EntriesWritten,
         AnswersMap

GatewayInv == RangeInv /\ MapInv /\ AnswersMap

LEMMA NextMaps == GatewayInv /\ [Next]_vars => MapInv' /\ AnswersMap'
  <1> SUFFICES ASSUME GatewayInv, [Next]_vars PROVE MapInv' /\ AnswersMap'
    OBVIOUS
  <1>0. MapInv /\ AnswersMap /\ SizesKnown
    BY DEF GatewayInv, RangeInv
  <1>1. UNCHANGED <<stored, cache>> => MapInv'
    BY <1>0, SameMap
  <1>2. ASSUME NEW c \in GetCalls, GetObject(c) PROVE MapInv' /\ AnswersMap'
    <2>1. UNCHANGED <<stored, cache>>
      BY <1>2 DEF GetObject
    <2>2. c.key \in Seq(Char)
      BY TextAssumption, StringsAreChars
    <2>3. /\ answer'.op = "GET" /\ answer'.call = c
          /\ Refusal(c) = "none" /\ answer'.body # Acl => answer'.body = ObjectAt(PathOf(c))
      BY <1>0, <1>2, GetSays DEF SizesKnown
    <2>4. ObjectAt(PathOf(c))' = ObjectAt(PathOf(c))
      BY <2>1 DEF stored, ObjectAt, Exists
    <2>5. AnswersMap'
      BY <1>1, <2>1, <2>2, <2>3, <2>4, ReadAnswers
    <2> QED
      BY <1>1, <2>1, <2>5
  <1>3. ASSUME NEW c \in HeadCalls, HeadObject(c) PROVE MapInv' /\ AnswersMap'
    <2>1. c.key \in Seq(Char) /\ UNCHANGED stored
      BY <1>3, TextAssumption, StringsAreChars DEF HeadObject
    <2>2. ObjectAt(PathOf(c))' = ObjectAt(PathOf(c))
      BY <2>1 DEF stored, ObjectAt, Exists
    <2> DEFINE Fresh == Refusal(c) # "400" /\ CachedAs(c) \in DOMAIN cache
               Found == ~ Fresh /\ Refusal(c) = "none" /\ Exists(PathOf(c))
    <2>3. CASE Fresh
      <3>1. /\ Say(Answer("HEAD", c, "200", cache[CachedAs(c)])) /\ UNCHANGED cache
        BY <1>3, <2>3 DEF HeadObject
      <3>2. answer'.op = "HEAD" /\ answer'.call = c /\ answer'.body = cache'[CachedAs(c)]
        BY <3>1 DEF Say, Answer
      <3>3. CachedAs(c) \in DOMAIN cache'
        BY <2>3, <3>1
      <3>4. MapInv'
        BY <1>1, <2>1, <3>1
      <3> QED
        BY <2>1, <3>2, <3>3, <3>4, ReadAnswers
    <2>4. CASE Found
      <3>1. /\ Say(Answer("HEAD", c, "200", object[PathOf(c)]))
            /\ cache' = With(cache, CachedAs(c), object[PathOf(c)])
        BY <1>3, <2>4 DEF HeadObject
      <3>2. /\ answer'.op = "HEAD" /\ answer'.call = c
            /\ answer'.body = ObjectAt(PathOf(c))
        BY <2>4, <3>1 DEF Say, Answer, ObjectAt
      <3>3. PICK k : k = MeantBy(c)
        OBVIOUS
      <3>4. Located(k) /\ PlaceOf(k) = PathOf(c) /\ EntryOf(k) = CachedAs(c)
        BY <2>1, <2>4, <3>3, Passed
      <3>5. MapInv'
        BY <1>0, <2>1, <2>4, <3>1, <3>4, CachingKeepsMap
      <3> QED
        BY <2>1, <2>2, <3>2, <3>5, ReadAnswers
    <2>5. CASE ~ Fresh /\ ~ Found
      <3>1. /\ Say(Answer("HEAD", c, IF Refusal(c) = "none" THEN "NoSuchKey" ELSE Refusal(c),
                          Nothing))
            /\ UNCHANGED cache
        BY <1>3, <2>5 DEF HeadObject
      <3>2. answer'.op = "HEAD" /\ answer'.call = c /\ answer'.body = Nothing
        BY <3>1 DEF Say, Answer
      <3>3. Refusal(c) = "none" => ObjectAt(PathOf(c)) = Nothing
        BY <2>5 DEF ObjectAt
      <3>4. MapInv'
        BY <1>1, <2>1, <3>1
      <3> QED
        BY <2>1, <2>2, <3>2, <3>3, <3>4, ReadAnswers
    <2> QED
      BY <2>3, <2>4, <2>5
  <1>4. ASSUME NEW c \in PutCalls, Put(c) PROVE MapInv' /\ AnswersMap'
    BY <1>0, <1>4, PutMaps
  <1>5. ASSUME NEW c \in CopyCalls, Copy(c) PROVE MapInv' /\ AnswersMap'
    BY <1>0, <1>5, CopyMaps
  <1>6. ASSUME NEW c \in DeleteCalls, Delete(c) PROVE MapInv' /\ AnswersMap'
    <2>1. answer'.op = "DELETE"
      BY <1>6 DEF Delete, Say, Answer
    <2> QED
      BY <1>0, <1>6, <2>1, DeleteKeepsMap, OtherMaps
  <1>7. ASSUME NEW c \in BucketCalls, HeadBucket(c) PROVE MapInv' /\ AnswersMap'
    <2>1. answer'.op = "HEADBUCKET" /\ UNCHANGED <<stored, cache>>
      BY <1>7 DEF HeadBucket, Say, Answer
    <2> QED
      BY <1>1, <2>1, OtherMaps
  <1>8. ASSUME NEW e \in DOMAIN cache, Forget(e) PROVE MapInv' /\ AnswersMap'
    <2>1. answer' = Nothing
      BY <1>8 DEF Forget
    <2> QED
      BY <1>0, <1>8, <2>1, ForgettingKeepsMap DEF AnswersMap
  <1>9. CASE Finish
    BY <1>1, <1>9 DEF Finish, AnswersMap
  <1>10. CASE UNCHANGED vars
    <2>1. UNCHANGED <<stored, cache>> /\ answer' = answer
      BY <1>10 DEF vars, stored
    <2> QED
      BY <1>0, <1>1, <2>1 DEF stored, AnswersMap, Held, Displaced
  <1> QED
    BY <1>2, <1>3, <1>4, <1>5, <1>6, <1>7, <1>8, <1>9, <1>10 DEF Next

LEMMA GatewayAlways == Spec => []GatewayInv
  <1>1. Init => GatewayInv
    BY InitRange, InitMaps DEF GatewayInv
  <1>2. GatewayInv /\ [Next]_vars => GatewayInv'
    BY NextRange, NextMaps DEF GatewayInv
  <1> QED
    BY <1>1, <1>2, PTL DEF Spec

\* safe_join: whatever URLs say, however often they are escaped, every object is under
\* the storage of a configured bucket, and no name of its path leads up or nowhere.
THEOREM StayInside == Spec => []InsideBuckets
  <1>1. GatewayInv => InsideBuckets
    BY DEF GatewayInv, MapInv
  <1> QED
    BY <1>1, GatewayAlways, PTL

\* The object handlers and the cache together are S3's map: a read has the last write under
\* its key, a deleted key is gone, and a copy is of the object that its source names.  It is
\* not so of keys with a percent sign, nor of a key at whose path another was written last.
THEOREM HandlersAreMap == Spec => []AnswersMap
  <1>1. GatewayInv => AnswersMap
    BY DEF GatewayInv
  <1> QED
    BY <1>1, GatewayAlways, PTL

\* put_object and copy_object: a request with ?acl writes no object.
THEOREM AclWritesNothing == Spec => AclNeverWrites
  <1> DEFINE A == object' # object => ~ (answer'.op \in {"PUT", "COPY"} /\ answer'.call.acl)
  <1>1. Next => A
    <2> SUFFICES ASSUME Next, object' # object, answer'.op \in {"PUT", "COPY"}
                 PROVE  ~ answer'.call.acl
      OBVIOUS
    <2>1. ASSUME NEW op, NEW c, NEW body, Store(op, c, body), ~ PutAcl(c), Refusal(c) = "none"
          PROVE  ~ answer'.call.acl
      <3>1. answer'.call = c
        BY <2>1 DEF Store, Say, Answer
      <3>2. ~ c.acl
        BY <2>1 DEF PutAcl, HasAclQuery
      <3> QED
        BY <3>1, <3>2
    <2>2. ASSUME NEW c \in PutCalls, Put(c) PROVE ~ answer'.call.acl
      <3>1. ~ (PutAcl(c) \/ Refusal(c) # "none")
        BY <2>2 DEF Put, stored
      <3>2. Store("PUT", c, [name |-> MeantBy(c), size |-> c.size])
        BY <2>2, <3>1 DEF Put
      <3> QED
        BY <2>1, <3>1, <3>2
    <2>3. ASSUME NEW c \in CopyCalls, Copy(c) PROVE ~ answer'.call.acl
      <3> DEFINE source == CopySource(c.source)
      <3>1. ~ (PutAcl(c) \/ Refusal(c) # "none" \/ CopyRefusal(c) # "none")
        BY <2>3 DEF Copy, stored
      <3>2. Store("COPY", c, object[At(source.bucket, source.key)])
        BY <2>3, <3>1 DEF Copy
      <3> QED
        BY <2>1, <3>1, <3>2
    <2>4. ASSUME NEW c \in DeleteCalls, Delete(c) PROVE FALSE
      BY <2>4 DEF Delete, Say, Answer
    <2> QED
      BY <2>2, <2>3, <2>4 DEF Next, GetObject, HeadObject, HeadBucket, Forget, Finish, stored
  <1>2. [Next]_vars => [A]_vars
    BY <1>1
  <1> QED
    BY <1>2, PTL DEF Spec, AclNeverWrites
=============================================================================
