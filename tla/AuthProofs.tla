----------------------------- MODULE AuthProofs -----------------------------
(***************************************************************************)
(* Theorems about Auth, for all configurations, calls and clocks: who is   *)
(* let in, how long a signature in a query counts, and that what the       *)
(* presigner and the SDKs sign is accepted.                                *)
(***************************************************************************)
EXTENDS Auth, SequenceInduction

-----------------------------------------------------------------------------
(* Queries.                                                                *)

\* Part i is the last of its name, which is n.
IsLast(parts, n, i) ==
    /\ i \in DOMAIN parts /\ parts[i].name = n
    /\ \A j \in DOMAIN parts : parts[j].name = n => j <= i

LastOf(parts, n) == CHOOSE i \in DOMAIN parts :
    parts[i].name = n /\ \A j \in DOMAIN parts : parts[j].name = n => j <= i

LEMMA OneLast ==
    ASSUME NEW parts, DOMAIN parts \subseteq Nat, NEW n, NEW i, IsLast(parts, n, i)
    PROVE  LastOf(parts, n) = i
  <1>1. IsLast(parts, n, LastOf(parts, n))
    BY DEF IsLast, LastOf
  <1>2. LastOf(parts, n) <= i /\ i <= LastOf(parts, n)
    BY <1>1 DEF IsLast
  <1>3. LastOf(parts, n) \in Nat /\ i \in Nat
    BY <1>1 DEF IsLast
  <1> QED
    BY <1>2, <1>3

LEMMA LastExists ==
    ASSUME NEW parts, NEW m \in Nat, DOMAIN parts = 1 .. m, NEW n,
           NEW i \in 1 .. m, parts[i].name = n
    PROVE  \E k \in DOMAIN parts : IsLast(parts, n, k)
  <1> DEFINE T == {m - j : j \in {l \in 1 .. m : parts[l].name = n}}
  <1>1. T \subseteq Nat /\ m - i \in T
    OBVIOUS
  <1>2. PICK d \in T : \A x \in T : d <= x
    BY <1>1, Least
  <1>3. PICK k \in 1 .. m : parts[k].name = n /\ d = m - k
    BY <1>2
  <1>4. ASSUME NEW j \in 1 .. m, parts[j].name = n PROVE j <= k
    <2>1. m - j \in T
      BY <1>4
    <2>2. m - k <= m - j
      BY <1>2, <1>3, <2>1
    <2> QED
      BY <2>2
  <1> QED
    BY <1>3, <1>4 DEF IsLast

ValueIn(part) == IF IsFlag(part) THEN Empty ELSE part.value

LEMMA QueryIs ==
    ASSUME NEW parts
    PROVE  ParseQuery(parts) = [n \in {parts[i].name : i \in DOMAIN parts} |->
                                    ValueIn(parts[LastOf(parts, n)])]
  BY DEF ParseQuery, ValueIn, LastOf

\* The last part of a name is the one that counts.
LEMMA LastCounts ==
    ASSUME NEW parts, DOMAIN parts \subseteq Nat, NEW n, NEW i, IsLast(parts, n, i)
    PROVE  n \in DOMAIN ParseQuery(parts) /\ ParseQuery(parts)[n] = ValueIn(parts[i])
  <1>1. n \in {parts[j].name : j \in DOMAIN parts}
    BY DEF IsLast
  <1>2. LastOf(parts, n) = i
    BY OneLast
  <1> QED
    BY <1>1, <1>2, QueryIs

\* What is left of a query when the signature is taken out, which is what is signed.
Rest(parts) == [n \in DOMAIN ParseQuery(parts) \ {"X-Amz-Signature"} |-> ParseQuery(parts)[n]]

-----------------------------------------------------------------------------
(* Signatures.                                                             *)

LEMMA MacIs ==
    ASSUME NEW k, NEW t, NEW l, NEW u, Mac(k, t) = Mac(l, u)
    PROVE  k = l /\ t = u
  BY DEF Mac

\* What is verified is a call with this secret, method, path and query.
Covers(p, secret, method, path, query) ==
    /\ p.secret = secret /\ p.method = method /\ p.path = path
    /\ [n \in DOMAIN p.query \ {"X-Amz-Signature"} |-> p.query[n]] = query

\* A signature verifies only for what it was made of and under its key.
LEMMA SignedFor ==
    ASSUME NEW p, NEW pair, NEW method, NEW path, NEW query, NEW headers, NEW payload,
           NEW date, NEW region,
           VerifySignature(p, Signed(pair, method, path, query, headers, payload, date, region))
    PROVE  Covers(p, pair.secret, method, path, query)
  <1> DEFINE request == CanonicalRequest(p.method, p.path, p.query, p.headers, p.payload)
             key == SigningKey(p.secret, DayOf(p.date), p.region, p.service)
             text == StringToSign(p.date, p.region, p.service, request)
             made == [method |-> method, path |-> path, query |-> query,
                      headers |-> headers, payload |-> payload]
             madeText == [date |-> date, scope |-> <<DayOf(date), region, "s3">>,
                          request |-> made]
             madeKey == <<pair.secret, DayOf(date), region, "s3">>
  <1>1. Mac(madeKey, madeText) = Mac(key, text)
    BY DEF VerifySignature, Signed
  <1>2. madeKey = key /\ madeText = text
    <2> HIDE DEF madeKey, madeText, key, text
    <2> QED
      BY <1>1, MacIs
  <1>3. p.secret = pair.secret
    BY <1>2 DEF SigningKey
  <1>4. request = made
    <2>1. text.request = request
      BY DEF StringToSign
    <2>2. madeText.request = made
      OBVIOUS
    <2> QED
      BY <2>1, <2>2, <1>2
  <1>5. /\ request.method = p.method /\ request.path = p.path
        /\ request.query = [n \in DOMAIN p.query \ {"X-Amz-Signature"} |-> p.query[n]]
    BY DEF CanonicalRequest
  <1>6. made.method = method /\ made.path = path /\ made.query = query
    OBVIOUS
  <1> QED
    <2> HIDE DEF request, made
    <2> QED
      BY <1>3, <1>4, <1>5, <1>6 DEF Covers

\* A pair is known by its access key and its secret.
LEMMA SamePair ==
    ASSUME NEW p \in Pairs, config \in Configs, config.auth # NoAuth,
           config.auth.access = p.access, config.auth.secret = p.secret
    PROVE  p = config.auth
  <1>1. PICK c \in Configs : c.auth = p /\ c.auth # NoAuth
    BY DEF Pairs
  <1>2. p = [access |-> p.access, secret |-> p.secret]
    BY <1>1, ConfigAssumption
  <1>3. config.auth = [access |-> config.auth.access, secret |-> config.auth.secret]
    BY ConfigAssumption
  <1> QED
    BY <1>2, <1>3

-----------------------------------------------------------------------------
(* What the presigner issues.                                              *)

BaseOf(pair, date, expires) ==
    <<Part("X-Amz-Algorithm", "AWS4-HMAC-SHA256"),
      Part("X-Amz-Credential", Credential(pair, date, "us-east-1")),
      Part("X-Amz-Date", date), Part("X-Amz-Expires", expires),
      Part("X-Amz-SignedHeaders", {"host"})>>

PresignedBy(pair, port, date, method, k, expires) ==
    Signed(pair, method, RawPath(k), AsMap(BaseOf(pair, date, expires)),
           [h \in {"host"} |-> port], "UNSIGNED-PAYLOAD", date, "us-east-1")

\* The URL that a server with configuration c issues at time t.
UrlOf(c, t, method, k, expires) ==
    [method |-> method, key |-> k, port |-> c.port, expires |-> expires,
     issued |-> t, pair |-> c.auth,
     parts |-> Append(BaseOf(c.auth, SecondOf(t), expires),
                      Part("X-Amz-Signature",
                           PresignedBy(c.auth, c.port, SecondOf(t), method, k, expires)))]

Issuable == {UrlOf(c, t, call.method, call.key, e) :
                 c \in {d \in Configs : d.auth # NoAuth}, t \in Clocks, call \in UrlCalls,
                 e \in Lifetimes}

LEMMA IssuesUrls ==
    ASSUME NEW method, NEW k, NEW e
    PROVE  PresignedUrl(method, k, e) = UrlOf(config, clock, method, k, e)
  BY DEF PresignedUrl, UrlOf, UrlHost, PresignParams, BaseOf, PresignedBy, Signed

\* A URL taken apart: its five parameters and the signature over them.
LEMMA UrlParts ==
    ASSUME NEW u \in Issuable
    PROVE  /\ u.pair \in Pairs /\ u.issued \in Clocks /\ u.expires \in Lifetimes
           /\ [method |-> u.method, key |-> u.key] \in UrlCalls
           /\ u.port \in {c.port : c \in Configs}
           /\ u.parts = Append(BaseOf(u.pair, SecondOf(u.issued), u.expires),
                  Part("X-Amz-Signature", PresignedBy(u.pair, u.port, SecondOf(u.issued),
                                                      u.method, u.key, u.expires)))
  <1>1. PICK c \in Configs, t \in Clocks, call \in UrlCalls, e \in Lifetimes :
            c.auth # NoAuth /\ u = UrlOf(c, t, call.method, call.key, e)
    BY DEF Issuable
  <1>2. /\ u.pair = c.auth /\ u.issued = t /\ u.expires = e
        /\ u.method = call.method /\ u.key = call.key /\ u.port = c.port
    BY <1>1 DEF UrlOf
  <1>3. u.parts = Append(BaseOf(c.auth, SecondOf(t), e),
                      Part("X-Amz-Signature",
                           PresignedBy(c.auth, c.port, SecondOf(t), call.method, call.key, e)))
    BY <1>1 DEF UrlOf
  <1>4. u.pair \in Pairs
    BY <1>1, <1>2 DEF Pairs
  <1>5. [method |-> u.method, key |-> u.key] \in UrlCalls
    BY <1>2, ConfigAssumption
  <1> QED
    BY <1>2, <1>3, <1>4, <1>5

LEMMA AppendKeeps ==
    ASSUME NEW S, NEW s \in Seq(S), NEW e \in S
    PROVE  \A i \in 1 .. Len(s) : Append(s, e)[i] = s[i]
  OBVIOUS

\* Five parts and one more.
LEMMA SixParts ==
    ASSUME NEW a, NEW b, NEW c, NEW d, NEW e, NEW f
    PROVE  LET six == Append(<<a, b, c, d, e>>, f)
           IN  /\ DOMAIN six = 1 .. 6 /\ six \in Seq({a, b, c, d, e, f})
               /\ six[1] = a /\ six[2] = b /\ six[3] = c /\ six[4] = d /\ six[5] = e
               /\ six[6] = f
               /\ SubSeq(six, 1, 5) = <<a, b, c, d, e>>
  <1> DEFINE S == {a, b, c, d, e, f}
             five == <<a, b, c, d, e>>
             six == Append(five, f)
  <1>1. five \in Seq(S) /\ Len(five) = 5 /\ f \in S
    OBVIOUS
  <1>2. /\ six \in Seq(S) /\ Len(six) = 6 /\ six[6] = f
        /\ \A i \in 1 .. 5 : six[i] = five[i]
    <2> HIDE DEF five, S
    <2>1. six \in Seq(S)
      BY <1>1, AppendProperties
    <2>2. Len(six) = Len(five) + 1
      BY <1>1, AppendProperties
    <2>3. \A i \in 1 .. Len(five) : six[i] = five[i]
      BY <1>1, AppendKeeps
    <2>4. six[Len(five) + 1] = f
      BY <1>1, AppendProperties
    <2> HIDE DEF six
    <2> QED
      BY <1>1, <2>1, <2>2, <2>3, <2>4
  <1>3. DOMAIN six = 1 .. 6
    BY <1>2
  <1>4. /\ SubSeq(six, 1, 5) \in Seq(S) /\ Len(SubSeq(six, 1, 5)) = 5
        /\ \A i \in 1 .. 5 : SubSeq(six, 1, 5)[i] = six[i]
    <2> HIDE DEF six, S
    <2>1. \A i \in 1 .. 5 : six[i] \in S
      BY <1>2, ElementOfSeq
    <2>2. SubSeq(six, 1, 5) \in Seq(S)
      BY <2>1, SubSeqProperties
    <2>3. Len(SubSeq(six, 1, 5)) = 5 - 1 + 1
      BY <2>1, SubSeqProperties
    <2>4. \A i \in 1 .. 5 - 1 + 1 : SubSeq(six, 1, 5)[i] = six[1 + i - 1]
      BY <2>1, SubSeqProperties
    <2> QED
      BY <2>2, <2>3, <2>4
  <1>5. SubSeq(six, 1, 5) = five
    <2> HIDE DEF six, S, five
    <2> QED
      BY <1>1, <1>2, <1>4, SeqEqual
  <1>6. six[1] = a /\ six[2] = b /\ six[3] = c /\ six[4] = d /\ six[5] = e
    <2>1. five[1] = a /\ five[2] = b /\ five[3] = c /\ five[4] = d /\ five[5] = e
      OBVIOUS
    <2> HIDE DEF six, five
    <2> QED
      BY <1>2, <2>1
  <1> QED
    BY <1>2, <1>3, <1>5, <1>6

LEMMA PartHas ==
    ASSUME NEW n, NEW v
    PROVE  Part(n, v).name = n /\ ValueIn(Part(n, v)) = v
  BY DEF Part, ValueIn, IsFlag

LEMMA OneMore ==
    ASSUME NEW S, NEW s \in Seq(S), NEW x \in S
    PROVE  /\ DOMAIN Append(s, x) = 1 .. Len(s) + 1
           /\ Append(s, x)[Len(s) + 1] = x
  OBVIOUS

\* What was appended to a query counts for its own name only.
LEMMA StillLast ==
    ASSUME NEW S, NEW s \in Seq(S), NEW x \in S, NEW n, NEW i, IsLast(s, n, i), x.name # n
    PROVE  IsLast(Append(s, x), n, i) /\ Append(s, x)[i] = s[i]
  <1>1. i \in 1 .. Len(s) /\ s[i].name = n /\ \A j \in 1 .. Len(s) : s[j].name = n => j <= i
    BY DEF IsLast
  <1>2. Len(s) \in Nat
    OBVIOUS
  <1>3. /\ DOMAIN Append(s, x) = 1 .. Len(s) + 1 /\ Append(s, x)[Len(s) + 1] = x
        /\ \A j \in 1 .. Len(s) : Append(s, x)[j] = s[j]
    BY OneMore, AppendKeeps
  <1> DEFINE more == Append(s, x)
  <1> HIDE DEF more
  <1>4. /\ DOMAIN more = 1 .. Len(s) + 1 /\ more[Len(s) + 1] = x
        /\ \A j \in 1 .. Len(s) : more[j] = s[j]
    BY <1>3 DEF more
  <1>5. ASSUME NEW j \in 1 .. Len(s) + 1, more[j].name = n PROVE j <= i
    <2>1. j # Len(s) + 1
      BY <1>4, <1>5
    <2>2. j \in 1 .. Len(s)
      BY <1>2, <2>1
    <2> QED
      BY <1>1, <1>4, <1>5, <2>2
  <1>6. i \in 1 .. Len(s) + 1
    BY <1>1, <1>2
  <1>7. IsLast(more, n, i) /\ more[i] = s[i]
    BY <1>1, <1>4, <1>5, <1>6 DEF IsLast
  <1> QED
    BY <1>7 DEF more

\* The parts of a URL, with one more or without, that a client may send.
Used(parts, u) ==
    \/ parts = u.parts
    \/ \E x : x.name \in {"X-Amz-Expires", "acl"} /\ parts = Append(u.parts, x)

UrlSignature(u) ==
    PresignedBy(u.pair, u.port, SecondOf(u.issued), u.method, u.key, u.expires)

LEMMA UrlTold ==
    ASSUME NEW u \in Issuable
    PROVE  /\ \E S : u.parts \in Seq(S)
           /\ IsLast(u.parts, "X-Amz-Credential", 2)
           /\ IsLast(u.parts, "X-Amz-Date", 3)
           /\ IsLast(u.parts, "X-Amz-Signature", 6)
           /\ ValueIn(u.parts[2]) = Credential(u.pair, SecondOf(u.issued), "us-east-1")
           /\ ValueIn(u.parts[3]) = SecondOf(u.issued)
           /\ ValueIn(u.parts[6]) = UrlSignature(u)
           /\ SubSeq(u.parts, 1, 5) = BaseOf(u.pair, SecondOf(u.issued), u.expires)
  <1> DEFINE a == Part("X-Amz-Algorithm", "AWS4-HMAC-SHA256")
             b == Part("X-Amz-Credential", Credential(u.pair, SecondOf(u.issued), "us-east-1"))
             c == Part("X-Amz-Date", SecondOf(u.issued))
             d == Part("X-Amz-Expires", u.expires)
             e == Part("X-Amz-SignedHeaders", {"host"})
             f == Part("X-Amz-Signature", UrlSignature(u))
             parts == u.parts
  <1>1. BaseOf(u.pair, SecondOf(u.issued), u.expires) = <<a, b, c, d, e>>
    BY DEF BaseOf
  <1>2. parts = Append(<<a, b, c, d, e>>, f)
    BY UrlParts, <1>1 DEF UrlSignature
  <1>3. /\ a.name = "X-Amz-Algorithm" /\ b.name = "X-Amz-Credential" /\ c.name = "X-Amz-Date"
        /\ d.name = "X-Amz-Expires" /\ e.name = "X-Amz-SignedHeaders"
        /\ f.name = "X-Amz-Signature"
        /\ ValueIn(b) = Credential(u.pair, SecondOf(u.issued), "us-east-1")
        /\ ValueIn(c) = SecondOf(u.issued) /\ ValueIn(f) = UrlSignature(u)
    BY PartHas
  <1> HIDE DEF a, b, c, d, e, f
  <1>4. /\ DOMAIN parts = 1 .. 6 /\ parts \in Seq({a, b, c, d, e, f})
        /\ parts[1] = a /\ parts[2] = b /\ parts[3] = c /\ parts[4] = d /\ parts[5] = e
        /\ parts[6] = f
        /\ SubSeq(parts, 1, 5) = <<a, b, c, d, e>>
    BY <1>2, SixParts
  <1> HIDE DEF parts
  <1>5. /\ 2 \in 1 .. 6 /\ 3 \in 1 .. 6 /\ 6 \in 1 .. 6
        /\ \A j \in 1 .. 6 : j = 1 \/ j = 2 \/ j = 3 \/ j = 4 \/ j = 5 \/ j = 6
    OBVIOUS
  <1>6. IsLast(parts, "X-Amz-Credential", 2)
    BY <1>3, <1>4, <1>5 DEF IsLast
  <1>7. IsLast(parts, "X-Amz-Date", 3)
    BY <1>3, <1>4, <1>5 DEF IsLast
  <1>8. IsLast(parts, "X-Amz-Signature", 6)
    BY <1>3, <1>4, <1>5 DEF IsLast
  <1>9. \E S : parts \in Seq(S)
    BY <1>4
  <1> QED
    BY <1>1, <1>3, <1>4, <1>6, <1>7, <1>8, <1>9 DEF parts

LEMMA UsedTold ==
    ASSUME NEW u \in Issuable, NEW parts, Used(parts, u)
    PROVE  /\ {"X-Amz-Credential", "X-Amz-Date", "X-Amz-Signature"} \subseteq DOMAIN ParseQuery(parts)
           /\ ParseQuery(parts)["X-Amz-Credential"]
                  = Credential(u.pair, SecondOf(u.issued), "us-east-1")
           /\ ParseQuery(parts)["X-Amz-Date"] = SecondOf(u.issued)
           /\ ParseQuery(parts)["X-Amz-Signature"] = UrlSignature(u)
  <1> DEFINE At(n, i) == IsLast(parts, n, i) /\ parts[i] = u.parts[i]
  <1>1. PICK S : u.parts \in Seq(S)
    BY UrlTold
  <1>2. /\ IsLast(u.parts, "X-Amz-Credential", 2) /\ IsLast(u.parts, "X-Amz-Date", 3)
        /\ IsLast(u.parts, "X-Amz-Signature", 6)
    BY UrlTold
  <1>3. /\ At("X-Amz-Credential", 2) /\ At("X-Amz-Date", 3) /\ At("X-Amz-Signature", 6)
        /\ DOMAIN parts \subseteq Nat
    <2>1. CASE parts = u.parts
      BY <1>1, <1>2, <2>1
    <2>2. CASE parts # u.parts
      <3>1. PICK x : x.name \in {"X-Amz-Expires", "acl"} /\ parts = Append(u.parts, x)
        BY <2>2 DEF Used
      <3> DEFINE T == S \cup {x}
      <3>2. u.parts \in Seq(T) /\ x \in T
        BY <1>1
      <3> HIDE DEF T
      <3>3. ASSUME NEW n, NEW i, IsLast(u.parts, n, i), x.name # n
            PROVE  At(n, i)
        <4> DEFINE s == u.parts
        <4>0. s \in Seq(T) /\ IsLast(s, n, i)
          BY <3>2, <3>3
        <4> HIDE DEF s
        <4>2. IsLast(Append(s, x), n, i)
          BY <3>2, <3>3, <4>0, StillLast, Zenon
        <4>3. Append(s, x)[i] = s[i]
          BY <3>2, <3>3, <4>0, StillLast, Zenon
        <4>1. IsLast(Append(u.parts, x), n, i) /\ Append(u.parts, x)[i] = u.parts[i]
          BY <4>2, <4>3 DEF s
        <4> QED
          BY <3>1, <4>1
      <3>4. /\ x.name # "X-Amz-Credential" /\ x.name # "X-Amz-Date"
            /\ x.name # "X-Amz-Signature"
        BY <3>1
      <3> HIDE DEF At
      <3>5. /\ At("X-Amz-Credential", 2) /\ At("X-Amz-Date", 3) /\ At("X-Amz-Signature", 6)
        BY <1>2, <3>3, <3>4
      <3>6. DOMAIN parts = 1 .. Len(u.parts) + 1
        BY <3>1, <3>2, OneMore
      <3>7. Len(u.parts) \in Nat
        BY <1>1
      <3> QED
        BY <3>5, <3>6, <3>7
    <2> QED
      BY <2>1, <2>2
  <1>4. /\ "X-Amz-Credential" \in DOMAIN ParseQuery(parts)
        /\ ParseQuery(parts)["X-Amz-Credential"] = ValueIn(parts[2])
    BY <1>3, LastCounts
  <1>5. /\ "X-Amz-Date" \in DOMAIN ParseQuery(parts)
        /\ ParseQuery(parts)["X-Amz-Date"] = ValueIn(parts[3])
    BY <1>3, LastCounts
  <1>6. /\ "X-Amz-Signature" \in DOMAIN ParseQuery(parts)
        /\ ParseQuery(parts)["X-Amz-Signature"] = ValueIn(parts[6])
    BY <1>3, LastCounts
  <1> QED
    BY <1>3, <1>4, <1>5, <1>6, UrlTold

-----------------------------------------------------------------------------
(* What being let in takes.                                                *)

\* The pair itself, or a signature under it over just this call.
Entitled(q) ==
    \/ q.authorization = Basic(config.auth)
    \/ q.meant = Meaning(config.auth, q.method, q.path, Rest(q.parts))

LEMMA ByHeader ==
    ASSUME NEW q, LetIn(q), config.auth # NoAuth, q.authorization.form = "sigv4"
    PROVE  LET credential == q.authorization.credential
               date == q.headers["x-amz-date"]
           IN  /\ config.auth.access = credential.access
               /\ credential # Malformed /\ date # Malformed
               /\ VerifySignature(Params(q, q.authorization.names, credential, Payload(q), date),
                                  q.authorization.signature)
  BY DEF LetIn, VerifyHeaderAuth, VerifySignature, Params

LEMMA ByQuery ==
    ASSUME NEW q, LetIn(q), config.auth # NoAuth,
           q.authorization.form \notin {"sigv4", "basic"} \/ q.authorization.pair # config.auth,
           q.authorization.form # "sigv4"
    PROVE  LET query == ParseQuery(q.parts)
               credential == query["X-Amz-Credential"]
           IN  /\ {"X-Amz-Credential", "X-Amz-Date", "X-Amz-Expires", "X-Amz-Signature"}
                      \subseteq DOMAIN query
               /\ config.auth.access = credential.access
               /\ query["X-Amz-Expires"] \in 1 .. MaxLifetime
               /\ InTime(query["X-Amz-Date"], query["X-Amz-Expires"])
               /\ VerifySignature(Params(q, query["X-Amz-SignedHeaders"], credential,
                      "UNSIGNED-PAYLOAD", query["X-Amz-Date"]), query["X-Amz-Signature"])
  <1>1. VerifyQueryAuth(q)
    BY DEF LetIn
  <1> QED
    BY <1>1 DEF VerifyQueryAuth

LEMMA ParamsHave ==
    ASSUME NEW q, NEW names, NEW credential, NEW payload, NEW date
    PROVE  LET p == Params(q, names, credential, payload, date)
           IN  /\ p.secret = config.auth.secret /\ p.method = q.method /\ p.path = q.path
               /\ p.query = ParseQuery(q.parts)
  BY DEF Params

\* A signature under a signer's pair that verifies is under the configured pair
\* and over the call it is sent with.
LEMMA SignatureEntitles ==
    ASSUME NEW q, NEW names, NEW credential, NEW payload, NEW sent,
           NEW pair \in Pairs, NEW method, NEW path, NEW query, NEW headers, NEW signed,
           NEW date, NEW region,
           config \in Configs, config.auth # NoAuth, config.auth.access = pair.access,
           VerifySignature(Params(q, names, credential, payload, sent),
               Signed(pair, method, path, query, headers, signed, date, region)),
           q.meant = Meaning(pair, method, path, query)
    PROVE  q.meant = Meaning(config.auth, q.method, q.path, Rest(q.parts))
  <1> DEFINE p == Params(q, names, credential, payload, sent)
  <1>1. /\ p.secret = config.auth.secret /\ p.method = q.method /\ p.path = q.path
        /\ p.query = ParseQuery(q.parts)
    BY ParamsHave
  <1> HIDE DEF p
  <1>2. VerifySignature(p, Signed(pair, method, path, query, headers, signed, date, region))
    BY DEF p
  <1>3. /\ p.secret = pair.secret /\ p.method = method /\ p.path = path
        /\ [n \in DOMAIN p.query \ {"X-Amz-Signature"} |-> p.query[n]] = query
    <2>1. Covers(p, pair.secret, method, path, query)
      BY <1>2, SignedFor
    <2> QED
      BY <2>1 DEF Covers
  <1>4. Rest(q.parts) = query
    BY <1>1, <1>3 DEF Rest
  <1>5. pair = config.auth
    BY <1>1, <1>3, SamePair
  <1> QED
    BY <1>1, <1>3, <1>4, <1>5

-----------------------------------------------------------------------------
(* URLs, followed or used for something else.                              *)

\* In a map of parts with one of each name, a name has its part's value.
LEMMA MapAt ==
    ASSUME NEW parts, NEW x \in {parts[i] : i \in DOMAIN parts},
           \A p \in {parts[i] : i \in DOMAIN parts} : p.name = x.name => p = x
    PROVE  x.name \in DOMAIN AsMap(parts) /\ AsMap(parts)[x.name] = x.value
  <1> DEFINE S == {parts[i] : i \in DOMAIN parts}
             y == CHOOSE p \in S : p.name = x.name
  <1>1. y \in S /\ y.name = x.name
    OBVIOUS
  <1>2. y = x
    BY <1>1
  <1>3. x.name \in {parts[i].name : i \in DOMAIN parts}
    OBVIOUS
  <1> QED
    BY <1>2, <1>3 DEF AsMap

\* The parameters of a URL are read as the presigner wrote them.
LEMMA UrlParsed ==
    ASSUME NEW u \in Issuable
    PROVE  LET query == ParseQuery(u.parts)
           IN  /\ {"X-Amz-Credential", "X-Amz-Date", "X-Amz-Expires", "X-Amz-Signature",
                   "X-Amz-SignedHeaders"} \subseteq DOMAIN query
               /\ query["X-Amz-Expires"] = u.expires
               /\ query["X-Amz-SignedHeaders"] = {"host"}
               /\ Rest(u.parts) = AsMap(BaseOf(u.pair, SecondOf(u.issued), u.expires))
  <1> DEFINE a == Part("X-Amz-Algorithm", "AWS4-HMAC-SHA256")
             b == Part("X-Amz-Credential", Credential(u.pair, SecondOf(u.issued), "us-east-1"))
             c == Part("X-Amz-Date", SecondOf(u.issued))
             d == Part("X-Amz-Expires", u.expires)
             e == Part("X-Amz-SignedHeaders", {"host"})
             f == Part("X-Amz-Signature", UrlSignature(u))
             parts == u.parts
             base == <<a, b, c, d, e>>
             query == ParseQuery(parts)
             map == AsMap(base)
  <1>1. BaseOf(u.pair, SecondOf(u.issued), u.expires) = base
    BY DEF BaseOf
  <1>2. parts = Append(base, f)
    BY UrlParts, <1>1 DEF UrlSignature
  <1>3. /\ a.name = "X-Amz-Algorithm" /\ b.name = "X-Amz-Credential" /\ c.name = "X-Amz-Date"
        /\ d.name = "X-Amz-Expires" /\ e.name = "X-Amz-SignedHeaders"
        /\ f.name = "X-Amz-Signature"
    BY PartHas
  <1>4. \A p \in {a, b, c, d, e, f} : ValueIn(p) = p.value
    BY DEF Part, ValueIn, IsFlag
  <1>5. d.value = u.expires /\ e.value = {"host"}
    BY DEF Part
  <1> HIDE DEF a, b, c, d, e, f
  <1>6. /\ DOMAIN parts = 1 .. 6
        /\ parts[1] = a /\ parts[2] = b /\ parts[3] = c /\ parts[4] = d /\ parts[5] = e
        /\ parts[6] = f
    BY <1>2, SixParts
  <1>7. {base[i] : i \in DOMAIN base} = {a, b, c, d, e}
    <2>1. DOMAIN base = 1 .. 5
      OBVIOUS
    <2>2. base[1] = a /\ base[2] = b /\ base[3] = c /\ base[4] = d /\ base[5] = e
      OBVIOUS
    <2>3. /\ 1 \in 1 .. 5 /\ 2 \in 1 .. 5 /\ 3 \in 1 .. 5 /\ 4 \in 1 .. 5 /\ 5 \in 1 .. 5
          /\ \A j \in 1 .. 5 : j = 1 \/ j = 2 \/ j = 3 \/ j = 4 \/ j = 5
      OBVIOUS
    <2> HIDE DEF base
    <2> QED
      BY <2>1, <2>2, <2>3
  <1> HIDE DEF parts, base
  <1>8. /\ 1 \in 1 .. 6 /\ 2 \in 1 .. 6 /\ 3 \in 1 .. 6 /\ 4 \in 1 .. 6 /\ 5 \in 1 .. 6
        /\ 6 \in 1 .. 6
        /\ \A j \in 1 .. 6 : j = 1 \/ j = 2 \/ j = 3 \/ j = 4 \/ j = 5 \/ j = 6
    OBVIOUS
  <1>9. ASSUME NEW i \in 1 .. 6
        PROVE  /\ parts[i] \in {a, b, c, d, e, f}
               /\ query[parts[i].name] = parts[i].value /\ parts[i].name \in DOMAIN query
    <2>1. parts[i] \in {a, b, c, d, e, f}
      BY <1>6, <1>8
    <2>2. ASSUME NEW j \in 1 .. 6, parts[j].name = parts[i].name PROVE j <= i
      BY <1>3, <1>6, <1>8, <2>2
    <2>3. IsLast(parts, parts[i].name, i)
      BY <1>6, <2>2 DEF IsLast
    <2>4. DOMAIN parts \subseteq Nat
      BY <1>6
    <2>5. parts[i].name \in DOMAIN query /\ query[parts[i].name] = ValueIn(parts[i])
      BY <2>3, <2>4, LastCounts
    <2> QED
      BY <1>4, <2>1, <2>5
  <1> DEFINE names == {"X-Amz-Algorithm", "X-Amz-Credential", "X-Amz-Date", "X-Amz-Expires",
                       "X-Amz-SignedHeaders"}
  <1>10. DOMAIN query = names \cup {"X-Amz-Signature"}
    <2>1. DOMAIN query = {parts[i].name : i \in 1 .. 6}
      BY <1>6, QueryIs
    <2> HIDE DEF query
    <2> QED
      BY <1>3, <1>6, <1>8, <2>1
  <1>11. DOMAIN map = names
    <2>1. DOMAIN map = {p.name : p \in {base[i] : i \in DOMAIN base}}
      BY DEF AsMap
    <2> HIDE DEF map
    <2> QED
      BY <1>3, <1>7, <2>1
  <1>12. ASSUME NEW x \in {a, b, c, d, e}
         PROVE  map[x.name] = x.value
    <2>1. \A p \in {a, b, c, d, e} : p.name = x.name => p = x
      BY <1>3
    <2> QED
      BY <1>7, <2>1, MapAt
  <1>13. ASSUME NEW x \in {a, b, c, d, e, f}
         PROVE  query[x.name] = x.value
    BY <1>6, <1>8, <1>9
  <1> HIDE DEF query, map
  <1>14. \A n \in names : \E x \in {a, b, c, d, e} : x.name = n
    BY <1>3
  <1>15. \A n \in names : query[n] = map[n]
    <2> HIDE DEF names
    <2> QED
      BY <1>12, <1>13, <1>14
  <1>16. DOMAIN query \ {"X-Amz-Signature"} = names
    BY <1>10
  <1>17. Rest(parts) = [n \in names |-> map[n]]
    <2> HIDE DEF names
    <2> QED
      BY <1>15, <1>16 DEF Rest, query
  <1>18. map = [n \in DOMAIN map |-> map[n]]
    BY DEF map, AsMap
  <1>19. Rest(parts) = map
    BY <1>11, <1>17, <1>18
  <1>20. query["X-Amz-Expires"] = u.expires /\ query["X-Amz-SignedHeaders"] = {"host"}
    BY <1>3, <1>5, <1>13
  <1> QED
    BY <1>1, <1>10, <1>19, <1>20 DEF query, parts, map, base

LEMMA UrlMeant ==
    ASSUME NEW u \in Issuable
    PROVE  Followed(u).meant = Meaning(u.pair, u.method, RawPath(u.key),
                                   AsMap(BaseOf(u.pair, SecondOf(u.issued), u.expires)))
  <1>1. SubSeq(u.parts, 1, 5) = BaseOf(u.pair, SecondOf(u.issued), u.expires)
    BY UrlTold
  <1> QED
    BY <1>1 DEF Followed

LEMMA UrlUse ==
    ASSUME NEW u, NEW q \in {Followed(u)} \cup Strayed(u)
    PROVE  /\ q.meant = Followed(u).meant
           /\ Used(q.parts, u)
           /\ q.authorization = NoHeader \/ \E p : q.authorization = Basic(p)
  <1> DEFINE f == Followed(u)
  <1>0. f.parts = u.parts /\ f.authorization = NoHeader
    BY DEF Followed
  <1> HIDE DEF f
  <1>1. CASE q = f
    BY <1>0, <1>1 DEF Used, f
  <1>2. ASSUME NEW m \in Methods, q = [f EXCEPT !.method = m]
        PROVE  q.meant = f.meant /\ q.parts = f.parts /\ q.authorization = f.authorization
    BY <1>2 DEF f, Followed
  <1>3. ASSUME NEW k \in Keys, q = [f EXCEPT !.path = SentPath(k)]
        PROVE  q.meant = f.meant /\ q.parts = f.parts /\ q.authorization = f.authorization
    BY <1>3 DEF f, Followed
  <1>4. ASSUME NEW x, q = [f EXCEPT !.parts = Append(@, x)]
        PROVE  /\ q.meant = f.meant /\ q.parts = Append(f.parts, x)
               /\ q.authorization = f.authorization
    BY <1>4 DEF f, Followed
  <1>5. ASSUME NEW c, q = [f EXCEPT !.authorization = Basic(c)]
        PROVE  q.meant = f.meant /\ q.parts = f.parts /\ q.authorization = Basic(c)
    BY <1>5 DEF f, Followed
  <1>6. \/ q = f
        \/ \E m \in Methods : q = [f EXCEPT !.method = m]
        \/ \E k \in Keys : q = [f EXCEPT !.path = SentPath(k)]
        \/ \E e \in Lifetimes : q = [f EXCEPT !.parts = Append(@, Part("X-Amz-Expires", e))]
        \/ q = [f EXCEPT !.parts = Append(@, Flag("acl"))]
        \/ \E c \in Configs : q = [f EXCEPT !.authorization = Basic(c.auth)]
    BY DEF Strayed, f
  <1>7. Flag("acl").name = "acl" /\ \A e : Part("X-Amz-Expires", e).name = "X-Amz-Expires"
    BY DEF Flag, Part
  <1>8. CASE \E e \in Lifetimes : q = [f EXCEPT !.parts = Append(@, Part("X-Amz-Expires", e))]
    BY <1>0, <1>4, <1>7, <1>8 DEF Used, f
  <1>9. CASE q = [f EXCEPT !.parts = Append(@, Flag("acl"))]
    BY <1>0, <1>4, <1>7, <1>9 DEF Used, f
  <1> QED
    BY <1>0, <1>1, <1>2, <1>3, <1>5, <1>6, <1>8, <1>9 DEF Used, f

\* Whoever a URL lets in is entitled to the call, if it strayed from what was signed.
LEMMA UrlEntitles ==
    ASSUME NEW u \in Issuable, NEW q \in {Followed(u)} \cup Strayed(u),
           config \in Configs, config.auth # NoAuth, LetIn(q)
    PROVE  Entitled(q)
  <1>1. SUFFICES ASSUME q.authorization # Basic(config.auth)
                 PROVE  q.meant = Meaning(config.auth, q.method, q.path, Rest(q.parts))
    BY DEF Entitled
  <1>2. /\ q.meant = Followed(u).meant /\ Used(q.parts, u)
        /\ q.authorization = NoHeader \/ \E p : q.authorization = Basic(p)
    BY UrlUse
  <1>3. /\ q.authorization.form # "sigv4"
        /\ q.authorization.form # "basic" \/ q.authorization.pair # config.auth
    <2>1. CASE q.authorization = NoHeader
      BY <2>1 DEF NoHeader
    <2>2. ASSUME NEW p, q.authorization = Basic(p)
          PROVE  q.authorization.form = "basic" /\ q.authorization.pair = p
      BY <2>2 DEF Basic
    <2>3. CASE \E p : q.authorization = Basic(p)
      <3>1. PICK p : q.authorization = Basic(p)
        BY <2>3
      <3>2. p # config.auth
        BY <1>1, <3>1
      <3>3. q.authorization.form = "basic" /\ q.authorization.pair = p
        BY <2>2, <3>1
      <3> QED
        BY <3>2, <3>3
    <2> QED
      BY <1>2, <2>1, <2>3
  <1> DEFINE query == ParseQuery(q.parts)
             credential == Credential(u.pair, SecondOf(u.issued), "us-east-1")
             base == AsMap(BaseOf(u.pair, SecondOf(u.issued), u.expires))
             names == query["X-Amz-SignedHeaders"]
             sent == query["X-Amz-Date"]
  <1>4. query["X-Amz-Credential"] = credential /\ query["X-Amz-Signature"] = UrlSignature(u)
    BY <1>2, UsedTold
  <1>5. /\ config.auth.access = query["X-Amz-Credential"].access
        /\ VerifySignature(Params(q, names, query["X-Amz-Credential"], "UNSIGNED-PAYLOAD", sent),
                           query["X-Amz-Signature"])
    BY <1>3, ByQuery
  <1>6. config.auth.access = u.pair.access
    BY <1>4, <1>5 DEF Credential
  <1>7. q.meant = Meaning(u.pair, u.method, RawPath(u.key), base)
    BY <1>2, UrlMeant
  <1>8. u.pair \in Pairs
    BY UrlParts
  <1> HIDE DEF credential, names, sent, query
  <1>9. VerifySignature(Params(q, names, credential, "UNSIGNED-PAYLOAD", sent),
            Signed(u.pair, u.method, RawPath(u.key), base, [h \in {"host"} |-> u.port],
                   "UNSIGNED-PAYLOAD", SecondOf(u.issued), "us-east-1"))
    BY <1>4, <1>5 DEF UrlSignature, PresignedBy
  <1> HIDE DEF base
  <1> QED
    BY <1>6, <1>7, <1>8, <1>9, SignatureEntitles

\* A URL whose signature comes in the header is what it was.
LEMMA InHeaderHas ==
    ASSUME NEW u \in Issuable
    PROVE  LET q == InHeader(u)
           IN  /\ q.meant = Followed(u).meant
               /\ q.authorization.form = "sigv4" /\ q.authorization.names = {"host"}
               /\ q.authorization.credential = Credential(u.pair, SecondOf(u.issued), "us-east-1")
               /\ q.authorization.signature = UrlSignature(u)
  <1>1. Used(u.parts, u)
    BY DEF Used
  <1>2. /\ ParseQuery(u.parts)["X-Amz-Credential"]
              = Credential(u.pair, SecondOf(u.issued), "us-east-1")
        /\ ParseQuery(u.parts)["X-Amz-Signature"] = UrlSignature(u)
    BY <1>1, UsedTold
  <1>3. ParseQuery(u.parts)["X-Amz-SignedHeaders"] = {"host"}
    BY UrlParsed
  <1> QED
    BY <1>2, <1>3 DEF InHeader, Followed, Sigv4

LEMMA InHeaderEntitles ==
    ASSUME NEW u \in Issuable, config \in Configs, config.auth # NoAuth, LetIn(InHeader(u))
    PROVE  Entitled(InHeader(u))
  <1> DEFINE q == InHeader(u)
             credential == Credential(u.pair, SecondOf(u.issued), "us-east-1")
             base == AsMap(BaseOf(u.pair, SecondOf(u.issued), u.expires))
             names == q.authorization.names
             sent == q.headers["x-amz-date"]
  <1>1. /\ q.meant = Meaning(u.pair, u.method, RawPath(u.key), base)
        /\ q.authorization.form = "sigv4" /\ q.authorization.credential = credential
        /\ q.authorization.signature = UrlSignature(u)
    BY InHeaderHas, UrlMeant
  <1>2. LetIn(q)
    OBVIOUS
  <1> HIDE DEF q
  <1>3. /\ config.auth.access = credential.access
        /\ VerifySignature(Params(q, names, credential, Payload(q), sent),
                           q.authorization.signature)
    BY <1>1, <1>2, ByHeader
  <1>4. config.auth.access = u.pair.access
    BY <1>3 DEF Credential
  <1>5. u.pair \in Pairs
    BY UrlParts
  <1> HIDE DEF credential, names, sent
  <1>6. VerifySignature(Params(q, names, credential, Payload(q), sent),
            Signed(u.pair, u.method, RawPath(u.key), base, [h \in {"host"} |-> u.port],
                   "UNSIGNED-PAYLOAD", SecondOf(u.issued), "us-east-1"))
    BY <1>1, <1>3 DEF UrlSignature, PresignedBy
  <1> HIDE DEF base
  <1>7. q.meant = Meaning(config.auth, q.method, q.path, Rest(q.parts))
    BY <1>1, <1>4, <1>5, <1>6, SignatureEntitles
  <1> QED
    BY <1>7 DEF Entitled, q

-----------------------------------------------------------------------------
(* What SDKs sign.                                                         *)

\* A part's place behind other parts.
LEMMA LastBehind ==
    ASSUME NEW S, NEW s \in Seq(S), NEW t \in Seq(S), NEW n, NEW i, IsLast(t, n, i)
    PROVE  /\ IsLast(s \o t, n, Len(s) + i) /\ (s \o t)[Len(s) + i] = t[i]
           /\ DOMAIN (s \o t) \subseteq Nat
  <1> DEFINE st == s \o t
  <1>1. /\ Len(st) = Len(s) + Len(t) /\ st \in Seq(S)
        /\ \A k \in 1 .. Len(s) : st[k] = s[k]
        /\ \A k \in 1 .. Len(t) : st[Len(s) + k] = t[k]
    <2>1. /\ Len(st) = Len(s) + Len(t) /\ st \in Seq(S)
      OBVIOUS
    <2>2. \A k \in 1 .. Len(s) : st[k] = s[k]
      OBVIOUS
    <2>3. \A k \in 1 .. Len(t) : st[Len(s) + k] = t[k]
      OBVIOUS
    <2> QED
      BY <2>1, <2>2, <2>3
  <1>2. Len(s) \in Nat /\ Len(t) \in Nat
    OBVIOUS
  <1> HIDE DEF st
  <1>3. DOMAIN st = 1 .. Len(s) + Len(t)
    BY <1>1, <1>2
  <1>4. i \in 1 .. Len(t) /\ t[i].name = n /\ \A j \in 1 .. Len(t) : t[j].name = n => j <= i
    BY DEF IsLast
  <1>5. ASSUME NEW j \in 1 .. Len(s) + Len(t), st[j].name = n PROVE j <= Len(s) + i
    <2>1. CASE j <= Len(s)
      BY <1>2, <1>4, <2>1
    <2>2. CASE j > Len(s)
      <3>1. j - Len(s) \in 1 .. Len(t) /\ j = Len(s) + (j - Len(s))
        BY <1>2, <2>2
      <3>2. st[j] = t[j - Len(s)]
        BY <1>1, <3>1
      <3>3. j - Len(s) <= i
        BY <1>4, <1>5, <3>1, <3>2
      <3> QED
        BY <1>2, <1>4, <3>1, <3>3
    <2> QED
      BY <1>2, <2>1, <2>2
  <1>6. Len(s) + i \in 1 .. Len(s) + Len(t) /\ st[Len(s) + i] = t[i]
    BY <1>1, <1>2, <1>4
  <1>7. IsLast(st, n, Len(s) + i) /\ st[Len(s) + i] = t[i] /\ DOMAIN st \subseteq Nat
    BY <1>2, <1>3, <1>4, <1>5, <1>6 DEF IsLast
  <1> QED
    BY <1>7 DEF st

\* Four parts and one more.
LEMMA FiveParts ==
    ASSUME NEW a, NEW b, NEW c, NEW d, NEW e
    PROVE  LET five == Append(<<a, b, c, d>>, e)
           IN  /\ DOMAIN five = 1 .. 5 /\ five \in Seq({a, b, c, d, e})
               /\ five[1] = a /\ five[2] = b /\ five[3] = c /\ five[4] = d /\ five[5] = e
  <1> DEFINE S == {a, b, c, d, e}
             four == <<a, b, c, d>>
             five == Append(four, e)
  <1>1. four \in Seq(S) /\ Len(four) = 4 /\ e \in S
    OBVIOUS
  <1>2. four[1] = a /\ four[2] = b /\ four[3] = c /\ four[4] = d
    OBVIOUS
  <1>3. /\ DOMAIN five = 1 .. Len(four) + 1 /\ five[Len(four) + 1] = e /\ five \in Seq(S)
        /\ \A i \in 1 .. Len(four) : five[i] = four[i]
    <2> HIDE DEF four, S
    <2>1. DOMAIN five = 1 .. Len(four) + 1 /\ five[Len(four) + 1] = e
      BY <1>1, OneMore
    <2>2. five \in Seq(S)
      BY <1>1, AppendProperties
    <2>3. \A i \in 1 .. Len(four) : five[i] = four[i]
      BY <1>1, AppendKeeps
    <2> QED
      BY <2>1, <2>2, <2>3
  <1>4. DOMAIN five = 1 .. 5 /\ five[5] = e /\ \A i \in 1 .. 4 : five[i] = four[i]
    <2> HIDE DEF four, five, S
    <2> QED
      BY <1>1, <1>3
  <1>5. five[1] = a /\ five[2] = b /\ five[3] = c /\ five[4] = d
    <2> HIDE DEF five, four
    <2> QED
      BY <1>2, <1>4
  <1> QED
    BY <1>3, <1>4, <1>5

LEMMA HeaderEntitles ==
    ASSUME NEW p \in Pairs, NEW c \in SdkCalls, NEW d, NEW r,
           config \in Configs, config.auth # NoAuth, LetIn(HeaderSigned(p, c, d, r))
    PROVE  Entitled(HeaderSigned(p, c, d, r))
  <1> DEFINE q == HeaderSigned(p, c, d, r)
             headers == q.headers
             query == SignerQuery(SignedFlags(c.flags))
             credential == Credential(p, d, r)
             names == q.authorization.names
             sent == q.headers["x-amz-date"]
  <1>1. /\ q.authorization.form = "sigv4" /\ q.authorization.credential = credential
        /\ q.authorization.signature = Signed(p, c.method, SentPath(c.key), query, headers,
                                              "sha256", d, r)
        /\ q.meant = Meaning(p, c.method, SentPath(c.key), query)
    BY DEF HeaderSigned, Sigv4
  <1>2. LetIn(q)
    OBVIOUS
  <1> HIDE DEF q
  <1>3. /\ config.auth.access = credential.access
        /\ VerifySignature(Params(q, names, credential, Payload(q), sent),
                           q.authorization.signature)
    BY <1>1, <1>2, ByHeader
  <1>4. config.auth.access = p.access
    BY <1>3 DEF Credential
  <1> HIDE DEF headers, query, credential, names, sent
  <1>5. VerifySignature(Params(q, names, credential, Payload(q), sent),
            Signed(p, c.method, SentPath(c.key), query, headers, "sha256", d, r))
    BY <1>1, <1>3
  <1>6. q.meant = Meaning(config.auth, q.method, q.path, Rest(q.parts))
    BY <1>1, <1>4, <1>5, SignatureEntitles
  <1> QED
    BY <1>6 DEF Entitled, q

\* The parameters an SDK signs in a query.
SdkMap(p, c, d, e, r) ==
    SignerQuery(SignedFlags(c.flags) \o
          <<Part("X-Amz-Credential", Credential(p, d, r)), Part("X-Amz-Date", d),
            Part("X-Amz-Expires", e), Part("X-Amz-SignedHeaders", {"host"})>>)

LEMMA QueryHas ==
    ASSUME NEW p, NEW c \in SdkCalls, NEW d, NEW e, NEW r
    PROVE  LET q == QuerySigned(p, c, d, e, r)
               map == SdkMap(p, c, d, e, r)
           IN  /\ q.meant = Meaning(p, c.method, SentPath(c.key), map)
               /\ q.authorization = NoHeader
               /\ ParseQuery(q.parts)["X-Amz-Credential"] = Credential(p, d, r)
               /\ ParseQuery(q.parts)["X-Amz-Date"] = d
               /\ ParseQuery(q.parts)["X-Amz-Signature"] =
                      Signed(p, c.method, SentPath(c.key), map, q.headers, "UNSIGNED-PAYLOAD", d, r)
  <1> DEFINE q == QuerySigned(p, c, d, e, r)
             v == Part("X-Amz-Credential", Credential(p, d, r))
             w == Part("X-Amz-Date", d)
             x == Part("X-Amz-Expires", e)
             y == Part("X-Amz-SignedHeaders", {"host"})
             amz == <<v, w, x, y>>
             map == SignerQuery(SignedFlags(c.flags) \o amz)
             signature == Signed(p, c.method, SentPath(c.key), map, q.headers,
                                 "UNSIGNED-PAYLOAD", d, r)
             z == Part("X-Amz-Signature", signature)
             flags == Flags(c.flags)
             five == Append(amz, z)
  <1>1. /\ q.meant = Meaning(p, c.method, SentPath(c.key), map) /\ q.authorization = NoHeader
        /\ q.parts = flags \o five
    BY DEF QuerySigned
  <1>2. /\ v.name = "X-Amz-Credential" /\ w.name = "X-Amz-Date" /\ x.name = "X-Amz-Expires"
        /\ y.name = "X-Amz-SignedHeaders" /\ z.name = "X-Amz-Signature"
        /\ ValueIn(v) = Credential(p, d, r) /\ ValueIn(w) = d /\ ValueIn(z) = signature
    <2> HIDE DEF signature
    <2> QED
      BY PartHas
  <1> HIDE DEF v, w, x, y, z
  <1>3. /\ DOMAIN five = 1 .. 5 /\ five \in Seq({v, w, x, y, z})
        /\ five[1] = v /\ five[2] = w /\ five[3] = x /\ five[4] = y /\ five[5] = z
    BY FiveParts
  <1> HIDE DEF five
  <1>4. /\ 1 \in 1 .. 5 /\ 2 \in 1 .. 5 /\ 5 \in 1 .. 5
        /\ \A j \in 1 .. 5 : j = 1 \/ j = 2 \/ j = 3 \/ j = 4 \/ j = 5
    OBVIOUS
  <1>5. IsLast(five, "X-Amz-Credential", 1)
    BY <1>2, <1>3, <1>4 DEF IsLast
  <1>6. IsLast(five, "X-Amz-Date", 2)
    BY <1>2, <1>3, <1>4 DEF IsLast
  <1>7. IsLast(five, "X-Amz-Signature", 5)
    BY <1>2, <1>3, <1>4 DEF IsLast
  <1> DEFINE S == {v, w, x, y, z} \cup {Flag(n) : n \in STRING}
  <1>8. five \in Seq(S)
    BY <1>3
  <1>9. flags \in Seq(S)
    <2>1. c.flags \in Seq(STRING)
      BY ConfigAssumption
    <2>2. \A i \in DOMAIN c.flags : Flag(c.flags[i]) \in S
      <3>1. \A i \in DOMAIN c.flags : c.flags[i] \in STRING
        BY <2>1
      <3>2. \A n \in STRING : Flag(n) \in S
        OBVIOUS
      <3> HIDE DEF S
      <3> QED
        BY <3>1, <3>2
    <2> HIDE DEF S
    <2> QED
      BY <2>1, <2>2 DEF Flags
  <1> HIDE DEF S, flags, q, amz, map, signature
  <1> DEFINE k == Len(flags)
             all == flags \o five
  <1>10. \A n, i : IsLast(five, n, i) =>
             IsLast(all, n, k + i) /\ all[k + i] = five[i] /\ DOMAIN all \subseteq Nat
    BY <1>8, <1>9, LastBehind
  <1> HIDE DEF k, all
  <1>11. \A n, i : IsLast(five, n, i) => ParseQuery(all)[n] = ValueIn(five[i])
    BY <1>10, LastCounts
  <1>12. /\ ParseQuery(all)["X-Amz-Credential"] = Credential(p, d, r)
         /\ ParseQuery(all)["X-Amz-Date"] = d
         /\ ParseQuery(all)["X-Amz-Signature"] = signature
    BY <1>2, <1>3, <1>5, <1>6, <1>7, <1>11
  <1> QED
    BY <1>1, <1>12 DEF all, q, signature, map, amz, v, w, x, y, SdkMap

LEMMA QueryDate ==
    ASSUME NEW p, NEW c \in SdkCalls, NEW d, NEW e, NEW r
    PROVE  ParseQuery(QuerySigned(p, c, d, e, r).parts)["X-Amz-Date"] = d
  BY QueryHas

LEMMA QueryEntitles ==
    ASSUME NEW p \in Pairs, NEW c \in SdkCalls, NEW d, NEW e, NEW r,
           config \in Configs, config.auth # NoAuth, LetIn(QuerySigned(p, c, d, e, r))
    PROVE  Entitled(QuerySigned(p, c, d, e, r))
  <1> DEFINE q == QuerySigned(p, c, d, e, r)
             map == SdkMap(p, c, d, e, r)
             headers == q.headers
             credential == Credential(p, d, r)
             query == ParseQuery(q.parts)
             names == query["X-Amz-SignedHeaders"]
             sent == query["X-Amz-Date"]
  <1>1. /\ q.meant = Meaning(p, c.method, SentPath(c.key), map)
        /\ q.authorization = NoHeader
        /\ query["X-Amz-Credential"] = credential
        /\ query["X-Amz-Signature"] =
               Signed(p, c.method, SentPath(c.key), map, headers, "UNSIGNED-PAYLOAD", d, r)
    BY QueryHas
  <1>2. LetIn(q)
    OBVIOUS
  <1> HIDE DEF q
  <1>3. q.authorization.form = "none"
    BY <1>1 DEF NoHeader
  <1>4. /\ config.auth.access = query["X-Amz-Credential"].access
        /\ VerifySignature(Params(q, names, query["X-Amz-Credential"], "UNSIGNED-PAYLOAD", sent),
                           query["X-Amz-Signature"])
    BY <1>2, <1>3, ByQuery
  <1>5. config.auth.access = p.access
    BY <1>1, <1>4 DEF Credential
  <1> HIDE DEF headers, map, credential, names, sent, query
  <1>6. VerifySignature(Params(q, names, credential, "UNSIGNED-PAYLOAD", sent),
            Signed(p, c.method, SentPath(c.key), map, headers, "UNSIGNED-PAYLOAD", d, r))
    BY <1>1, <1>4
  <1>7. q.meant = Meaning(config.auth, q.method, q.path, Rest(q.parts))
    BY <1>1, <1>5, <1>6, SignatureEntitles
  <1> QED
    BY <1>7 DEF Entitled, q

LEMMA NoParts ==
    ASSUME NEW c, NEW a
    PROVE  /\ Unsigned(c, a).authorization = a /\ Unsigned(c, a).meant = Nothing
           /\ DOMAIN ParseQuery(Unsigned(c, a).parts) = {}
  <1>1. Unsigned(c, a).parts = <<>>
    BY DEF Unsigned
  <1>2. DOMAIN ParseQuery(<<>>) = {}
    <2> DEFINE none == <<>>
    <2>1. DOMAIN none = {}
      OBVIOUS
    <2> HIDE DEF none
    <2>2. {none[i].name : i \in DOMAIN none} = {}
      BY <2>1
    <2>3. DOMAIN ParseQuery(none) = {}
      BY <2>2, QueryIs
    <2> QED
      BY <2>3 DEF none
  <1> QED
    BY <1>1, <1>2 DEF Unsigned

\* A request that is not signed is let in only with the pair.
LEMMA UnsignedEntitles ==
    ASSUME NEW c, NEW a, config.auth # NoAuth, LetIn(Unsigned(c, a)),
           \/ \E p : a = Basic(p)
           \/ a \in {NoHeader, [form |-> "word"], Sigv4(Malformed, {}, Nothing)}
    PROVE  Entitled(Unsigned(c, a))
  <1> DEFINE q == Unsigned(c, a)
  <1>1. q.authorization = a /\ DOMAIN ParseQuery(q.parts) = {}
    BY NoParts
  <1>2. LetIn(q)
    OBVIOUS
  <1> HIDE DEF q
  <1>3. \/ a.form = "sigv4" /\ VerifyHeaderAuth(q)
        \/ a.form = "basic" /\ a.pair = config.auth
    BY <1>1, <1>2 DEF LetIn
  <1>4. a # Sigv4(Malformed, {}, Nothing)
    <2>1. SUFFICES ASSUME a = Sigv4(Malformed, {}, Nothing) PROVE FALSE
      OBVIOUS
    <2>2. a.form = "sigv4" /\ a.credential = Malformed
      BY <2>1 DEF Sigv4
    <2> QED
      BY <1>1, <1>3, <2>2 DEF VerifyHeaderAuth
  <1>5. PICK p : a = Basic(p)
    BY <1>3, <1>4 DEF NoHeader
  <1>6. a.form = "basic" /\ a.pair = p
    BY <1>5 DEF Basic
  <1>7. p = config.auth
    BY <1>3, <1>6
  <1> QED
    BY <1>1, <1>5, <1>7 DEF Entitled, q

LEMMA MalformedDate ==
    ASSUME NEW p, NEW c, config.auth # NoAuth,
           NEW q, q = [HeaderSigned(p, c, 0, "us-east-1") EXCEPT !.headers["x-amz-date"] = Malformed]
    PROVE  ~LetIn(q)
  <1>1. /\ q.authorization.form = "sigv4" /\ q.headers["x-amz-date"] = Malformed
    BY DEF HeaderSigned, Sigv4, SdkHeaders
  <1> QED
    BY <1>1, ByHeader

\* Whatever clients send: who is let in is entitled.
LEMMA OnlyEntitled ==
    ASSUME config \in Configs, config.auth # NoAuth, urls \in Seq(Issuable),
           NEW q \in Requests, LetIn(q)
    PROVE  Entitled(q)
  <1>1. CASE q \in UrlRequests
    <2>1. PICK i \in DOMAIN urls :
              q \in {Followed(urls[i])} \cup Strayed(urls[i]) \/ q = InHeader(urls[i])
      BY <1>1 DEF UrlRequests
    <2>2. urls[i] \in Issuable
      BY <2>1
    <2> QED
      BY <2>1, <2>2, UrlEntitles, InHeaderEntitles
  <1>2. CASE q \in SdkRequests
    <2>1. \/ \E p \in Pairs, c \in SdkCalls : \E d, r : q = HeaderSigned(p, c, d, r)
          \/ \E p \in Pairs, c \in SdkCalls : \E d, e, r : q = QuerySigned(p, c, d, e, r)
      BY <1>2 DEF SdkRequests
    <2> QED
      BY <2>1, HeaderEntitles, QueryEntitles
  <1>3. CASE q \in OtherRequests
    <2>1. \/ \E c, a : /\ q = Unsigned(c, a)
                       /\ \/ \E p : a = Basic(p)
                          \/ a \in {NoHeader, [form |-> "word"], Sigv4(Malformed, {}, Nothing)}
          \/ \E p, c : q = [HeaderSigned(p, c, 0, "us-east-1")
                                EXCEPT !.headers["x-amz-date"] = Malformed]
      BY <1>3 DEF OtherRequests
    <2> QED
      BY <2>1, UnsignedEntitles, MalformedDate
  <1> QED
    BY <1>1, <1>2, <1>3 DEF Requests

-----------------------------------------------------------------------------
(* The invariants.                                                         *)

\* The clock and the configuration are some there are, and every URL kept was
\* issued by the presigner of a server with a key pair.
Typed ==
    /\ clock \in Clocks /\ config \in Configs
    /\ urls \in Seq(Issuable) /\ Len(urls) <= MaxUrls
    /\ answer = Nothing \/ answer.letIn \in BOOLEAN

LEMMA LetInIsBoolean == ASSUME NEW q PROVE LetIn(q) \in BOOLEAN
  <1>1. LetIn(q) = TRUE \/ LetIn(q) = FALSE
    BY DEF LetIn
  <1> QED
    BY <1>1

LEMMA TypedInit == Init => Typed
  <1> SUFFICES ASSUME Init PROVE Typed
    OBVIOUS
  <1>1. <<>> \in Seq(Issuable) /\ Len(<<>>) = 0
    OBVIOUS
  <1> QED
    BY <1>1, TimeAssumption DEF Init, Typed

LEMMA TypedNext == Typed /\ [Next]_vars => Typed'
  <1> SUFFICES ASSUME Typed, [Next]_vars PROVE Typed'
    OBVIOUS
  <1>1. CASE SetClock
    BY <1>1 DEF SetClock, Typed
  <1>2. CASE Restart
    BY <1>2 DEF Restart, Typed
  <1>3. CASE Finish
    BY <1>3 DEF Finish, Typed
  <1>4. ASSUME NEW c \in UrlCalls, NEW e \in Lifetimes, Presign(c.method, c.key, e)
        PROVE  Typed'
    <2> DEFINE u == UrlOf(config, clock, c.method, c.key, e)
    <2>1. u \in Issuable
      BY <1>4 DEF Typed, Presign, CanPresign, Issuable
    <2>2. urls' = Append(urls, u)
      BY <1>4, IssuesUrls DEF Presign
    <2>3. urls \in Seq(Issuable) /\ Len(urls) < MaxUrls /\ MaxUrls \in Nat
      BY <1>4, TimeAssumption DEF Typed, Presign
    <2> HIDE DEF u
    <2>4. Append(urls, u) \in Seq(Issuable) /\ Len(Append(urls, u)) = Len(urls) + 1
      BY <2>1, <2>3
    <2>5. Len(urls) \in Nat
      BY <2>3
    <2>6. Len(urls)' <= MaxUrls
      BY <2>2, <2>3, <2>4, <2>5
    <2> QED
      BY <1>4, <2>2, <2>4, <2>6 DEF Typed, Presign
  <1>5. ASSUME NEW q \in Requests, Receive(q)
        PROVE  Typed'
    <2>1. answer'.letIn = LetIn(q)
      BY <1>5 DEF Receive
    <2> QED
      BY <1>5, <2>1, LetInIsBoolean DEF Receive, Typed
  <1>6. CASE UNCHANGED vars
    BY <1>6 DEF vars, Typed
  <1> QED
    BY <1>1, <1>2, <1>3, <1>4, <1>5, <1>6 DEF Next

LEMMA AlwaysTyped == Spec => []Typed
  <1> QED
    BY TypedInit, TypedNext, PTL DEF Spec

LEMMA TypedGives == Typed => TypeOK
  <1> SUFFICES ASSUME Typed PROVE TypeOK
    OBVIOUS
  <1>1. ASSUME NEW i \in DOMAIN urls
        PROVE  urls[i] \in Issuable
    BY DEF Typed
  <1>2. \A i \in DOMAIN urls :
           /\ [method |-> urls[i].method, key |-> urls[i].key] \in UrlCalls
           /\ urls[i].port \in {c.port : c \in Configs} /\ urls[i].expires \in Lifetimes
           /\ urls[i].issued \in Clocks /\ urls[i].pair \in Pairs
    BY <1>1, UrlParts
  <1> QED
    BY <1>2 DEF Typed, TypeOK

\* Whatever the configurations, the clock and the calls: the URLs kept are of
\* calls that were asked for, of a configuration with a key pair, and no more
\* than there may be.
THEOREM Types == Spec => []TypeOK
  <1> QED
    BY AlwaysTyped, TypedGives, PTL

\* A step decides a request of a client, or leaves no answer, or changes nothing
\* that a decision was made from.
LEMMA StepsDecide ==
    ASSUME Typed, [Next]_vars
    PROVE  \/ answer' = Nothing
           \/ UNCHANGED vars
           \/ \E q \in Requests : Receive(q)
  BY DEF Next, SetClock, Restart, Finish, Presign, vars

LEMMA RightInit == Init => LetInByRight
  BY DEF Init, LetInByRight

LEMMA RightNext == Typed /\ LetInByRight /\ [Next]_vars => LetInByRight'
  <1> SUFFICES ASSUME Typed, LetInByRight, [Next]_vars PROVE LetInByRight'
    OBVIOUS
  <1>1. CASE answer' = Nothing
    BY <1>1 DEF LetInByRight
  <1>2. CASE UNCHANGED vars
    BY <1>2 DEF LetInByRight, vars
  <1>3. ASSUME NEW q \in Requests, Receive(q) PROVE LetInByRight'
    <2>1. answer'.request = q /\ answer'.letIn = LetIn(q) /\ config' = config
      BY <1>3 DEF Receive
    <2>2. ASSUME LetIn(q), config.auth # NoAuth
          PROVE  Entitled(q)
      BY <2>2, OnlyEntitled DEF Typed
    <2>3. ASSUME answer'.letIn, config'.auth # NoAuth
          PROVE  \/ q.authorization = Basic(config'.auth)
                 \/ q.meant = Meaning(config'.auth, q.method, q.path, Rest(q.parts))
      BY <2>1, <2>2, <2>3 DEF Entitled
    <2> QED
      BY <2>1, <2>3 DEF LetInByRight, Rest
  <1> QED
    BY <1>1, <1>2, <1>3, StepsDecide

\* For all configurations, clocks, restarts and uses of URLs: where a key pair is
\* configured, whoever is let in has it or signed, under it, the very call.
THEOREM EntitledOnly == Spec => []LetInByRight
  <1> QED
    BY RightInit, RightNext, AlwaysTyped, PTL DEF Spec

-----------------------------------------------------------------------------
(* Time.                                                                   *)

LEMMA Quotient ==
    ASSUME NEW t \in Nat, NEW s \in Nat \ {0}
    PROVE  t \div s \in Nat /\ (t \div s) * s <= t /\ t < (t \div s + 1) * s
  OBVIOUS

LEMMA Scaled ==
    ASSUME NEW a \in Int, NEW b \in Int, NEW s \in Nat, a <= b
    PROVE  a * s <= b * s
  OBVIOUS

LEMMA Spread ==
    ASSUME NEW a \in Int, NEW b \in Int, NEW s \in Int
    PROVE  (a + b) * s = a * s + b * s /\ (-a) * s = -(a * s) /\ a * s \in Int
  OBVIOUS

LEMMA SecondsAreNumbers == ASSUME NEW t \in Clocks PROVE SecondOf(t) \in Nat /\ t \in Nat
  <1>1. t \in Nat /\ Second \in Nat \ {0}
    BY TimeAssumption DEF Clocks
  <1> QED
    BY <1>1, Quotient DEF SecondOf

\* An age between bounds puts the clock between bounds.
LEMMA AgeBounds ==
    ASSUME clock \in Nat, NEW date \in Nat, NEW expires \in Nat, InTime(date, expires)
    PROVE  (date - Skew - 1) * Second < clock /\ clock < (date + expires + 1) * Second
  <1> DEFINE s == Second
             t == clock - date * s
  <1>1. s \in Nat \ {0} /\ Skew \in Nat
    BY TimeAssumption
  <1> HIDE DEF s
  <1>2. date * s \in Nat /\ t \in Int
    BY <1>1
  <1>3. Age(date) = IF t >= 0 THEN t \div s ELSE -((-t) \div s)
    BY DEF Age, s
  <1>4. Age(date) <= expires /\ Age(date) >= -Skew
    BY DEF InTime
  <1> DEFINE x == date * s
  <1>5. CASE t >= 0
    <2>1. t \in Nat
      BY <1>2, <1>5
    <2> HIDE DEF t
    <2>2. t \div s \in Nat /\ t < (t \div s + 1) * s
      BY <1>1, <2>1, Quotient
    <2>3. t \div s <= expires
      BY <1>3, <1>4, <1>5
    <2> DEFINE d == t \div s
    <2> HIDE DEF d
    <2>4. (d + 1) * s <= (expires + 1) * s
      <3>1. d \in Nat /\ d <= expires
        BY <2>2, <2>3 DEF d
      <3>2. d + 1 \in Int /\ expires + 1 \in Int /\ d + 1 <= expires + 1 /\ s \in Nat
        BY <1>1, <3>1
      <3> QED
        BY <3>2, Scaled
    <2>5. t < (expires + 1) * s
      <3>1. (d + 1) * s \in Int /\ (expires + 1) * s \in Int /\ t < (d + 1) * s
        BY <1>1, <2>2 DEF d
      <3> QED
        BY <2>1, <2>4, <3>1
    <2>6. (date + (expires + 1)) * s = date * s + (expires + 1) * s
      BY <1>1, Spread
    <2>7. (date + (-Skew - 1)) * s = date * s + (-Skew - 1) * s
      BY <1>1, Spread
    <2>8. (-Skew - 1) * s < 0
      <3>1. (-Skew - 1) * s <= (-1) * s
        BY <1>1, Scaled
      <3>2. (-1) * s < 0 /\ (-Skew - 1) * s \in Int /\ (-1) * s \in Int
        BY <1>1
      <3> QED
        BY <3>1, <3>2
    <2>9. date + (expires + 1) = date + expires + 1 /\ date + (-Skew - 1) = date - Skew - 1
      BY <1>1
    <2> DEFINE y == (expires + 1) * s
               z == (-Skew - 1) * s
    <2>10. x \in Int /\ y \in Int /\ z \in Int /\ clock = x + t
      BY <1>1, <1>2 DEF t
    <2> HIDE DEF x, y, z
    <2>11. clock < x + y /\ x + z < clock
      BY <2>1, <2>5, <2>8, <2>10 DEF y, z
    <2> QED
      BY <2>6, <2>7, <2>9, <2>11 DEF x, y, z, s
  <1>6. CASE t < 0
    <2>1. -t \in Nat
      BY <1>2, <1>6
    <2> DEFINE m == -t
               d == m \div s
    <2> HIDE DEF m
    <2>2. d \in Nat /\ m < (d + 1) * s
      BY <1>1, <2>1, Quotient DEF m
    <2>3. d <= Skew
      <3>1. Age(date) = -d
        BY <1>2, <1>3, <1>6 DEF m
      <3> QED
        BY <1>1, <1>4, <2>2, <3>1
    <2> HIDE DEF d, t
    <2>4. (d + 1) * s <= (Skew + 1) * s
      BY <1>1, <2>2, <2>3, Scaled
    <2>5. m < (Skew + 1) * s
      <3>1. (d + 1) * s \in Int /\ (Skew + 1) * s \in Int /\ m \in Nat
        BY <1>1, <2>1, <2>2 DEF m
      <3> QED
        BY <2>2, <2>4, <3>1
    <2>6. (date + (expires + 1)) * s = date * s + (expires + 1) * s
      BY <1>1, Spread
    <2>7. (date + (-(Skew + 1))) * s = date * s + (-(Skew + 1)) * s
      BY <1>1, Spread
    <2>8. (-(Skew + 1)) * s = -((Skew + 1) * s)
      BY <1>1, Spread
    <2>9. date + (expires + 1) = date + expires + 1 /\ date + (-(Skew + 1)) = date - Skew - 1
      BY <1>1
    <2> DEFINE y == (expires + 1) * s
               z == (Skew + 1) * s
    <2>10. x \in Int /\ y \in Nat /\ z \in Int /\ clock = x + t /\ m = -t /\ t \in Int
      BY <1>1, <1>2 DEF t, m
    <2> HIDE DEF x, y, z
    <2>11. clock < x + y /\ x + (-z) < clock
      BY <1>6, <2>5, <2>10 DEF z
    <2> QED
      BY <2>6, <2>7, <2>8, <2>9, <2>11 DEF x, y, z, s
  <1> QED
    BY <1>2, <1>5, <1>6

\* The date of a request that is signed in its query is a number.
LEMMA DateIsNumber ==
    ASSUME Typed, NEW q \in Requests, q.authorization.form # "sigv4",
           "X-Amz-Date" \in DOMAIN ParseQuery(q.parts)
    PROVE  ParseQuery(q.parts)["X-Amz-Date"] \in Nat
  <1>1. CASE q \in UrlRequests
    <2>0. \A u \in Issuable : q # InHeader(u)
      BY InHeaderHas
    <2>1. PICK i \in DOMAIN urls : q \in {Followed(urls[i])} \cup Strayed(urls[i])
      BY <1>1, <2>0 DEF UrlRequests, Typed
    <2>2. urls[i] \in Issuable
      BY <2>1 DEF Typed
    <2> DEFINE u == urls[i]
    <2>3. Used(q.parts, u)
      BY <2>1, UrlUse
    <2> HIDE DEF u
    <2>4. u \in Issuable
      BY <2>2 DEF u
    <2>5. ParseQuery(q.parts)["X-Amz-Date"] = SecondOf(u.issued)
      BY <2>3, <2>4, UsedTold
    <2>6. u.issued \in Clocks
      BY <2>4, UrlParts
    <2> QED
      BY <2>5, <2>6, SecondsAreNumbers
  <1>2. CASE q \in SdkRequests
    <2>1. ASSUME NEW p, NEW c, NEW d, NEW r
          PROVE  HeaderSigned(p, c, d, r).authorization.form = "sigv4"
      BY DEF HeaderSigned, Sigv4
    <2>2. PICK p \in Pairs, c \in SdkCalls, d \in {SecondOf(clock), 0},
              e \in Lifetimes, r \in Regions : q = QuerySigned(p, c, d, e, r)
      BY <1>2, <2>1 DEF SdkRequests
    <2>3. ParseQuery(q.parts)["X-Amz-Date"] = d
      <3>1. ParseQuery(QuerySigned(p, c, d, e, r).parts)["X-Amz-Date"] = d
        BY QueryDate
      <3> QED
        BY <2>2, <3>1
    <2>4. d \in Nat
      BY SecondsAreNumbers DEF Typed
    <2> QED
      BY <2>3, <2>4
  <1>3. CASE q \in OtherRequests
    <2>1. ASSUME NEW p, NEW c,
                 q = [HeaderSigned(p, c, 0, "us-east-1") EXCEPT !.headers["x-amz-date"] = Malformed]
          PROVE  FALSE
      <3>1. q.authorization.form = "sigv4"
        BY <2>1 DEF HeaderSigned, Sigv4
      <3> QED
        BY <3>1
    <2>2. \/ \E c, a : q = Unsigned(c, a)
          \/ \E p, c : q = [HeaderSigned(p, c, 0, "us-east-1")
                                EXCEPT !.headers["x-amz-date"] = Malformed]
      BY <1>3 DEF OtherRequests
    <2>3. PICK c, a : q = Unsigned(c, a)
      BY <2>1, <2>2
    <2> QED
      BY <2>3, NoParts
  <1> QED
    BY <1>1, <1>2, <1>3 DEF Requests

LEMMA MeaningHas ==
    ASSUME NEW pair, NEW method, NEW path, NEW query
    PROVE  Meaning(pair, method, path, query).query = query
  BY DEF Meaning

\* An Authorization header is of one of the four forms.
LEMMA BasicHasPair ==
    ASSUME Typed, NEW q \in Requests, q.authorization.form = "basic"
    PROVE  q.authorization = Basic(q.authorization.pair)
  <1>1. \A p : Basic(p).pair = p
    BY DEF Basic
  <1>2. ASSUME \E p : q.authorization = Basic(p)
        PROVE  q.authorization = Basic(q.authorization.pair)
    BY <1>1, <1>2
  <1>3. NoHeader.form = "none" /\ \A c, n, x : Sigv4(c, n, x).form = "sigv4"
    BY DEF NoHeader, Sigv4
  <1>4. CASE q \in UrlRequests
    <2>1. \A u \in Issuable : q # InHeader(u)
      BY InHeaderHas
    <2>2. PICK i \in DOMAIN urls : q \in {Followed(urls[i])} \cup Strayed(urls[i])
      BY <1>4, <2>1 DEF UrlRequests, Typed
    <2> QED
      BY <1>2, <1>3, <2>2, UrlUse
  <1>5. CASE q \in SdkRequests
    <2>1. \A p, c, d, r : HeaderSigned(p, c, d, r).authorization.form = "sigv4"
      BY DEF HeaderSigned, Sigv4
    <2>2. \A p, c, d, e, r : QuerySigned(p, c, d, e, r).authorization = NoHeader
      BY DEF QuerySigned
    <2> QED
      BY <1>3, <1>5, <2>1, <2>2 DEF SdkRequests
  <1>6. CASE q \in OtherRequests
    <2>1. \A p, c : [HeaderSigned(p, c, 0, "us-east-1")
                         EXCEPT !.headers["x-amz-date"] = Malformed].authorization.form = "sigv4"
      BY DEF HeaderSigned, Sigv4
    <2>4. \/ \E c, a : /\ q = Unsigned(c, a)
                       /\ \/ \E p : a = Basic(p)
                          \/ a \in {NoHeader, [form |-> "word"], Sigv4(Malformed, {}, Nothing)}
          \/ \E p, c : q = [HeaderSigned(p, c, 0, "us-east-1")
                                EXCEPT !.headers["x-amz-date"] = Malformed]
      BY <1>6 DEF OtherRequests
    <2>2. PICK c, a : /\ q = Unsigned(c, a)
                      /\ \/ \E p : a = Basic(p)
                         \/ a \in {NoHeader, [form |-> "word"], Sigv4(Malformed, {}, Nothing)}
      BY <2>1, <2>4
    <2>3. q.authorization = a
      BY <2>2, NoParts
    <2> QED
      BY <1>2, <1>3, <2>2, <2>3
  <1> QED
    BY <1>4, <1>5, <1>6 DEF Requests

\* A URL that lets somebody in is of now.
LEMMA InLifetime ==
    ASSUME Typed, NEW q \in Requests, LetIn(q), config.auth # NoAuth,
           q.authorization.form # "sigv4", q.authorization # Basic(config.auth)
    PROVE  LET date == q.meant.query["X-Amz-Date"]
               expires == q.meant.query["X-Amz-Expires"]
           IN  /\ (date - Skew - 1) * Second < clock
               /\ clock < (date + expires + 1) * Second
               /\ expires <= MaxLifetime
  <1> DEFINE query == ParseQuery(q.parts)
             date == query["X-Amz-Date"]
             expires == query["X-Amz-Expires"]
  <1>1. q.authorization.form # "basic" \/ q.authorization.pair # config.auth
    BY BasicHasPair
  <1>2. /\ {"X-Amz-Date", "X-Amz-Expires"} \subseteq DOMAIN query
        /\ expires \in 1 .. MaxLifetime /\ InTime(date, expires)
    BY <1>1, ByQuery
  <1>3. date \in Nat
    BY <1>2, DateIsNumber
  <1>4. expires \in Nat /\ expires <= MaxLifetime
    BY <1>2, TimeAssumption
  <1>5. clock \in Nat
    BY SecondsAreNumbers DEF Typed
  <1>6. q.meant.query = Rest(q.parts)
    <2>1. Entitled(q)
      BY OnlyEntitled DEF Typed
    <2> QED
      BY <2>1, MeaningHas DEF Entitled
  <1>7. q.meant.query["X-Amz-Date"] = date /\ q.meant.query["X-Amz-Expires"] = expires
    BY <1>2, <1>6 DEF Rest
  <1> HIDE DEF date, expires, query
  <1>8. (date - Skew - 1) * Second < clock /\ clock < (date + expires + 1) * Second
    BY <1>2, <1>3, <1>4, <1>5, AgeBounds
  <1> QED
    BY <1>4, <1>7, <1>8

LEMMA LapseNext == Typed /\ UrlsLapse /\ [Next]_vars => UrlsLapse'
  <1> SUFFICES ASSUME Typed, UrlsLapse, [Next]_vars PROVE UrlsLapse'
    OBVIOUS
  <1>1. CASE answer' = Nothing
    BY <1>1 DEF UrlsLapse
  <1>2. CASE UNCHANGED vars
    BY <1>2 DEF UrlsLapse, vars
  <1>3. ASSUME NEW q \in Requests, Receive(q) PROVE UrlsLapse'
    <2>1. /\ answer'.request = q /\ answer'.letIn = LetIn(q)
          /\ config' = config /\ clock' = clock
      BY <1>3 DEF Receive
    <2> QED
      BY <2>1, InLifetime DEF UrlsLapse
  <1> QED
    BY <1>1, <1>2, <1>3, StepsDecide

\* For all lifetimes, clocks and ways to set them: a request with its signature in the
\* query is let in neither before its date, less the skew, nor after its lifetime.
THEOREM Lapse == Spec => []UrlsLapse
  <1>1. Init => UrlsLapse
    BY DEF Init, UrlsLapse
  <1> QED
    BY <1>1, LapseNext, AlwaysTyped, PTL DEF Spec

-----------------------------------------------------------------------------
(* What is signed as SigV4 asks is let in.                                 *)

LEMMA Verifies ==
    ASSUME NEW p, NEW pair, NEW method, NEW path, NEW query, NEW headers, NEW payload,
           NEW date, NEW region, date # Malformed,
           p.date = date, p.secret = pair.secret, p.region = region, p.service = "s3",
           p.method = method, p.path = path, p.headers = headers, p.payload = payload,
           [n \in DOMAIN p.query \ {"X-Amz-Signature"} |-> p.query[n]] = query
    PROVE  VerifySignature(p, Signed(pair, method, path, query, headers, payload, date, region))
  BY DEF VerifySignature, Signed, CanonicalRequest, SigningKey, StringToSign

\* Parameters that all have another name, one after the other, are the map of them.
LEMMA FlagsParsed ==
    ASSUME NEW flags \in Seq(STRING \ {"X-Amz-Signature"})
    PROVE  Rest(Flags(flags)) = AsMap(SignedFlags(flags))
  <1> DEFINE parts == Flags(flags)
             signed == SignedFlags(flags)
             names == {flags[i] : i \in DOMAIN flags}
  <1>1. /\ DOMAIN parts = DOMAIN flags /\ DOMAIN signed = DOMAIN flags
        /\ \A i \in DOMAIN flags : parts[i] = Flag(flags[i]) /\ signed[i] = Part(flags[i], Empty)
    BY DEF Flags, SignedFlags
  <1>2. \A n : Flag(n).name = n /\ ValueIn(Flag(n)) = Empty
    BY DEF Flag, ValueIn, IsFlag
  <1>3. \A n : Part(n, Empty).name = n /\ Part(n, Empty).value = Empty
    BY DEF Part
  <1>4. "X-Amz-Signature" \notin names /\ DOMAIN flags \subseteq Nat
    OBVIOUS
  <1> HIDE DEF parts, signed
  <1>5. {parts[i].name : i \in DOMAIN parts} = names
    BY <1>1, <1>2
  <1>6. {signed[i].name : i \in DOMAIN signed} = names
    BY <1>1, <1>3
  <1> HIDE DEF names
  <1>7. ASSUME NEW n \in names
        PROVE  ValueIn(parts[LastOf(parts, n)]) = Empty
    <2>1. PICK i \in DOMAIN flags : flags[i] = n
      BY DEF names
    <2>2. DOMAIN parts = 1 .. Len(flags) /\ Len(flags) \in Nat
      BY <1>1
    <2>3. LastOf(parts, n) \in DOMAIN parts
      <3>1. \E k \in DOMAIN parts : IsLast(parts, n, k)
        BY <1>1, <1>2, <2>1, <2>2, LastExists
      <3>2. PICK k : IsLast(parts, n, k)
        BY <3>1
      <3>3. LastOf(parts, n) = k
        BY <1>1, <1>4, <3>2, OneLast
      <3> QED
        BY <3>2, <3>3 DEF IsLast
    <2> QED
      BY <1>1, <1>2, <2>3
  <1>8. ASSUME NEW n \in names
        PROVE  (CHOOSE p \in {signed[i] : i \in DOMAIN signed} : p.name = n).value = Empty
    <2>1. \E p \in {signed[i] : i \in DOMAIN signed} : p.name = n
      BY <1>6
    <2>2. (CHOOSE p \in {signed[i] : i \in DOMAIN signed} : p.name = n)
              \in {signed[i] : i \in DOMAIN signed}
      BY <2>1
    <2>3. \A p \in {signed[i] : i \in DOMAIN signed} : p.value = Empty
      BY <1>1, <1>3
    <2> QED
      BY <2>2, <2>3
  <1>9. ParseQuery(parts) = [n \in names |-> ValueIn(parts[LastOf(parts, n)])]
    BY <1>5, QueryIs
  <1>10. DOMAIN ParseQuery(parts) \ {"X-Amz-Signature"} = names
    BY <1>4, <1>9
  <1>11. \A n \in names : ParseQuery(parts)[n] = Empty
    BY <1>7, <1>9
  <1>12. Rest(parts) = [n \in names |-> Empty]
    BY <1>10, <1>11 DEF Rest
  <1>13. AsMap(signed) = [n \in names |-> Empty]
    BY <1>6, <1>8 DEF AsMap
  <1> QED
    BY <1>12, <1>13 DEF parts, signed

LEMMA HeaderAdmitted ==
    ASSUME config \in Configs, NEW p \in Pairs, config.auth = p, NEW c \in SdkCalls,
           NEW t \in Clocks, NEW d \in {SecondOf(t), 0}, NEW r \in Regions,
           Repeated(Flags(c.flags)) = {}
    PROVE  LetIn(HeaderSigned(p, c, d, r))
  <1> DEFINE q == HeaderSigned(p, c, d, r)
             names == SdkHeaders
             headers == q.headers
             query == SignerQuery(SignedFlags(c.flags))
             credential == Credential(p, d, r)
             signature == Signed(p, c.method, SentPath(c.key), query, headers, "sha256", d, r)
  <1>1. /\ q.authorization = Sigv4(credential, names, signature)
        /\ q.method = c.method /\ q.path = SentPath(c.key) /\ q.parts = Flags(c.flags)
    BY DEF HeaderSigned
  <1>2. /\ DOMAIN headers = names /\ headers["x-amz-content-sha256"] = "sha256"
        /\ headers["x-amz-date"] = d /\ headers = [h \in names |-> headers[h]]
    BY DEF HeaderSigned, SdkHeaders
  <1>3. /\ q.authorization.form = "sigv4" /\ q.authorization.credential = credential
        /\ q.authorization.names = names /\ q.authorization.signature = signature
    BY <1>1 DEF Sigv4
  <1>4. credential # Malformed /\ d # Malformed
    <2>1. PICK g \in Configs : g.auth = p /\ g.auth # NoAuth
      BY DEF Pairs
    <2>2. credential # Malformed
      BY <2>1, MalformedAssumption
    <2>3. d \in Nat
      BY SecondsAreNumbers
    <2> QED
      BY <2>2, <2>3, MalformedAssumption
  <1>5. /\ credential.access = p.access /\ credential.region = r /\ credential.service = "s3"
    BY DEF Credential
  <1>6. Rest(q.parts) = query
    <2>1. Repeated(SignedFlags(c.flags)) = Repeated(Flags(c.flags))
      BY DEF Repeated, SignedFlags, Flags, Flag, Part
    <2>2. query = AsMap(SignedFlags(c.flags))
      BY <2>1 DEF SignerQuery
    <2> QED
      BY <1>1, <2>2, FlagsParsed, ConfigAssumption
  <1> HIDE DEF q, query, credential, signature
  <1>7. Named(headers, names) = headers
    <2> HIDE DEF headers, names
    <2>1. names \cap DOMAIN headers = names
      BY <1>2
    <2> QED
      BY <1>2, <2>1 DEF Named
  <1>8. Payload(q) = "sha256"
    BY <1>2 DEF Payload, SdkHeaders
  <1> DEFINE params == Params(q, names, credential, "sha256", d)
  <1>9. /\ params.date = d /\ params.secret = p.secret /\ params.region = r
        /\ params.service = "s3" /\ params.method = c.method /\ params.path = SentPath(c.key)
        /\ params.headers = headers /\ params.payload = "sha256"
        /\ params.query = ParseQuery(q.parts)
    BY <1>1, <1>5, <1>7 DEF Params
  <1> HIDE DEF params, headers
  <1>10. [n \in DOMAIN params.query \ {"X-Amz-Signature"} |-> params.query[n]] = query
    BY <1>6, <1>9 DEF Rest
  <1>11. VerifySignature(params, signature)
    BY <1>4, <1>9, <1>10, Verifies DEF signature
  <1>12. VerifyHeaderAuth(q)
    <2>1. "x-amz-date" \in DOMAIN q.headers /\ q.headers["x-amz-date"] = d
      BY <1>2 DEF SdkHeaders, headers
    <2>2. config.auth.access = credential.access
      BY <1>5
    <2>3. VerifySignature(Params(q, names, credential, Payload(q), d), signature)
      BY <1>8, <1>11 DEF params
    <2> HIDE DEF names
    <2> QED
      BY <1>3, <1>4, <2>1, <2>2, <2>3 DEF VerifyHeaderAuth
  <1>13. LetIn(q)
    BY <1>3, <1>12 DEF LetIn
  <1> QED
    BY <1>13 DEF q

LEMMA AdmittedNext == Typed /\ SignersAdmitted /\ [Next]_vars => SignersAdmitted'
  <1> SUFFICES ASSUME Typed, SignersAdmitted, [Next]_vars PROVE SignersAdmitted'
    OBVIOUS
  <1>1. CASE answer' = Nothing
    BY <1>1 DEF SignersAdmitted
  <1>2. CASE UNCHANGED vars
    BY <1>2 DEF SignersAdmitted, vars
  <1>3. ASSUME NEW q \in Requests, Receive(q) PROVE SignersAdmitted'
    <2>1. answer'.request = q /\ answer'.letIn = LetIn(q) /\ config' = config
      BY <1>3 DEF Receive
    <2>2. SUFFICES ASSUME q.authorization.form = "sigv4", q.authorization.names = SdkHeaders,
                          Repeated(q.parts) = {}, q.meant.pair = config.auth, q.headers["x-amz-date"] # Malformed
                   PROVE  LetIn(q)
      BY <2>1 DEF SignersAdmitted
    <2>3. q \notin UrlRequests
      <3>1. SUFFICES ASSUME q \in UrlRequests PROVE FALSE
        OBVIOUS
      <3>5. \A u \in Issuable : InHeader(u).authorization.names # SdkHeaders
        BY InHeaderHas DEF SdkHeaders
      <3>2. PICK i \in DOMAIN urls : q \in {Followed(urls[i])} \cup Strayed(urls[i])
        BY <2>2, <3>1, <3>5 DEF UrlRequests, Typed
      <3>3. q.authorization = NoHeader \/ \E p : q.authorization = Basic(p)
        BY <3>2, UrlUse
      <3>4. NoHeader.form # "sigv4" /\ \A p : Basic(p).form # "sigv4"
        BY DEF NoHeader, Basic
      <3> QED
        BY <2>2, <3>3, <3>4
    <2>4. CASE q \in SdkRequests
      <3>1. ASSUME NEW p, NEW c \in SdkCalls, NEW d, NEW e, NEW r, q = QuerySigned(p, c, d, e, r)
            PROVE  FALSE
        <4>1. q.authorization = NoHeader
          BY <3>1 DEF QuerySigned
        <4> QED
          BY <2>2, <4>1 DEF NoHeader
      <3>2. PICK p \in Pairs, c \in SdkCalls, d \in {SecondOf(clock), 0}, r \in Regions :
                q = HeaderSigned(p, c, d, r)
        BY <2>4, <3>1 DEF SdkRequests
      <3>3. q.meant.pair = p
        BY <3>2 DEF HeaderSigned, Meaning
      <3>4. q.parts = Flags(c.flags)
        BY <3>2 DEF HeaderSigned
      <3>5. config.auth = p /\ Repeated(Flags(c.flags)) = {} /\ clock \in Clocks
            /\ config \in Configs
        BY <2>2, <3>3, <3>4 DEF Typed
      <3> QED
        BY <3>2, <3>5, HeaderAdmitted
    <2>5. q \notin OtherRequests
      <3>1. SUFFICES ASSUME q \in OtherRequests PROVE FALSE
        OBVIOUS
      <3>2. \/ \E c, a : q = Unsigned(c, a)
            \/ \E p, c : q = [HeaderSigned(p, c, 0, "us-east-1")
                                  EXCEPT !.headers["x-amz-date"] = Malformed]
        BY <3>1 DEF OtherRequests
      <3>3. ASSUME NEW p, NEW c, q = [HeaderSigned(p, c, 0, "us-east-1")
                                          EXCEPT !.headers["x-amz-date"] = Malformed]
            PROVE  q.headers["x-amz-date"] = Malformed
        BY <3>3 DEF HeaderSigned, SdkHeaders
      <3>4. \E c, a : /\ q = Unsigned(c, a)
                      /\ \/ \E p : a = Basic(p)
                         \/ a \in {NoHeader, [form |-> "word"], Sigv4(Malformed, {}, Nothing)}
        BY <2>2, <3>1, <3>2, <3>3 DEF OtherRequests
      <3>5. PICK a : /\ q.authorization = a
                     /\ \/ \E p : a = Basic(p)
                        \/ a \in {NoHeader, [form |-> "word"], Sigv4(Malformed, {}, Nothing)}
        BY <3>4, NoParts
      <3>6. a = Sigv4(Malformed, {}, Nothing)
        BY <2>2, <3>5 DEF Basic, NoHeader
      <3>7. a.names = {}
        BY <3>6 DEF Sigv4
      <3> QED
        BY <2>2, <3>5, <3>7 DEF SdkHeaders
    <2> QED
      BY <2>3, <2>4, <2>5 DEF Requests
  <1> QED
    BY <1>1, <1>2, <1>3, StepsDecide

\* For all key pairs, regions, dates and flags none of which is repeated: a request
\* that an SDK signs in its header with the configured pair is let in.
THEOREM Admitted == Spec => []SignersAdmitted
  <1>1. Init => SignersAdmitted
    BY DEF Init, SignersAdmitted
  <1> QED
    BY <1>1, AdmittedNext, AlwaysTyped, PTL DEF Spec

-----------------------------------------------------------------------------
(* URLs are honoured.                                                      *)

LEMMA QuotientBelow ==
    ASSUME NEW t \in Nat, NEW s \in Nat \ {0}, NEW e \in Nat, t < (e + 1) * s
    PROVE  t \div s <= e
  <1> DEFINE d == t \div s
  <1>1. d \in Nat /\ d * s <= t
    BY Quotient
  <1> HIDE DEF d
  <1>2. SUFFICES ASSUME e + 1 <= d PROVE FALSE
    BY <1>1 DEF d
  <1>3. (e + 1) * s <= d * s
    BY <1>1, <1>2, Scaled
  <1>4. (e + 1) * s \in Int /\ d * s \in Int
    BY <1>1
  <1> QED
    BY <1>1, <1>3, <1>4

\* A clock between the issue of a URL and its end, or behind by the skew, finds
\* its age within bounds.
LEMMA FreshEnough ==
    ASSUME clock \in Nat, NEW issued \in Nat, NEW expires \in Nat,
           issued - Skew * Second <= clock, clock <= issued + expires * Second
    PROVE  InTime(SecondOf(issued), expires)
  <1> DEFINE s == Second
             date == SecondOf(issued)
             x == date * s
             t == clock - x
             y == expires * s
             z == Skew * s
  <1>1. s \in Nat \ {0} /\ Skew \in Nat
    BY TimeAssumption
  <1>2. date \in Nat /\ x <= issued /\ issued < (date + 1) * s
    BY <1>1, Quotient DEF SecondOf
  <1>3. Age(date) = IF t >= 0 THEN t \div s ELSE -((-t) \div s)
    BY DEF Age
  <1>4. issued - z <= clock /\ clock <= issued + y
    OBVIOUS
  <1> HIDE DEF s, date
  <1>5. x \in Nat /\ y \in Nat /\ z \in Nat
    BY <1>1, <1>2
  <1>6. /\ (date + 1) * s = x + s /\ (expires + 1) * s = y + s /\ (Skew + 1) * s = z + s
    <2>1. (date + 1) * s = date * s + 1 * s
      BY <1>1, <1>2, Spread
    <2>2. (expires + 1) * s = expires * s + 1 * s
      BY <1>1, Spread
    <2>3. (Skew + 1) * s = Skew * s + 1 * s
      BY <1>1, Spread
    <2>4. 1 * s = s
      BY <1>1
    <2> QED
      BY <2>1, <2>2, <2>3, <2>4
  <1>7. CASE t >= 0
    <2> HIDE DEF x, y, z
    <2>1. t \in Nat
      BY <1>5, <1>7
    <2>2. t < (expires + 1) * s
      BY <1>1, <1>2, <1>4, <1>5, <1>6
    <2> HIDE DEF t
    <2>3. t \div s <= expires /\ t \div s \in Nat
      BY <1>1, <2>1, <2>2, QuotientBelow, Quotient
    <2>4. Age(date) = t \div s
      BY <1>3, <1>7
    <2> DEFINE d == t \div s
    <2> HIDE DEF d
    <2>5. Age(date) <= expires /\ Age(date) >= -Skew
      BY <1>1, <2>3, <2>4 DEF d
    <2> QED
      BY <2>5 DEF InTime, date
  <1>8. CASE t < 0
    <2> HIDE DEF x, y, z
    <2> DEFINE m == -t
    <2>1. m \in Nat /\ t \in Int
      BY <1>5, <1>8
    <2>2. m < (Skew + 1) * s
      BY <1>1, <1>2, <1>4, <1>5, <1>6
    <2> HIDE DEF m
    <2>3. m \div s <= Skew /\ m \div s \in Nat
      BY <1>1, <2>1, <2>2, QuotientBelow, Quotient
    <2>4. Age(date) = -(m \div s)
      BY <1>3, <1>8, <2>1 DEF m
    <2> DEFINE d == m \div s
    <2> HIDE DEF d
    <2>5. Age(date) <= expires /\ Age(date) >= -Skew
      BY <1>1, <2>3, <2>4 DEF d
    <2> QED
      BY <2>5 DEF InTime, date
  <1>9. t \in Int
    BY <1>5
  <1> QED
    <2> HIDE DEF t
    <2> QED
      BY <1>7, <1>8, <1>9

LEMMA Honours ==
    ASSUME config \in Configs, clock \in Nat, NEW u \in Issuable, config.auth = u.pair,
           u.key \notin Escaped, u.port # DefaultPort, u.expires \in 1 .. MaxLifetime,
           u.issued - Skew * Second <= clock, clock <= u.issued + u.expires * Second
    PROVE  LetIn(Followed(u))
  <1> DEFINE q == Followed(u)
             date == SecondOf(u.issued)
             base == AsMap(BaseOf(u.pair, date, u.expires))
             headers == [h \in {"host"} |-> u.port]
             credential == Credential(u.pair, date, "us-east-1")
             query == ParseQuery(q.parts)
             signature == Signed(u.pair, u.method, RawPath(u.key), base, headers,
                                 "UNSIGNED-PAYLOAD", date, "us-east-1")
             params == Params(q, {"host"}, credential, "UNSIGNED-PAYLOAD", date)
  <1>1. /\ q.parts = u.parts /\ q.authorization = NoHeader
        /\ q.method = u.method /\ q.path = RawPath(u.key) /\ q.headers = headers
    BY DEF Followed, SentPath, HostHeader
  <1>2. Used(q.parts, u)
    BY <1>1 DEF Used
  <1>3. query["X-Amz-Credential"] = credential
    BY <1>2, UsedTold
  <1>4. query["X-Amz-Date"] = date
    BY <1>2, UsedTold
  <1>5. query["X-Amz-Signature"] = signature
    BY <1>2, UsedTold DEF UrlSignature, PresignedBy
  <1>6. /\ {"X-Amz-Credential", "X-Amz-Date", "X-Amz-Expires", "X-Amz-Signature",
            "X-Amz-SignedHeaders"} \subseteq DOMAIN query
        /\ query["X-Amz-Expires"] = u.expires
        /\ query["X-Amz-SignedHeaders"] = {"host"}
        /\ Rest(q.parts) = base
    BY <1>1, UrlParsed
  <1>7. u.issued \in Clocks /\ u.expires \in Nat /\ u.pair \in Pairs
    BY UrlParts, TimeAssumption
  <1>8. credential # Malformed /\ date # Malformed
    <2>1. PICK g \in Configs : g.auth = u.pair /\ g.auth # NoAuth
      BY <1>7 DEF Pairs
    <2>2. credential # Malformed
      BY <1>7, <2>1, MalformedAssumption
    <2>3. date \in Nat
      BY <1>7, SecondsAreNumbers
    <2> QED
      BY <2>2, <2>3, MalformedAssumption
  <1>9. InTime(date, u.expires)
    BY <1>7, SecondsAreNumbers, FreshEnough
  <1>10. credential.access = u.pair.access /\ credential.region = "us-east-1"
         /\ credential.service = "s3"
    BY DEF Credential
  <1>11. q.authorization.form = "none"
    BY <1>1 DEF NoHeader
  <1> HIDE DEF q, date, base, credential, signature
  <1>12. Named(headers, {"host"}) = headers
    BY DEF Named
  <1>13. /\ params.date = date /\ params.secret = u.pair.secret /\ params.region = "us-east-1"
         /\ params.service = "s3" /\ params.method = u.method /\ params.path = RawPath(u.key)
         /\ params.headers = headers /\ params.payload = "UNSIGNED-PAYLOAD"
         /\ params.query = query
    BY <1>1, <1>10, <1>12 DEF Params
  <1> HIDE DEF params, headers
  <1>14. [n \in DOMAIN params.query \ {"X-Amz-Signature"} |-> params.query[n]] = base
    BY <1>6, <1>13 DEF Rest
  <1>15. VerifySignature(params, signature)
    BY <1>8, <1>13, <1>14, Verifies DEF signature
  <1>16. VerifyQueryAuth(q)
    <2> HIDE DEF query
    <2> QED
      BY <1>3, <1>4, <1>5, <1>6, <1>8, <1>9, <1>10, <1>15 DEF VerifyQueryAuth, params, query
  <1>17. LetIn(q)
    BY <1>6, <1>11, <1>16 DEF LetIn
  <1> QED
    BY <1>17 DEF q

LEMMA HonouredNext == Typed /\ PresignedHonoured /\ [Next]_vars => PresignedHonoured'
  <1> SUFFICES ASSUME Typed, PresignedHonoured, [Next]_vars PROVE PresignedHonoured'
    OBVIOUS
  <1>1. CASE answer' = Nothing
    BY <1>1 DEF PresignedHonoured, Decided
  <1>2. CASE UNCHANGED vars
    BY <1>2 DEF PresignedHonoured, vars, Decided, Followed, HostHeader, SentPath
  <1>3. ASSUME NEW q \in Requests, Receive(q) PROVE PresignedHonoured'
    <2>1. /\ answer'.request = q /\ answer'.letIn = LetIn(q)
          /\ config' = config /\ clock' = clock /\ urls' = urls
      BY <1>3 DEF Receive
    <2>2. ASSUME NEW i \in DOMAIN urls, q = Followed(urls[i]), config.auth = urls[i].pair,
                 urls[i].key \notin Escaped, urls[i].port # DefaultPort,
                 urls[i].expires \in 1 .. MaxLifetime,
                 clock \in urls[i].issued - Skew * Second
                              .. urls[i].issued + urls[i].expires * Second
          PROVE  LetIn(q)
      <3> DEFINE u == urls[i]
      <3>1. u \in Issuable /\ config \in Configs /\ clock \in Nat
        BY SecondsAreNumbers DEF Typed
      <3>2. u.issued - Skew * Second <= clock /\ clock <= u.issued + u.expires * Second
        BY <2>2
      <3>3. /\ q = Followed(u) /\ config.auth = u.pair /\ u.key \notin Escaped
            /\ u.port # DefaultPort /\ u.expires \in 1 .. MaxLifetime
        BY <2>2
      <3> HIDE DEF u
      <3> QED
        BY <3>1, <3>2, <3>3, Honours
    <2>3. \A u : Followed(u)' = Followed(u)
      BY DEF Followed
    <2> QED
      BY <2>1, <2>2 DEF PresignedHonoured, Decided
  <1> QED
    BY <1>1, <1>2, <1>3, StepsDecide

\* For all servers, keys and lifetimes: a URL for a key that needs no escape,
\* from a server not on the default port, is let in for as long as it was issued.
THEOREM Honoured == Spec => []PresignedHonoured
  <1>1. Init => PresignedHonoured
    BY DEF Init, PresignedHonoured
  <1> QED
    BY <1>1, HonouredNext, AlwaysTyped, PTL DEF Spec
=============================================================================
