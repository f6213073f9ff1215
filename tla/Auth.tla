-------------------------------- MODULE Auth --------------------------------
(***************************************************************************)
(* Who is let in: auth_middleware (src/auth/mod.rs) with its SigV4 check   *)
(* (src/auth/sigv4.rs), and the presigned URLs that POST /_admin/presign   *)
(* issues (src/handlers/admin.rs), against a clock that may be set and     *)
(* restarts that may change the configuration.                             *)
(*                                                                         *)
(* The middleware awaits nothing, so a request is decided in one step.  A  *)
(* signature is the record of what is signed and of the key: two are equal *)
(* exactly if they sign the same under the same key.                       *)
(***************************************************************************)
EXTENDS Integers, Sequences

CONSTANTS
    Configs,        \* the configurations the server may be started with
    NoAuth,         \* config.auth is not set
    Keys,           \* the bucket/key strings of URLs
    Escaped,        \* those that have a character a URL must escape
    Methods,
    UrlCalls,       \* the methods and keys that URLs are asked for
    SdkCalls,       \* the methods, keys and flags of the calls SDKs sign
    DefaultPort,    \* the port an HTTP client leaves out of the Host header
    PortOmitted,    \* a Host header without a port
    Regions,        \* those that SDKs sign for; the presigner says us-east-1
    Lifetimes,      \* the expiries that clients ask for, in seconds
    MaxLifetime,    \* 604800 s in the code
    Skew,           \* 300 s in the code
    DaySeconds,     \* 86400
    Second,         \* clock readings per second
    MaxClock,       \* the last reading of the clock
    MaxUrls,        \* how many URLs are issued
    Empty,          \* the empty string
    Malformed,      \* a date that is none, a credential of too few parts
    Nothing         \* no answer; no signer

ASSUME ConfigAssumption ==
    /\ \A c \in Configs :
           c.auth = NoAuth \/ c.auth = [access |-> c.auth.access, secret |-> c.auth.secret]
    /\ Configs # {} /\ Escaped \subseteq Keys
    /\ UrlCalls \subseteq [method : Methods, key : Keys]
    /\ \A c \in SdkCalls : /\ c.method \in Methods /\ c.key \in Keys
                             /\ c.flags \in Seq(STRING \ {"X-Amz-Signature"})

ASSUME TimeAssumption ==
    /\ {MaxLifetime, DaySeconds, Second} \subseteq Nat \ {0}
    /\ {Skew, MaxClock, MaxUrls} \subseteq Nat /\ Lifetimes \subseteq Nat

VARIABLES
    clock,      \* the system clock of the server
    config,     \* the configuration it was started with
    urls,       \* the presigned URLs it has issued
    answer      \* the request just decided: whether it reached its handler

vars == <<clock, config, urls, answer>>

Clocks == 0 .. MaxClock

SecondOf(t) == t \div Second

DayOf(d) == d \div DaySeconds

-----------------------------------------------------------------------------
(* src/auth/sigv4.rs                                                       *)

CanonicalRequest(method, path, query, headers, payload) ==
    [method |-> method, path |-> path, headers |-> headers, payload |-> payload,
     query |-> [n \in DOMAIN query \ {"X-Amz-Signature"} |-> query[n]]]

StringToSign(date, region, service, request) ==
    [date |-> date, scope |-> <<DayOf(date), region, service>>, request |-> request]

SigningKey(secret, day, region, service) == <<secret, day, region, service>>

\* HMAC-SHA256, with no two texts or keys that give one code.
Mac(key, text) == [key |-> key, text |-> text]

\* Mutant: only the lengths are compared.
LengthsEqual(p, signature) == p.date # Malformed

VerifySignature(p, signature) ==
    /\ p.date # Malformed
    /\ LET request == CanonicalRequest(p.method, p.path, p.query, p.headers, p.payload)
           key == SigningKey(p.secret, DayOf(p.date), p.region, p.service)
       IN  signature = Mac(key, StringToSign(p.date, p.region, p.service, request))

-----------------------------------------------------------------------------
(* src/auth/mod.rs.  A request has the parts of its query string, its      *)
(* headers, the Authorization header apart from them, and, for the         *)
(* properties only, what its signer meant.                                 *)

\* A parameter of a query string, and one written without "=".
Part(name, value) == [name |-> name, value |-> value]

Flag(name) == [name |-> name]

IsFlag(part) == "value" \notin DOMAIN part

\* Mutant: a parameter without "=" is dropped.
WithoutFlags(parts) ==
    LET Last(n) == CHOOSE i \in DOMAIN parts :
            parts[i].name = n /\ \A j \in DOMAIN parts : parts[j].name = n => j <= i
    IN  [n \in {parts[i].name : i \in {j \in DOMAIN parts : ~IsFlag(parts[j])}} |->
            parts[Last(n)].value]

\* The last of several parameters of one name counts.
ParseQuery(parts) ==
    LET Last(n) == CHOOSE i \in DOMAIN parts :
            parts[i].name = n /\ \A j \in DOMAIN parts : parts[j].name = n => j <= i
        Value(part) == IF IsFlag(part) THEN Empty ELSE part.value
    IN  [n \in {parts[i].name : i \in DOMAIN parts} |-> Value(parts[Last(n)])]

\* The signed headers the request has; one it lacks is passed over.
Named(headers, names) == [h \in names \cap DOMAIN headers |-> headers[h]]

Payload(q) ==
    IF "x-amz-content-sha256" \in DOMAIN q.headers
    THEN q.headers["x-amz-content-sha256"] ELSE "UNSIGNED-PAYLOAD"

Params(q, names, credential, payload, date) ==
    [method |-> q.method, path |-> q.path, query |-> ParseQuery(q.parts),
     headers |-> Named(q.headers, names), payload |-> payload, date |-> date,
     secret |-> config.auth.secret, region |-> credential.region,
     service |-> credential.service]

VerifyHeaderAuth(q) ==
    LET credential == q.authorization.credential
    IN  /\ credential # Malformed
        /\ \/ config.auth = NoAuth
           \/ /\ config.auth.access = credential.access
              /\ "x-amz-date" \in DOMAIN q.headers
              /\ VerifySignature(Params(q, q.authorization.names, credential, Payload(q),
                                        q.headers["x-amz-date"]), q.authorization.signature)

\* Mutant: the age is rounded up.
AgeRoundedUp(date) == (clock - date * Second + Second - 1) \div Second

\* num_seconds drops the fraction, towards zero.
Age(date) ==
    LET ticks == clock - date * Second
    IN  IF ticks >= 0 THEN ticks \div Second ELSE -((-ticks) \div Second)

\* Mutant: a date in the future makes a URL young, however far off it is.
FutureIsYoung(date, expires) == Age(date) <= expires

InTime(date, expires) == Age(date) <= expires /\ Age(date) >= -Skew

VerifyQueryAuth(q) ==
    LET query == ParseQuery(q.parts)
        credential == query["X-Amz-Credential"]
        date == query["X-Amz-Date"]
        expires == query["X-Amz-Expires"]
    IN  /\ {"X-Amz-Credential", "X-Amz-Date", "X-Amz-Expires", "X-Amz-Signature",
            "X-Amz-SignedHeaders"} \subseteq DOMAIN query
        /\ credential # Malformed
        /\ expires \in 1 .. MaxLifetime
        /\ date # Malformed
        /\ InTime(date, expires)
        /\ \/ config.auth = NoAuth
           \/ /\ config.auth.access = credential.access
              /\ VerifySignature(Params(q, query["X-Amz-SignedHeaders"], credential,
                                        "UNSIGNED-PAYLOAD", date), query["X-Amz-Signature"])

\* The forms of the Authorization header: absent, a word of no known form,
\* Basic with a key pair, and AWS4-HMAC-SHA256.
NoHeader == [form |-> "none"]

Basic(pair) == [form |-> "basic", pair |-> pair]

Sigv4(credential, names, signature) ==
    [form |-> "sigv4", credential |-> credential, names |-> names, signature |-> signature]

\* auth_middleware: an AWS4 header decides alone; a Basic header that does not
\* match leaves the decision to the query string.
LetIn(q) ==
    LET authorization == q.authorization
    IN  \/ authorization.form = "sigv4" /\ VerifyHeaderAuth(q)
        \/ authorization.form = "basic" /\ authorization.pair = config.auth
        \/ /\ authorization.form # "sigv4"
           /\ IF "X-Amz-Signature" \in DOMAIN ParseQuery(q.parts)
              THEN VerifyQueryAuth(q) ELSE config.auth = NoAuth

-----------------------------------------------------------------------------
(* What signers sign: the map of the query parameters (BTreeMap in         *)
(* admin.rs), in which a flag has the empty value.                         *)

AsMap(parts) ==
    [n \in {parts[i].name : i \in DOMAIN parts} |->
        (CHOOSE p \in {parts[i] : i \in DOMAIN parts} : p.name = n).value]

Repeated(parts) ==
    {parts[i].name : i \in {j \in DOMAIN parts :
                                \E k \in DOMAIN parts : k # j /\ parts[k].name = parts[j].name}}

\* SigV4 has a repeated parameter in what is signed as often as it is there, which
\* is no map.
SignerQuery(parts) ==
    IF Repeated(parts) = {} THEN AsMap(parts)
    ELSE [once |-> AsMap(parts), again |-> Repeated(parts)]

Credential(pair, date, region) ==
    [access |-> pair.access, day |-> DayOf(date), region |-> region, service |-> "s3"]

\* A date and a credential that can be read are not taken for malformed ones.
ASSUME MalformedAssumption ==
    /\ Malformed \notin Nat
    /\ \A c \in Configs, t \in Clocks, r \in Regions \cup {"us-east-1"} : c.auth # NoAuth =>
           \A date \in {SecondOf(t), 0} : Credential(c.auth, date, r) # Malformed

\* The path of a URL before and after the client escapes it.
RawPath(k) == <<k, "raw">>

SentPath(k) == IF k \in Escaped THEN <<k, "escaped">> ELSE RawPath(k)

\* The Host header of a client that was given a URL with this port.
HostHeader(port) == [h \in {"host"} |-> IF port = DefaultPort THEN PortOmitted ELSE port]

\* What SigV4 asks a signer to compute over a call and the parameters and
\* headers it adds.
Signed(pair, method, path, query, headers, payload, date, region) ==
    Mac(<<pair.secret, DayOf(date), region, "s3">>,
        [date |-> date, scope |-> <<DayOf(date), region, "s3">>,
         request |-> [method |-> method, path |-> path, query |-> query,
                      headers |-> headers, payload |-> payload]])

Meaning(pair, method, path, query) ==
    [pair |-> pair, method |-> method, path |-> path, query |-> query]

-----------------------------------------------------------------------------
(* src/handlers/admin.rs: generate_presigned_url                           *)

\* Mutant: the port of the server is left out.
EndpointOnly == PortOmitted

\* The host of a URL, endpoint:port.
UrlHost == config.port

CanPresign == config.auth # NoAuth

\* The five parameters of a URL issued now.
PresignParams(expires) ==
    LET date == SecondOf(clock)
    IN  <<Part("X-Amz-Algorithm", "AWS4-HMAC-SHA256"),
          Part("X-Amz-Credential", Credential(config.auth, date, "us-east-1")),
          Part("X-Amz-Date", date), Part("X-Amz-Expires", expires),
          Part("X-Amz-SignedHeaders", {"host"})>>

PresignedUrl(method, k, expires) ==
    LET date == SecondOf(clock)
        parts == PresignParams(expires)
        signature == Mac(<<config.auth.secret, DayOf(date), "us-east-1", "s3">>,
            [date |-> date, scope |-> <<DayOf(date), "us-east-1", "s3">>,
             request |-> [method |-> method, path |-> RawPath(k), query |-> AsMap(parts),
                          headers |-> [h \in {"host"} |-> UrlHost],
                          payload |-> "UNSIGNED-PAYLOAD"]])
    IN  [method |-> method, key |-> k, port |-> UrlHost, expires |-> expires,
         issued |-> clock, pair |-> config.auth,
         parts |-> Append(parts, Part("X-Amz-Signature", signature))]

\* POST /_admin/presign is behind the middleware like every route.
PresignCall ==
    [method |-> "POST", path |-> <<"_admin", "presign">>, parts |-> <<>>,
     headers |-> HostHeader(config.port), authorization |-> Basic(config.auth),
     meant |-> Nothing]

Presign(method, k, expires) ==
    /\ answer = Nothing
    /\ Len(urls) < MaxUrls
    /\ CanPresign
    /\ LetIn(PresignCall)
    /\ urls' = Append(urls, PresignedUrl(method, k, expires))
    /\ UNCHANGED <<clock, config, answer>>

-----------------------------------------------------------------------------
(* The requests of clients.                                                *)

\* A URL followed as it was issued.
Followed(u) ==
    [method |-> u.method, path |-> SentPath(u.key), parts |-> u.parts,
     headers |-> HostHeader(u.port), authorization |-> NoHeader,
     meant |-> Meaning(u.pair, u.method, RawPath(u.key), AsMap(SubSeq(u.parts, 1, 5)))]

\* A URL taken for another method, another key, a longer time, a flag it was
\* not issued with, or beside a Basic header.
Strayed(u) ==
    LET q == Followed(u)
    IN  {[q EXCEPT !.method = m] : m \in Methods}
        \cup {[q EXCEPT !.path = SentPath(k)] : k \in Keys}
        \cup {[q EXCEPT !.parts = Append(@, Part("X-Amz-Expires", e))] : e \in Lifetimes}
        \cup {[q EXCEPT !.parts = Append(@, Flag("acl"))]}
        \cup {[q EXCEPT !.authorization = Basic(c.auth)] : c \in {d \in Configs : d.auth # NoAuth}}

\* A URL's parameters with its signature in the Authorization header, and its date in
\* a header of its own.
InHeader(u) ==
    LET query == ParseQuery(u.parts)
    IN  [Followed(u) EXCEPT
            !.headers = [h \in {"host", "x-amz-date"} |->
                            IF h = "host" THEN @[h] ELSE query["X-Amz-Date"]],
            !.authorization = Sigv4(query["X-Amz-Credential"], query["X-Amz-SignedHeaders"],
                                    query["X-Amz-Signature"])]

Flags(flags) == [i \in DOMAIN flags |-> Flag(flags[i])]

\* In what is signed a flag has the empty value.
SignedFlags(flags) == [i \in DOMAIN flags |-> Part(flags[i], Empty)]

SdkHeaders == {"host", "x-amz-content-sha256", "x-amz-date"}

\* A request that an SDK signs in the Authorization header.
HeaderSigned(pair, c, date, region) ==
    LET headers == [h \in SdkHeaders |-> CASE h = "host" -> config.port
                                           [] h = "x-amz-content-sha256" -> "sha256"
                                           [] h = "x-amz-date" -> date]
        query == SignerQuery(SignedFlags(c.flags))
        signature == Signed(pair, c.method, SentPath(c.key), query, headers, "sha256", date, region)
    IN  [method |-> c.method, path |-> SentPath(c.key), parts |-> Flags(c.flags),
         headers |-> headers,
         authorization |-> Sigv4(Credential(pair, date, region), SdkHeaders, signature),
         meant |-> Meaning(pair, c.method, SentPath(c.key), query)]

\* A URL that an SDK signs by itself.
QuerySigned(pair, c, date, expires, region) ==
    LET amz == <<Part("X-Amz-Credential", Credential(pair, date, region)),
                 Part("X-Amz-Date", date), Part("X-Amz-Expires", expires),
                 Part("X-Amz-SignedHeaders", {"host"})>>
        query == SignerQuery(SignedFlags(c.flags) \o amz)
        headers == HostHeader(config.port)
        signature == Signed(pair, c.method, SentPath(c.key), query, headers, "UNSIGNED-PAYLOAD",
                            date, region)
    IN  [method |-> c.method, path |-> SentPath(c.key),
         parts |-> Flags(c.flags) \o Append(amz, Part("X-Amz-Signature", signature)),
         headers |-> headers, authorization |-> NoHeader,
         meant |-> Meaning(pair, c.method, SentPath(c.key), query)]

\* A request that is not signed, with this Authorization header.
Unsigned(c, authorization) ==
    [method |-> c.method, path |-> SentPath(c.key), parts |-> <<>>,
     headers |-> HostHeader(config.port), authorization |-> authorization, meant |-> Nothing]

Pairs == {c.auth : c \in {d \in Configs : d.auth # NoAuth}}

UrlRequests == UNION {{Followed(urls[i]), InHeader(urls[i])} \cup Strayed(urls[i]) : i \in DOMAIN urls}

SdkRequests ==
    LET Dates == {SecondOf(clock), 0}
    IN  {HeaderSigned(p, c, d, r) : p \in Pairs, c \in SdkCalls, d \in Dates, r \in Regions}
        \cup {QuerySigned(p, c, d, e, r) :
                 p \in Pairs, c \in SdkCalls, d \in Dates, e \in Lifetimes, r \in Regions}

OtherRequests ==
    {Unsigned(c, a) : c \in UrlCalls,
        a \in {Basic(p) : p \in Pairs} \cup {NoHeader, [form |-> "word"],
               Sigv4(Malformed, {}, Nothing)}}
    \cup {[HeaderSigned(p, c, 0, "us-east-1") EXCEPT !.headers["x-amz-date"] = Malformed] :
            p \in Pairs, c \in SdkCalls}

Requests == UrlRequests \cup SdkRequests \cup OtherRequests

-----------------------------------------------------------------------------

Init ==
    /\ clock \in Clocks
    /\ config \in Configs
    /\ urls = <<>>
    /\ answer = Nothing

\* Time passes, or the clock is set: forward or back.
SetClock ==
    /\ answer = Nothing
    /\ clock' \in Clocks
    /\ UNCHANGED <<config, urls, answer>>

\* The server stops and is started, perhaps with another configuration.
Restart ==
    /\ answer = Nothing
    /\ config' \in Configs
    /\ UNCHANGED <<clock, urls, answer>>

\* auth_middleware decides a request.
Receive(q) ==
    /\ answer = Nothing
    /\ answer' = [request |-> q, letIn |-> LetIn(q)]
    /\ UNCHANGED <<clock, config, urls>>

\* The response has been sent.
Finish ==
    /\ answer # Nothing
    /\ answer' = Nothing
    /\ UNCHANGED <<clock, config, urls>>

Next ==
    \/ SetClock \/ Restart \/ Finish
    \/ \E c \in UrlCalls, e \in Lifetimes : Presign(c.method, c.key, e)
    \/ \E q \in Requests : Receive(q)

Spec == Init /\ [][Next]_vars

-----------------------------------------------------------------------------
(* Properties.                                                             *)

\* The URLs kept are those of a configuration with a key pair, and only what
\* was decided is an answer.
TypeOK ==
    /\ clock \in Clocks /\ config \in Configs
    /\ Len(urls) <= MaxUrls
    /\ \A i \in DOMAIN urls :
           /\ [method |-> urls[i].method, key |-> urls[i].key] \in UrlCalls
           /\ urls[i].port \in {c.port : c \in Configs} /\ urls[i].expires \in Lifetimes
           /\ urls[i].issued \in Clocks /\ urls[i].pair \in Pairs
    /\ answer = Nothing \/ answer.letIn \in BOOLEAN

Decided(q) == answer # Nothing /\ answer.request = q

\* auth_middleware: where a key pair is configured, a request that is let in has
\* the pair itself, or was signed with it for this method, this path and these
\* parameters: a URL opens nothing else, and nothing after the secret changed.
LetInByRight ==
    (answer # Nothing /\ answer.letIn /\ config.auth # NoAuth) =>
        LET q == answer.request
            query == ParseQuery(q.parts)
        IN  \/ q.authorization = Basic(config.auth)
            \/ q.meant = Meaning(config.auth, q.method, q.path,
                   [n \in DOMAIN query \ {"X-Amz-Signature"} |-> query[n]])

\* verify_query_auth: a request with its signature in the query is not let in before
\* its date, less the skew, nor a second after its lifetime, however the clock was
\* set.  It says nothing of a signature in the Authorization header, whose age
\* verify_header_auth does not look at.
UrlsLapse ==
    (/\ answer # Nothing /\ answer.letIn /\ config.auth # NoAuth
     /\ answer.request.authorization.form # "sigv4"
     /\ answer.request.authorization # Basic(config.auth)) =>
        LET date == answer.request.meant.query["X-Amz-Date"]
            expires == answer.request.meant.query["X-Amz-Expires"]
        IN  /\ (date - Skew - 1) * Second < clock
            /\ clock < (date + expires + 1) * Second
            /\ expires <= MaxLifetime

\* generate_presigned_url and verify_query_auth agree: a URL for a key that
\* needs no escape, from a server not on the default port, can be followed as
\* long as it was issued for, across midnight and with the clock a little back.
PresignedHonoured ==
    \A i \in DOMAIN urls :
        LET u == urls[i]
        IN  (/\ Decided(Followed(u)) /\ config.auth = u.pair
             /\ u.key \notin Escaped /\ u.port # DefaultPort
             /\ u.expires \in 1 .. MaxLifetime
             /\ clock \in u.issued - Skew * Second .. u.issued + u.expires * Second)
            => answer.letIn

\* The comment of verify_query_auth: a presigned URL is a credential valid only for
\* X-Amz-Expires seconds.  It is not so where its signature comes in the header.
UrlsBounded ==
    (/\ answer # Nothing /\ answer.letIn /\ config.auth # NoAuth
     /\ "X-Amz-Expires" \in DOMAIN ParseQuery(answer.request.parts)
     /\ answer.request.authorization # Basic(config.auth)) =>
        LET query == ParseQuery(answer.request.parts)
        IN  clock < (query["X-Amz-Date"] + query["X-Amz-Expires"] + 1) * Second

\* verify_header_auth agrees with SDKs that sign with the configured pair, whatever
\* the region, the date and the flags of the query, but for repeated ones.
SignersAdmitted ==
    (/\ answer # Nothing
     /\ answer.request.authorization.form = "sigv4"
     /\ answer.request.authorization.names = SdkHeaders
     /\ Repeated(answer.request.parts) = {}
     /\ answer.request.meant.pair = config.auth
     /\ answer.request.headers["x-amz-date"] # Malformed) => answer.letIn
=============================================================================
