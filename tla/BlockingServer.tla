--------------------------- MODULE BlockingServer ---------------------------
(***************************************************************************)
(* The server of the FreeBSD build: the accept loop of src/main.rs, one    *)
(* thread per connection, and the HTTP/1.1 reader and writer of            *)
(* src/blocking_http.rs.                                                   *)
(*                                                                         *)
(* What travels on a connection is a sequence of tokens: a request line, a *)
(* header field, an empty line, one byte of a body, the size line of a     *)
(* chunk, the line end behind a chunk, a trailer.  A byte names the        *)
(* request it belongs to.                                                  *)
(***************************************************************************)
EXTENDS Naturals, Sequences, FiniteSets
LOCAL INSTANCE SequencesExt

CONSTANTS
    Conns,              \* the connections clients open
    Scripts,            \* for each of them, what its client may send
    MaxConnections,     \* MAX_CONNECTIONS
    MaxBody,            \* MAX_BODY_BYTES
    Word,               \* one more than the largest usize
    Pieces,             \* how many frames the body of a response has
    None                \* no framing, a response of unknown length

\* What a client may send: any length and any chunk sizes, those that fit no usize among
\* them.  A chunk of size zero would be the end of the body.
Request == [method : {"GET", "HEAD", "PUT"}, http11 : BOOLEAN,
            connection : {"close", "keep-alive", None},
            length : Nat \cup {None}, chunks : Seq(Nat \ {0}) \cup {None},
            expect : BOOLEAN]

ASSUME ServerAssumption ==
    /\ MaxConnections \in Nat /\ Pieces \in Nat
    /\ Word \in Nat /\ MaxBody \in Nat /\ MaxBody < Word \div 2
    /\ None \notin Nat

ASSUME ScriptsAssumption == \A c \in Conns : Scripts[c] \subseteq Seq(Request)

VARIABLES
    script,     \* the requests the client of a connection sends
    todo,       \* what it has still to send
    wire,       \* what it has sent and its thread has not read
    open,       \* the client is still there
    out,        \* what its thread has sent
    conn,       \* the locals of its thread
    handled,    \* the requests given to the router, with their bodies
    loop,       \* the step of the accept loop and the connection it is at
    active      \* ACTIVE_CONNECTIONS

client == <<script, todo, open>>

vars == <<client, wire, out, conn, handled, loop, active>>

-----------------------------------------------------------------------------
(* What clients send: heads and framing that are well formed.              *)

Token(kind, n) == [is |-> kind, val |-> n]

Times(n, t) == [i \in 1..n |-> t]

\* The fields of a head that decide how the connection goes on.
FieldsOf(q) ==
    (IF q.connection = None THEN <<>> ELSE <<Token(q.connection, 0)>>)
    \o (IF q.length = None THEN <<>> ELSE <<Token("content-length", q.length)>>)
    \o (IF q.chunks = None THEN <<>> ELSE <<Token("chunked", 0)>>)
    \o (IF q.expect THEN <<Token("expect", 0)>> ELSE <<>>)

Bytes(n, i) == Times(n, Token("byte", i))

\* A chunk of n bytes, and what is sent behind the last one.
ChunkOf(n, i) == <<Token("size", n)>> \o Bytes(n, i) \o <<Token("crlf", 0)>>

LastChunk == <<Token("size", 0), Token("trailer", 0), Token("blank", 0)>>

\* The body of the i-th request.
BodyOf(i, q) ==
    IF q.chunks # None
    THEN FlattenSeq([j \in DOMAIN q.chunks |-> ChunkOf(q.chunks[j], i)]) \o LastChunk
    ELSE IF q.length # None THEN Bytes(q.length, i) ELSE <<>>

\* "wait" is sent to nobody: there the client holds its body back until it hears of the
\* server.
RequestOf(i, q) ==
    <<Token("request", i)>> \o FieldsOf(q) \o <<Token("blank", 0)>>
    \o (IF q.expect THEN <<Token("wait", i)>> ELSE <<>>) \o BodyOf(i, q)

\* The locals of a thread; whether it read the version of its request; and whether it
\* read every line of it to the end, which the code does not know.
Idle == [pc |-> "away", of |-> 0, fields |-> {}, body |-> <<>>, left |-> 0, keep |-> FALSE,
         version |-> FALSE, whole |-> TRUE]

Init ==
    /\ script \in {s \in [Conns -> UNION {Scripts[c] : c \in Conns}] :
                        \A c \in Conns : s[c] \in Scripts[c]}
    /\ todo = [c \in Conns |-> FlattenSeq([i \in DOMAIN script[c] |-> RequestOf(i, script[c][i])])]
    /\ wire = [c \in Conns |-> <<>>]
    /\ open = [c \in Conns |-> TRUE]
    /\ out = [c \in Conns |-> <<>>]
    /\ conn = [c \in Conns |-> Idle]
    /\ handled = [c \in Conns |-> <<>>]
    /\ loop = [pc |-> "accept", at |-> None]
    /\ active = 0

At(c, step) == conn[c].pc = step

Goto(c, step) == conn' = [conn EXCEPT ![c].pc = step]

Serving(c) == conn[c].pc \notin {"away", "queued", "shed", "closed"}

\* The server has closed the connection.
Over(c) == conn[c].pc \in {"shed", "ended", "closed", "died"}

-----------------------------------------------------------------------------
(* The accept loop.  The kernel completes connections and holds them; what *)
(* a client sends before its connection is accepted is read after that, so *)
(* it is sent after that here.                                             *)

Connect(c) ==
    /\ At(c, "away")
    /\ Goto(c, "queued")
    /\ UNCHANGED <<client, wire, out, handled, loop, active>>

Accept(c) ==
    /\ loop.pc = "accept" /\ At(c, "queued")
    /\ loop' = [pc |-> "check", at |-> c]
    /\ UNCHANGED <<client, wire, out, conn, handled, active>>

\* Mutant: one connection too many.
PastCap == active > MaxConnections

AtCap == active >= MaxConnections

\* Past the cap the connection is dropped.
Check ==
    /\ loop.pc = "check"
    /\ \/ /\ AtCap
          /\ Goto(loop.at, "shed")
          /\ loop' = [pc |-> "accept", at |-> None]
       \/ /\ ~AtCap
          /\ loop' = [loop EXCEPT !.pc = "add"]
          /\ UNCHANGED conn
    /\ UNCHANGED <<client, wire, out, handled, active>>

Add ==
    /\ loop.pc = "add"
    /\ active' = active + 1
    /\ loop' = [loop EXCEPT !.pc = "spawn"]
    /\ UNCHANGED <<client, wire, out, conn, handled>>

Spawn ==
    /\ loop.pc = "spawn"
    /\ Goto(loop.at, "start")
    /\ loop' = [pc |-> "accept", at |-> None]
    /\ UNCHANGED <<client, wire, out, handled, active>>

-----------------------------------------------------------------------------
(* The client.                                                             *)

Send(c) ==
    /\ Serving(c) /\ ~Over(c) /\ open[c]
    /\ todo[c] # <<>> /\ Head(todo[c]).is # "wait"
    /\ wire' = [wire EXCEPT ![c] = Append(@, Head(todo[c]))]
    /\ todo' = [todo EXCEPT ![c] = Tail(@)]
    /\ UNCHANGED <<script, open, out, conn, handled, loop, active>>

\* The interim response, or the final one, lets the client go on.
Hear(c) ==
    /\ todo[c] # <<>> /\ Head(todo[c]).is = "wait"
    /\ \E j \in DOMAIN out[c] : out[c][j].of = Head(todo[c]).val
    /\ todo' = [todo EXCEPT ![c] = Tail(@)]
    /\ UNCHANGED <<script, open, wire, out, conn, handled, loop, active>>

LastAnswered(c) ==
    LET n == Len(script[c])
    IN  \E j \in DOMAIN out[c] :
            /\ out[c][j].is = "head" /\ out[c][j].of = n
            /\ Len(out[c]) - j = IF script[c][n].method = "HEAD" THEN 0 ELSE Pieces

\* A client closes the connection when its last request is answered, or when the
\* server has closed it.
Finish(c) ==
    /\ open[c] /\ Serving(c)
    /\ script[c] = <<>> \/ LastAnswered(c) \/ Over(c)
    /\ open' = [open EXCEPT ![c] = FALSE]
    /\ UNCHANGED <<script, todo, wire, out, conn, handled, loop, active>>

\* The client is gone in the middle of something.
Break(c) ==
    /\ open[c] /\ Serving(c)
    /\ open' = [open EXCEPT ![c] = FALSE]
    /\ UNCHANGED <<script, todo, wire, out, conn, handled, loop, active>>

-----------------------------------------------------------------------------
(* Reading a request.                                                      *)

\* Every return of serve_blocking_connection, with or without an error.
Return(c) == Goto(c, "ended") /\ UNCHANGED <<wire, out>>

ReadsEnd(c) == wire[c] = <<>> /\ ~open[c]

\* read_line: a line with its end.
ReadLine(c, kinds) ==
    /\ wire[c] # <<>> /\ Head(wire[c]).is \in kinds
    /\ wire' = [wire EXCEPT ![c] = Tail(@)]
    /\ UNCHANGED out

\* At the end of what the client sent read_line gives the part of a line that came, and
\* nobody looks for the line end.
CutShort(c, kinds) == ReadsEnd(c) /\ todo[c] # <<>> /\ Head(todo[c]).is \in kinds

\* What that part can be read as: of a number, the digits that came.
PartsOf(t) == {Token(t.is, v) : v \in 0..t.val}

\* A line of no use ends the connection.  So does a byte of a body that is read for a
\* line: bodies of which the bytes look like a request are outside the model.
Malformed(c, kinds) ==
    /\ wire[c] # <<>> /\ Head(wire[c]).is \notin kinds
    /\ Return(c)

\* read_exact: all of it, or an error.
ReadExact(c, n) ==
    /\ Len(wire[c]) >= n
    /\ wire' = [wire EXCEPT ![c] = SubSeq(@, n + 1, Len(@))]
    /\ UNCHANGED out

\* A read fails, or comes to its end too early, only when the client is gone; what it
\* sent before may be lost then.
ReadFails(c) == ~open[c] /\ Return(c)

FieldKinds == {"close", "keep-alive", "content-length", "chunked", "expect"}

\* try_clone may fail.
Start(c) ==
    /\ At(c, "start")
    /\ \/ Goto(c, "line") /\ UNCHANGED <<wire, out>>
       \/ Return(c)
    /\ UNCHANGED <<client, handled, loop, active>>

Received(i, version, whole) ==
    [Idle EXCEPT !.pc = "field", !.of = i, !.version = version, !.whole = whole]

\* A request line that is cut short keeps its method and a part of its target, and its
\* version if that came; with less of it the line is malformed.
RequestLine(c) ==
    /\ At(c, "line")
    /\ \/ /\ ReadLine(c, {"request"})
          /\ conn' = [conn EXCEPT ![c] = Received(Head(wire[c]).val, TRUE, TRUE)]
       \/ /\ conn[c].whole /\ CutShort(c, {"request"})
          /\ \E version \in BOOLEAN :
                 conn' = [conn EXCEPT ![c] = Received(Head(todo[c]).val, version, FALSE)]
          /\ UNCHANGED <<wire, out>>
       \/ Malformed(c, {"request"})
       \/ ReadFails(c)
    /\ UNCHANGED <<client, handled, loop, active>>

\* The field a head is cut short in, as far as it came.
CutField(c) ==
    {{}} \cup (IF CutShort(c, FieldKinds) THEN {{t} : t \in PartsOf(Head(todo[c]))} ELSE {})

\* The head ends at the empty line, or with what the client sent.
HeaderLine(c) ==
    /\ At(c, "field")
    /\ \/ /\ ReadLine(c, FieldKinds)
          /\ conn' = [conn EXCEPT ![c].fields = @ \cup {Head(wire[c])}]
       \/ ReadLine(c, {"blank"}) /\ Goto(c, "expect")
       \/ /\ ReadsEnd(c)
          /\ \E cut \in CutField(c) :
                 conn' = [conn EXCEPT ![c].fields = @ \cup cut, ![c].whole = FALSE,
                                      ![c].pc = "expect"]
          /\ UNCHANGED <<wire, out>>
       \/ Malformed(c, FieldKinds \cup {"blank"})
       \/ ReadFails(c)
    /\ UNCHANGED <<client, handled, loop, active>>

Method(c) == script[c][conn[c].of].method

Has(c, kind) == \E t \in conn[c].fields : t.is = kind

RequestKeepAlive(c) ==
    IF conn[c].version /\ script[c][conn[c].of].http11
    THEN ~Has(c, "close")
    ELSE Has(c, "keep-alive")

\* A length that is no usize counts like none.
ContentLength(c) ==
    IF \E t \in conn[c].fields : t.is = "content-length" /\ t.val < Word
    THEN (CHOOSE t \in conn[c].fields : t.is = "content-length").val
    ELSE 0

\* Mutant: the length counts first.
LengthFirst(c) ==
    IF ContentLength(c) # 0 THEN "fixed" ELSE IF Has(c, "chunked") THEN "chunked" ELSE "empty"

BodyPlan(c) ==
    IF Has(c, "chunked") THEN "chunked" ELSE IF ContentLength(c) = 0 THEN "empty" ELSE "fixed"

\* Mutant: no interim response.
NeverContinues(c) == FALSE

Wants100Continue(c) == Has(c, "expect")

Sent(c, kind, len, keep) == [is |-> kind, of |-> conn[c].of, len |-> len, keep |-> keep]

\* A write fails only when the client is gone, but need not fail then.
Write(c, t) == out' = [out EXCEPT ![c] = Append(@, t)] /\ UNCHANGED wire

WriteFails(c) == ~open[c] /\ Return(c)

Continue(c) ==
    /\ At(c, "expect")
    /\ \/ ~Wants100Continue(c) /\ Goto(c, "plan") /\ UNCHANGED <<wire, out>>
       \/ /\ Wants100Continue(c)
          /\ \/ Write(c, Sent(c, "continue", 0, TRUE)) /\ Goto(c, "plan")
             \/ WriteFails(c)
    /\ UNCHANGED <<client, handled, loop, active>>

ReadFixed(c) ==
    LET n == ContentLength(c)
    IN  \/ n > MaxBody /\ Return(c)
        \/ /\ n <= MaxBody
           /\ ReadExact(c, n)
           /\ conn' = [conn EXCEPT ![c].body = SubSeq(wire[c], 1, n), ![c].pc = "handle"]
        \/ n <= MaxBody /\ ReadFails(c)

ReadBody(c) ==
    /\ At(c, "plan")
    /\ \/ BodyPlan(c) = "empty" /\ Goto(c, "handle") /\ UNCHANGED <<wire, out>>
       \/ BodyPlan(c) = "chunked" /\ Goto(c, "size") /\ UNCHANGED <<wire, out>>
       \/ BodyPlan(c) = "fixed" /\ ReadFixed(c)
    /\ UNCHANGED <<client, handled, loop, active>>

\* Mutant: each chunk is held against the limit by itself.
EachOverLimit(had, size) == size > MaxBody

\* The sum wraps around in a release build.
OverLimit(had, size) == (had + size) % Word > MaxBody

\* vec! panics with a capacity overflow above isize::MAX, and the thread dies of it.
Unallocatable(size) == size >= Word \div 2

\* A size that is no usize is refused.
AfterSize(c, size) ==
    IF size = 0 THEN "trailer"
    ELSE IF size >= Word \/ OverLimit(Len(conn[c].body), size) THEN "ended"
    ELSE IF Unallocatable(size) THEN "died"
    ELSE "chunk"

ChunkSize(c) ==
    /\ At(c, "size")
    /\ \/ /\ ReadLine(c, {"size"})
          /\ LET size == Head(wire[c]).val IN
             conn' = [conn EXCEPT ![c].left = size, ![c].pc = AfterSize(c, size)]
       \/ /\ CutShort(c, {"size"})
          /\ \E t \in PartsOf(Head(todo[c])) :
                 conn' = [conn EXCEPT ![c].left = t.val, ![c].pc = AfterSize(c, t.val),
                                      ![c].whole = FALSE]
          /\ UNCHANGED <<wire, out>>
       \/ Malformed(c, {"size"})
       \/ ReadFails(c)
    /\ UNCHANGED <<client, handled, loop, active>>

\* The chunk and the line end behind it, which is not looked at.
Chunk(c) ==
    /\ At(c, "chunk")
    /\ \/ /\ ReadExact(c, conn[c].left + 1)
          /\ conn' = [conn EXCEPT ![c].body = @ \o SubSeq(wire[c], 1, conn[c].left),
                                  ![c].pc = "size"]
       \/ ReadFails(c)
    /\ UNCHANGED <<client, handled, loop, active>>

\* Everything up to an empty line, or to the end of what the client sent.
Trailer(c) ==
    /\ At(c, "trailer")
    /\ \/ wire[c] # <<>> /\ Head(wire[c]).is # "blank" /\ ReadExact(c, 1) /\ UNCHANGED conn
       \/ ReadLine(c, {"blank"}) /\ Goto(c, "handle")
       \/ ReadsEnd(c) /\ Goto(c, "handle") /\ UNCHANGED <<wire, out>>
       \/ ReadFails(c)
    /\ UNCHANGED <<client, handled, loop, active>>

-----------------------------------------------------------------------------
(* Answering it.                                                           *)

\* Mutant: the connection stays whatever the body's length.
KeepsAnyBody(c, exact) == RequestKeepAlive(c)

KeepAlive(c, exact) == RequestKeepAlive(c) /\ (Method(c) = "HEAD" \/ exact)

\* The router answers, with a body of known length or with one of unknown length.
Handle(c) ==
    /\ At(c, "handle")
    /\ handled' = [handled EXCEPT ![c] = Append(@, [of |-> conn[c].of, body |-> conn[c].body,
                                                     whole |-> conn[c].whole])]
    /\ \E exact \in BOOLEAN :
           conn' = [conn EXCEPT ![c].pc = IF exact THEN "head" ELSE "openhead",
                                ![c].keep = KeepAlive(c, exact)]
    /\ UNCHANGED <<client, wire, out, loop, active>>

\* A HEAD response has the length of the object and no body.
ContentLengthSent(c) == IF At(c, "head") \/ Method(c) = "HEAD" THEN Pieces ELSE None

AfterAnswer(c) == IF conn[c].keep THEN "line" ELSE "ended"

WriteHead(c) ==
    /\ conn[c].pc \in {"head", "openhead"}
    /\ \/ /\ Write(c, Sent(c, "head", ContentLengthSent(c), conn[c].keep))
          /\ conn' = [conn EXCEPT ![c].left = Pieces,
                                  ![c].pc = IF Method(c) = "HEAD" THEN AfterAnswer(c) ELSE "frame"]
       \/ WriteFails(c)
    /\ UNCHANGED <<client, handled, loop, active>>

\* A frame comes and is written; or the body's stream breaks.
Frame(c) ==
    /\ At(c, "frame")
    /\ \/ /\ conn[c].left > 0
          /\ \/ /\ Write(c, Sent(c, "data", 0, TRUE))
                /\ conn' = [conn EXCEPT ![c].left = @ - 1]
             \/ Return(c)
       \/ conn[c].left = 0 /\ Goto(c, AfterAnswer(c)) /\ UNCHANGED <<wire, out>>
    /\ UNCHANGED <<client, handled, loop, active>>

\* Mutant: it is given back again and again.
EndAgain(c) ==
    /\ At(c, "ended")
    /\ active' = active - 1
    /\ UNCHANGED <<client, wire, out, conn, handled, loop>>

\* The thread gives its slot back.
End(c) ==
    /\ At(c, "ended")
    /\ active' = active - 1
    /\ Goto(c, "closed")
    /\ UNCHANGED <<client, wire, out, handled, loop>>

-----------------------------------------------------------------------------
Thread(c) ==
    \/ Start(c) \/ RequestLine(c) \/ HeaderLine(c) \/ Continue(c) \/ ReadBody(c)
    \/ ChunkSize(c) \/ Chunk(c) \/ Trailer(c) \/ Handle(c) \/ WriteHead(c) \/ Frame(c) \/ End(c)

Loop == Check \/ Add \/ Spawn \/ \E c \in Conns : Accept(c)

Client(c) == Send(c) \/ Hear(c) \/ Finish(c)

Next == Loop \/ \E c \in Conns : Connect(c) \/ Client(c) \/ Break(c) \/ Thread(c)

Spec == Init /\ [][Next]_vars

\* Threads run on their own, and so does the accept loop.  Clients send what they have
\* to send and close in the end; the server sets no limit to how long that takes.
FairSpec ==
    /\ Spec
    /\ WF_vars(Loop)
    /\ \A c \in Conns : WF_vars(Thread(c)) /\ WF_vars(Client(c))

(* Properties.                                                             *)

Tokens == [is : FieldKinds \cup {"request", "blank", "wait", "byte", "size", "crlf", "trailer"},
           val : Nat]

Frames == [is : {"continue", "head", "data"}, of : Nat, len : Nat \cup {None}, keep : BOOLEAN]

Steps == {"away", "queued", "shed", "start", "line", "field", "expect", "plan", "size", "chunk",
          "trailer", "handle", "head", "openhead", "frame", "ended", "closed", "died"}

\* Every variable keeps its type; in particular no slot is given back that was not taken.
TypeOK ==
    /\ script \in [Conns -> Seq(Request)]
    /\ todo \in [Conns -> Seq(Tokens)] /\ wire \in [Conns -> Seq(Tokens)]
    /\ open \in [Conns -> BOOLEAN]
    /\ out \in [Conns -> Seq(Frames)]
    /\ conn \in [Conns -> [pc : Steps, of : Nat, fields : SUBSET Tokens, body : Seq(Tokens),
                           left : Nat, keep : BOOLEAN, version : BOOLEAN, whole : BOOLEAN]]
    /\ handled \in [Conns -> Seq([of : Nat, body : Seq(Tokens), whole : BOOLEAN])]
    /\ loop \in [pc : {"accept"}, at : {None}] \cup [pc : {"check", "add", "spawn"}, at : Conns]
    /\ active \in Nat

\* The bytes of the i-th request's body, without its framing.
WholeBody(i, q) ==
    IF q.chunks # None THEN FlattenSeq([j \in DOMAIN q.chunks |-> Bytes(q.chunks[j], i)])
    ELSE BodyOf(i, q)

TooBig(i, q) == Len(WholeBody(i, q)) > MaxBody

LineKinds == FieldKinds \cup {"request", "blank", "size"}

\* All that the client sent before it went was read, and it went inside a line or in
\* front of one.
BrokenOff(c) == CutShort(c, LineKinds)

\* The announced length is no usize.
Unreadable(q) == q.chunks = None /\ q.length # None /\ q.length >= Word

\* The router gets the requests of a connection in the order they were sent, none
\* skipped or made up, and each with the bytes of its own body and all of them, however
\* the client runs ahead.  There are two exceptions, each the last request of its
\* connection: one that the client broke off inside a line of, which may come with a
\* part of its target, its fields and its body; and one whose announced length is no
\* usize, which comes without a body (behind it the bytes of the body are read for
\* lines).
RequestsAsSent ==
    \A c \in Conns : \A i \in DOMAIN handled[c] :
        LET q == script[c][i]
            got == handled[c][i]
        IN  /\ got.of = i
            /\ \/ got.whole /\ got.body = WholeBody(i, q)
               \/ got.whole /\ got.body = <<>> /\ Unreadable(q) /\ i = Len(handled[c])
               \/ /\ ~got.whole /\ BrokenOff(c) /\ i = Len(handled[c])
                  /\ IsPrefix(got.body, WholeBody(i, q))

\* A client that reads by the framing of the heads finds every response where it looks
\* for it: the interim response in front of the head, at most the announced body behind
\* it, and another response only behind a body whose announced length is there and a
\* head that says the connection stays.
AnswersFramed ==
    \A c \in Conns : \A j \in DOMAIN out[c] :
        LET heads(k) == {i \in 1..k : out[c][i].is = "head"}
            later == {i \in (j + 1)..Len(out[c]) : out[c][i].is # "data"}
            next == IF later = {} THEN Len(out[c]) + 1
                    ELSE CHOOSE i \in later : \A l \in later : i <= l
            due == IF script[c][out[c][j].of].method = "HEAD" THEN 0 ELSE out[c][j].len
        IN  /\ out[c][j].is = "head" =>
                   /\ out[c][j].of = Cardinality(heads(j))
                   /\ due # None => next - j - 1 <= due
                   /\ later # {} => out[c][j].keep /\ due # None /\ next - j - 1 = due
            /\ out[c][j].is = "continue" => out[c][j].of = Cardinality(heads(j)) + 1

\* The limit alone decides about bodies: what the router gets is never above it, and a
\* client that stays is cut off while its request is read only for a body above it.
LimitDecides ==
    \A c \in Conns :
        /\ \A i \in DOMAIN handled[c] : Len(handled[c][i].body) <= MaxBody
        /\ Over(c) /\ open[c] /\ conn[c].of > Len(handled[c]) =>
               TooBig(conn[c].of, script[c][conn[c].of])

\* Every slot in use belongs to a thread that runs, is about to, or died of a panic, and
\* there are never more than MAX_CONNECTIONS.
SlotsAccountedFor ==
    /\ active = Cardinality({c \in Conns : Serving(c)}) + (IF loop.pc = "spawn" THEN 1 ELSE 0)
    /\ active <= MaxConnections

\* "so an aborted or failed PUT never truncates or partially overwrites existing data"
\* (src/handlers/object.rs): the router, which writes what it is given, gets no PUT that the
\* client broke off before all of its body was sent.
AbortedPutNotStored ==
    \A c \in Conns : \A i \in DOMAIN handled[c] :
        script[c][i].method = "PUT" /\ ~handled[c][i].whole =>
            handled[c][i].body = WholeBody(i, script[c][i])

\* A connection comes to its end if its client goes on sending: neither waits for the
\* other, not even over a body that is held back until 100 Continue.
ConnectionsEnd == \A c \in Conns : At(c, "queued") ~> Over(c)
=============================================================================
