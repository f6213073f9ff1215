------------------------ MODULE BlockingServerProofs ------------------------
(***************************************************************************)
(* Proofs about BlockingServer, for any number of connections, any scripts *)
(* of their clients and any limits: its types, and its slots, which are    *)
(* all accounted for; then what its threads read, which is what their      *)
(* clients sent: the requests of a connection reach the router in order    *)
(* and with their own bodies, and the limit on a body is what decides      *)
(* whether it does; and what they write, which their clients find where    *)
(* the heads say it is.                                                    *)
(***************************************************************************)
EXTENDS BlockingServer, SequenceInduction, FiniteSetTheorems
LOCAL INSTANCE SequencesExt

LEMMA FlattenIsRest ==
    ASSUME NEW S, NEW ss \in Seq(Seq(S))
    PROVE  FlattenSeq(ss) = Rests(ss)[0]
  <1>1. CASE ss = <<>>
    <2>1. FlattenSeq(ss) = ss
      BY <1>1 DEF FlattenSeq
    <2>2. AreRests(Rests(ss), ss)
      BY RestsExist
    <2> QED
      BY <1>1, <2>1, <2>2 DEF AreRests
  <1>2. CASE ss # <<>>
    <2>1. Len(ss) \in Nat /\ Len(ss) # 0
      BY <1>2, EmptySeq
    <2> DEFINE f == CHOOSE f : f = [i \in 1..Len(ss) |->
                                        IF i = 1 THEN ss[i] ELSE f[i - 1] \o ss[i]]
    <2>2. \E g : g = [i \in 1..Len(ss) |-> IF i = 1 THEN ss[i] ELSE g[i - 1] \o ss[i]]
      BY <2>1, FlattensExists DEF Flattens, Then
    <2>3. f = [i \in 1..Len(ss) |-> IF i = 1 THEN ss[i] ELSE f[i - 1] \o ss[i]]
      BY <2>2
    <2>4. FlattenSeq(ss) = f[Len(ss)]
      BY <2>1 DEF FlattenSeq
    <2> HIDE DEF f
    <2>5. Flattens(f, ss, Len(ss))
      BY <2>3 DEF Flattens, Then
    <2>6. PICK r : AreRests(r, ss) /\ r[0] = f[Len(ss)]
      BY <1>2, <2>5, FlattensHasRests
    <2>7. Rests(ss)[0] = r[0]
      BY <2>1, <2>6, RestsExist, RestsDetermined
    <2> QED
      BY <2>4, <2>6, <2>7
  <1> QED
    BY <1>1, <1>2

LEMMA FlattenTyped ==
    ASSUME NEW S, NEW ss \in Seq(Seq(S))
    PROVE  FlattenSeq(ss) \in Seq(S)
  BY FlattenIsRest, RestsTyped

-----------------------------------------------------------------------------
(* What clients send is a sequence of tokens.                              *)

LEMMA TimesTyped ==
    ASSUME NEW n \in Nat, NEW S, NEW t \in S
    PROVE  Times(n, t) \in Seq(S) /\ Len(Times(n, t)) = n
  BY DEF Times

LEMMA TokenTyped ==
    ASSUME NEW i \in Nat
    PROVE  /\ Token("request", i) \in Tokens /\ Token("blank", i) \in Tokens
           /\ Token("wait", i) \in Tokens /\ Token("byte", i) \in Tokens
           /\ Token("size", i) \in Tokens /\ Token("crlf", i) \in Tokens
           /\ Token("trailer", i) \in Tokens /\ Token("close", i) \in Tokens
           /\ Token("keep-alive", i) \in Tokens /\ Token("content-length", i) \in Tokens
           /\ Token("chunked", i) \in Tokens /\ Token("expect", i) \in Tokens
  BY DEF Token, Tokens, FieldKinds

LEMMA SingleTyped ==
    ASSUME NEW S, NEW t \in S
    PROVE  <<t>> \in Seq(S)
  OBVIOUS

LEMMA FieldsTyped ==
    ASSUME NEW q \in Request
    PROVE  FieldsOf(q) \in Seq(Tokens)
  <1>1. /\ q.connection # None => Token(q.connection, 0) \in Tokens
        /\ q.length # None => Token("content-length", q.length) \in Tokens
        /\ Token("chunked", 0) \in Tokens /\ Token("expect", 0) \in Tokens
    BY TokenTyped, ServerAssumption DEF Request
  <1> DEFINE a == IF q.connection = None THEN <<>> ELSE <<Token(q.connection, 0)>>
             b == IF q.length = None THEN <<>> ELSE <<Token("content-length", q.length)>>
             c == IF q.chunks = None THEN <<>> ELSE <<Token("chunked", 0)>>
             d == IF q.expect THEN <<Token("expect", 0)>> ELSE <<>>
  <1>2. a \in Seq(Tokens) /\ b \in Seq(Tokens) /\ c \in Seq(Tokens) /\ d \in Seq(Tokens)
    BY <1>1
  <1> HIDE DEF a, b, c, d
  <1>3. ((a \o b) \o c) \o d \in Seq(Tokens)
    BY <1>2
  <1> QED
    BY <1>3 DEF FieldsOf, a, b, c, d

LEMMA BodyTyped ==
    ASSUME NEW q \in Request, NEW i \in Nat
    PROVE  BodyOf(i, q) \in Seq(Tokens)
  <1>1. Word \in Nat /\ LastChunk \in Seq(Tokens)
    BY TokenTyped, ServerAssumption DEF LastChunk
  <1>2. \A n \in Nat : Bytes(n, i) \in Seq(Tokens)
    BY TimesTyped, TokenTyped DEF Bytes
  <1>3. CASE q.chunks # None
    <2> DEFINE ss == [j \in DOMAIN q.chunks |-> ChunkOf(q.chunks[j], i)]
    <2>1. q.chunks \in Seq(Nat)
      BY <1>1, <1>3 DEF Request
    <2>2. ASSUME NEW n \in Nat
          PROVE  ChunkOf(n, i) \in Seq(Tokens)
      <3>1. <<Token("size", n)>> \in Seq(Tokens) /\ <<Token("crlf", 0)>> \in Seq(Tokens)
        BY TokenTyped
      <3> QED
        BY <1>2, <3>1 DEF ChunkOf
    <2>3. ss \in Seq(Seq(Tokens))
      <3>1. Len(q.chunks) \in Nat /\ DOMAIN q.chunks = 1..Len(q.chunks)
        BY <2>1
      <3>2. \A j \in 1..Len(q.chunks) : q.chunks[j] \in Nat
        BY <2>1
      <3>3. ss \in [1..Len(q.chunks) -> Seq(Tokens)]
        BY <2>2, <3>1, <3>2
      <3> HIDE DEF ss
      <3> QED
        BY <3>1, <3>3, FunctionIsSeq
    <2>4. FlattenSeq(ss) \in Seq(Tokens)
      BY <2>3, FlattenTyped
    <2> QED
      BY <1>1, <1>3, <2>4 DEF BodyOf
  <1>4. CASE q.chunks = None
    <2>1. q.length # None => q.length \in Nat
      BY <1>1 DEF Request
    <2> QED
      BY <1>2, <1>4, <2>1 DEF BodyOf
  <1> QED
    BY <1>3, <1>4

LEMMA RequestTyped ==
    ASSUME NEW q \in Request, NEW i \in Nat
    PROVE  RequestOf(i, q) \in Seq(Tokens)
  <1> DEFINE w == IF q.expect THEN <<Token("wait", i)>> ELSE <<>>
  <1>1. /\ <<Token("request", i)>> \in Seq(Tokens) /\ <<Token("blank", 0)>> \in Seq(Tokens)
        /\ w \in Seq(Tokens)
    BY TokenTyped
  <1>2. FieldsOf(q) \in Seq(Tokens) /\ BodyOf(i, q) \in Seq(Tokens)
    BY FieldsTyped, BodyTyped
  <1> HIDE DEF w
  <1>3. <<Token("request", i)>> \o FieldsOf(q) \o <<Token("blank", 0)>> \o w \o BodyOf(i, q)
        \in Seq(Tokens)
    BY <1>1, <1>2
  <1> QED
    BY <1>3 DEF RequestOf, w

\* What the client of a connection has to send, request by request.
RequestsOf(s) == [i \in DOMAIN s |-> RequestOf(i, s[i])]

LEMMA RequestsTyped ==
    ASSUME NEW s \in Seq(Request)
    PROVE  RequestsOf(s) \in Seq(Seq(Tokens)) /\ Len(RequestsOf(s)) = Len(s)
  <1>1. Len(s) \in Nat /\ DOMAIN s = 1..Len(s) /\ \A i \in 1..Len(s) : s[i] \in Request
    OBVIOUS
  <1>2. RequestsOf(s) \in [1..Len(s) -> Seq(Tokens)]
    BY <1>1, RequestTyped DEF RequestsOf
  <1> QED
    BY <1>1, <1>2, FunctionIsSeq

-----------------------------------------------------------------------------
(* Types.                                                                  *)

Locals == [pc : Steps, of : Nat, fields : SUBSET Tokens, body : Seq(Tokens), left : Nat,
           keep : BOOLEAN, version : BOOLEAN, whole : BOOLEAN]

Entries == [of : Nat, body : Seq(Tokens), whole : BOOLEAN]

\* The types without the count of the slots.
Typed ==
    /\ script \in [Conns -> Seq(Request)]
    /\ todo \in [Conns -> Seq(Tokens)] /\ wire \in [Conns -> Seq(Tokens)]
    /\ open \in [Conns -> BOOLEAN]
    /\ out \in [Conns -> Seq(Frames)]
    /\ conn \in [Conns -> Locals]
    /\ handled \in [Conns -> Seq(Entries)]
    /\ loop \in [pc : {"accept"}, at : {None}] \cup [pc : {"check", "add", "spawn"}, at : Conns]

LEMMA InitTyped == Init => Typed
  <1> SUFFICES ASSUME Init PROVE Typed
    OBVIOUS
  <1>1. script \in [Conns -> Seq(Request)]
    BY ScriptsAssumption DEF Init
  <1>2. todo \in [Conns -> Seq(Tokens)]
    <2>1. ASSUME NEW c \in Conns
          PROVE  FlattenSeq(RequestsOf(script[c])) \in Seq(Tokens)
      BY <1>1, RequestsTyped, FlattenTyped
    <2>2. todo = [c \in Conns |-> FlattenSeq(RequestsOf(script[c]))]
      BY DEF Init, RequestsOf
    <2> QED
      BY <2>1, <2>2
  <1>3. Idle \in Locals
    BY DEF Idle, Locals, Steps
  <1> QED
    BY <1>1, <1>2, <1>3 DEF Init, Typed

LEMMA SetPc == ASSUME NEW x \in Locals, NEW step \in Steps PROVE [x EXCEPT !.pc = step] \in Locals
  BY DEF Locals

LEMMA GotoTyped ==
    ASSUME conn \in [Conns -> Locals], NEW c \in Conns, NEW step \in Steps, Goto(c, step)
    PROVE  conn' \in [Conns -> Locals]
  <1>1. [conn[c] EXCEPT !.pc = step] \in Locals
    BY SetPc
  <1> QED
    BY <1>1 DEF Goto

LEMMA ReturnTyped ==
    ASSUME Typed, NEW c \in Conns, Return(c)
    PROVE  conn' \in [Conns -> Locals] /\ wire' = wire /\ out' = out
  BY GotoTyped DEF Return, Typed, Steps

LEMMA ReadTyped ==
    ASSUME Typed, NEW c \in Conns, wire[c] # <<>>
    PROVE  /\ Head(wire[c]) \in Tokens /\ Head(wire[c]).val \in Nat
           /\ [wire EXCEPT ![c] = Tail(@)] \in [Conns -> Seq(Tokens)]
  <1>1. wire[c] \in Seq(Tokens)
    BY DEF Typed
  <1>2. Head(wire[c]) \in Tokens /\ Tail(wire[c]) \in Seq(Tokens)
    BY <1>1
  <1> QED
    BY <1>2 DEF Typed, Tokens

LEMMA ExactTyped ==
    ASSUME Typed, NEW c \in Conns, NEW n \in Nat, ReadExact(c, n)
    PROVE  wire' \in [Conns -> Seq(Tokens)] /\ out' = out
  <1>1. wire[c] \in Seq(Tokens) /\ Len(wire[c]) \in Nat
    BY DEF Typed
  <1>2. SubSeq(wire[c], n + 1, Len(wire[c])) \in Seq(Tokens)
    BY <1>1
  <1> QED
    BY <1>2 DEF Typed, ReadExact

LEMMA WriteTyped ==
    ASSUME Typed, NEW c \in Conns, NEW t \in Frames, Write(c, t)
    PROVE  out' \in [Conns -> Seq(Frames)] /\ wire' = wire
  <1>1. Append(out[c], t) \in Seq(Frames)
    BY DEF Typed
  <1> QED
    BY <1>1 DEF Typed, Write

LEMMA LoopTyped == ASSUME Typed, Loop PROVE Typed'
  <1>1. CASE Check
    <2>1. CASE AtCap
      BY <1>1, <2>1, GotoTyped DEF Check, Typed, client, Steps
    <2>2. CASE ~AtCap
      BY <1>1, <2>2 DEF Check, Typed, client
    <2> QED
      BY <2>1, <2>2
  <1>2. CASE Add
    BY <1>2 DEF Add, Typed, client
  <1>3. CASE Spawn
    BY <1>3, GotoTyped DEF Spawn, Typed, client, Steps
  <1>4. ASSUME NEW c \in Conns, Accept(c) PROVE Typed'
    BY <1>4 DEF Accept, Typed, client
  <1> QED
    BY <1>1, <1>2, <1>3, <1>4 DEF Loop

LEMMA ClientTyped == ASSUME Typed, NEW c \in Conns, Connect(c) \/ Client(c) \/ Break(c) PROVE Typed'
  <1>1. CASE Connect(c)
    BY <1>1, GotoTyped DEF Connect, Typed, client, Steps
  <1>2. CASE Send(c)
    <2>1. wire[c] \in Seq(Tokens) /\ todo[c] \in Seq(Tokens) /\ todo[c] # <<>>
      BY <1>2 DEF Typed, Send
    <2>2. Append(wire[c], Head(todo[c])) \in Seq(Tokens) /\ Tail(todo[c]) \in Seq(Tokens)
      BY <2>1
    <2> QED
      BY <1>2, <2>2 DEF Send, Typed
  <1>3. CASE Hear(c)
    <2>1. todo[c] \in Seq(Tokens) /\ todo[c] # <<>>
      BY <1>3 DEF Typed, Hear
    <2>2. Tail(todo[c]) \in Seq(Tokens)
      BY <2>1
    <2> QED
      BY <1>3, <2>2 DEF Hear, Typed
  <1>4. CASE Finish(c) \/ Break(c)
    BY <1>4 DEF Finish, Break, Typed
  <1> QED
    BY <1>1, <1>2, <1>3, <1>4 DEF Client

\* The steps of a thread that has its slot.
Running == Steps \ {"away", "queued", "shed", "closed"}

Runners == {x \in Locals : x.pc \in Running}

\* A step of a thread that goes on, or has come to where it gives its slot back.
ThreadStep(c) ==
    /\ UNCHANGED <<client, loop, active>>
    /\ Serving(c)
    /\ wire' \in [Conns -> Seq(Tokens)] /\ out' \in [Conns -> Seq(Frames)]
    /\ handled' \in [Conns -> Seq(Entries)]
    /\ \E x \in Runners : conn' = [conn EXCEPT ![c] = x]

LEMMA ThreadStepTyped == ASSUME Typed, NEW c \in Conns, ThreadStep(c) PROVE Typed'
  BY DEF Typed, ThreadStep, Runners, client

LEMMA SetRunning ==
    ASSUME NEW x \in Locals, NEW step \in Running
    PROVE  [x EXCEPT !.pc = step] \in Runners
  BY DEF Locals, Runners, Running

LEMMA GotoStep ==
    ASSUME Typed, NEW c \in Conns, NEW step \in Running, Goto(c, step)
    PROVE  \E x \in Runners : conn' = [conn EXCEPT ![c] = x]
  <1>1. [conn[c] EXCEPT !.pc = step] \in Runners
    BY SetRunning DEF Typed
  <1> QED
    BY <1>1 DEF Goto

LEMMA StepsAre ==
    /\ "line" \in Running /\ "field" \in Running /\ "expect" \in Running /\ "plan" \in Running
    /\ "size" \in Running /\ "chunk" \in Running /\ "trailer" \in Running /\ "handle" \in Running
    /\ "head" \in Running /\ "openhead" \in Running /\ "frame" \in Running /\ "ended" \in Running
    /\ "died" \in Running
  BY DEF Steps, Running

LEMMA ReturnStep ==
    ASSUME Typed, NEW c \in Conns, Return(c), Serving(c), UNCHANGED <<client, handled, loop, active>>
    PROVE  ThreadStep(c)
  <1>1. \E x \in Runners : conn' = [conn EXCEPT ![c] = x]
    BY GotoStep, StepsAre DEF Return
  <1> QED
    BY <1>1 DEF Return, ThreadStep, Typed

LEMMA LengthTyped ==
    ASSUME Typed, NEW c \in Conns
    PROVE  ContentLength(c) \in Nat
  <1>1. conn[c].fields \subseteq Tokens
    BY DEF Typed, Locals
  <1>2. CASE \E t \in conn[c].fields : t.is = "content-length" /\ t.val < Word
    <2> DEFINE t == CHOOSE t \in conn[c].fields : t.is = "content-length"
    <2>1. t \in conn[c].fields
      BY <1>2
    <2>2. t.val \in Nat
      BY <1>1, <2>1 DEF Tokens
    <2> QED
      BY <1>2, <2>2 DEF ContentLength
  <1> QED
    BY <1>2 DEF ContentLength

LEMMA IdleTyped == Idle \in Locals
  BY DEF Idle, Locals, Steps

LEMMA SetOf == ASSUME NEW x \in Locals, NEW n \in Nat PROVE [x EXCEPT !.of = n] \in Locals
  BY DEF Locals

LEMMA SetLeft == ASSUME NEW x \in Locals, NEW n \in Nat PROVE [x EXCEPT !.left = n] \in Locals
  BY DEF Locals

LEMMA SetBody == ASSUME NEW x \in Locals, NEW b \in Seq(Tokens) PROVE [x EXCEPT !.body = b] \in Locals
  BY DEF Locals

LEMMA SetKeep == ASSUME NEW x \in Locals, NEW b \in BOOLEAN PROVE [x EXCEPT !.keep = b] \in Locals
  BY DEF Locals

LEMMA SetFields == ASSUME NEW x \in Locals, NEW f \in SUBSET Tokens PROVE [x EXCEPT !.fields = f] \in Locals
  BY DEF Locals

LEMMA SetWhole == ASSUME NEW x \in Locals, NEW b \in BOOLEAN PROVE [x EXCEPT !.whole = b] \in Locals
  BY DEF Locals

LEMMA PartTyped ==
    ASSUME Typed, NEW c \in Conns, NEW kinds, CutShort(c, kinds)
    PROVE  /\ todo[c] \in Seq(Tokens) /\ todo[c] # <<>> /\ Head(todo[c]) \in Tokens
           /\ Head(todo[c]).is \in kinds /\ Head(todo[c]).val \in Nat
           /\ \A t \in PartsOf(Head(todo[c])) :
                 /\ t \in Tokens /\ t.is = Head(todo[c]).is
                 /\ t.val \in Nat /\ t.val <= Head(todo[c]).val
  <1>1. todo[c] \in Seq(Tokens) /\ todo[c] # <<>>
    BY DEF Typed, CutShort
  <1>2. PICK h : h = Head(todo[c])
    OBVIOUS
  <1>3. h \in Tokens
    BY <1>1, <1>2
  <1>4. \A t \in PartsOf(h) : t \in Tokens /\ t.is = h.is /\ t.val \in Nat /\ t.val <= h.val
    BY <1>3 DEF PartsOf, Token, Tokens
  <1> QED
    BY <1>1, <1>2, <1>3, <1>4 DEF CutShort, Tokens

LEMMA ReadingTyped ==
    ASSUME NEW i \in Nat, NEW version \in BOOLEAN, NEW whole \in BOOLEAN
    PROVE  Received(i, version, whole) \in Runners
  <1> DEFINE a == [Idle EXCEPT !.pc = "field"]
             b == [a EXCEPT !.of = i]
             d == [b EXCEPT !.version = version]
             e == [d EXCEPT !.whole = whole]
  <1>1. a \in Runners
    BY IdleTyped, SetRunning, StepsAre
  <1>2. \A x \in Runners : [x EXCEPT !.of = i] \in Runners
    BY DEF Runners, Locals
  <1>3. \A x \in Runners : [x EXCEPT !.version = version] \in Runners
    BY DEF Runners, Locals
  <1>4. \A x \in Runners : [x EXCEPT !.whole = whole] \in Runners
    BY DEF Runners, Locals
  <1>5. e \in Runners
    <2> HIDE DEF a
    <2>1. b \in Runners
      BY <1>1, <1>2
    <2> HIDE DEF b
    <2>2. d \in Runners
      BY <1>3, <2>1
    <2> HIDE DEF d
    <2> QED
      BY <1>4, <2>2
  <1> QED
    BY <1>5 DEF Received

LEMMA ReceivedWhole ==
    ASSUME NEW i
    PROVE  LET x == Received(i, TRUE, TRUE)
           IN  x.pc = "field" /\ x.of = i /\ x.fields = {} /\ x.body = <<>> /\ x.whole = TRUE
  BY DEF Received, Idle

LEMMA ReceivedCut ==
    ASSUME NEW i, NEW version
    PROVE  LET x == Received(i, version, FALSE)
           IN  x.pc = "field" /\ x.of = i /\ x.body = <<>> /\ x.whole = FALSE
  BY DEF Received, Idle

\* How long two sequences of tokens are together.
LEMMA LenOfBoth ==
    ASSUME NEW a \in Seq(Tokens), NEW b \in Seq(Tokens)
    PROVE  Len(Then(a, b)) = Len(a) + Len(b)
  BY LenThen

LEMMA LineStep ==
    ASSUME Typed, NEW c \in Conns, NEW kinds, ReadLine(c, kinds)
    PROVE  /\ wire' \in [Conns -> Seq(Tokens)] /\ out' \in [Conns -> Seq(Frames)]
           /\ Head(wire[c]) \in Tokens /\ Head(wire[c]).val \in Nat
  BY ReadTyped DEF ReadLine, Typed

LEMMA StartStep == ASSUME Typed, NEW c \in Conns, Start(c) PROVE ThreadStep(c)
  <1>1. CASE Goto(c, "line") /\ UNCHANGED <<wire, out>>
    BY <1>1, GotoStep, StepsAre DEF Start, ThreadStep, Typed, Serving, At
  <1> QED
    BY <1>1, ReturnStep DEF Start, Serving, At

LEMMA RequestLineStep == ASSUME Typed, NEW c \in Conns, RequestLine(c) PROVE ThreadStep(c)
  <1> DEFINE x == Received(Head(wire[c]).val, TRUE, TRUE)
  <1>1. CASE ReadLine(c, {"request"}) /\ conn' = [conn EXCEPT ![c] = x]
    <2>1. x \in Runners
      BY <1>1, LineStep, ReadingTyped
    <2> QED
      BY <1>1, <2>1, LineStep DEF RequestLine, ThreadStep, Typed, Serving, At
  <1>2. CASE Malformed(c, {"request"}) \/ ReadFails(c)
    BY <1>2, ReturnStep DEF RequestLine, Malformed, ReadFails, Serving, At
  <1>3. ASSUME NEW version \in BOOLEAN, CutShort(c, {"request"}), UNCHANGED <<wire, out>>,
               conn' = [conn EXCEPT ![c] = Received(Head(todo[c]).val, version, FALSE)]
        PROVE  ThreadStep(c)
    <2>1. Received(Head(todo[c]).val, version, FALSE) \in Runners
      BY <1>3, PartTyped, ReadingTyped
    <2> QED
      BY <1>3, <2>1 DEF RequestLine, ThreadStep, Typed, Serving, At
  <1> QED
    BY <1>1, <1>2, <1>3 DEF RequestLine

LEMMA HeaderLineStep == ASSUME Typed, NEW c \in Conns, HeaderLine(c) PROVE ThreadStep(c)
  <1> DEFINE x == [conn[c] EXCEPT !.fields = @ \cup {Head(wire[c])}]
  <1>0. conn[c] \in Locals /\ conn[c].fields \subseteq Tokens
    BY DEF Typed, Locals
  <1>1. CASE ReadLine(c, FieldKinds) /\ conn' = [conn EXCEPT ![c] = x]
    <2>1. x \in Runners
      <3>1. x \in Locals
        BY <1>0, <1>1, LineStep, SetFields
      <3>2. x.pc = "field"
        BY <1>0 DEF HeaderLine, At, Locals
      <3> QED
        BY <3>1, <3>2, StepsAre DEF Runners
    <2> QED
      BY <1>1, <2>1, LineStep DEF HeaderLine, ThreadStep, Typed, Serving, At
  <1>2. CASE ReadLine(c, {"blank"}) /\ Goto(c, "expect")
    BY <1>2, LineStep, GotoStep, StepsAre DEF HeaderLine, ThreadStep, Typed, Serving, At
  <1>3. ASSUME NEW cut \in CutField(c), UNCHANGED <<wire, out>>,
               conn' = [conn EXCEPT ![c].fields = @ \cup cut, ![c].whole = FALSE, ![c].pc = "expect"]
        PROVE  ThreadStep(c)
    <2> DEFINE y == [[[conn[c] EXCEPT !.fields = @ \cup cut] EXCEPT !.whole = FALSE]
                        EXCEPT !.pc = "expect"]
    <2>1. cut \subseteq Tokens
      BY PartTyped DEF CutField
    <2>2. y \in Runners
      BY <1>0, <2>1, SetFields, SetWhole, SetRunning, StepsAre
    <2>3. conn' = [conn EXCEPT ![c] = y]
      BY <1>0, <1>3 DEF Locals
    <2> HIDE DEF y
    <2> QED
      BY <1>3, <2>2, <2>3 DEF HeaderLine, ThreadStep, Typed, Serving, At
  <1>4. CASE Malformed(c, FieldKinds \cup {"blank"}) \/ ReadFails(c)
    BY <1>4, ReturnStep DEF HeaderLine, Malformed, ReadFails, Serving, At
  <1> QED
    BY <1>1, <1>2, <1>3, <1>4 DEF HeaderLine

LEMMA ContinueStep == ASSUME Typed, NEW c \in Conns, Continue(c) PROVE ThreadStep(c)
  <1>1. CASE Goto(c, "plan") /\ UNCHANGED <<wire, out>>
    BY <1>1, GotoStep, StepsAre DEF Continue, ThreadStep, Typed, Serving, At
  <1>2. CASE Write(c, Sent(c, "continue", 0, TRUE)) /\ Goto(c, "plan")
    <2>1. Sent(c, "continue", 0, TRUE) \in Frames
      BY DEF Sent, Frames, Typed, Locals
    <2> QED
      BY <1>2, <2>1, WriteTyped, GotoStep, StepsAre DEF Continue, ThreadStep, Typed, Serving, At
  <1> QED
    BY <1>1, <1>2, ReturnStep DEF Continue, WriteFails, Serving, At

LEMMA ReadBodyStep == ASSUME Typed, NEW c \in Conns, ReadBody(c) PROVE ThreadStep(c)
  <1> DEFINE n == ContentLength(c)
             x == [conn[c] EXCEPT !.body = SubSeq(wire[c], 1, n), !.pc = "handle"]
  <1>1. CASE (Goto(c, "handle") \/ Goto(c, "size")) /\ UNCHANGED <<wire, out>>
    BY <1>1, GotoStep, StepsAre DEF ReadBody, ThreadStep, Typed, Serving, At
  <1>2. CASE ReadExact(c, n) /\ conn' = [conn EXCEPT ![c] = x]
    <2>1. n \in Nat /\ wire[c] \in Seq(Tokens) /\ Len(wire[c]) >= n
      BY <1>2, LengthTyped DEF Typed, ReadExact
    <2>2. SubSeq(wire[c], 1, n) \in Seq(Tokens)
      BY <2>1
    <2>3. x \in Runners
      BY <2>2, SetBody, SetRunning, StepsAre DEF Typed
    <2>4. wire' \in [Conns -> Seq(Tokens)] /\ out' = out
      BY <1>2, <2>1, ExactTyped
    <2> QED
      BY <1>2, <2>3, <2>4 DEF ReadBody, ThreadStep, Typed, Serving, At
  <1>3. CASE Return(c)
    BY <1>3, ReturnStep DEF ReadBody, Serving, At
  <1> QED
    BY <1>1, <1>2, <1>3 DEF ReadBody, ReadFixed, ReadFails

LEMMA ChunkSizeStep == ASSUME Typed, NEW c \in Conns, ChunkSize(c) PROVE ThreadStep(c)
  <1>0. conn[c] \in Locals /\ \A n : AfterSize(c, n) \in Running
    BY StepsAre DEF Typed, AfterSize
  <1>1. CASE ReadLine(c, {"size"}) /\ LET size == Head(wire[c]).val IN
             conn' = [conn EXCEPT ![c].left = size, ![c].pc = AfterSize(c, size)]
    <2>1. PICK size : size = Head(wire[c]).val
      OBVIOUS
    <2>2. size \in Nat
      BY <1>1, <2>1, LineStep
    <2> DEFINE x == [[conn[c] EXCEPT !.left = size] EXCEPT !.pc = AfterSize(c, size)]
    <2>3. x \in Runners
      BY <1>0, <2>2, SetLeft, SetRunning
    <2>4. conn' = [conn EXCEPT ![c] = x]
      BY <1>0, <1>1, <2>1 DEF Locals
    <2> HIDE DEF x
    <2> QED
      BY <1>1, <2>3, <2>4, LineStep DEF ChunkSize, ThreadStep, Typed, Serving, At
  <1>2. CASE Malformed(c, {"size"}) \/ ReadFails(c)
    BY <1>2, ReturnStep DEF ChunkSize, Malformed, ReadFails, Serving, At
  <1>3. ASSUME CutShort(c, {"size"}), NEW t \in PartsOf(Head(todo[c])), UNCHANGED <<wire, out>>,
               conn' = [conn EXCEPT ![c].left = t.val, ![c].pc = AfterSize(c, t.val),
                                    ![c].whole = FALSE]
        PROVE  ThreadStep(c)
    <2>1. PICK size : size = t.val
      OBVIOUS
    <2>2. size \in Nat
      BY <1>3, <2>1, PartTyped
    <2> DEFINE x == [[[conn[c] EXCEPT !.left = size] EXCEPT !.whole = FALSE]
                        EXCEPT !.pc = AfterSize(c, size)]
    <2>3. x \in Runners
      BY <1>0, <2>2, SetLeft, SetWhole, SetRunning
    <2>4. conn' = [conn EXCEPT ![c] = x]
      BY <1>0, <1>3, <2>1 DEF Locals
    <2> HIDE DEF x
    <2> QED
      BY <1>3, <2>3, <2>4 DEF ChunkSize, ThreadStep, Typed, Serving, At
  <1> QED
    BY <1>1, <1>2, <1>3 DEF ChunkSize

LEMMA ChunkStep == ASSUME Typed, NEW c \in Conns, Chunk(c) PROVE ThreadStep(c)
  <1> DEFINE n == conn[c].left
             x == [conn[c] EXCEPT !.body = @ \o SubSeq(wire[c], 1, n), !.pc = "size"]
  <1>1. CASE ReadExact(c, n + 1) /\ conn' = [conn EXCEPT ![c] = x]
    <2>1. n \in Nat /\ wire[c] \in Seq(Tokens) /\ Len(wire[c]) >= n + 1
          /\ conn[c] \in Locals /\ conn[c].body \in Seq(Tokens)
      BY <1>1 DEF Typed, ReadExact, Locals
    <2>2. conn[c].body \o SubSeq(wire[c], 1, n) \in Seq(Tokens)
      BY <2>1
    <2>3. x \in Runners
      BY <2>1, <2>2, SetBody, SetRunning, StepsAre
    <2>4. wire' \in [Conns -> Seq(Tokens)] /\ out' = out
      BY <1>1, <2>1, ExactTyped
    <2> QED
      BY <1>1, <2>3, <2>4 DEF Chunk, ThreadStep, Typed, Serving, At
  <1>2. CASE ReadFails(c)
    BY <1>2, ReturnStep DEF Chunk, ReadFails, Serving, At
  <1> QED
    BY <1>1, <1>2 DEF Chunk

LEMMA TrailerStep == ASSUME Typed, NEW c \in Conns, Trailer(c) PROVE ThreadStep(c)
  <1>1. CASE ReadExact(c, 1) /\ UNCHANGED conn
    <2>1. conn' = [conn EXCEPT ![c] = conn[c]] /\ conn[c] \in Runners
      BY <1>1, StepsAre DEF Typed, Trailer, At, Locals, Runners
    <2>2. wire' \in [Conns -> Seq(Tokens)] /\ out' = out
      BY <1>1, ExactTyped
    <2> QED
      BY <2>1, <2>2 DEF Trailer, ThreadStep, Typed, Serving, At
  <1>2. CASE ReadLine(c, {"blank"}) /\ Goto(c, "handle")
    BY <1>2, LineStep, GotoStep, StepsAre DEF Trailer, ThreadStep, Typed, Serving, At
  <1>3. CASE Goto(c, "handle") /\ UNCHANGED <<wire, out>>
    BY <1>3, GotoStep, StepsAre DEF Trailer, ThreadStep, Typed, Serving, At
  <1>4. CASE ReadFails(c)
    BY <1>4, ReturnStep DEF Trailer, ReadFails, Serving, At
  <1> QED
    BY <1>1, <1>2, <1>3, <1>4 DEF Trailer

LEMMA HandleStep == ASSUME Typed, NEW c \in Conns, Handle(c) PROVE ThreadStep(c)
  <1>1. PICK exact \in BOOLEAN :
            conn' = [conn EXCEPT ![c].pc = IF exact THEN "head" ELSE "openhead",
                                 ![c].keep = KeepAlive(c, exact)]
    BY DEF Handle
  <1> DEFINE x == [conn[c] EXCEPT !.pc = IF exact THEN "head" ELSE "openhead",
                                  !.keep = KeepAlive(c, exact)]
  <1>2. conn' = [conn EXCEPT ![c] = x]
    BY <1>1
  <1>3. x \in Runners
    <2>1. KeepAlive(c, exact) \in BOOLEAN
      BY DEF KeepAlive
    <2>2. (IF exact THEN "head" ELSE "openhead") \in Running
      BY StepsAre
    <2>3. conn[c] \in Locals
      BY DEF Typed
    <2> HIDE DEF x
    <2>4. [[conn[c] EXCEPT !.keep = KeepAlive(c, exact)]
              EXCEPT !.pc = IF exact THEN "head" ELSE "openhead"] \in Runners
      BY <2>1, <2>2, <2>3, SetKeep, SetRunning
    <2>5. x = [[conn[c] EXCEPT !.keep = KeepAlive(c, exact)]
                  EXCEPT !.pc = IF exact THEN "head" ELSE "openhead"]
      BY <2>3 DEF x, Locals
    <2> QED
      BY <2>4, <2>5
  <1> DEFINE d == [of |-> conn[c].of, body |-> conn[c].body, whole |-> conn[c].whole]
  <1>4. Append(handled[c], d) \in Seq(Entries)
    <2>1. handled[c] \in Seq(Entries) /\ d \in Entries
      BY DEF Typed, Locals, Entries
    <2> QED
      BY <2>1
  <1> QED
    BY <1>2, <1>3, <1>4 DEF Handle, ThreadStep, Typed, Serving, At

LEMMA WriteHeadStep == ASSUME Typed, NEW c \in Conns, WriteHead(c) PROVE ThreadStep(c)
  <1> DEFINE t == Sent(c, "head", ContentLengthSent(c), conn[c].keep)
             next == IF Method(c) = "HEAD" THEN AfterAnswer(c) ELSE "frame"
             x == [conn[c] EXCEPT !.left = Pieces, !.pc = next]
  <1>1. CASE Write(c, t) /\ conn' = [conn EXCEPT ![c] = x]
    <2>1. t \in Frames
      BY ServerAssumption DEF Sent, Frames, Typed, Locals, ContentLengthSent
    <2>2. next \in Running
      BY StepsAre DEF AfterAnswer
    <2> HIDE DEF next
    <2>3. x \in Runners
      BY <2>2, SetLeft, SetRunning, ServerAssumption DEF Typed
    <2> QED
      BY <1>1, <2>1, <2>3, WriteTyped DEF WriteHead, ThreadStep, Typed, Serving
  <1>2. CASE WriteFails(c)
    BY <1>2, ReturnStep DEF WriteHead, WriteFails, Serving
  <1> QED
    BY <1>1, <1>2 DEF WriteHead

LEMMA FrameStep == ASSUME Typed, NEW c \in Conns, Frame(c) PROVE ThreadStep(c)
  <1> DEFINE x == [conn[c] EXCEPT !.left = @ - 1]
  <1>1. CASE conn[c].left > 0 /\ Write(c, Sent(c, "data", 0, TRUE)) /\ conn' = [conn EXCEPT ![c] = x]
    <2>1. Sent(c, "data", 0, TRUE) \in Frames
      BY DEF Sent, Frames, Typed, Locals
    <2>2. conn[c] \in Locals /\ conn[c].left - 1 \in Nat
      BY <1>1 DEF Typed, Locals
    <2>3. x \in Locals
      BY <2>2, SetLeft
    <2>4. x.pc = "frame"
      BY <2>2 DEF Frame, At, Locals
    <2> HIDE DEF x
    <2>5. x \in Runners
      BY <2>3, <2>4, StepsAre DEF Runners
    <2> QED
      BY <1>1, <2>1, <2>5, WriteTyped DEF Frame, ThreadStep, Typed, Serving, At
  <1>2. CASE Return(c)
    BY <1>2, ReturnStep DEF Frame, Serving, At
  <1>3. CASE Goto(c, AfterAnswer(c)) /\ UNCHANGED <<wire, out>>
    BY <1>3, GotoStep, StepsAre DEF Frame, ThreadStep, Typed, Serving, At, AfterAnswer
  <1> QED
    BY <1>1, <1>2, <1>3 DEF Frame

LEMMA EndTyped == ASSUME Typed, NEW c \in Conns, End(c) PROVE Typed'
  <1>1. conn' \in [Conns -> Locals]
    BY GotoTyped DEF End, Typed, Steps
  <1> QED
    BY <1>1 DEF End, Typed, client

LEMMA ThreadSteps == ASSUME Typed, NEW c \in Conns, Thread(c) PROVE ThreadStep(c) \/ End(c)
  BY StartStep, RequestLineStep, HeaderLineStep, ContinueStep, ReadBodyStep, ChunkSizeStep,
     ChunkStep, TrailerStep, HandleStep, WriteHeadStep, FrameStep DEF Thread

LEMMA TypedStep == ASSUME Typed, [Next]_vars PROVE Typed'
  <1>1. CASE Loop
    BY <1>1, LoopTyped
  <1>2. ASSUME NEW c \in Conns, Connect(c) \/ Client(c) \/ Break(c) PROVE Typed'
    BY <1>2, ClientTyped
  <1>3. ASSUME NEW c \in Conns, Thread(c) PROVE Typed'
    BY <1>3, ThreadSteps, ThreadStepTyped, EndTyped
  <1>4. CASE UNCHANGED vars
    BY <1>4 DEF vars, client, Typed
  <1> QED
    BY <1>1, <1>2, <1>3, <1>4 DEF Next

-----------------------------------------------------------------------------
(* The slots.  ACTIVE_CONNECTIONS is read, raised and lowered at different *)
(* moments by different threads; what makes the cap hold all the same is   *)
(* that only the accept loop raises it.                                    *)

Served == {c \in Conns : Serving(c)}

\* The connection the accept loop is at has no thread yet, and between the check and the
\* step that takes the slot the count can only fall.
SlotInv ==
    /\ IsFiniteSet(Served)
    /\ active = Cardinality(Served) + (IF loop.pc = "spawn" THEN 1 ELSE 0)
    /\ active <= MaxConnections
    /\ loop.pc = "add" => active < MaxConnections
    /\ loop.pc # "accept" => At(loop.at, "queued")

SlotsInductive == Typed /\ SlotInv

LEMMA SlotInvInit == Init => SlotInv
  <1> SUFFICES ASSUME Init PROVE SlotInv
    OBVIOUS
  <1>1. Served = {}
    BY DEF Init, Served, Serving, Idle
  <1>2. IsFiniteSet(Served) /\ Cardinality(Served) = 0
    BY <1>1, FS_EmptySet
  <1> QED
    BY <1>2, ServerAssumption DEF Init, SlotInv

\* Steps that leave the set of threads, the loop and the count alone.
LEMMA SlotInvSame ==
    ASSUME SlotInv, Served' = Served, active' = active, loop' = loop,
           loop.pc # "accept" => conn'[loop.at].pc = conn[loop.at].pc
    PROVE  SlotInv'
  BY DEF SlotInv, At

LEMMA CheckSlots == ASSUME SlotsInductive, Check PROVE SlotInv'
  <1> USE DEF SlotsInductive
  <1>0. loop.at \in Conns /\ At(loop.at, "queued") /\ loop.pc = "check"
    BY DEF Check, Typed, SlotInv
  <1>1. Served' = Served
    <2>1. CASE Goto(loop.at, "shed")
      <3>1. \A c \in Conns : c # loop.at => conn'[c] = conn[c]
        BY <2>1 DEF Goto, Typed
      <3>2. conn'[loop.at].pc = "shed"
        BY <1>0, <2>1 DEF Goto, Typed, Locals
      <3> QED
        BY <1>0, <3>1, <3>2 DEF Served, Serving, At
    <2>2. CASE conn' = conn
      BY <2>2 DEF Served, Serving
    <2> QED
      BY <2>1, <2>2 DEF Check
  <1>2. CASE AtCap
    BY <1>0, <1>1, <1>2 DEF Check, SlotInv
  <1>3. CASE ~AtCap
    <2>1. conn' = conn /\ loop' = [loop EXCEPT !.pc = "add"] /\ active' = active
      BY <1>3 DEF Check
    <2>2. loop'.pc = "add" /\ loop'.at = loop.at
      BY <2>1 DEF Typed
    <2>3. active < MaxConnections
      <3>1. active \in Nat
        BY FS_CardinalityType DEF SlotInv
      <3> QED
        BY <1>3, <3>1, ServerAssumption DEF AtCap
    <2> QED
      BY <1>0, <1>1, <2>1, <2>2, <2>3 DEF SlotInv, At
  <1> QED
    BY <1>2, <1>3

LEMMA AddSlots == ASSUME SlotsInductive, Add PROVE SlotInv'
  <1> USE DEF SlotsInductive
  <1>1. Served' = Served /\ conn' = conn
    BY DEF Add, Served, Serving
  <1>2. loop'.pc = "spawn" /\ loop'.at = loop.at /\ loop.pc = "add" /\ active' = active + 1
    BY DEF Add, Typed
  <1>3. active = Cardinality(Served) /\ active \in Nat /\ active < MaxConnections
    BY <1>2, FS_CardinalityType DEF SlotInv
  <1>4. IsFiniteSet(Served') /\ active' = Cardinality(Served') + 1 /\ active' <= MaxConnections
    BY <1>1, <1>2, <1>3, ServerAssumption DEF SlotInv
  <1>5. At(loop.at, "queued")'
    BY <1>1, <1>2 DEF SlotInv, At
  <1> QED
    BY <1>2, <1>4, <1>5 DEF SlotInv

LEMMA SpawnSlots == ASSUME SlotsInductive, Spawn PROVE SlotInv'
  <1> USE DEF SlotsInductive
  <1>1. loop.at \in Conns /\ At(loop.at, "queued") /\ loop.pc = "spawn" /\ active' = active
        /\ loop'.pc = "accept"
    BY DEF Spawn, Typed, SlotInv
  <1>2. Served' = Served \cup {loop.at} /\ loop.at \notin Served
    BY <1>1 DEF Spawn, Served, Serving, At, Goto, Typed, Locals
  <1>3. IsFiniteSet(Served') /\ Cardinality(Served') = Cardinality(Served) + 1
    BY <1>2, FS_AddElement DEF SlotInv
  <1>4. Cardinality(Served) \in Nat
    BY FS_CardinalityType DEF SlotInv
  <1> QED
    BY <1>1, <1>3, <1>4 DEF SlotInv

LEMMA EndSlots == ASSUME SlotsInductive, NEW c \in Conns, End(c) PROVE SlotInv'
  <1> USE DEF SlotsInductive
  <1>1. active' = active - 1 /\ loop' = loop /\ At(c, "ended")
    BY DEF End
  <1>2. Served' = Served \ {c} /\ c \in Served
    BY DEF End, Served, Serving, At, Goto, Typed, Locals
  <1>3. IsFiniteSet(Served') /\ Cardinality(Served') = Cardinality(Served) - 1
    BY <1>2, FS_RemoveElement DEF SlotInv
  <1>4. Cardinality(Served) \in Nat
    BY FS_CardinalityType DEF SlotInv
  <1>5. loop.pc # "accept" => At(loop.at, "queued")'
    BY <1>1 DEF End, SlotInv, At, Goto, Typed
  <1> QED
    BY <1>1, <1>3, <1>4, <1>5, ServerAssumption DEF SlotInv

LEMMA ThreadSlots == ASSUME SlotsInductive, NEW c \in Conns, ThreadStep(c) PROVE SlotInv'
  <1> USE DEF SlotsInductive
  <1>1. PICK x \in Runners : conn' = [conn EXCEPT ![c] = x]
    BY DEF ThreadStep
  <1>2. Served' = Served
    BY <1>1 DEF ThreadStep, Served, Serving, Runners, Running, Typed
  <1>3. active' = active /\ loop' = loop
    BY DEF ThreadStep
  <1>4. loop.pc # "accept" => conn'[loop.at].pc = conn[loop.at].pc
    BY <1>1 DEF ThreadStep, SlotInv, At, Serving, Typed
  <1> QED
    BY <1>2, <1>3, <1>4, SlotInvSame

LEMMA SlotInvStep == ASSUME SlotsInductive, [Next]_vars PROVE SlotInv'
  <1> USE DEF SlotsInductive
  <1>1. ASSUME NEW c \in Conns, Accept(c) PROVE SlotInv'
    BY <1>1 DEF Accept, SlotInv, Served, Serving, At
  <1>2. CASE Loop
    BY <1>1, <1>2, CheckSlots, AddSlots, SpawnSlots DEF Loop
  <1>3. ASSUME NEW c \in Conns, Connect(c) PROVE SlotInv'
    <2>1. Served' = Served
      BY <1>3 DEF Connect, Served, Serving, At, Goto, Typed, Locals
    <2>2. loop.pc # "accept" => conn'[loop.at].pc = conn[loop.at].pc
      BY <1>3 DEF Connect, SlotInv, At, Goto, Typed
    <2> QED
      BY <1>3, <2>1, <2>2, SlotInvSame DEF Connect
  <1>4. ASSUME NEW c \in Conns, Client(c) \/ Break(c) PROVE SlotInv'
    BY <1>4, SlotInvSame DEF Client, Send, Hear, Finish, Break, Served, Serving
  <1>5. ASSUME NEW c \in Conns, Thread(c) PROVE SlotInv'
    BY <1>5, ThreadSteps, ThreadSlots, EndSlots
  <1>6. CASE UNCHANGED vars
    BY <1>6, SlotInvSame DEF vars, Served, Serving
  <1> QED
    BY <1>2, <1>3, <1>4, <1>5, <1>6 DEF Next

LEMMA SlotsLemma == Spec => []SlotsInductive
  <1>1. Init => SlotsInductive
    BY InitTyped, SlotInvInit DEF SlotsInductive
  <1>2. SlotsInductive /\ [Next]_vars => SlotsInductive'
    BY TypedStep, SlotInvStep DEF SlotsInductive
  <1> QED
    BY <1>1, <1>2, PTL DEF Spec

\* Every variable keeps its type; the count of the slots is never below zero.
THEOREM Types == Spec => []TypeOK
  <1>1. SlotsInductive => TypeOK
    <2> SUFFICES ASSUME SlotsInductive PROVE TypeOK
      OBVIOUS
    <2>1. active \in Nat
      BY FS_CardinalityType DEF SlotsInductive, SlotInv
    <2> QED
      BY <2>1 DEF SlotsInductive, Typed, TypeOK, Locals, Entries
  <1> QED
    BY <1>1, SlotsLemma, PTL

\* Every slot in use belongs to a thread that runs, is about to, or died, and there are
\* never more than MAX_CONNECTIONS, whatever the threads do between the check of the
\* count and the taking of the slot.
THEOREM Slots == Spec => []SlotsAccountedFor
  <1>1. SlotsInductive => SlotsAccountedFor
    BY DEF SlotsInductive, SlotInv, SlotsAccountedFor, Served
  <1> QED
    BY <1>1, SlotsLemma, PTL

-----------------------------------------------------------------------------
(* What is still to be read on a connection.                               *)

\* The tokens the client does not wait at, and those it does not wait at for a request
\* up to the k-th.
Quiet == {x \in Tokens : x.is # "wait"}

Above(k) == {x \in Tokens : x.is = "wait" => x.val > k}

\* What is to be read is h and then x; the client may hold x back until it hears of the
\* k-th request.
Ahead(u, k, h, x) ==
    /\ h \in Seq(Quiet) /\ x \in Seq(Above(k))
    /\ u = Then(h, x) \/ u = Then(h, Then(One(Token("wait", k)), x))

LEMMA SeqWithin == ASSUME NEW A, NEW B, A \subseteq B, NEW a \in Seq(A) PROVE a \in Seq(B)
  OBVIOUS

LEMMA Widen ==
    ASSUME NEW k \in Nat
    PROVE  /\ Seq(Quiet) \subseteq Seq(Above(k)) /\ Seq(Above(k)) \subseteq Seq(Tokens)
           /\ Seq(Quiet) \subseteq Seq(Tokens) /\ Seq(Above(k + 1)) \subseteq Seq(Above(k))
  <1>1. Quiet \subseteq Above(k) /\ Above(k) \subseteq Tokens /\ Quiet \subseteq Tokens
    BY DEF Quiet, Above
  <1>2. Above(k + 1) \subseteq Above(k)
    BY DEF Above, Tokens
  <1> QED
    BY <1>1, <1>2, SeqWithin

LEMMA WaitTyped ==
    ASSUME NEW k \in Nat
    PROVE  /\ Token("wait", k) \in Tokens /\ Token("wait", k) \notin Quiet
           /\ Token("wait", k).is = "wait" /\ Token("wait", k + 1) \in Above(k)
           /\ Token("wait", k) \notin Above(k)
  <1>1. Token("wait", k) \in Tokens /\ Token("wait", k + 1) \in Tokens
    BY TokenTyped
  <1> QED
    BY <1>1 DEF Quiet, Above, Token

LEMMA AheadTyped ==
    ASSUME NEW k \in Nat, NEW u, NEW h, NEW x, Ahead(u, k, h, x)
    PROVE  h \in Seq(Tokens) /\ x \in Seq(Tokens) /\ u \in Seq(Tokens)
  <1>1. h \in Seq(Tokens) /\ x \in Seq(Tokens) /\ One(Token("wait", k)) \in Seq(Tokens)
    BY Widen, WaitTyped, OneSeq DEF Ahead
  <1>2. Then(One(Token("wait", k)), x) \in Seq(Tokens)
    BY <1>1, Laid
  <1> QED
    BY <1>1, <1>2, Laid DEF Ahead

LEMMA QuietTail ==
    ASSUME NEW S, NEW w \in Seq(S), w # <<>>
    PROVE  Head(w) \in S /\ Tail(w) \in Seq(S)
  OBVIOUS

\* The next token is the first of h, if there is one.
LEMMA ReadsOne ==
    ASSUME NEW k \in Nat, NEW w \in Seq(Quiet), NEW t \in Seq(Tokens), w # <<>>,
           NEW a \in Quiet, NEW h \in Seq(Quiet), NEW x, Ahead(Then(w, t), k, Then(One(a), h), x)
    PROVE  Head(w) = a /\ Ahead(Then(Tail(w), t), k, h, x)
  <1> DEFINE y == Then(One(Token("wait", k)), x)
  <1>1. w \in Seq(Tokens) /\ h \in Seq(Tokens) /\ a \in Tokens /\ x \in Seq(Tokens)
    BY Widen, AheadTyped DEF Quiet
  <1>2. y \in Seq(Tokens) /\ One(a) \in Seq(Tokens)
    BY <1>1, WaitTyped, OneSeq, Laid
  <1>3. ASSUME NEW z \in Seq(Tokens), Then(w, t) = Then(Then(One(a), h), z)
        PROVE  Head(w) = a /\ Then(Tail(w), t) = Then(h, z)
    <2>1. Then(w, t) = Then(One(a), Then(h, z)) /\ Then(h, z) \in Seq(Tokens)
      BY <1>1, <1>2, <1>3, Regroup, Laid
    <2> QED
      BY <1>1, <2>1, TakeOne
  <1>4. Then(w, t) = Then(Then(One(a), h), x) \/ Then(w, t) = Then(Then(One(a), h), y)
    BY DEF Ahead
  <1> HIDE DEF y
  <1>5. Head(w) = a /\ (Then(Tail(w), t) = Then(h, x) \/ Then(Tail(w), t) = Then(h, y))
    BY <1>1, <1>2, <1>3, <1>4
  <1>6. x \in Seq(Above(k))
    BY DEF Ahead
  <1> QED
    BY <1>5, <1>6 DEF Ahead, y

\* With nothing in front, what is read next is not behind a wait.
LEMMA NoWaitAhead ==
    ASSUME NEW k \in Nat, NEW w \in Seq(Quiet), NEW t \in Seq(Tokens), w # <<>>,
           NEW x, Ahead(Then(w, t), k, <<>>, x)
    PROVE  Then(w, t) = x
  <1> DEFINE b == Token("wait", k)
             y == Then(One(b), x)
  <1>1. w \in Seq(Tokens) /\ x \in Seq(Tokens) /\ b \in Tokens /\ b \notin Quiet
    BY Widen, AheadTyped, WaitTyped
  <1>2. y \in Seq(Tokens)
    BY <1>1, OneSeq, Laid
  <1>3. Then(w, t) = Then(<<>>, x) \/ Then(w, t) = Then(<<>>, y)
    BY DEF Ahead
  <1>4. Then(w, t) = x \/ Then(w, t) = y
    BY <1>1, <1>2, <1>3, ThenNothing
  <1> HIDE DEF b
  <1>5. CASE Then(w, t) = y
    <2>1. Head(w) = b
      BY <1>1, <1>5, TakeOne
    <2>2. Head(w) \in Quiet
      BY QuietTail
    <2> QED
      BY <1>1, <2>1, <2>2
  <1> QED
    BY <1>4, <1>5

\* Nothing is left of the word ahead when it is <<>>.
LEMMA JustAhead ==
    ASSUME NEW k \in Nat, NEW x \in Seq(Above(k))
    PROVE  Ahead(x, k, <<>>, x)
  <1>1. x \in Seq(Tokens) /\ <<>> \in Seq(Quiet)
    BY Widen
  <1>2. Then(<<>>, x) = x
    BY <1>1, ThenNothing
  <1> QED
    BY <1>1, <1>2 DEF Ahead

LEMMA ReadsNext ==
    ASSUME NEW k \in Nat, NEW w \in Seq(Quiet), NEW t \in Seq(Tokens), w # <<>>,
           NEW a \in Tokens, NEW x \in Seq(Above(k)), Ahead(Then(w, t), k, <<>>, Then(One(a), x))
    PROVE  Head(w) = a /\ Ahead(Then(Tail(w), t), k, <<>>, x)
  <1>1. Then(w, t) = Then(One(a), x)
    BY NoWaitAhead
  <1>2. w \in Seq(Tokens) /\ x \in Seq(Tokens)
    BY Widen
  <1>3. Head(w) = a /\ Then(Tail(w), t) = x
    BY <1>1, <1>2, TakeOne
  <1> QED
    BY <1>3, JustAhead

LEMMA ReadsMany ==
    ASSUME NEW k \in Nat, NEW w \in Seq(Quiet), NEW t \in Seq(Tokens),
           NEW p \in Seq(Tokens), NEW x \in Seq(Above(k)), Ahead(Then(w, t), k, <<>>, Then(p, x)),
           NEW n \in Nat, n # 0, Len(p) = n, n <= Len(w)
    PROVE  /\ First(w, n) = p /\ Skip(w, n) \in Seq(Quiet)
           /\ Ahead(Then(Skip(w, n), t), k, <<>>, x)
  <1>1. w # <<>>
    OBVIOUS
  <1>2. Then(w, t) = Then(p, x)
    BY <1>1, NoWaitAhead
  <1>3. w \in Seq(Tokens) /\ x \in Seq(Tokens)
    BY Widen
  <1>4. First(w, n) = p /\ Then(Skip(w, n), t) = x
    BY <1>2, <1>3, TakeMany
  <1>5. Skip(w, n) \in Seq(Quiet)
    BY DEF Skip
  <1> QED
    BY <1>4, <1>5, JustAhead

\* Two words without waits, each in front of a wait, are the same word.
LEMMA SameWait ==
    ASSUME NEW a \in Seq(Quiet), NEW b \in Seq(Quiet), NEW p \in Tokens, NEW q \in Tokens,
           p.is = "wait", q.is = "wait", NEW y \in Seq(Tokens), NEW z \in Seq(Tokens),
           Then(a, Then(One(p), y)) = Then(b, Then(One(q), z))
    PROVE  Then(a, y) = Then(b, z)
  <1>1. p \notin Quiet /\ q \notin Quiet
    BY DEF Quiet
  <1>2. ASSUME NEW c \in Seq(Quiet), NEW d \in Seq(Quiet), NEW r \in Tokens \ Quiet,
               NEW e \in Seq(Tokens), NEW g \in Seq(Tokens), Len(c) < Len(d),
               c \o (<<r>> \o e) = d \o g
        PROVE  FALSE
    <2>1. Len(c) \in Nat /\ Len(d) \in Nat /\ Len(c) + 1 \in 1..Len(d)
      BY <1>2
    <2>2. (d \o g)[Len(c) + 1] = d[Len(c) + 1] /\ d[Len(c) + 1] \in Quiet
      BY <2>1
    <2>3. (c \o (<<r>> \o e))[Len(c) + 1] = r
      OBVIOUS
    <2> QED
      BY <1>2, <2>2, <2>3
  <1>3. One(p) \in Seq(Tokens) /\ One(q) \in Seq(Tokens)
    BY OneSeq
  <1>4. Then(One(p), y) \in Seq(Tokens) /\ Then(One(q), z) \in Seq(Tokens)
    BY <1>3, Laid
  <1>5. ~(Len(a) < Len(b))
    BY <1>1, <1>2, <1>4 DEF Then, One
  <1>6. ~(Len(b) < Len(a))
    BY <1>1, <1>2, <1>4 DEF Then, One
  <1>7. Len(a) = Len(b) /\ Len(a) \in Nat
    BY <1>5, <1>6
  <1> DEFINE u == Then(One(p), y)
             v == Then(One(q), z)
  <1>8. u \in Seq(Tokens) /\ v \in Seq(Tokens) /\ Then(a, u) = Then(b, v)
    BY <1>4
  <1>9. a \in Seq(Tokens) /\ b \in Seq(Tokens)
    BY SeqWithin DEF Quiet
  <1> HIDE DEF u, v
  <1>10. First(a, Len(a)) = b /\ Then(Skip(a, Len(a)), u) = v
    BY <1>7, <1>8, <1>9, TakeMany
  <1>11. First(a, Len(a)) = a
    BY <1>7, <1>9 DEF First
  <1>12. a = b
    BY <1>10, <1>11
  <1>13. u = v
    BY <1>8, <1>9, <1>12, SameFront
  <1>14. y = z
    BY <1>13, OneAhead DEF u, v
  <1> QED
    BY <1>12, <1>14

\* A client that goes on behind a wait takes nothing from what is ahead.
LEMMA AheadHeard ==
    ASSUME NEW k \in Nat, NEW w \in Seq(Quiet), NEW t \in Seq(Tokens), t # <<>>,
           Head(t).is = "wait", Head(t).val <= k, NEW h, NEW x, Ahead(Then(w, t), k, h, x)
    PROVE  Ahead(Then(w, Tail(t)), k, h, x)
  <1>1. PICK p \in Tokens, y \in Seq(Tokens) : p = Head(t) /\ y = Tail(t) /\ t = Then(One(p), y)
    BY HeadFirst
  <1>2. p.is = "wait" /\ p.val <= k
    BY <1>1
  <1>3. w \in Seq(Tokens) /\ h \in Seq(Quiet) /\ x \in Seq(Above(k)) /\ h \in Seq(Tokens)
        /\ x \in Seq(Tokens)
    BY Widen, AheadTyped DEF Ahead
  <1> DEFINE q == Token("wait", k)
  <1>4. q \in Tokens /\ q.is = "wait"
    BY WaitTyped
  <1> HIDE DEF q
  <1>5. CASE Then(w, t) = Then(h, x)
    <2>1. p \in Elems(Then(w, t))
      <3>1. Elems(Then(w, t)) = Elems(w) \cup Elems(t)
        BY <1>3, ElemsThen
      <3>2. p \in Elems(t)
        BY <1>1, EmptyOrHead
      <3> QED
        BY <3>1, <3>2
    <2>2. Elems(Then(h, x)) = Elems(h) \cup Elems(x)
      BY <1>3, ElemsThen
    <2>3. Elems(h) \subseteq Quiet /\ Elems(x) \subseteq Above(k)
      BY <1>3, ElemsTyped
    <2>4. p \in Quiet \/ p \in Above(k)
      BY <1>5, <2>1, <2>2, <2>3
    <2>5. p.val > k
      BY <1>2, <2>4 DEF Quiet, Above
    <2>6. p.val \in Nat
      BY DEF Tokens
    <2> QED
      BY <1>2, <2>5, <2>6
  <1>6. CASE Then(w, t) = Then(h, Then(One(q), x))
    <2>1. Then(w, Then(One(p), y)) = Then(h, Then(One(q), x))
      BY <1>1, <1>6
    <2>2. Then(w, y) = Then(h, x)
      BY <1>2, <1>3, <1>4, <2>1, SameWait
    <2> QED
      BY <1>1, <1>3, <2>2 DEF Ahead
  <1> QED
    BY <1>5, <1>6 DEF Ahead, q

-----------------------------------------------------------------------------
(* What a request is made of.                                              *)

LEMMA QuietToken ==
    ASSUME NEW i \in Nat
    PROVE  /\ Token("request", i) \in Quiet /\ Token("blank", i) \in Quiet
           /\ Token("byte", i) \in Quiet /\ Token("size", i) \in Quiet
           /\ Token("crlf", i) \in Quiet /\ Token("trailer", i) \in Quiet
           /\ Token("close", i) \in Quiet /\ Token("keep-alive", i) \in Quiet
           /\ Token("content-length", i) \in Quiet /\ Token("chunked", i) \in Quiet
           /\ Token("expect", i) \in Quiet
  BY TokenTyped DEF Token, Quiet

\* The words a head is made of, none or one field each.
Field(there, t) == IF there THEN One(t) ELSE <<>>

FieldTokens == {t \in Quiet : t.is \in FieldKinds}

LEMMA FieldTyped ==
    ASSUME NEW there \in BOOLEAN, NEW S, NEW t, there => t \in S
    PROVE  Field(there, t) \in Seq(S) /\ Elems(Field(there, t)) = IF there THEN {t} ELSE {}
  <1>1. <<>> \in Seq(S) /\ Elems(<<>>) = {}
    BY ElemsNone
  <1> QED
    BY <1>1, OneSeq, ElemsOne DEF Field

LEMMA FourThen ==
    ASSUME NEW S, NEW a \in Seq(S), NEW b \in Seq(S), NEW c \in Seq(S), NEW d \in Seq(S)
    PROVE  /\ Then(Then(Then(a, b), c), d) \in Seq(S)
           /\ Elems(Then(Then(Then(a, b), c), d)) = Elems(a) \cup Elems(b) \cup Elems(c) \cup Elems(d)
  <1>1. Then(a, b) \in Seq(S)
    BY Laid
  <1>2. Then(Then(a, b), c) \in Seq(S)
    BY <1>1, Laid
  <1>3. Then(Then(Then(a, b), c), d) \in Seq(S)
    BY <1>2, Laid
  <1>4. Elems(Then(a, b)) = Elems(a) \cup Elems(b)
    BY ElemsThen
  <1>5. Elems(Then(Then(a, b), c)) = Elems(Then(a, b)) \cup Elems(c)
    BY <1>1, ElemsThen
  <1>6. Elems(Then(Then(Then(a, b), c), d)) = Elems(Then(Then(a, b), c)) \cup Elems(d)
    BY <1>2, ElemsThen
  <1> QED
    BY <1>3, <1>4, <1>5, <1>6

LEMMA FieldsAre ==
    ASSUME NEW q \in Request
    PROVE  /\ FieldsOf(q) \in Seq(FieldTokens)
           /\ Elems(FieldsOf(q)) =
                  (IF q.connection # None THEN {Token(q.connection, 0)} ELSE {})
                  \cup (IF q.length # None THEN {Token("content-length", q.length)} ELSE {})
                  \cup (IF q.chunks # None THEN {Token("chunked", 0)} ELSE {})
                  \cup (IF q.expect THEN {Token("expect", 0)} ELSE {})
  <1>1. /\ q.connection # None => Token(q.connection, 0) \in Quiet
        /\ q.length # None => Token("content-length", q.length) \in Quiet
        /\ Token("chunked", 0) \in Quiet /\ Token("expect", 0) \in Quiet
    BY QuietToken, ServerAssumption DEF Request
  <1>2. q.connection # None => q.connection \in FieldKinds
    BY DEF Request, FieldKinds
  <1>3. /\ q.connection # None => Token(q.connection, 0) \in FieldTokens
        /\ q.length # None => Token("content-length", q.length) \in FieldTokens
        /\ Token("chunked", 0) \in FieldTokens /\ Token("expect", 0) \in FieldTokens
    BY <1>1, <1>2 DEF FieldTokens, FieldKinds, Token
  <1> DEFINE a == Field(q.connection # None, Token(q.connection, 0))
             b == Field(q.length # None, Token("content-length", q.length))
             c == Field(q.chunks # None, Token("chunked", 0))
             d == Field(q.expect, Token("expect", 0))
  <1>4. q.expect \in BOOLEAN
    BY DEF Request
  <1>5. /\ a \in Seq(FieldTokens)
        /\ Elems(a) = IF q.connection # None THEN {Token(q.connection, 0)} ELSE {}
    BY <1>3, FieldTyped
  <1>6. /\ b \in Seq(FieldTokens)
        /\ Elems(b) = IF q.length # None THEN {Token("content-length", q.length)} ELSE {}
    BY <1>3, FieldTyped
  <1>7. /\ c \in Seq(FieldTokens)
        /\ Elems(c) = IF q.chunks # None THEN {Token("chunked", 0)} ELSE {}
    BY <1>3, FieldTyped
  <1>8. /\ d \in Seq(FieldTokens)
        /\ Elems(d) = IF q.expect THEN {Token("expect", 0)} ELSE {}
    BY <1>3, <1>4, FieldTyped
  <1>9. FieldsOf(q) = Then(Then(Then(a, b), c), d)
    BY <1>4, Zenon DEF FieldsOf, Then, Field, One
  <1> HIDE DEF a, b, c, d
  <1>10. a \in Seq(FieldTokens) /\ b \in Seq(FieldTokens) /\ c \in Seq(FieldTokens)
         /\ d \in Seq(FieldTokens)
    BY <1>5, <1>6, <1>7, <1>8
  <1>11. /\ Then(Then(Then(a, b), c), d) \in Seq(FieldTokens)
         /\ Elems(Then(Then(Then(a, b), c), d)) = Elems(a) \cup Elems(b) \cup Elems(c) \cup Elems(d)
    BY <1>10, FourThen
  <1> QED
    BY <1>5, <1>6, <1>7, <1>8, <1>9, <1>11

\* The chunks of a body as they are sent, and their bytes.
Chunks(i, q) == [j \in DOMAIN q.chunks |-> ChunkOf(q.chunks[j], i)]

Parts(i, q) == [j \in DOMAIN q.chunks |-> Bytes(q.chunks[j], i)]

LEMMA BytesTyped ==
    ASSUME NEW n \in Nat, NEW i \in Nat
    PROVE  Bytes(n, i) \in Seq(Quiet) /\ Bytes(n, i) \in Seq(Tokens) /\ Len(Bytes(n, i)) = n
  BY TimesTyped, QuietToken, TokenTyped DEF Bytes

LEMMA ChunkIs ==
    ASSUME NEW n \in Nat, NEW i \in Nat
    PROVE  /\ ChunkOf(n, i) \in Seq(Quiet)
           /\ ChunkOf(n, i) = Then(One(Token("size", n)), Then(Bytes(n, i), One(Token("crlf", 0))))
  <1>1. /\ One(Token("size", n)) \in Seq(Quiet) /\ One(Token("crlf", 0)) \in Seq(Quiet)
        /\ Bytes(n, i) \in Seq(Quiet)
    BY BytesTyped, QuietToken, OneSeq
  <1>2. ChunkOf(n, i) = Then(Then(One(Token("size", n)), Bytes(n, i)), One(Token("crlf", 0)))
    BY Zenon DEF ChunkOf, Then, One
  <1> QED
    BY <1>1, <1>2, Regroup, Laid

LEMMA ChunksTyped ==
    ASSUME NEW q \in Request, q.chunks # None, NEW i \in Nat
    PROVE  /\ Len(q.chunks) \in Nat /\ \A j \in 1..Len(q.chunks) : q.chunks[j] \in Nat \ {0}
           /\ Chunks(i, q) \in Seq(Seq(Quiet)) /\ Len(Chunks(i, q)) = Len(q.chunks)
           /\ Parts(i, q) \in Seq(Seq(Quiet)) /\ Len(Parts(i, q)) = Len(q.chunks)
  <1>1. q.chunks \in Seq(Nat \ {0})
    BY DEF Request
  <1>2. Len(q.chunks) \in Nat /\ DOMAIN q.chunks = 1..Len(q.chunks)
        /\ \A j \in 1..Len(q.chunks) : q.chunks[j] \in Nat \ {0} /\ q.chunks[j] \in Nat
    BY <1>1
  <1>3. Chunks(i, q) \in [1..Len(q.chunks) -> Seq(Quiet)]
    BY <1>2, ChunkIs DEF Chunks
  <1>4. Parts(i, q) \in [1..Len(q.chunks) -> Seq(Quiet)]
    BY <1>2, BytesTyped DEF Parts
  <1> QED
    BY <1>2, <1>3, <1>4, FunctionIsSeq

LEMMA LastChunkIs ==
    /\ LastChunk \in Seq(Quiet)
    /\ LastChunk = Then(One(Token("size", 0)), Then(One(Token("trailer", 0)), One(Token("blank", 0))))
  <1>1. LastChunk \in Seq(Quiet)
    BY QuietToken DEF LastChunk
  <1>2. LastChunk = Then(One(Token("size", 0)), Then(One(Token("trailer", 0)), One(Token("blank", 0))))
    BY DEF LastChunk, Then, One
  <1> QED
    BY <1>1, <1>2

LEMMA BodyIs ==
    ASSUME NEW q \in Request, NEW i \in Nat
    PROVE  /\ BodyOf(i, q) \in Seq(Quiet)
           /\ WholeBody(i, q) \in Seq(Quiet)
           /\ q.chunks # None => /\ BodyOf(i, q) = Then(Rests(Chunks(i, q))[0], LastChunk)
                                 /\ WholeBody(i, q) = Rests(Parts(i, q))[0]
  <1>1. CASE q.chunks # None
    <2>1. /\ FlattenSeq(Chunks(i, q)) = Rests(Chunks(i, q))[0]
          /\ FlattenSeq(Parts(i, q)) = Rests(Parts(i, q))[0]
      BY <1>1, ChunksTyped, FlattenIsRest
    <2>2. FlattenSeq(Chunks(i, q)) \in Seq(Quiet) /\ FlattenSeq(Parts(i, q)) \in Seq(Quiet)
      BY <1>1, ChunksTyped, FlattenTyped
    <2>3. BodyOf(i, q) = Then(FlattenSeq(Chunks(i, q)), LastChunk)
      BY <1>1, Zenon DEF BodyOf, Chunks, Then
    <2>4. WholeBody(i, q) = FlattenSeq(Parts(i, q))
      BY <1>1, Zenon DEF WholeBody, Parts
    <2> QED
      BY <2>1, <2>2, <2>3, <2>4, LastChunkIs, Laid
  <1>2. CASE q.chunks = None
    <2>1. q.length # None => q.length \in Nat
      BY ServerAssumption DEF Request
    <2>2. <<>> \in Seq(Quiet)
      OBVIOUS
    <2> QED
      BY <1>2, <2>1, <2>2, BytesTyped DEF BodyOf, WholeBody
  <1> QED
    BY <1>1, <1>2

-----------------------------------------------------------------------------
(* The requests of a script, one behind the other.                         *)

\* The requests behind the first k.
Later(s, k) == Rests(RequestsOf(s))[k]

LEMMA LaterIs ==
    ASSUME NEW s \in Seq(Request)
    PROVE  /\ FlattenSeq(RequestsOf(s)) = Later(s, 0)
           /\ Later(s, Len(s)) = <<>>
           /\ \A k \in 0..(Len(s) - 1) :
                  Later(s, k) = Then(RequestOf(k + 1, s[k + 1]), Later(s, k + 1))
  <1> DEFINE ss == RequestsOf(s)
  <1>1. ss \in Seq(Seq(Tokens)) /\ Len(ss) = Len(s)
    BY RequestsTyped
  <1>2. \A k \in 0..(Len(s) - 1) : ss[k + 1] = RequestOf(k + 1, s[k + 1])
    BY DEF RequestsOf
  <1> HIDE DEF ss
  <1>3. AreRests(Rests(ss), ss) /\ FlattenSeq(ss) = Rests(ss)[0]
    BY <1>1, RestsExist, FlattenIsRest
  <1> QED
    BY <1>1, <1>2, <1>3 DEF AreRests, Later, ss

\* What comes behind the head of a request.
LEMMA RequestAhead ==
    ASSUME NEW q \in Request, NEW i \in Nat, NEW z \in Seq(Above(i))
    PROVE  \E v : /\ Then(RequestOf(i, q), z) = Then(One(Token("request", i)), v)
                  /\ Ahead(v, i, Then(FieldsOf(q), One(Token("blank", 0))), Then(BodyOf(i, q), z))
  <1> DEFINE r == One(Token("request", i))
             f == FieldsOf(q)
             b == One(Token("blank", 0))
             w == IF q.expect THEN One(Token("wait", i)) ELSE <<>>
             y == BodyOf(i, q)
  <1>1. r \in Seq(Tokens) /\ b \in Seq(Quiet) /\ b \in Seq(Tokens) /\ w \in Seq(Tokens)
    BY TokenTyped, QuietToken, OneSeq, Widen
  <1>2. y \in Seq(Quiet) /\ y \in Seq(Tokens) /\ z \in Seq(Tokens) /\ y \in Seq(Above(i))
    BY BodyIs, Widen
  <1>3. f \in Seq(Quiet) /\ f \in Seq(Tokens)
    <2>1. FieldTokens \subseteq Quiet
      BY DEF FieldTokens
    <2> QED
      BY <2>1, FieldsAre, SeqWithin, Widen
  <1>4. RequestOf(i, q) = Then(Then(Then(Then(r, f), b), w), y)
    BY Zenon DEF RequestOf, Then, One
  <1> HIDE DEF r, f, b, y
  <1>5. Then(Then(Then(Then(Then(r, f), b), w), y), z) = Then(r, Then(Then(f, b), Then(w, Then(y, z))))
    <2> HIDE DEF w
    <2>1. Then(r, f) \in Seq(Tokens)
      BY <1>1, <1>3, Laid
    <2>2. Then(f, b) \in Seq(Tokens)
      BY <1>1, <1>3, Laid
    <2>3. Then(Then(r, f), b) = Then(r, Then(f, b))
      BY <1>1, <1>3, Regroup
    <2>4. Then(r, Then(f, b)) \in Seq(Tokens)
      BY <1>1, <2>2, Laid
    <2>5. Then(y, z) \in Seq(Tokens)
      BY <1>2, Laid
    <2>6. Then(Then(r, Then(f, b)), w) \in Seq(Tokens)
      BY <1>1, <2>4, Laid
    <2>7. Then(Then(Then(Then(r, Then(f, b)), w), y), z) = Then(Then(Then(r, Then(f, b)), w), Then(y, z))
      BY <1>2, <2>6, Regroup
    <2>8. Then(Then(Then(r, Then(f, b)), w), Then(y, z)) = Then(Then(r, Then(f, b)), Then(w, Then(y, z)))
      BY <1>1, <2>4, <2>5, Regroup
    <2>9. Then(w, Then(y, z)) \in Seq(Tokens)
      BY <1>1, <2>5, Laid
    <2>10. Then(Then(r, Then(f, b)), Then(w, Then(y, z))) = Then(r, Then(Then(f, b), Then(w, Then(y, z))))
      BY <1>1, <2>2, <2>9, Regroup
    <2> QED
      BY <2>3, <2>7, <2>8, <2>10
  <1> DEFINE v == Then(Then(f, b), Then(w, Then(y, z)))
  <1>6. Then(f, b) \in Seq(Quiet) /\ Then(y, z) \in Seq(Above(i))
    BY <1>1, <1>2, <1>3, Laid
  <1>7. v = Then(Then(f, b), Then(y, z)) \/ v = Then(Then(f, b), Then(One(Token("wait", i)), Then(y, z)))
    <2>1. CASE q.expect
      BY <2>1
    <2>2. CASE ~q.expect
      <3>1. w = <<>>
        BY <2>2
      <3>2. Then(<<>>, Then(y, z)) = Then(y, z)
        BY <1>6, ThenNothing
      <3> QED
        BY <3>1, <3>2
    <2> QED
      BY <2>1, <2>2
  <1> HIDE DEF w, v
  <1>8. Ahead(v, i, Then(f, b), Then(y, z))
    BY <1>6, <1>7 DEF Ahead
  <1>9. Then(RequestOf(i, q), z) = Then(r, v)
    BY <1>4, <1>5 DEF v
  <1> QED
    BY <1>8, <1>9 DEF r, f, b, y

LEMMA NextAbove ==
    ASSUME NEW k \in Nat
    PROVE  Token("request", k + 1) \in Above(k) /\ Token("wait", k + 1) \in Above(k)
  <1>1. Token("request", k + 1) \in Tokens
    BY TokenTyped
  <1>2. Token("request", k + 1).is = "request"
    BY DEF Token
  <1> QED
    BY <1>1, <1>2, WaitTyped DEF Above

\* A client waits only for requests that are still to be read.
LEMMA LaterAbove ==
    ASSUME NEW s \in Seq(Request), NEW k \in 0..Len(s)
    PROVE  Later(s, k) \in Seq(Above(k))
  <1> DEFINE n == Len(s)
             G == {j \in Nat : j <= n => Later(s, n - j) \in Seq(Above(n - j))}
  <1>0. n \in Nat /\ \A i \in 1..n : s[i] \in Request
    OBVIOUS
  <1>1. 0 \in G
    <2>1. Later(s, n) = <<>>
      BY LaterIs
    <2>2. <<>> \in Seq(Above(n))
      OBVIOUS
    <2> HIDE DEF n
    <2> QED
      BY <1>0, <2>1, <2>2
  <1>2. ASSUME NEW j \in Nat, j \in G PROVE j + 1 \in G
    <2> DEFINE m == n - (j + 1)
    <2>1. SUFFICES ASSUME j + 1 <= n PROVE Later(s, m) \in Seq(Above(m))
      OBVIOUS
    <2>2. m \in Nat /\ m \in 0..(n - 1) /\ m + 1 = n - j /\ m + 1 \in 1..n
      BY <1>0, <2>1
    <2>3. Later(s, m) = Then(RequestOf(m + 1, s[m + 1]), Later(s, m + 1))
      BY <2>2, LaterIs
    <2>4. Later(s, m + 1) \in Seq(Above(m + 1))
      BY <1>0, <1>2, <2>1, <2>2
    <2>5. s[m + 1] \in Request
      BY <1>0, <2>2
    <2> HIDE DEF m, n
    <2> DEFINE i == m + 1
               q == s[i]
               z == Later(s, i)
    <2>6. i \in Nat /\ q \in Request /\ z \in Seq(Above(i)) /\ Later(s, m) = Then(RequestOf(i, q), z)
      BY <2>2, <2>3, <2>4, <2>5
    <2>8. /\ Token("request", i) \in Above(m) /\ Token("wait", i) \in Above(m)
          /\ Seq(Quiet) \subseteq Seq(Above(m)) /\ Seq(Above(i)) \subseteq Seq(Above(m))
      BY <2>2, NextAbove, Widen
    <2> HIDE DEF i, q, z, G
    <2>7. PICK v : /\ Then(RequestOf(i, q), z) = Then(One(Token("request", i)), v)
                   /\ Ahead(v, i, Then(FieldsOf(q), One(Token("blank", 0))), Then(BodyOf(i, q), z))
      BY <2>6, RequestAhead
    <2>9. v \in Seq(Above(m))
      <3> DEFINE h == Then(FieldsOf(q), One(Token("blank", 0)))
                 x == Then(BodyOf(i, q), z)
                 wt == One(Token("wait", i))
      <3>1. h \in Seq(Quiet) /\ x \in Seq(Above(i)) /\ (v = Then(h, x) \/ v = Then(h, Then(wt, x)))
        BY <2>7 DEF Ahead
      <3>2. wt \in Seq(Above(m))
        BY <2>8, OneSeq
      <3> HIDE DEF h, x, wt
      <3>3. h \in Seq(Above(m)) /\ x \in Seq(Above(m))
        BY <2>8, <3>1
      <3>4. Then(wt, x) \in Seq(Above(m))
        BY <3>2, <3>3, Laid
      <3> QED
        BY <3>1, <3>3, <3>4, Laid
    <2>10. One(Token("request", i)) \in Seq(Above(m))
      BY <2>8, OneSeq
    <2> QED
      BY <2>6, <2>7, <2>9, <2>10, Laid
  <1> HIDE DEF G
  <1>3. n - k \in Nat
    BY <1>0
  <1>4. n - k \in G
    BY <1>1, <1>2, <1>3, SetInduction
  <1>5. n - k <= n /\ n - (n - k) = k
    BY <1>0
  <1> HIDE DEF n
  <1> QED
    BY <1>4, <1>5 DEF G

-----------------------------------------------------------------------------
(* Where a thread is in what its client sends, by its step: l are its      *)
(* locals, w and t what its client has sent and not, o says whether the    *)
(* client is there, and s is the client's script.                          *)

\* The client is gone and everything it sent is read.
Dead(w, o) == ~o /\ w = <<>>

\* The same, in or in front of a line.
Cut(w, t, o) == Dead(w, o) /\ t # <<>> /\ Head(t).is \in LineKinds

BodyAhead(l, s) == Then(BodyOf(l.of, s[l.of]), Later(s, l.of))

TrailerAhead(l, w, t, s) ==
    LET blank == Then(One(Token("blank", 0)), Later(s, l.of))
    IN  \/ Ahead(Then(w, t), l.of, <<>>, Then(One(Token("trailer", 0)), blank))
        \/ Ahead(Then(w, t), l.of, <<>>, blank)

\* Behind a request: the next one comes; or nothing, for the client is gone; or the body
\* of the last one, whose length was no usize.
AtLine(l, w, t, o, s) ==
    /\ ~l.whole => Cut(w, t, o)
    /\ l.whole =>
           \/ /\ l.of # 0 => ~Unreadable(s[l.of])
              /\ \/ Ahead(Then(w, t), l.of, <<>>, Later(s, l.of))
                 \/ Dead(w, o) /\ TrailerAhead(l, w, t, s)
           \/ /\ l.of # 0 /\ Unreadable(s[l.of])
              /\ Ahead(Then(w, t), l.of, <<>>, BodyAhead(l, s))

AtField(l, w, t, s) ==
    /\ l.body = <<>>
    /\ \E r \in Seq(FieldTokens) :
           /\ l.fields \cup Elems(r) = Elems(FieldsOf(s[l.of]))
           /\ Ahead(Then(w, t), l.of, Then(r, One(Token("blank", 0))), BodyAhead(l, s))

AtPlan(l, w, t, s) ==
    /\ l.body = <<>>
    /\ l.fields = Elems(FieldsOf(s[l.of]))
    /\ Ahead(Then(w, t), l.of, <<>>, BodyAhead(l, s))

\* What comes behind the first m chunks, and the bytes that do.
ChunksAhead(l, s, m) == Then(Rests(Chunks(l.of, s[l.of]))[m], Then(LastChunk, Later(s, l.of)))

BytesAhead(l, s, m) == Rests(Parts(l.of, s[l.of]))[m]

AtSize(l, w, t, s) ==
    /\ s[l.of].chunks # None /\ Len(l.body) <= MaxBody
    /\ \E m \in 0..Len(s[l.of].chunks) :
           /\ Then(l.body, BytesAhead(l, s, m)) = WholeBody(l.of, s[l.of])
           /\ Ahead(Then(w, t), l.of, <<>>, ChunksAhead(l, s, m))

AtChunk(l, w, t, s) ==
    LET bytes == Bytes(l.left, l.of)
    IN  /\ s[l.of].chunks # None /\ Len(l.body) + l.left <= MaxBody
        /\ \E m \in 1..Len(s[l.of].chunks) :
               /\ Then(l.body, Then(bytes, BytesAhead(l, s, m))) = WholeBody(l.of, s[l.of])
               /\ Ahead(Then(w, t), l.of, <<>>,
                        Then(Then(bytes, One(Token("crlf", 0))), ChunksAhead(l, s, m)))

AtTrailer(l, w, t, s) ==
    /\ s[l.of].chunks # None
    /\ l.body = WholeBody(l.of, s[l.of]) /\ Len(l.body) <= MaxBody
    /\ TrailerAhead(l, w, t, s)

AtHandle(l, w, t, o, s) ==
    /\ Len(l.body) <= MaxBody
    /\ l.body = IF Unreadable(s[l.of]) THEN <<>> ELSE WholeBody(l.of, s[l.of])
    /\ AtLine(l, w, t, o, s)

\* The client is gone in or in front of a line of the request, of whose body a part is
\* there.
Begins(b, x) == \E z \in Seq(Tokens) : Then(b, z) = x

CutReading(l, w, t, o, s) ==
    /\ Cut(w, t, o)
    /\ Len(l.body) <= MaxBody /\ Begins(l.body, WholeBody(l.of, s[l.of]))

Before == {"away", "queued", "start"}

Reading == {"field", "expect", "plan", "size", "chunk", "trailer", "handle"}

Between == {"line", "head", "openhead", "frame"}

WholeReading(l, w, t, o, s) ==
    /\ l.pc = "field" => AtField(l, w, t, s)
    /\ l.pc \in {"expect", "plan"} => AtPlan(l, w, t, s)
    /\ l.pc = "size" => AtSize(l, w, t, s)
    /\ l.pc = "chunk" => AtChunk(l, w, t, s)
    /\ l.pc = "trailer" => AtTrailer(l, w, t, s)
    /\ l.pc = "handle" => AtHandle(l, w, t, o, s)

AtReading(l, w, t, o, s) ==
    /\ l.whole => WholeReading(l, w, t, o, s)
    /\ ~l.whole => CutReading(l, w, t, o, s)

Place(l, w, t, o, s) ==
    /\ l.pc \in Before => l.of = 0 /\ l.whole /\ Ahead(Then(w, t), 0, <<>>, Later(s, 0))
    /\ l.pc \in Between => AtLine(l, w, t, o, s)
    /\ l.pc \in Reading => l.of # 0 /\ AtReading(l, w, t, o, s)
    /\ l.pc = "shed" => l.of = 0

\* The requests the router got: each in its turn, within the limit, and whole.
Whole(d, s) ==
    \A i \in 1..Len(d) :
        /\ d[i].of = i /\ Len(d[i].body) <= MaxBody
        /\ d[i].whole /\ d[i].body = WholeBody(i, s[i])

\* Or all but the last, which was cut off, or has no body because its length is no usize.
LastIs(e, q, w, t, o) ==
    \/ e.whole /\ Unreadable(q) /\ e.body = <<>>
    \/ ~e.whole /\ Cut(w, t, o) /\ Begins(e.body, WholeBody(e.of, q))

WholeOrCut(d, w, t, o, s) ==
    \A i \in 1..Len(d) :
        /\ d[i].of = i /\ Len(d[i].body) <= MaxBody
        /\ \/ d[i].whole /\ d[i].body = WholeBody(i, s[i])
           \/ i = Len(d) /\ LastIs(d[i], s[i], w, t, o)

\* How many there are, by the step of the thread.
Given(l, d, w, t, o, s) ==
    /\ WholeOrCut(d, w, t, o, s)
    /\ l.pc \in Before => d = <<>>
    /\ l.pc \in Between => Len(d) = l.of /\ (l.of # 0 => d[l.of].whole = l.whole)
    /\ l.pc \in Reading => Len(d) = l.of - 1 /\ Whole(d, s)
    /\ l.pc \in {"ended", "closed", "died"} /\ o /\ l.of > Len(d) => TooBig(l.of, s[l.of])

\* The inductive invariant, of one connection; f is what its thread has sent.
Ok(l, w, t, o, s, f, d) ==
    /\ l.of \in 0..Len(s)
    /\ w \in Seq(Quiet)
    /\ \A j \in 1..Len(f) : f[j].of \in 0..l.of
    /\ Place(l, w, t, o, s)
    /\ Given(l, d, w, t, o, s)

StreamOk(c) == Ok(conn[c], wire[c], todo[c], open[c], script[c], out[c], handled[c])

StreamInv == Typed /\ \A c \in Conns : StreamOk(c)

-----------------------------------------------------------------------------
(* What the client does leaves its thread where it is.                     *)

Keeps(k, w, t, o, w2, t2, o2) ==
    /\ \A h, x : Ahead(Then(w, t), k, h, x) => Ahead(Then(w2, t2), k, h, x)
    /\ Dead(w, o) => Dead(w2, o2)
    /\ Cut(w, t, o) => Cut(w2, t2, o2)

LEMMA PlaceKept ==
    ASSUME NEW l, NEW w, NEW t, NEW o, NEW w2, NEW t2, NEW o2, NEW s,
           Keeps(l.of, w, t, o, w2, t2, o2), Place(l, w, t, o, s)
    PROVE  Place(l, w2, t2, o2, s)
  <1>0. TrailerAhead(l, w, t, s) => TrailerAhead(l, w2, t2, s)
    BY DEF Keeps, TrailerAhead
  <1>1. AtLine(l, w, t, o, s) => AtLine(l, w2, t2, o2, s)
    BY <1>0 DEF Keeps, AtLine
  <1>2. AtField(l, w, t, s) => AtField(l, w2, t2, s)
    BY DEF Keeps, AtField
  <1>3. AtPlan(l, w, t, s) => AtPlan(l, w2, t2, s)
    BY DEF Keeps, AtPlan
  <1>4. AtSize(l, w, t, s) => AtSize(l, w2, t2, s)
    BY DEF Keeps, AtSize
  <1>5. AtChunk(l, w, t, s) => AtChunk(l, w2, t2, s)
    BY DEF Keeps, AtChunk
  <1>6. AtTrailer(l, w, t, s) => AtTrailer(l, w2, t2, s)
    BY <1>0 DEF AtTrailer
  <1>7. AtHandle(l, w, t, o, s) => AtHandle(l, w2, t2, o2, s)
    BY <1>1 DEF AtHandle
  <1>8. l.of = 0 /\ Ahead(Then(w, t), 0, <<>>, Later(s, 0)) => Ahead(Then(w2, t2), 0, <<>>, Later(s, 0))
    BY DEF Keeps
  <1>9. CutReading(l, w, t, o, s) => CutReading(l, w2, t2, o2, s)
    BY DEF Keeps, CutReading
  <1>10. WholeReading(l, w, t, o, s) => WholeReading(l, w2, t2, o2, s)
    BY <1>2, <1>3, <1>4, <1>5, <1>6, <1>7 DEF WholeReading
  <1>11. AtReading(l, w, t, o, s) => AtReading(l, w2, t2, o2, s)
    BY <1>9, <1>10 DEF AtReading
  <1> QED
    BY <1>1, <1>8, <1>11 DEF Place

LEMMA GivenKept ==
    ASSUME NEW l, NEW w, NEW t, NEW o, NEW w2, NEW t2, NEW o2, NEW s, NEW d,
           Keeps(l.of, w, t, o, w2, t2, o2), o2 => o, Given(l, d, w, t, o, s)
    PROVE  Given(l, d, w2, t2, o2, s)
  BY DEF Keeps, Given, WholeOrCut, LastIs

LEMMA OkKept ==
    ASSUME NEW l, NEW w, NEW t, NEW o, NEW w2 \in Seq(Quiet), NEW t2, NEW o2, NEW s, NEW f, NEW d,
           Keeps(l.of, w, t, o, w2, t2, o2), o2 => o, Ok(l, w, t, o, s, f, d)
    PROVE  Ok(l, w2, t2, o2, s, f, d)
  BY PlaceKept, GivenKept DEF Ok

LEMMA SendKeeps ==
    ASSUME NEW k \in Nat, NEW w \in Seq(Quiet), NEW t \in Seq(Tokens), t # <<>>, Head(t).is # "wait"
    PROVE  Append(w, Head(t)) \in Seq(Quiet) /\ Keeps(k, w, t, TRUE, Append(w, Head(t)), Tail(t), TRUE)
  <1>1. Head(t) \in Quiet
    BY QuietTail DEF Quiet
  <1>2. w \in Seq(Tokens)
    BY Widen
  <1>3. Then(Append(w, Head(t)), Tail(t)) = Then(w, t)
    BY <1>2, MoveOne
  <1> QED
    BY <1>1, <1>3 DEF Keeps, Dead, Cut

LEMMA HearKeeps ==
    ASSUME NEW k \in Nat, NEW w \in Seq(Quiet), NEW t \in Seq(Tokens), NEW o, t # <<>>,
           Head(t).is = "wait", Head(t).val <= k
    PROVE  Keeps(k, w, t, o, w, Tail(t), o)
  BY AheadHeard DEF Keeps, Dead, Cut, LineKinds, FieldKinds

LEMMA LeaveKeeps ==
    ASSUME NEW k, NEW w, NEW t
    PROVE  Keeps(k, w, t, TRUE, w, t, FALSE)
  BY DEF Keeps, Dead, Cut

LEMMA ClientOk ==
    ASSUME StreamInv, NEW c \in Conns, Client(c) \/ Break(c)
    PROVE  StreamOk(c)'
  <1> DEFINE l == conn[c]
             w == wire[c]
             t == todo[c]
  <1>0. /\ l \in Locals /\ l.of \in Nat /\ w \in Seq(Quiet) /\ t \in Seq(Tokens)
        /\ Ok(l, w, t, open[c], script[c], out[c], handled[c])
    BY DEF StreamInv, StreamOk, Ok, Typed, Locals
  <1>1. script' = script /\ conn' = conn /\ out' = out /\ handled' = handled
    BY DEF Client, Send, Hear, Finish, Break
  <1>2. CASE Send(c)
    <2>1. t # <<>> /\ Head(t).is # "wait" /\ open[c] = TRUE /\ open' = open
          /\ wire'[c] = Append(w, Head(t)) /\ todo'[c] = Tail(t)
      BY <1>2 DEF Send, StreamInv, Typed
    <2>2. wire'[c] \in Seq(Quiet) /\ Keeps(l.of, w, t, open[c], wire'[c], todo'[c], open[c])
      BY <1>0, <2>1, SendKeeps
    <2>3. Ok(l, wire'[c], todo'[c], open[c], script[c], out[c], handled[c])
      BY <1>0, <2>2, OkKept
    <2> QED
      BY <1>1, <2>1, <2>3 DEF StreamOk
  <1>3. CASE Hear(c)
    <2>1. t # <<>> /\ Head(t).is = "wait" /\ open' = open /\ wire' = wire /\ todo'[c] = Tail(t)
      BY <1>3 DEF Hear, StreamInv, Typed
    <2>2. PICK j \in DOMAIN out[c] : out[c][j].of = Head(t).val
      BY <1>3, Zenon DEF Hear
    <2>3. DOMAIN out[c] = 1..Len(out[c])
      BY DEF StreamInv, Typed
    <2>4. Head(t).val <= l.of
      BY <1>0, <2>2, <2>3 DEF Ok
    <2>5. Keeps(l.of, w, t, open[c], w, todo'[c], open[c])
      BY <1>0, <2>1, <2>4, HearKeeps
    <2>6. Ok(l, w, todo'[c], open[c], script[c], out[c], handled[c])
      BY <1>0, <2>5, OkKept
    <2> QED
      BY <1>1, <2>1, <2>6 DEF StreamOk
  <1>4. CASE Finish(c) \/ Break(c)
    <2>1. open[c] = TRUE /\ open'[c] = FALSE /\ wire' = wire /\ todo' = todo
      BY <1>4 DEF Finish, Break, StreamInv, Typed
    <2>2. Keeps(l.of, w, t, open[c], w, t, open'[c])
      BY <2>1, LeaveKeeps
    <2>3. Ok(l, w, t, open'[c], script[c], out[c], handled[c])
      BY <1>0, <2>1, <2>2, OkKept
    <2> QED
      BY <1>1, <2>1, <2>3 DEF StreamOk
  <1> QED
    BY <1>2, <1>3, <1>4 DEF Client

-----------------------------------------------------------------------------
(* What a thread reads leaves it at its next place.                        *)

LEMMA WholeGiven ==
    ASSUME NEW l, l.pc \in Reading, NEW d, NEW s, Whole(d, s), Len(d) = l.of - 1
    PROVE  \A w, t, o : Given(l, d, w, t, o, s)
  <1>1. \A w, t, o : WholeOrCut(d, w, t, o, s)
    BY DEF Whole, WholeOrCut
  <1> QED
    BY <1>1 DEF Given, Reading, Between, Before

\* From one step of reading a request to the next.
LEMMA ReadingOk ==
    ASSUME NEW l \in Locals, NEW w, NEW t, NEW o, NEW s, NEW f, NEW d, Ok(l, w, t, o, s, f, d),
           l.pc \in Reading, NEW l2 \in Locals, l2.pc \in Reading, l2.of = l.of,
           NEW w2 \in Seq(Quiet), NEW f2, \A j \in 1..Len(f2) : f2[j].of \in 0..l.of,
           AtReading(l2, w2, t, o, s)
    PROVE  Ok(l2, w2, t, o, s, f2, d)
  <1>1. l.of # 0 /\ l.of \in 0..Len(s)
    BY DEF Ok, Place
  <1>2. Place(l2, w2, t, o, s)
    BY <1>1 DEF Place, Reading, Between, Before
  <1>3. Whole(d, s) /\ Len(d) = l.of - 1
    BY DEF Ok, Given
  <1>4. Given(l2, d, w2, t, o, s)
    BY <1>3, WholeGiven
  <1> QED
    BY <1>1, <1>2, <1>4 DEF Ok

\* The same with nothing written.
LEMMA NextReading ==
    ASSUME NEW l \in Locals, NEW w, NEW t, NEW o, NEW s, NEW f, NEW d, Ok(l, w, t, o, s, f, d),
           l.pc \in Reading, NEW l2 \in Locals, l2.pc \in Reading, l2.of = l.of,
           NEW w2 \in Seq(Quiet), AtReading(l2, w2, t, o, s)
    PROVE  Ok(l2, w2, t, o, s, f, d)
  <1>1. \A j \in 1..Len(f) : f[j].of \in 0..l.of
    BY DEF Ok
  <1> QED
    BY <1>1, ReadingOk

\* A thread that stops: with a request in hand, only if that is above the limit.
LEMMA StopsOk ==
    ASSUME NEW l, NEW w, NEW t, NEW o, NEW s, NEW f, NEW d, Ok(l, w, t, o, s, f, d),
           NEW l2, l2.pc \in {"ended", "closed", "died"}, l2.of = l.of,
           NEW w2 \in Seq(Quiet), w2 = w \/ w # <<>>, o /\ l.of > Len(d) => TooBig(l.of, s[l.of])
    PROVE  Ok(l2, w2, t, o, s, f, d)
  <1>1. Place(l2, w2, t, o, s)
    BY DEF Place, Reading, Between, Before
  <1>2. WholeOrCut(d, w2, t, o, s)
    BY DEF Ok, Given, WholeOrCut, LastIs, Cut, Dead
  <1>3. Given(l2, d, w2, t, o, s)
    BY <1>2 DEF Given, Reading, Between, Before
  <1> QED
    BY <1>1, <1>3 DEF Ok

\* A request that was cut off is read on without anything more coming.
LEMMA CutGoesOn ==
    ASSUME NEW l \in Locals, NEW w \in Seq(Quiet), NEW t, NEW o, NEW s, NEW f, NEW d,
           Ok(l, w, t, o, s, f, d), l.pc \in Reading, ~l.whole,
           NEW l2 \in Locals, l2.pc \in Reading, l2.of = l.of, l2.body = l.body, ~l2.whole,
           NEW f2, \A j \in 1..Len(f2) : f2[j].of \in 0..l.of
    PROVE  Ok(l2, w, t, o, s, f2, d)
  <1>1. CutReading(l, w, t, o, s)
    BY DEF Ok, Place, AtReading
  <1>2. AtReading(l2, w, t, o, s)
    BY <1>1 DEF CutReading, AtReading
  <1> QED
    BY <1>2, ReadingOk

\* What comes in is part of a whole request, or of the next one.
LEMMA StillWhole ==
    ASSUME NEW l, NEW w, NEW t, NEW o, NEW s, NEW f, NEW d, Ok(l, w, t, o, s, f, d),
           l.pc \in Reading \cup {"line"}, l.whole \in BOOLEAN, w # <<>> \/ o
    PROVE  l.whole
  <1>1. ~Cut(w, t, o)
    BY DEF Cut, Dead
  <1> QED
    BY <1>1 DEF Ok, Place, AtReading, CutReading, AtLine, Between

LEMMA WholeReads ==
    ASSUME NEW l, NEW w, NEW t, NEW o, NEW s, NEW f, NEW d, Ok(l, w, t, o, s, f, d),
           l.pc \in Reading, l.whole
    PROVE  WholeReading(l, w, t, o, s)
  BY DEF Ok, Place, AtReading

LEMMA TheRequest ==
    ASSUME NEW l \in Locals, NEW w, NEW t, NEW o, NEW s \in Seq(Request), NEW f, NEW d,
           Ok(l, w, t, o, s, f, d), l.pc \in Reading
    PROVE  /\ l.of \in Nat /\ l.of \in 1..Len(s) /\ s[l.of] \in Request
           /\ Later(s, l.of) \in Seq(Above(l.of)) /\ AtReading(l, w, t, o, s)
  <1>1. Len(s) \in Nat /\ l.of \in Nat /\ l.of # 0 /\ l.of \in 0..Len(s) /\ AtReading(l, w, t, o, s)
    BY DEF Ok, Place, Locals
  <1>2. Later(s, l.of) \in Seq(Above(l.of))
    BY <1>1, LaterAbove
  <1> QED
    BY <1>1, <1>2

\* Behind a whole request that has its body, all of them are whole.
LEMMA LineWhole ==
    ASSUME NEW l \in Locals, NEW w, NEW t, NEW o, NEW s, NEW f, NEW d, Ok(l, w, t, o, s, f, d),
           l.pc = "line", l.whole, l.of # 0 => ~Unreadable(s[l.of])
    PROVE  Len(d) = l.of /\ Whole(d, s)
  <1>1. Len(d) = l.of /\ (l.of # 0 => d[l.of].whole) /\ WholeOrCut(d, w, t, o, s) /\ l.of \in Nat
    BY DEF Ok, Given, Between, Locals
  <1> QED
    BY <1>1 DEF WholeOrCut, LastIs, Whole

\* What a client has not sent begins with what is ahead, or with a wait.
LEMMA NextUnsent ==
    ASSUME NEW k \in Nat, NEW t \in Seq(Tokens), NEW a \in Tokens, NEW x \in Seq(Tokens),
           Ahead(Then(<<>>, t), k, <<>>, Then(One(a), x))
    PROVE  t # <<>> /\ (Head(t) = a \/ Head(t).is = "wait")
  <1> DEFINE q == Token("wait", k)
             y == Then(One(a), x)
  <1>1. q \in Tokens /\ q.is = "wait" /\ y \in Seq(Tokens)
    BY WaitTyped, OneSeq, Laid
  <1>2. Then(<<>>, t) = t /\ Then(<<>>, y) = y
    BY <1>1, ThenNothing
  <1>3. Then(<<>>, Then(One(q), y)) = Then(One(q), y)
    <2>1. Then(One(q), y) \in Seq(Tokens)
      BY <1>1, OneSeq, Laid
    <2> QED
      BY <2>1, ThenNothing
  <1>4. t = y \/ t = Then(One(q), y)
    BY <1>2, <1>3 DEF Ahead
  <1> HIDE DEF q
  <1>5. CASE t = y
    BY <1>5, FrontIs
  <1>6. CASE t = Then(One(q), y)
    <2> HIDE DEF y
    <2>1. t # <<>> /\ Head(t) = q
      BY <1>1, <1>6, FrontIs
    <2> QED
      BY <1>1, <2>1
  <1> QED
    BY <1>4, <1>5, <1>6

\* A body whose length is no usize begins with a byte, which is no request line.
LEMMA UnreadableAhead ==
    ASSUME NEW q \in Request, Unreadable(q), NEW i \in Nat, NEW z \in Seq(Above(i))
    PROVE  \E x \in Seq(Above(i)) : Then(BodyOf(i, q), z) = Then(One(Token("byte", i)), x)
  <1> DEFINE a == Token("byte", i)
             p == Bytes(q.length, i)
  <1>1. q.length \in Nat /\ q.length # 0 /\ BodyOf(i, q) = p
    <2>1. q.chunks = None /\ q.length # None /\ q.length \in Nat /\ q.length >= Word
      BY DEF Unreadable, Request
    <2>2. Word \in Nat /\ Word # 0
      BY ServerAssumption
    <2> QED
      BY <2>1, <2>2 DEF BodyOf
  <1>2. p \in Seq({a}) /\ Len(p) = q.length
    BY <1>1, TimesTyped DEF Bytes
  <1>3. a \in Quiet /\ {a} \subseteq Quiet
    BY QuietToken
  <1>4. p # <<>>
    BY <1>1, <1>2
  <1> HIDE DEF a, p
  <1>5. PICK b \in {a}, y \in Seq({a}) : p = Then(One(b), y)
    BY <1>2, <1>4, HasHead
  <1>6. b = a /\ y \in Seq(Quiet) /\ One(a) \in Seq(Tokens) /\ z \in Seq(Tokens) /\ y \in Seq(Tokens)
        /\ y \in Seq(Above(i))
    BY <1>3, <1>5, SeqWithin, OneSeq, Widen DEF Quiet
  <1>7. Then(p, z) = Then(One(a), Then(y, z)) /\ Then(y, z) \in Seq(Above(i))
    BY <1>5, <1>6, Regroup, Laid
  <1> QED
    BY <1>1, <1>7 DEF a

LEMMA AheadEmpty ==
    ASSUME NEW k \in Nat, NEW w \in Seq(Quiet), NEW t \in Seq(Tokens), w # <<>>
    PROVE  ~Ahead(Then(w, t), k, <<>>, <<>>)
  <1>1. SUFFICES ASSUME Ahead(Then(w, t), k, <<>>, <<>>) PROVE FALSE
    OBVIOUS
  <1>2. Then(w, t) = <<>>
    BY <1>1, NoWaitAhead
  <1>3. w = <<>>
    <2>1. Len(w) \in Nat /\ Len(t) \in Nat /\ Len(w \o t) = Len(w) + Len(t) /\ w \o t = <<>>
      BY <1>2 DEF Then
    <2> QED
      BY <2>1
  <1> QED
    BY <1>3

\* Where requests are left, the next one begins.
LEMMA NextRequest ==
    ASSUME NEW s \in Seq(Request), NEW k \in 0..(Len(s) - 1)
    PROVE  /\ k + 1 \in 1..Len(s) /\ s[k + 1] \in Request
           /\ \E v \in Seq(Tokens) :
                 /\ Later(s, k) = Then(One(Token("request", k + 1)), v)
                 /\ Ahead(v, k + 1, Then(FieldsOf(s[k + 1]), One(Token("blank", 0))),
                          Then(BodyOf(k + 1, s[k + 1]), Later(s, k + 1)))
  <1> DEFINE i == k + 1
             q == s[i]
             z == Later(s, i)
  <1>1. i \in 1..Len(s) /\ i \in 0..Len(s) /\ i \in Nat /\ q \in Request
    OBVIOUS
  <1>2. Later(s, k) = Then(RequestOf(i, q), z)
    BY LaterIs
  <1>3. z \in Seq(Above(i))
    BY <1>1, LaterAbove
  <1> HIDE DEF i, q, z
  <1>4. PICK v : /\ Then(RequestOf(i, q), z) = Then(One(Token("request", i)), v)
                 /\ Ahead(v, i, Then(FieldsOf(q), One(Token("blank", 0))), Then(BodyOf(i, q), z))
    BY <1>1, <1>3, RequestAhead
  <1>5. v \in Seq(Tokens)
    BY <1>1, <1>4, AheadTyped
  <1> QED
    BY <1>1, <1>2, <1>4, <1>5 DEF i, q, z

\* A request line is the next request's, and everything before it is whole.
LEMMA LineIs ==
    ASSUME NEW l \in Locals, NEW w \in Seq(Quiet), NEW t \in Seq(Tokens), NEW o,
           NEW s \in Seq(Request), NEW f, NEW d,
           Ok(l, w, t, o, s, f, d), l.pc = "line", l.whole,
           \/ w # <<>> /\ Head(w).is = "request"
           \/ w = <<>> /\ t # <<>> /\ Head(t).is = "request"
    PROVE  /\ Ahead(Then(w, t), l.of, <<>>, Later(s, l.of))
           /\ Len(d) = l.of /\ Whole(d, s) /\ l.of \in 0..(Len(s) - 1)
  <1> DEFINE k == l.of
             z == Later(s, k)
             a == Token("trailer", 0)
             b == Token("blank", 0)
             h == Token("byte", k)
  <1>1. k \in Nat /\ k \in 0..Len(s) /\ Len(s) \in Nat /\ z \in Seq(Above(k)) /\ z \in Seq(Tokens)
    <2>1. k \in Nat /\ k \in 0..Len(s) /\ Len(s) \in Nat
      BY DEF Ok, Locals
    <2> QED
      BY <2>1, LaterAbove, Widen
  <1>2. AtLine(l, w, t, o, s)
    BY DEF Ok, Place, Between
  <1>3. a \in Tokens /\ b \in Tokens /\ h \in Tokens /\ a.is = "trailer" /\ b.is = "blank"
        /\ h.is = "byte" /\ One(b) \in Seq(Tokens) /\ One(b) \in Seq(Quiet)
    BY <1>1, TokenTyped, QuietToken, OneSeq DEF Token
  <1>4. ~(Dead(w, o) /\ TrailerAhead(l, w, t, s))
    <2> SUFFICES ASSUME Dead(w, o), TrailerAhead(l, w, t, s) PROVE FALSE
      OBVIOUS
    <2>1. w = <<>> /\ t # <<>> /\ Head(t).is = "request"
      BY DEF Dead
    <2> DEFINE x == Then(One(b), z)
    <2>2. x \in Seq(Tokens)
      BY <1>1, <1>3, Laid
    <2>3. Ahead(Then(<<>>, t), k, <<>>, Then(One(a), x)) \/ Ahead(Then(<<>>, t), k, <<>>, Then(One(b), z))
      BY <2>1 DEF TrailerAhead
    <2> HIDE DEF a, b, k, z, x
    <2>4. Head(t) = a \/ Head(t) = b \/ Head(t).is = "wait"
      BY <1>1, <1>3, <2>2, <2>3, NextUnsent
    <2> QED
      BY <1>3, <2>1, <2>4
  <1>5. ~(k # 0 /\ Unreadable(s[k]) /\ Ahead(Then(w, t), k, <<>>, BodyAhead(l, s)))
    <2> SUFFICES ASSUME k # 0, Unreadable(s[k]), Ahead(Then(w, t), k, <<>>, BodyAhead(l, s)) PROVE FALSE
      OBVIOUS
    <2>1. s[k] \in Request
      BY <1>1
    <2>2. PICK x \in Seq(Above(k)) : BodyAhead(l, s) = Then(One(h), x)
      BY <1>1, <2>1, UnreadableAhead DEF BodyAhead
    <2>3. x \in Seq(Tokens) /\ Ahead(Then(w, t), k, <<>>, Then(One(h), x))
      BY <1>1, <2>2, Widen
    <2> HIDE DEF h, k
    <2>4. CASE w # <<>>
      <3>1. Head(w) = h
        BY <1>1, <1>3, <2>3, <2>4, ReadsNext
      <3> QED
        BY <1>3, <2>4, <3>1
    <2>5. CASE w = <<>>
      <3>1. Head(t) = h \/ Head(t).is = "wait"
        BY <1>1, <1>3, <2>3, <2>5, NextUnsent
      <3> QED
        BY <1>3, <2>5, <3>1
    <2> QED
      BY <2>4, <2>5
  <1>6. (k # 0 => ~Unreadable(s[k])) /\ Ahead(Then(w, t), k, <<>>, z)
    BY <1>2, <1>4, <1>5 DEF AtLine
  <1>7. Len(d) = k /\ Whole(d, s)
    BY <1>6, LineWhole
  <1>8. k # Len(s)
    <2> SUFFICES ASSUME k = Len(s) PROVE FALSE
      OBVIOUS
    <2>1. z = <<>>
      BY LaterIs
    <2>2. Ahead(Then(w, t), k, <<>>, <<>>)
      BY <1>6, <2>1
    <2> HIDE DEF k
    <2>3. w = <<>>
      BY <1>1, <2>2, AheadEmpty
    <2>4. Then(<<>>, t) = t
      BY ThenNothing
    <2> DEFINE q == Token("wait", k)
    <2>5. q \in Tokens /\ q.is = "wait" /\ One(q) \in Seq(Tokens)
      BY <1>1, WaitTyped, OneSeq
    <2> HIDE DEF q
    <2>6. Then(<<>>, <<>>) = <<>> /\ Then(One(q), <<>>) = One(q) /\ Then(<<>>, One(q)) = One(q)
      <3>1. <<>> \in Seq(Tokens)
        OBVIOUS
      <3> QED
        BY <2>5, <3>1, ThenNothing
    <2>7. t = <<>> \/ t = One(q)
      BY <2>2, <2>3, <2>4, <2>6 DEF Ahead, q
    <2>8. Head(One(q)) = q
      BY DEF One
    <2> QED
      BY <2>3, <2>5, <2>7, <2>8
  <1> QED
    BY <1>1, <1>6, <1>7, <1>8

LEMMA LaterOf ==
    ASSUME NEW n \in Nat, NEW i \in Nat, n <= i, NEW f, \A j \in 1..Len(f) : f[j].of \in 0..n
    PROVE  \A j \in 1..Len(f) : f[j].of \in 0..i
  OBVIOUS

\* From a line to the head behind it.
LEMMA LineReadOk ==
    ASSUME NEW l \in Locals, NEW w, NEW t, NEW o, NEW s \in Seq(Request), NEW f, NEW d,
           Ok(l, w, t, o, s, f, d), l.of \in 0..(Len(s) - 1), Len(d) = l.of, Whole(d, s),
           NEW w2 \in Seq(Quiet), NEW l2 \in Locals, l2.pc = "field", l2.of = l.of + 1,
           AtReading(l2, w2, t, o, s)
    PROVE  Ok(l2, w2, t, o, s, f, d)
  <1>1. l2.of \in 0..Len(s) /\ l2.of # 0 /\ Len(d) = l2.of - 1 /\ l.of \in Nat /\ l2.of \in Nat
        /\ l.of <= l2.of
    OBVIOUS
  <1>2. Place(l2, w2, t, o, s)
    BY <1>1 DEF Place, Reading, Between, Before
  <1>3. Given(l2, d, w2, t, o, s)
    BY <1>1, WholeGiven DEF Reading
  <1>4. \A j \in 1..Len(f) : f[j].of \in 0..l2.of
    <2>1. \A j \in 1..Len(f) : f[j].of \in 0..l.of
      BY DEF Ok
    <2> QED
      BY <1>1, <2>1, LaterOf
  <1> QED
    BY <1>1, <1>2, <1>3, <1>4 DEF Ok

LEMMA RequestLineOk ==
    ASSUME NEW l \in Locals, NEW w \in Seq(Quiet), NEW t \in Seq(Tokens), NEW o,
           NEW s \in Seq(Request), NEW f, NEW d,
           Ok(l, w, t, o, s, f, d), l.pc = "line", w # <<>>, Head(w).is = "request",
           NEW l2 \in Locals, l2.pc = "field", l2.of = Head(w).val, l2.fields = {}, l2.body = <<>>,
           l2.whole
    PROVE  Ok(l2, Tail(w), t, o, s, f, d)
  <1> DEFINE k == l.of
             i == k + 1
             q == s[i]
             h == Then(FieldsOf(q), One(Token("blank", 0)))
             x == Then(BodyOf(i, q), Later(s, i))
  <1>1. l.whole
    BY StillWhole DEF Locals
  <1>2. /\ Ahead(Then(w, t), k, <<>>, Later(s, k))
        /\ Len(d) = k /\ Whole(d, s) /\ k \in 0..(Len(s) - 1)
    BY <1>1, LineIs
  <1>3. i \in Nat /\ q \in Request /\ k \in Nat
    BY <1>2, NextRequest
  <1>4. PICK v \in Seq(Tokens) : Later(s, k) = Then(One(Token("request", i)), v) /\ Ahead(v, i, h, x)
    BY <1>2, NextRequest
  <1> HIDE DEF i, q, h, x
  <1>5. Then(w, t) = Then(One(Token("request", i)), v)
    BY <1>2, <1>3, <1>4, NoWaitAhead
  <1>6. Head(w) = Token("request", i) /\ Then(Tail(w), t) = v
    <2>1. Token("request", i) \in Tokens /\ w \in Seq(Tokens)
      BY <1>3, TokenTyped, Widen
    <2> QED
      BY <1>4, <1>5, <2>1, TakeOne
  <1>7. l2.of = i
    BY <1>6 DEF Token
  <1>8. AtField(l2, Tail(w), t, s)
    <2>1. FieldsOf(q) \in Seq(FieldTokens)
      BY <1>3, FieldsAre
    <2>2. Ahead(Then(Tail(w), t), l2.of, h, BodyAhead(l2, s))
      BY <1>4, <1>6, <1>7 DEF BodyAhead, q, x
    <2>3. l2.fields \cup Elems(FieldsOf(q)) = Elems(FieldsOf(s[l2.of]))
      BY <1>7 DEF q
    <2> QED
      BY <2>1, <2>2, <2>3 DEF AtField, h
  <1>9. AtReading(l2, Tail(w), t, o, s)
    BY <1>8 DEF AtReading, WholeReading
  <1>10. Tail(w) \in Seq(Quiet)
    BY QuietTail
  <1> QED
    BY <1>2, <1>7, <1>9, <1>10, LineReadOk DEF i

\* Nothing is the beginning of every body.
LEMMA NothingBegins ==
    ASSUME NEW q \in Request, NEW i \in Nat
    PROVE  Begins(<<>>, WholeBody(i, q)) /\ Len(<<>>) <= MaxBody
  <1>1. WholeBody(i, q) \in Seq(Tokens)
    BY BodyIs, Widen
  <1>2. Then(<<>>, WholeBody(i, q)) = WholeBody(i, q)
    BY <1>1, ThenNothing
  <1> QED
    BY <1>1, <1>2, ServerAssumption DEF Begins

\* A request line that is cut short.
LEMMA RequestCutOk ==
    ASSUME NEW l \in Locals, NEW w \in Seq(Quiet), NEW t \in Seq(Tokens), NEW o,
           NEW s \in Seq(Request), NEW f, NEW d,
           Ok(l, w, t, o, s, f, d), l.pc = "line", l.whole, w = <<>>, ~o, t # <<>>,
           Head(t).is = "request",
           NEW l2 \in Locals, l2.pc = "field", l2.of = Head(t).val, l2.body = <<>>, ~l2.whole
    PROVE  Ok(l2, w, t, o, s, f, d)
  <1> DEFINE k == l.of
             i == k + 1
             a == Token("request", i)
  <1>1. /\ Ahead(Then(<<>>, t), k, <<>>, Later(s, k))
        /\ Len(d) = k /\ Whole(d, s) /\ k \in 0..(Len(s) - 1)
    BY LineIs
  <1>2. i \in Nat /\ k \in Nat /\ s[i] \in Request
    BY <1>1, NextRequest
  <1>3. PICK v \in Seq(Tokens) : Later(s, k) = Then(One(a), v)
    BY <1>1, NextRequest
  <1>4. a \in Tokens /\ a.val = i
    BY <1>2, TokenTyped DEF Token
  <1> HIDE DEF a, i
  <1>5. Head(t) = a
    BY <1>1, <1>2, <1>3, <1>4, NextUnsent
  <1>6. l2.of = i
    BY <1>4, <1>5
  <1>7. CutReading(l2, w, t, o, s)
    BY <1>2, <1>6, NothingBegins DEF CutReading, Cut, Dead, LineKinds
  <1>8. AtReading(l2, w, t, o, s)
    BY <1>7 DEF AtReading
  <1> QED
    BY <1>1, <1>6, <1>8, LineReadOk DEF i

\* A field of the head.
LEMMA FieldOk ==
    ASSUME NEW l \in Locals, NEW w \in Seq(Quiet), NEW t \in Seq(Tokens), NEW o, NEW s, NEW f, NEW d,
           Ok(l, w, t, o, s, f, d), l.pc = "field", l.whole, w # <<>>, Head(w).is \in FieldKinds,
           NEW l2 \in Locals, l2.pc = "field", l2.of = l.of, l2.body = l.body, l2.whole,
           l2.fields = l.fields \cup {Head(w)}
    PROVE  Ok(l2, Tail(w), t, o, s, f, d)
  <1> DEFINE k == l.of
             b == One(Token("blank", 0))
             x == BodyAhead(l, s)
  <1>1. k \in Nat
    BY DEF Locals
  <1>2. l.body = <<>>
    BY WholeReads DEF Reading, WholeReading, AtField
  <1>3. PICK r \in Seq(FieldTokens) :
            /\ l.fields \cup Elems(r) = Elems(FieldsOf(s[k]))
            /\ Ahead(Then(w, t), k, Then(r, b), x)
    BY WholeReads DEF Reading, WholeReading, AtField
  <1>4. Token("blank", 0) \in Quiet /\ Token("blank", 0).is \notin FieldKinds /\ b \in Seq(Quiet)
    <2>1. Token("blank", 0) \in Quiet
      BY QuietToken
    <2>2. Token("blank", 0).is \notin FieldKinds
      BY DEF Token, FieldKinds
    <2> QED
      BY <2>1, <2>2, OneSeq
  <1>5. FieldTokens \subseteq Quiet
    BY DEF FieldTokens
  <1>6. BodyAhead(l2, s) = x
    BY DEF BodyAhead
  <1> HIDE DEF x
  <1>7. r # <<>>
    <2>1. SUFFICES ASSUME r = <<>> PROVE FALSE
      OBVIOUS
    <2>2. Then(<<>>, b) = b
      BY <1>4, ThenNothing
    <2>3. <<>> \in Seq(Quiet) /\ Then(b, <<>>) = b
      BY <1>4, ThenNothing
    <2>4. Ahead(Then(w, t), k, Then(b, <<>>), x)
      BY <1>3, <2>1, <2>2, <2>3
    <2>5. Head(w) = Token("blank", 0)
      BY <1>1, <1>4, <2>3, <2>4, ReadsOne
    <2> QED
      BY <1>4, <2>5
  <1> HIDE DEF b
  <1>8. PICK a \in FieldTokens, r2 \in Seq(FieldTokens) : r = Then(One(a), r2)
    BY <1>7, HasHead
  <1>9. r2 \in Seq(Quiet) /\ a \in Quiet
    BY <1>5, SeqWithin
  <1>10. One(a) \in Seq(Quiet) /\ One(a) \in Seq(FieldTokens) /\ Then(r2, b) \in Seq(Quiet)
    BY <1>4, <1>9, OneSeq, Laid
  <1>11. Then(r, b) = Then(One(a), Then(r2, b))
    BY <1>4, <1>8, <1>9, <1>10, Regroup
  <1>12. Head(w) = a /\ Ahead(Then(Tail(w), t), k, Then(r2, b), x)
    BY <1>1, <1>3, <1>9, <1>10, <1>11, ReadsOne
  <1>13. l2.fields \cup Elems(r2) = Elems(FieldsOf(s[k]))
    <2>1. Elems(r) = Elems(One(a)) \cup Elems(r2)
      BY <1>8, <1>10, ElemsThen
    <2>2. Elems(One(a)) = {a}
      BY ElemsOne
    <2> QED
      BY <1>3, <1>12, <2>1, <2>2
  <1>14. AtField(l2, Tail(w), t, s)
    BY <1>2, <1>6, <1>12, <1>13 DEF AtField, b
  <1>15. Tail(w) \in Seq(Quiet)
    BY QuietTail
  <1>16. AtReading(l2, Tail(w), t, o, s)
    BY <1>14 DEF AtReading, WholeReading
  <1> QED
    BY <1>15, <1>16, NextReading DEF Reading

\* The empty line.
LEMMA BlankOk ==
    ASSUME NEW l \in Locals, NEW w \in Seq(Quiet), NEW t \in Seq(Tokens), NEW o, NEW s, NEW f, NEW d,
           Ok(l, w, t, o, s, f, d), l.pc = "field", l.whole, w # <<>>, Head(w).is = "blank",
           NEW l2 \in Locals, l2.pc = "expect", l2.of = l.of, l2.body = l.body, l2.whole, l2.fields = l.fields
    PROVE  Ok(l2, Tail(w), t, o, s, f, d)
  <1> DEFINE k == l.of
             b == One(Token("blank", 0))
             x == BodyAhead(l, s)
  <1>1. k \in Nat
    BY DEF Locals
  <1>2. l.body = <<>>
    BY WholeReads DEF Reading, WholeReading, AtField
  <1>3. PICK r \in Seq(FieldTokens) :
            /\ l.fields \cup Elems(r) = Elems(FieldsOf(s[k]))
            /\ Ahead(Then(w, t), k, Then(r, b), x)
    BY WholeReads DEF Reading, WholeReading, AtField
  <1>4. Token("blank", 0) \in Quiet /\ b \in Seq(Quiet)
    BY QuietToken, OneSeq
  <1>5. FieldTokens \subseteq Quiet /\ \A a \in FieldTokens : a.is # "blank"
    BY DEF FieldTokens, FieldKinds
  <1>6. BodyAhead(l2, s) = x
    BY DEF BodyAhead
  <1> HIDE DEF x
  <1>7. r = <<>>
    <2>1. SUFFICES ASSUME r # <<>> PROVE FALSE
      OBVIOUS
    <2> HIDE DEF b
    <2>2. PICK a \in FieldTokens, r2 \in Seq(FieldTokens) : r = Then(One(a), r2)
      BY <2>1, HasHead
    <2>3. r2 \in Seq(Quiet) /\ a \in Quiet
      BY <1>5, SeqWithin
    <2>4. One(a) \in Seq(Quiet) /\ Then(r2, b) \in Seq(Quiet)
      BY <1>4, <2>3, OneSeq, Laid
    <2>5. Then(r, b) = Then(One(a), Then(r2, b))
      BY <1>4, <2>2, <2>3, <2>4, Regroup
    <2>6. Head(w) = a
      BY <1>1, <1>3, <2>3, <2>4, <2>5, ReadsOne
    <2> QED
      BY <1>5, <2>6
  <1>8. <<>> \in Seq(Quiet) /\ Then(<<>>, b) = b /\ Then(b, <<>>) = b
    BY <1>4, ThenNothing
  <1>9. Ahead(Then(w, t), k, Then(b, <<>>), x)
    BY <1>3, <1>7, <1>8
  <1>10. Ahead(Then(Tail(w), t), k, <<>>, x)
    BY <1>1, <1>4, <1>8, <1>9, ReadsOne
  <1>11. l2.fields = Elems(FieldsOf(s[k]))
    BY <1>3, <1>7, ElemsNone
  <1>12. AtPlan(l2, Tail(w), t, s)
    BY <1>2, <1>6, <1>10, <1>11 DEF AtPlan
  <1>13. Tail(w) \in Seq(Quiet)
    BY QuietTail
  <1>14. AtReading(l2, Tail(w), t, o, s)
    BY <1>12 DEF AtReading, WholeReading
  <1> QED
    BY <1>13, <1>14, NextReading DEF Reading

\* What a head can go on with.
LEMMA HeadGoesOn ==
    ASSUME NEW k \in Nat, NEW w \in Seq(Quiet), NEW t \in Seq(Tokens), NEW r \in Seq(FieldTokens),
           NEW x, Ahead(Then(w, t), k, Then(r, One(Token("blank", 0))), x)
    PROVE  /\ w # <<>> => Head(w).is \in FieldKinds \cup {"blank"}
           /\ w = <<>> => t # <<>> /\ Head(t).is \in FieldKinds \cup {"blank"}
  <1> DEFINE b == Token("blank", 0)
             h == Then(r, One(b))
             kinds == FieldKinds \cup {"blank"}
  <1>1. b \in Quiet /\ b.is = "blank" /\ One(b) \in Seq(Quiet) /\ One(b) \in Seq(Tokens)
    BY QuietToken, TokenTyped, OneSeq DEF Token
  <1>2. FieldTokens \subseteq Quiet /\ \A a \in FieldTokens : a.is \in FieldKinds
    BY DEF FieldTokens
  <1>3. r \in Seq(Quiet)
    BY <1>2, SeqWithin
  <1>4. \E a \in Quiet, y \in Seq(Quiet) : h = Then(One(a), y) /\ a.is \in kinds
    <2>1. CASE r = <<>>
      <3>1. h = One(b) /\ One(b) = Then(One(b), <<>>) /\ <<>> \in Seq(Quiet)
        BY <1>1, <2>1, ThenNothing
      <3> QED
        BY <1>1, <3>1
    <2>2. CASE r # <<>>
      <3> HIDE DEF b
      <3>1. PICK a \in FieldTokens, r2 \in Seq(FieldTokens) : r = Then(One(a), r2)
        BY <2>2, HasHead
      <3>2. r2 \in Seq(Quiet) /\ a \in Quiet /\ a.is \in FieldKinds
        BY <1>2, SeqWithin
      <3>3. One(a) \in Seq(Quiet) /\ Then(r2, One(b)) \in Seq(Quiet)
        BY <1>1, <3>2, OneSeq, Laid
      <3>4. h = Then(One(a), Then(r2, One(b)))
        BY <1>1, <3>1, <3>2, <3>3, Regroup
      <3> QED
        BY <3>2, <3>3, <3>4
    <2> QED
      BY <2>1, <2>2
  <1> HIDE DEF b, h
  <1>5. PICK a \in Quiet, y \in Seq(Quiet) : h = Then(One(a), y) /\ a.is \in kinds
    BY <1>4
  <1>6. Ahead(Then(w, t), k, Then(One(a), y), x)
    BY <1>5 DEF h, b
  <1>7. CASE w # <<>>
    <2>1. Head(w) = a
      BY <1>6, <1>7, ReadsOne
    <2> QED
      BY <1>5, <1>7, <2>1
  <1>8. CASE w = <<>>
    <2>1. Then(<<>>, t) = t
      BY ThenNothing
    <2>2. Ahead(t, k, Then(One(a), y), x)
      BY <1>6, <1>8, <2>1
    <2>3. PICK z \in Seq(Tokens) : t = Then(Then(One(a), y), z)
      <3>1. x \in Seq(Tokens) /\ One(Token("wait", k)) \in Seq(Tokens)
        BY <2>2, AheadTyped, WaitTyped, OneSeq
      <3>2. Then(One(Token("wait", k)), x) \in Seq(Tokens)
        BY <3>1, Laid
      <3> QED
        BY <2>2, <3>1, <3>2 DEF Ahead
    <2>4. a \in Tokens /\ One(a) \in Seq(Tokens) /\ y \in Seq(Tokens)
      BY OneSeq, SeqWithin DEF Quiet
    <2>5. t = Then(One(a), Then(y, z)) /\ Then(y, z) \in Seq(Tokens)
      BY <2>3, <2>4, Regroup, Laid
    <2>6. t # <<>> /\ Head(t) = a
      BY <2>4, <2>5, FrontIs
    <2> QED
      BY <1>5, <1>8, <2>6
  <1> QED
    BY <1>7, <1>8

\* The head ends with what the client sent.
LEMMA HeadCutOk ==
    ASSUME NEW l \in Locals, NEW w \in Seq(Quiet), NEW t \in Seq(Tokens), NEW o,
           NEW s \in Seq(Request), NEW f, NEW d,
           Ok(l, w, t, o, s, f, d), l.pc = "field", w = <<>>, ~o,
           NEW l2 \in Locals, l2.pc = "expect", l2.of = l.of, l2.body = l.body, ~l2.whole
    PROVE  Ok(l2, w, t, o, s, f, d)
  <1>1. CASE l.whole
    <2>1. l.of \in Nat /\ s[l.of] \in Request
      BY TheRequest DEF Reading
    <2>2. l.body = <<>>
      BY <1>1, WholeReads DEF Reading, WholeReading, AtField
    <2>3. PICK r \in Seq(FieldTokens) :
              Ahead(Then(w, t), l.of, Then(r, One(Token("blank", 0))), BodyAhead(l, s))
      BY <1>1, WholeReads DEF Reading, WholeReading, AtField
    <2>4. Cut(w, t, o)
      BY <2>1, <2>3, HeadGoesOn DEF Cut, Dead, LineKinds
    <2>5. AtReading(l2, w, t, o, s)
      BY <2>1, <2>2, <2>4, NothingBegins DEF AtReading, CutReading
    <2> QED
      BY <2>5, NextReading DEF Reading
  <1>2. CASE ~l.whole
    <2>1. \A j \in 1..Len(f) : f[j].of \in 0..l.of
      BY DEF Ok
    <2> QED
      BY <1>2, <2>1, CutGoesOn DEF Reading
  <1> QED
    BY <1>1, <1>2

LEMMA ContinueOk ==
    ASSUME NEW l \in Locals, NEW w \in Seq(Quiet), NEW t, NEW o, NEW s, NEW f, NEW d,
           Ok(l, w, t, o, s, f, d), l.pc = "expect",
           NEW l2 \in Locals, l2.pc = "plan", l2.of = l.of, l2.body = l.body, l2.fields = l.fields,
           l2.whole = l.whole, NEW f2, \A j \in 1..Len(f2) : f2[j].of \in 0..l.of
    PROVE  Ok(l2, w, t, o, s, f2, d)
  <1>1. CASE l.whole
    <2>1. AtPlan(l, w, t, s)
      BY <1>1, WholeReads DEF Reading, WholeReading
    <2>2. AtPlan(l2, w, t, s)
      BY <2>1 DEF AtPlan, BodyAhead
    <2>3. AtReading(l2, w, t, o, s)
      BY <1>1, <2>2 DEF AtReading, WholeReading
    <2> QED
      BY <2>3, ReadingOk DEF Reading
  <1>2. CASE ~l.whole
    BY <1>2, CutGoesOn DEF Reading
  <1> QED
    BY <1>1, <1>2

-----------------------------------------------------------------------------
(* The body.                                                               *)

Carries(fields, kind) == \E x \in fields : x.is = kind

LengthIn(fields) ==
    IF \E x \in fields : x.is = "content-length" /\ x.val < Word
    THEN (CHOOSE x \in fields : x.is = "content-length").val ELSE 0

\* The fields say of the body what the request does.
LEMMA FieldsSay ==
    ASSUME NEW q \in Request
    PROVE  /\ Carries(Elems(FieldsOf(q)), "chunked") <=> q.chunks # None
           /\ LengthIn(Elems(FieldsOf(q))) = IF q.length = None \/ q.length >= Word THEN 0 ELSE q.length
  <1> DEFINE F == Elems(FieldsOf(q))
             A == IF q.connection # None THEN {Token(q.connection, 0)} ELSE {}
             B == IF q.length # None THEN {Token("content-length", q.length)} ELSE {}
             C == IF q.chunks # None THEN {Token("chunked", 0)} ELSE {}
             D == IF q.expect THEN {Token("expect", 0)} ELSE {}
  <1>1. F = A \cup B \cup C \cup D
    BY FieldsAre
  <1>2. \A x \in A : x.is \in {"close", "keep-alive"}
    BY DEF Request, Token
  <1>3. \A x \in B : x.is = "content-length" /\ x.val = q.length
    BY DEF Token
  <1>4. \A x \in C : x.is = "chunked"
    BY DEF Token
  <1>5. \A x \in D : x.is = "expect"
    BY DEF Token
  <1>6. (q.length # None <=> \E x \in B : TRUE) /\ (q.chunks # None <=> \E x \in C : TRUE)
    OBVIOUS
  <1> HIDE DEF F, A, B, C, D
  <1>7. Carries(F, "chunked") <=> q.chunks # None
    BY <1>1, <1>2, <1>3, <1>4, <1>5, <1>6 DEF Carries
  <1>8. Carries(F, "content-length") <=> q.length # None
    BY <1>1, <1>2, <1>3, <1>4, <1>5, <1>6 DEF Carries
  <1>9. \A x \in F : x.is = "content-length" => x.val = q.length
    BY <1>1, <1>2, <1>3, <1>4, <1>5
  <1>10. CASE q.length # None /\ q.length < Word
    <2>1. \E x \in F : x.is = "content-length" /\ x.val < Word
      BY <1>8, <1>9, <1>10 DEF Carries
    <2>2. (CHOOSE x \in F : x.is = "content-length").val = q.length
      BY <1>9, <2>1
    <2>3. ~(q.length >= Word)
      BY <1>10, ServerAssumption DEF Request
    <2> QED
      BY <1>7, <1>10, <2>1, <2>2, <2>3 DEF LengthIn, F
  <1>11. CASE q.length = None \/ ~(q.length < Word)
    <2>1. ~\E x \in F : x.is = "content-length" /\ x.val < Word
      BY <1>8, <1>9, <1>11 DEF Carries
    <2>2. q.length = None \/ q.length >= Word
      BY <1>11, ServerAssumption DEF Request
    <2> QED
      BY <1>7, <2>1, <2>2 DEF LengthIn, F
  <1> QED
    BY <1>10, <1>11

LEMMA NoBytes == ASSUME NEW i \in Nat PROVE Bytes(0, i) = <<>>
  <1>1. Bytes(0, i) \in Seq(Tokens) /\ Len(Bytes(0, i)) = 0
    BY BytesTyped
  <1> QED
    BY <1>1, EmptySeq

LEMMA NoBodyOk ==
    ASSUME NEW l \in Locals, NEW w \in Seq(Quiet), NEW t, NEW o, NEW s \in Seq(Request), NEW f, NEW d,
           Ok(l, w, t, o, s, f, d), l.pc = "plan", l.whole,
           ~Carries(l.fields, "chunked"), LengthIn(l.fields) = 0,
           NEW l2 \in Locals, l2.pc = "handle", l2.of = l.of, l2.body = l.body, l2.whole
    PROVE  Ok(l2, w, t, o, s, f, d)
  <1> DEFINE k == l.of
             q == s[k]
             z == Later(s, k)
  <1>1. k \in Nat /\ k # 0 /\ q \in Request /\ z \in Seq(Above(k)) /\ AtPlan(l, w, t, s)
    <2>1. AtPlan(l, w, t, s)
      BY WholeReads DEF Reading, WholeReading
    <2>2. k # 0
      BY DEF Ok, Place, Reading
    <2> QED
      BY <2>1, <2>2, TheRequest DEF Reading
  <1>2. l.body = <<>> /\ Len(l.body) <= MaxBody
    BY <1>1, ServerAssumption DEF AtPlan
  <1>3. l.fields = Elems(FieldsOf(q)) /\ Ahead(Then(w, t), k, <<>>, BodyAhead(l, s))
    BY <1>1 DEF AtPlan
  <1>4. q.chunks = None /\ (q.length = None \/ q.length >= Word \/ q.length = 0)
    BY <1>1, <1>3, FieldsSay
  <1>5. CASE Unreadable(q)
    <2>1. BodyAhead(l2, s) = BodyAhead(l, s)
      BY DEF BodyAhead
    <2>2. AtLine(l2, w, t, o, s)
      BY <1>1, <1>3, <1>5, <2>1 DEF AtLine
    <2> QED
      BY <1>2, <1>5, <2>2, NextReading DEF AtHandle, WholeReading, AtReading, Reading
  <1>6. CASE ~Unreadable(q)
    <2>1. q.length = None \/ q.length = 0
      BY <1>4, <1>6 DEF Unreadable
    <2>2. BodyOf(k, q) = <<>>
      BY <1>1, <1>4, <2>1, NoBytes DEF BodyOf
    <2>3. WholeBody(k, q) = <<>>
      BY <1>4, <2>2 DEF WholeBody
    <2>4. BodyAhead(l, s) = z
      <3>1. Then(<<>>, z) = z
        BY <1>1, ThenNothing
      <3> QED
        BY <2>2, <3>1 DEF BodyAhead
    <2>5. AtLine(l2, w, t, o, s)
      BY <1>3, <1>6, <2>4 DEF AtLine
    <2> QED
      BY <1>2, <1>6, <2>3, <2>5, NextReading DEF AtHandle, WholeReading, AtReading, Reading
  <1> QED
    BY <1>5, <1>6

LEMMA ChunkedOk ==
    ASSUME NEW l \in Locals, NEW w \in Seq(Quiet), NEW t, NEW o, NEW s \in Seq(Request), NEW f, NEW d,
           Ok(l, w, t, o, s, f, d), l.pc = "plan", l.whole, Carries(l.fields, "chunked"),
           NEW l2 \in Locals, l2.pc = "size", l2.of = l.of, l2.body = l.body, l2.whole
    PROVE  Ok(l2, w, t, o, s, f, d)
  <1> DEFINE k == l.of
             q == s[k]
             z == Later(s, k)
  <1>1. k \in Nat /\ q \in Request /\ z \in Seq(Above(k)) /\ AtPlan(l, w, t, s)
    <2>1. AtPlan(l, w, t, s)
      BY WholeReads DEF Reading, WholeReading
    <2> QED
      BY <2>1, TheRequest DEF Reading
  <1>2. l.body = <<>> /\ Len(l.body) <= MaxBody
    BY <1>1, ServerAssumption DEF AtPlan
  <1>4. ASSUME l.fields = Elems(FieldsOf(q)), Ahead(Then(w, t), k, <<>>, BodyAhead(l, s))
        PROVE  AtSize(l2, w, t, s)
    <2>1. q.chunks # None
      BY <1>1, <1>4, FieldsSay
    <2> DEFINE cs == Rests(Chunks(k, q))[0]
               ps == Rests(Parts(k, q))[0]
    <2>2. BodyOf(k, q) = Then(cs, LastChunk) /\ WholeBody(k, q) = ps /\ ps \in Seq(Quiet)
      BY <1>1, <2>1, BodyIs
    <2>3. Len(q.chunks) \in Nat /\ cs \in Seq(Quiet)
      <3>1. Len(q.chunks) \in Nat /\ Chunks(k, q) \in Seq(Seq(Quiet)) /\ Len(Chunks(k, q)) = Len(q.chunks)
        BY <1>1, <2>1, ChunksTyped
      <3>2. 0 \in 0..Len(Chunks(k, q))
        BY <3>1
      <3> QED
        BY <3>1, <3>2, RestsTyped
    <2> HIDE DEF cs, ps
    <2>4. cs \in Seq(Tokens) /\ LastChunk \in Seq(Tokens) /\ z \in Seq(Tokens)
      BY <1>1, <2>3, LastChunkIs, Widen
    <2>5. BodyAhead(l, s) = Then(cs, Then(LastChunk, z))
      <3>1. Then(Then(cs, LastChunk), z) = Then(cs, Then(LastChunk, z))
        BY <2>4, Regroup
      <3> QED
        BY <2>2, <3>1 DEF BodyAhead
    <2>6. Then(l.body, ps) = ps
      BY <1>2, <2>2, ThenNothing
    <2>7. Ahead(Then(w, t), l2.of, <<>>, ChunksAhead(l2, s, 0))
      BY <1>4, <2>5 DEF ChunksAhead, cs
    <2>8. Then(l2.body, BytesAhead(l2, s, 0)) = WholeBody(l2.of, s[l2.of])
      BY <2>2, <2>6 DEF BytesAhead, ps
    <2>9. 0 \in 0..Len(s[l2.of].chunks) /\ s[l2.of].chunks # None /\ Len(l2.body) <= MaxBody
      BY <1>2, <2>1, <2>3
    <2> QED
      BY <2>7, <2>8, <2>9 DEF AtSize
  <1>5. AtSize(l2, w, t, s)
    BY <1>1, <1>4 DEF AtPlan
  <1>6. AtReading(l2, w, t, o, s)
    BY <1>5 DEF AtReading, WholeReading
  <1> QED
    BY <1>6, NextReading DEF Reading

\* A body of a given length, read, or above the limit.
LEMMA FixedIs ==
    ASSUME NEW l \in Locals, NEW w \in Seq(Quiet), NEW t, NEW o, NEW s \in Seq(Request), NEW f, NEW d,
           Ok(l, w, t, o, s, f, d), l.pc = "plan", ~Carries(l.fields, "chunked"),
           NEW n \in Nat, LengthIn(l.fields) = n, n # 0, l.whole
    PROVE  /\ WholeBody(l.of, s[l.of]) = Bytes(n, l.of) /\ ~Unreadable(s[l.of])
           /\ Ahead(Then(w, t), l.of, <<>>, Then(Bytes(n, l.of), Later(s, l.of)))
  <1> DEFINE k == l.of
             q == s[k]
  <1>1. k \in Nat /\ q \in Request /\ AtPlan(l, w, t, s)
    <2>1. AtPlan(l, w, t, s)
      BY WholeReads DEF Reading, WholeReading
    <2> QED
      BY <2>1, TheRequest DEF Reading
  <1>2. l.fields = Elems(FieldsOf(q)) /\ Ahead(Then(w, t), k, <<>>, BodyAhead(l, s))
    BY <1>1 DEF AtPlan
  <1>3. q.chunks = None /\ q.length = n /\ q.length # None /\ ~(q.length >= Word)
    BY <1>1, <1>2, FieldsSay, ServerAssumption
  <1>4. BodyOf(k, q) = Bytes(n, k) /\ WholeBody(k, q) = Bytes(n, k)
    BY <1>3 DEF BodyOf, WholeBody
  <1> QED
    BY <1>2, <1>3, <1>4 DEF BodyAhead, Unreadable

LEMMA FixedOk ==
    ASSUME NEW l \in Locals, NEW w \in Seq(Quiet), NEW t \in Seq(Tokens), NEW o,
           NEW s \in Seq(Request), NEW f, NEW d,
           Ok(l, w, t, o, s, f, d), l.pc = "plan", ~Carries(l.fields, "chunked"),
           NEW n \in Nat, LengthIn(l.fields) = n, n # 0, n <= MaxBody, n <= Len(w),
           NEW l2 \in Locals, l2.pc = "handle", l2.of = l.of, l2.body = First(w, n), l2.whole
    PROVE  Ok(l2, Skip(w, n), t, o, s, f, d)
  <1> DEFINE k == l.of
             p == Bytes(n, k)
  <1>1. k \in Nat /\ Later(s, k) \in Seq(Above(k))
    BY TheRequest DEF Reading
  <1>2. l.whole
    <2>1. w # <<>>
      OBVIOUS
    <2>2. l.whole \in BOOLEAN
      BY DEF Locals
    <2> QED
      BY <2>1, <2>2, StillWhole DEF Reading
  <1>3. p \in Seq(Tokens) /\ Len(p) = n
    BY <1>1, BytesTyped
  <1>4. WholeBody(k, s[k]) = p /\ ~Unreadable(s[k]) /\ Ahead(Then(w, t), k, <<>>, Then(p, Later(s, k)))
    BY <1>2, FixedIs
  <1> HIDE DEF p
  <1>5. First(w, n) = p /\ Skip(w, n) \in Seq(Quiet) /\ Ahead(Then(Skip(w, n), t), k, <<>>, Later(s, k))
    BY <1>1, <1>3, <1>4, ReadsMany
  <1>6. AtHandle(l2, Skip(w, n), t, o, s)
    BY <1>3, <1>4, <1>5 DEF AtHandle, AtLine
  <1>7. AtReading(l2, Skip(w, n), t, o, s)
    BY <1>6 DEF AtReading, WholeReading
  <1> QED
    BY <1>5, <1>7, NextReading DEF Reading

LEMMA FixedTooBig ==
    ASSUME NEW l \in Locals, NEW w \in Seq(Quiet), NEW t, NEW o, NEW s \in Seq(Request), NEW f, NEW d,
           Ok(l, w, t, o, s, f, d), l.pc = "plan", ~Carries(l.fields, "chunked"),
           NEW n \in Nat, LengthIn(l.fields) = n, n > MaxBody, o
    PROVE  TooBig(l.of, s[l.of])
  <1>1. n # 0 /\ l.whole
    <2>1. n # 0
      BY ServerAssumption
    <2>2. l.whole \in BOOLEAN
      BY DEF Locals
    <2> QED
      BY <2>1, <2>2, StillWhole DEF Reading
  <1>2. WholeBody(l.of, s[l.of]) = Bytes(n, l.of) /\ l.of \in Nat
    BY <1>1, FixedIs, TheRequest DEF Reading
  <1>3. Len(Bytes(n, l.of)) = n
    BY <1>2, BytesTyped
  <1> QED
    BY <1>2, <1>3 DEF TooBig

\* The next line of a chunked body is the size of a chunk, or of the end.
NextChunk(l, w, t, s, n, m) ==
    /\ n \in Nat \ {0} /\ m \in 1..Len(s[l.of].chunks) /\ Head(w) = Token("size", n)
    /\ Then(l.body, Then(Bytes(n, l.of), BytesAhead(l, s, m))) = WholeBody(l.of, s[l.of])
    /\ Ahead(Then(Tail(w), t), l.of, <<>>,
             Then(Then(Bytes(n, l.of), One(Token("crlf", 0))), ChunksAhead(l, s, m)))

NoMoreChunks(l, w, t, s) ==
    /\ Head(w) = Token("size", 0)
    /\ l.body = WholeBody(l.of, s[l.of])
    /\ Ahead(Then(Tail(w), t), l.of, <<>>,
             Then(One(Token("trailer", 0)), Then(One(Token("blank", 0)), Later(s, l.of))))

LEMMA RestsAre ==
    ASSUME NEW q \in Request, q.chunks # None, NEW i \in Nat
    PROVE  /\ Rests(Chunks(i, q))[Len(q.chunks)] = <<>> /\ Rests(Parts(i, q))[Len(q.chunks)] = <<>>
           /\ \A m \in 0..(Len(q.chunks) - 1) :
                  /\ Rests(Chunks(i, q))[m] = Then(ChunkOf(q.chunks[m + 1], i), Rests(Chunks(i, q))[m + 1])
                  /\ Rests(Parts(i, q))[m] = Then(Bytes(q.chunks[m + 1], i), Rests(Parts(i, q))[m + 1])
           /\ \A m \in 0..Len(q.chunks) :
                  Rests(Chunks(i, q))[m] \in Seq(Quiet) /\ Rests(Parts(i, q))[m] \in Seq(Quiet)
  <1> DEFINE cs == Chunks(i, q)
             ps == Parts(i, q)
             n == Len(q.chunks)
  <1>1. /\ n \in Nat /\ cs \in Seq(Seq(Quiet)) /\ Len(cs) = n /\ ps \in Seq(Seq(Quiet)) /\ Len(ps) = n
    BY ChunksTyped
  <1>2. DOMAIN q.chunks = 1..n
    BY DEF Request
  <1>3. \A m \in 0..(n - 1) : cs[m + 1] = ChunkOf(q.chunks[m + 1], i) /\ ps[m + 1] = Bytes(q.chunks[m + 1], i)
    BY <1>1, <1>2 DEF Chunks, Parts
  <1> HIDE DEF cs, ps, n
  <1>4. AreRests(Rests(cs), cs) /\ AreRests(Rests(ps), ps)
    BY <1>1, RestsExist
  <1>5. \A m \in 0..n : Rests(cs)[m] \in Seq(Quiet) /\ Rests(ps)[m] \in Seq(Quiet)
    BY <1>1, RestsTyped
  <1>6. Rests(cs)[n] = <<>> /\ Rests(ps)[n] = <<>>
    BY <1>1, <1>4 DEF AreRests
  <1>7. \A m \in 0..(n - 1) : /\ Rests(cs)[m] = Then(ChunkOf(q.chunks[m + 1], i), Rests(cs)[m + 1])
                              /\ Rests(ps)[m] = Then(Bytes(q.chunks[m + 1], i), Rests(ps)[m + 1])
    BY <1>1, <1>3, <1>4 DEF AreRests
  <1> QED
    BY <1>5, <1>6, <1>7 DEF cs, ps, n

LEMMA SizeRead ==
    ASSUME NEW l \in Locals, NEW w \in Seq(Quiet), NEW t \in Seq(Tokens), NEW o,
           NEW s \in Seq(Request), NEW f, NEW d, Ok(l, w, t, o, s, f, d), l.pc = "size", w # <<>>
    PROVE  /\ s[l.of].chunks # None /\ Len(l.body) <= MaxBody
           /\ (\E n, m : NextChunk(l, w, t, s, n, m)) \/ NoMoreChunks(l, w, t, s)
  <1> DEFINE k == l.of
             q == s[k]
             z == Later(s, k)
             N == Len(q.chunks)
             tail == Then(LastChunk, z)
  <1>1. k \in Nat /\ q \in Request /\ z \in Seq(Above(k)) /\ AtSize(l, w, t, s) /\ l.body \in Seq(Tokens)
    <2>1. l.whole
      BY StillWhole DEF Reading, Locals
    <2>2. AtSize(l, w, t, s)
      BY <2>1, WholeReads DEF Reading, WholeReading
    <2> QED
      BY <2>2, TheRequest DEF Reading, Locals
  <1>2. q.chunks # None /\ Len(l.body) <= MaxBody
    BY <1>1 DEF AtSize
  <1>3. PICK m \in 0..N : /\ Then(l.body, BytesAhead(l, s, m)) = WholeBody(k, q)
                          /\ Ahead(Then(w, t), k, <<>>, ChunksAhead(l, s, m))
    BY <1>1 DEF AtSize
  <1>4. N \in Nat /\ \A j \in 1..N : q.chunks[j] \in Nat \ {0}
    BY <1>1, <1>2, ChunksTyped
  <1>5. z \in Seq(Tokens) /\ LastChunk \in Seq(Quiet) /\ tail \in Seq(Above(k))
    BY <1>1, LastChunkIs, Widen, Laid
  <1> HIDE DEF tail
  <1>6. CASE m = N
    <2>1. Rests(Chunks(k, q))[m] = <<>> /\ Rests(Parts(k, q))[m] = <<>>
      BY <1>1, <1>2, <1>6, RestsAre
    <2>2. l.body = WholeBody(k, q)
      BY <1>1, <1>3, <2>1, ThenNothing DEF BytesAhead
    <2>3. ChunksAhead(l, s, m) = tail
      <3>1. Then(<<>>, tail) = tail
        BY <1>5, ThenNothing
      <3> QED
        BY <2>1, <3>1 DEF ChunksAhead, tail
    <2> DEFINE a == One(Token("size", 0))
               e == One(Token("trailer", 0))
               b == One(Token("blank", 0))
    <2>4. a \in Seq(Quiet) /\ e \in Seq(Quiet) /\ b \in Seq(Quiet) /\ Token("size", 0) \in Tokens
          /\ Then(e, b) \in Seq(Quiet)
      BY QuietToken, TokenTyped, OneSeq, Laid
    <2>5. LastChunk = Then(a, Then(e, b))
      BY LastChunkIs
    <2> HIDE DEF a, e, b
    <2>6. a \in Seq(Tokens) /\ e \in Seq(Tokens) /\ b \in Seq(Tokens) /\ Then(e, b) \in Seq(Tokens)
      BY <2>4, Widen
    <2>7. tail = Then(a, Then(Then(e, b), z))
      BY <1>5, <2>5, <2>6, Regroup DEF tail
    <2>8. Then(Then(e, b), z) = Then(e, Then(b, z))
      BY <1>5, <2>6, Regroup
    <2>9. Then(e, b) \in Seq(Above(k))
      BY <1>1, <2>4, Widen
    <2>10. Then(Then(e, b), z) \in Seq(Above(k))
      BY <1>1, <2>9, Laid
    <2>11. Ahead(Then(w, t), k, <<>>, Then(One(Token("size", 0)), Then(e, Then(b, z))))
      BY <1>3, <2>3, <2>7, <2>8 DEF a
    <2>12. /\ Head(w) = Token("size", 0)
           /\ Ahead(Then(Tail(w), t), k, <<>>, Then(e, Then(b, z)))
      BY <1>1, <2>4, <2>8, <2>10, <2>11, ReadsNext
    <2>13. NoMoreChunks(l, w, t, s)
      BY <2>2, <2>12 DEF NoMoreChunks, e, b
    <2> QED
      BY <1>2, <2>13
  <1>7. CASE m # N
    <2> DEFINE j == m + 1
               n == q.chunks[j]
               a == One(Token("size", n))
               p == Bytes(n, k)
               e == One(Token("crlf", 0))
               r == Rests(Chunks(k, q))[j]
               y == Rests(Parts(k, q))[j]
    <2>1. m \in 0..(N - 1) /\ j \in 1..N /\ j \in 0..N
      BY <1>4, <1>7
    <2>2. n \in Nat \ {0} /\ n \in Nat
      BY <1>4, <2>1
    <2>3. Rests(Chunks(k, q))[m] = Then(ChunkOf(n, k), r) /\ Rests(Parts(k, q))[m] = Then(p, y)
          /\ r \in Seq(Quiet) /\ y \in Seq(Quiet)
      BY <1>1, <1>2, <2>1, RestsAre
    <2> HIDE DEF j
    <2>4. Then(l.body, Then(p, y)) = WholeBody(k, q)
      BY <1>3, <2>3 DEF BytesAhead
    <2> HIDE DEF n
    <2>5. a \in Seq(Quiet) /\ p \in Seq(Quiet) /\ e \in Seq(Quiet) /\ Token("size", n) \in Tokens
      BY <1>1, <2>2, QuietToken, TokenTyped, BytesTyped, OneSeq
    <2>6. ChunkOf(n, k) = Then(a, Then(p, e))
      BY <1>1, <2>2, ChunkIs
    <2> HIDE DEF a, p, e, r, y
    <2>7. a \in Seq(Tokens) /\ p \in Seq(Tokens) /\ e \in Seq(Tokens) /\ r \in Seq(Tokens)
          /\ tail \in Seq(Tokens)
      BY <1>1, <1>5, <2>3, <2>5, Widen
    <2> DEFINE pe == Then(p, e)
               rt == Then(r, tail)
    <2>8. pe \in Seq(Tokens) /\ pe \in Seq(Quiet)
      BY <2>5, <2>7, Laid
    <2>9. rt \in Seq(Above(k))
      <3>1. r \in Seq(Above(k))
        BY <1>1, <2>3, Widen
      <3> QED
        BY <1>5, <3>1, Laid
    <2>10. rt \in Seq(Tokens)
      BY <2>7, Laid
    <2> HIDE DEF pe
    <2>11. Then(Then(Then(a, pe), r), tail) = Then(a, Then(pe, rt))
      <3>1. Then(a, pe) \in Seq(Tokens)
        BY <2>7, <2>8, Laid
      <3>2. Then(Then(Then(a, pe), r), tail) = Then(Then(a, pe), rt)
        BY <2>7, <3>1, Regroup
      <3> HIDE DEF rt
      <3>3. Then(Then(a, pe), rt) = Then(a, Then(pe, rt))
        BY <2>7, <2>8, <2>10, Regroup
      <3> QED
        BY <3>2, <3>3
    <2> HIDE DEF rt
    <2>12. ChunksAhead(l, s, m) = Then(a, Then(pe, rt))
      BY <2>3, <2>6, <2>11 DEF ChunksAhead, pe, tail
    <2>13. pe \in Seq(Above(k))
      BY <1>1, <2>8, Widen
    <2>14. Then(pe, rt) \in Seq(Above(k))
      BY <2>9, <2>13, Laid
    <2>15. Ahead(Then(w, t), k, <<>>, Then(One(Token("size", n)), Then(pe, rt)))
      BY <1>3, <2>12 DEF a
    <2>16. Head(w) = Token("size", n) /\ Ahead(Then(Tail(w), t), k, <<>>, Then(pe, rt))
      BY <1>1, <2>5, <2>14, <2>15, ReadsNext
    <2>17. NextChunk(l, w, t, s, n, j)
      BY <2>1, <2>2, <2>4, <2>16 DEF NextChunk, BytesAhead, ChunksAhead, pe, rt, p, e, r, y, tail
    <2> QED
      BY <1>2, <2>17
  <1> QED
    BY <1>6, <1>7

\* Within the limit the sum does not wrap; past it, in whatever way, the body is too big.
LEMMA WrapsOnlyAbove ==
    ASSUME NEW h \in Nat, NEW n \in Nat, h <= MaxBody
    PROVE  /\ OverLimit(h, n) => h + n > MaxBody
           /\ Unallocatable(n) => n > MaxBody
           /\ n >= Word => Unallocatable(n)
           /\ ~OverLimit(h, n) /\ ~Unallocatable(n) => h + n <= MaxBody
  <1>1. Word \in Nat /\ MaxBody \in Nat /\ MaxBody < Word \div 2
    BY ServerAssumption
  <1> DEFINE half == Word \div 2
  <1>2. half \in Nat /\ 2 * half <= Word /\ half > 0
    BY <1>1
  <1>3. h + n < Word => (h + n) % Word = h + n
    BY <1>1
  <1>4. (h + n) % Word <= h + n /\ (h + n) % Word \in Nat
    <2>1. Word > 0
      BY <1>1, <1>2
    <2>2. (h + n) % Word \in 0..(Word - 1)
      BY <1>1, <2>1
    <2>3. CASE h + n < Word
      BY <1>3, <2>2, <2>3
    <2>4. CASE h + n >= Word
      BY <1>1, <2>2, <2>4
    <2> QED
      BY <1>1, <2>2, <2>3, <2>4
  <1> HIDE DEF half
  <1>5. Unallocatable(n) <=> n >= half
    BY DEF Unallocatable, half
  <1>6. MaxBody < half
    BY <1>1 DEF half
  <1>7. ~Unallocatable(n) => h + n < Word
    BY <1>1, <1>2, <1>5, <1>6
  <1> QED
    BY <1>1, <1>2, <1>3, <1>4, <1>5, <1>6, <1>7 DEF OverLimit

LEMMA ChunkTooBig ==
    ASSUME NEW l \in Locals, l.of \in Nat, NEW w, NEW t, NEW s, s[l.of] \in Request,
           s[l.of].chunks # None, Len(l.body) <= MaxBody,
           NEW n, NEW m, NextChunk(l, w, t, s, n, m), OverLimit(Len(l.body), n) \/ Unallocatable(n)
    PROVE  TooBig(l.of, s[l.of])
  <1> DEFINE b == l.body
             p == Bytes(n, l.of)
             y == BytesAhead(l, s, m)
  <1>1. n \in Nat /\ m \in 0..Len(s[l.of].chunks) /\ WholeBody(l.of, s[l.of]) = Then(b, Then(p, y))
    <2>1. n \in Nat \ {0} /\ m \in 1..Len(s[l.of].chunks)
      BY DEF NextChunk
    <2>2. n \in Nat /\ m \in 0..Len(s[l.of].chunks)
      BY <2>1
    <2> QED
      BY <2>2 DEF NextChunk
  <1>2. b \in Seq(Tokens) /\ Len(b) \in Nat
    BY DEF Locals
  <1>3. p \in Seq(Tokens) /\ Len(p) = n
    BY <1>1, BytesTyped
  <1>4. y \in Seq(Tokens)
    <2>1. y \in Seq(Quiet)
      BY <1>1, RestsAre DEF BytesAhead
    <2> QED
      BY <2>1, Widen
  <1>5. Len(b) + n > MaxBody
    <2> DEFINE h == Len(b)
    <2>1. h \in Nat /\ h <= MaxBody /\ (OverLimit(h, n) \/ Unallocatable(n))
      BY <1>2
    <2> HIDE DEF h, b
    <2>2. h + n > MaxBody \/ n > MaxBody
      BY <1>1, <2>1, WrapsOnlyAbove
    <2>3. h + n > MaxBody
      BY <1>1, <2>1, <2>2, ServerAssumption
    <2> QED
      BY <2>3 DEF h
  <1> HIDE DEF b, p, y
  <1>6. Len(Then(b, Then(p, y))) = Len(b) + (n + Len(y)) /\ Len(y) \in Nat
    BY <1>2, <1>3, <1>4 DEF Then
  <1> QED
    BY <1>1, <1>2, <1>5, <1>6, ServerAssumption DEF TooBig

LEMMA SizeOk ==
    ASSUME NEW l \in Locals, NEW w \in Seq(Quiet), NEW t \in Seq(Tokens), NEW o,
           NEW s \in Seq(Request), NEW f, NEW d, Ok(l, w, t, o, s, f, d), l.pc = "size", w # <<>>,
           NEW l2 \in Locals, l2.of = l.of, l2.body = l.body, l2.left = Head(w).val, l2.whole,
           l2.pc = (IF l2.left = 0 THEN "trailer"
                    ELSE IF l2.left >= Word \/ OverLimit(Len(l.body), l2.left) THEN "ended"
                    ELSE IF Unallocatable(l2.left) THEN "died" ELSE "chunk")
    PROVE  Ok(l2, Tail(w), t, o, s, f, d)
  <1>1. Tail(w) \in Seq(Quiet)
    BY QuietTail
  <1>2. s[l.of].chunks # None /\ Len(l.body) <= MaxBody /\ Len(l.body) \in Nat /\ l.of \in Nat
        /\ s[l.of] \in Request
    <2>1. s[l.of].chunks # None /\ Len(l.body) <= MaxBody
      BY SizeRead
    <2>2. l.of \in Nat /\ s[l.of] \in Request
      BY TheRequest DEF Reading
    <2>3. Len(l.body) \in Nat
      BY DEF Locals
    <2> QED
      BY <2>1, <2>2, <2>3
  <1>3. ASSUME NEW n, NEW m, NextChunk(l, w, t, s, n, m)
        PROVE  Ok(l2, Tail(w), t, o, s, f, d)
    <2>1. l2.left = n /\ n \in Nat /\ n # 0
      <3>1. n \in Nat \ {0} /\ Head(w) = Token("size", n)
        BY <1>3 DEF NextChunk
      <3> QED
        BY <3>1 DEF Token
    <2>2. CASE OverLimit(Len(l.body), n) \/ Unallocatable(n)
      <3>1. TooBig(l.of, s[l.of])
        BY <1>2, <1>3, <2>2, ChunkTooBig
      <3>2. l2.pc \in {"ended", "closed", "died"}
        BY <2>1, <2>2
      <3> DEFINE v == Tail(w)
      <3>3. v \in Seq(Quiet) /\ w # <<>>
        BY <1>1
      <3> HIDE DEF v
      <3>4. Ok(l2, v, t, o, s, f, d)
        BY <3>1, <3>2, <3>3, StopsOk
      <3> QED
        BY <3>4 DEF v
    <2>3. CASE ~OverLimit(Len(l.body), n) /\ ~Unallocatable(n)
      <3>1. l2.pc = "chunk" /\ Len(l2.body) + l2.left <= MaxBody
        BY <1>2, <2>1, <2>3, WrapsOnlyAbove
      <3>2. AtChunk(l2, Tail(w), t, s)
        BY <1>2, <1>3, <2>1, <3>1 DEF AtChunk, NextChunk, BytesAhead, ChunksAhead
      <3>3. AtReading(l2, Tail(w), t, o, s)
        BY <3>1, <3>2 DEF AtReading, WholeReading
      <3> QED
        BY <1>1, <3>1, <3>3, NextReading DEF Reading
    <2> QED
      BY <2>2, <2>3
  <1>4. ASSUME NoMoreChunks(l, w, t, s)
        PROVE  Ok(l2, Tail(w), t, o, s, f, d)
    <2>1. l2.left = 0
      BY <1>4 DEF NoMoreChunks, Token
    <2>2. l2.pc = "trailer"
      BY <2>1
    <2>3. AtTrailer(l2, Tail(w), t, s)
      BY <1>2, <1>4 DEF AtTrailer, TrailerAhead, NoMoreChunks
    <2>4. AtReading(l2, Tail(w), t, o, s)
      BY <2>2, <2>3 DEF AtReading, WholeReading
    <2> QED
      BY <1>1, <2>2, <2>4, NextReading DEF Reading
  <1> QED
    BY <1>3, <1>4, SizeRead

\* The size of a chunk is cut short.
LEMMA SizeCutOk ==
    ASSUME NEW l \in Locals, NEW w \in Seq(Quiet), NEW t \in Seq(Tokens), NEW o,
           NEW s \in Seq(Request), NEW f, NEW d, Ok(l, w, t, o, s, f, d), l.pc = "size",
           w = <<>>, ~o, t # <<>>, Head(t).is = "size",
           NEW l2 \in Locals, l2.of = l.of, l2.body = l.body, ~l2.whole,
           l2.pc \in {"trailer", "ended", "died", "chunk"}
    PROVE  Ok(l2, w, t, o, s, f, d)
  <1>1. CASE l2.pc \in {"ended", "died"}
    <2>1. Place(l2, w, t, o, s)
      BY <1>1 DEF Place, Reading, Between, Before
    <2>2. Given(l2, d, w, t, o, s)
      BY <1>1 DEF Ok, Given, Reading, Between, Before
    <2> QED
      BY <1>1, <2>1, <2>2 DEF Ok
  <1>2. CASE l2.pc \in {"trailer", "chunk"}
    <2>1. Cut(w, t, o)
      BY DEF Cut, Dead, LineKinds
    <2>2. Len(l.body) <= MaxBody /\ Begins(l.body, WholeBody(l.of, s[l.of]))
      <3>1. CASE l.whole
        <4>1. AtSize(l, w, t, s) /\ l.of \in Nat /\ s[l.of] \in Request
          BY <3>1, WholeReads, TheRequest DEF Reading, WholeReading
        <4>2. PICK m \in 0..Len(s[l.of].chunks) :
                  Then(l.body, BytesAhead(l, s, m)) = WholeBody(l.of, s[l.of])
          BY <4>1 DEF AtSize
        <4>3. BytesAhead(l, s, m) \in Seq(Tokens)
          <5>1. BytesAhead(l, s, m) \in Seq(Quiet)
            BY <4>1, RestsAre DEF BytesAhead, AtSize
          <5> QED
            BY <5>1, Widen
        <4> QED
          BY <4>1, <4>2, <4>3 DEF AtSize, Begins
      <3>2. CASE ~l.whole
        BY <3>2, TheRequest DEF Reading, AtReading, CutReading
      <3> QED
        BY <3>1, <3>2
    <2>3. AtReading(l2, w, t, o, s)
      BY <2>1, <2>2 DEF AtReading, CutReading
    <2> QED
      BY <1>2, <2>3, NextReading DEF Reading
  <1> QED
    BY <1>1, <1>2

LEMMA ChunkOk ==
    ASSUME NEW l \in Locals, NEW w \in Seq(Quiet), NEW t \in Seq(Tokens), NEW o,
           NEW s \in Seq(Request), NEW f, NEW d, Ok(l, w, t, o, s, f, d), l.pc = "chunk",
           l.left + 1 <= Len(w),
           NEW l2 \in Locals, l2.pc = "size", l2.of = l.of, l2.body = Then(l.body, First(w, l.left)),
           l2.whole
    PROVE  Ok(l2, Skip(w, l.left + 1), t, o, s, f, d)
  <1> DEFINE k == l.of
             q == s[k]
             n == l.left
             i == n + 1
             p == Bytes(n, k)
             e == One(Token("crlf", 0))
             pe == Then(p, e)
  <1>1. k \in Nat /\ q \in Request /\ Later(s, k) \in Seq(Above(k)) /\ AtChunk(l, w, t, s)
        /\ l.body \in Seq(Tokens) /\ n \in Nat
    <2>1. n \in Nat /\ w # <<>>
      BY DEF Locals
    <2>2. l.whole
      BY <2>1, StillWhole DEF Reading, Locals
    <2>3. AtChunk(l, w, t, s)
      BY <2>2, WholeReads DEF Reading, WholeReading
    <2> QED
      BY <2>1, <2>3, TheRequest DEF Reading, Locals
  <1>2. PICK m \in 1..Len(q.chunks) :
            /\ Then(l.body, Then(p, BytesAhead(l, s, m))) = WholeBody(k, q)
            /\ Ahead(Then(w, t), k, <<>>, Then(pe, ChunksAhead(l, s, m)))
    BY <1>1 DEF AtChunk
  <1>3. q.chunks # None /\ Len(l.body) + n <= MaxBody
    BY <1>1 DEF AtChunk
  <1>4. m \in 0..Len(q.chunks) /\ ChunksAhead(l, s, m) \in Seq(Above(k))
        /\ BytesAhead(l, s, m) \in Seq(Tokens)
    <2>0. Len(q.chunks) \in Nat
      <3> HIDE DEF q
      <3> QED
        BY <1>1, <1>3, ChunksTyped
    <2>1. Len(q.chunks) \in Nat /\ m \in 0..Len(q.chunks)
      <3> HIDE DEF q
      <3> QED
        BY <2>0
    <2> DEFINE r == Rests(Chunks(k, q))[m]
               y == Rests(Parts(k, q))[m]
    <2>2. r \in Seq(Quiet) /\ y \in Seq(Quiet) /\ LastChunk \in Seq(Quiet)
      BY <1>1, <1>3, <2>1, RestsAre, LastChunkIs
    <2> HIDE DEF r, y
    <2>3. r \in Seq(Above(k)) /\ LastChunk \in Seq(Above(k)) /\ y \in Seq(Tokens)
      BY <1>1, <2>2, Widen
    <2>4. Then(LastChunk, Later(s, k)) \in Seq(Above(k))
      BY <1>1, <2>3, Laid
    <2>5. Then(r, Then(LastChunk, Later(s, k))) \in Seq(Above(k))
      BY <2>3, <2>4, Laid
    <2> QED
      BY <2>1, <2>3, <2>5 DEF ChunksAhead, BytesAhead, r, y
  <1> DEFINE x == ChunksAhead(l, s, m)
             y == BytesAhead(l, s, m)
  <1>5. p \in Seq(Quiet) /\ p \in Seq(Tokens) /\ e \in Seq(Quiet) /\ e \in Seq(Tokens)
        /\ Len(p) = n /\ Len(e) = 1
    <2>1. Token("crlf", 0) \in Quiet /\ Token("crlf", 0) \in Tokens
      BY QuietToken, TokenTyped
    <2>2. e \in Seq(Quiet) /\ e \in Seq(Tokens)
      BY <2>1, OneSeq
    <2>3. Len(e) = 1
      BY DEF One
    <2> QED
      BY <1>1, <2>2, <2>3, BytesTyped
  <1> HIDE DEF p, e, x, y
  <1>6. pe \in Seq(Quiet) /\ pe \in Seq(Tokens) /\ Len(pe) = i
    <2>1. pe \in Seq(Quiet) /\ pe \in Seq(Tokens)
      BY <1>5, Laid
    <2>2. Len(Then(p, e)) = Len(p) + Len(e)
      BY <1>5, LenOfBoth
    <2>3. Len(pe) = i
      BY <1>5, <2>2
    <2> QED
      BY <2>1, <2>3
  <1>7. i \in Nat /\ i # 0 /\ i <= Len(w)
    BY <1>1
  <1> HIDE DEF pe, i
  <1>8. Skip(w, i) \in Seq(Quiet) /\ Ahead(Then(Skip(w, i), t), k, <<>>, x)
    BY <1>1, <1>2, <1>4, <1>6, <1>7, ReadsMany DEF x
  <1>9. First(w, n) = p
    <2>1. w # <<>>
      BY <1>7
    <2>2. Then(w, t) = Then(pe, x)
      BY <1>1, <1>2, <2>1, NoWaitAhead DEF x
    <2>3. x \in Seq(Tokens) /\ w \in Seq(Tokens)
      BY <1>1, <1>4, Widen DEF x
    <2>4. Then(w, t) = Then(p, Then(e, x)) /\ Then(e, x) \in Seq(Tokens)
      BY <1>5, <2>2, <2>3, Regroup, Laid DEF pe
    <2>5. n <= Len(w)
      BY <1>1, <1>7 DEF i
    <2> DEFINE z == Then(e, x)
    <2>6. z \in Seq(Tokens) /\ Then(w, t) = Then(p, z)
      BY <2>4
    <2> HIDE DEF z
    <2> QED
      BY <1>1, <1>5, <2>3, <2>5, <2>6, TakeMany
  <1>10. Then(l2.body, y) = WholeBody(k, q)
    <2>1. Then(Then(l.body, p), y) = Then(l.body, Then(p, y))
      BY <1>1, <1>4, <1>5, Regroup DEF y
    <2> QED
      BY <1>2, <1>9, <2>1 DEF y
  <1>11. Len(l2.body) = Len(l.body) + n
    <2>1. l2.body = Then(l.body, p)
      BY <1>9
    <2>2. Len(Then(l.body, p)) = Len(l.body) + Len(p)
      BY <1>1, <1>5, LenOfBoth
    <2> QED
      BY <1>5, <2>1, <2>2
  <1>12. AtSize(l2, Skip(w, i), t, s)
    BY <1>3, <1>4, <1>8, <1>10, <1>11 DEF AtSize, ChunksAhead, BytesAhead, x, y
  <1>13. AtReading(l2, Skip(w, i), t, o, s)
    BY <1>12 DEF AtReading, WholeReading
  <1>14. Ok(l2, Skip(w, i), t, o, s, f, d)
    BY <1>8, <1>13, NextReading DEF Reading
  <1> QED
    BY <1>14 DEF i

LEMMA TrailerIs ==
    ASSUME NEW l \in Locals, NEW w \in Seq(Quiet), NEW t \in Seq(Tokens), NEW o,
           NEW s \in Seq(Request), NEW f, NEW d, Ok(l, w, t, o, s, f, d), l.pc = "trailer", w # <<>>
    PROVE  \/ /\ Head(w).is = "trailer" /\ Skip(w, 1) \in Seq(Quiet)
              /\ Ahead(Then(Skip(w, 1), t), l.of, <<>>, Then(One(Token("blank", 0)), Later(s, l.of)))
           \/ /\ Head(w).is = "blank"
              /\ Ahead(Then(Tail(w), t), l.of, <<>>, Later(s, l.of))
  <1> DEFINE k == l.of
             z == Later(s, k)
             a == Token("trailer", 0)
             b == Token("blank", 0)
             x == Then(One(b), z)
  <1>1. k \in Nat /\ z \in Seq(Above(k)) /\ AtTrailer(l, w, t, s)
    <2>1. l.whole
      BY StillWhole DEF Reading, Locals
    <2>2. AtTrailer(l, w, t, s)
      BY <2>1, WholeReads DEF Reading, WholeReading
    <2> QED
      BY <2>2, TheRequest DEF Reading
  <1>2. a \in Tokens /\ b \in Tokens /\ a.is = "trailer" /\ b.is = "blank" /\ One(a) \in Seq(Tokens)
        /\ One(b) \in Seq(Quiet)
    BY TokenTyped, QuietToken, OneSeq DEF Token
  <1>3. Len(One(a)) = 1 /\ Len(w) \in Nat /\ 1 <= Len(w)
    BY DEF One
  <1>4. Ahead(Then(w, t), k, <<>>, Then(One(a), x)) \/ Ahead(Then(w, t), k, <<>>, x)
    BY <1>1 DEF AtTrailer, TrailerAhead
  <1> HIDE DEF a, b, z
  <1>5. x \in Seq(Above(k))
    <2>1. One(b) \in Seq(Above(k))
      BY <1>1, <1>2, Widen
    <2> QED
      BY <1>1, <2>1, Laid
  <1>6. CASE Ahead(Then(w, t), k, <<>>, Then(One(a), x))
    <2> HIDE DEF x
    <2>1. Head(w) = a
      BY <1>1, <1>2, <1>5, <1>6, ReadsNext
    <2> DEFINE p == One(a)
               n == Len(p)
    <2>2. p \in Seq(Tokens) /\ n \in Nat /\ n # 0 /\ n <= Len(w) /\ n = 1
      BY <1>2, <1>3
    <2>3. Ahead(Then(w, t), k, <<>>, Then(p, x)) /\ Len(p) = n
      BY <1>6
    <2> HIDE DEF p, n
    <2>4. Skip(w, n) \in Seq(Quiet) /\ Ahead(Then(Skip(w, n), t), k, <<>>, x)
      BY <1>1, <1>5, <2>2, <2>3, ReadsMany
    <2> QED
      BY <1>2, <2>1, <2>4, <2>2 DEF x, b, z
  <1>7. CASE Ahead(Then(w, t), k, <<>>, x)
    <2>1. Head(w) = b /\ Ahead(Then(Tail(w), t), k, <<>>, z)
      BY <1>1, <1>2, <1>7, ReadsNext
    <2> QED
      BY <1>2, <2>1 DEF z
  <1> QED
    BY <1>4, <1>6, <1>7

LEMMA SkipTrailerOk ==
    ASSUME NEW l \in Locals, NEW w \in Seq(Quiet), NEW t \in Seq(Tokens), NEW o,
           NEW s \in Seq(Request), NEW f, NEW d, Ok(l, w, t, o, s, f, d), l.pc = "trailer", w # <<>>,
           Head(w).is # "blank"
    PROVE  Ok(l, Skip(w, 1), t, o, s, f, d)
  <1>1. /\ Skip(w, 1) \in Seq(Quiet)
        /\ Ahead(Then(Skip(w, 1), t), l.of, <<>>, Then(One(Token("blank", 0)), Later(s, l.of)))
    BY TrailerIs
  <1>2. l.whole
    BY StillWhole DEF Reading, Locals
  <1>3. AtTrailer(l, Skip(w, 1), t, s)
    <2>1. AtTrailer(l, w, t, s)
      BY <1>2, WholeReads DEF Reading, WholeReading
    <2> QED
      BY <1>1, <2>1 DEF AtTrailer, TrailerAhead
  <1>4. AtReading(l, Skip(w, 1), t, o, s)
    BY <1>2, <1>3 DEF AtReading, WholeReading
  <1> QED
    BY <1>1, <1>4, NextReading DEF Reading

LEMMA TrailerEndOk ==
    ASSUME NEW l \in Locals, NEW w \in Seq(Quiet), NEW t \in Seq(Tokens), NEW o,
           NEW s \in Seq(Request), NEW f, NEW d, Ok(l, w, t, o, s, f, d), l.pc = "trailer",
           NEW w2, \/ w # <<>> /\ Head(w).is = "blank" /\ w2 = Tail(w)
                   \/ w = <<>> /\ ~o /\ w2 = w,
           NEW l2 \in Locals, l2.pc = "handle", l2.of = l.of, l2.body = l.body, l2.whole = l.whole
    PROVE  Ok(l2, w2, t, o, s, f, d)
  <1>1. w2 \in Seq(Quiet) /\ l.of \in Nat
    BY QuietTail DEF Locals
  <1>2. CASE l.whole
    <2>1. AtTrailer(l, w, t, s)
      BY <1>2, WholeReads DEF Reading, WholeReading
    <2>2. ~Unreadable(s[l.of])
      BY <2>1 DEF AtTrailer, Unreadable
    <2>3. Ahead(Then(w2, t), l.of, <<>>, Later(s, l.of)) \/ (Dead(w2, o) /\ TrailerAhead(l, w2, t, s))
      <3>1. CASE w # <<>> /\ Head(w).is = "blank" /\ w2 = Tail(w)
        BY <3>1, TrailerIs
      <3>2. CASE w = <<>> /\ ~o /\ w2 = w
        BY <2>1, <3>2 DEF AtTrailer, Dead
      <3> QED
        BY <3>1, <3>2
    <2>4. AtLine(l2, w2, t, o, s)
      BY <1>2, <2>2, <2>3 DEF AtLine, TrailerAhead
    <2>5. AtHandle(l2, w2, t, o, s)
      BY <2>1, <2>2, <2>4 DEF AtHandle, AtTrailer
    <2>6. AtReading(l2, w2, t, o, s)
      BY <1>2, <2>5 DEF AtReading, WholeReading
    <2> QED
      BY <1>1, <2>6, NextReading DEF Reading
  <1>3. CASE ~l.whole
    <2>1. w2 = w
      BY <1>3, StillWhole DEF Reading, Locals
    <2>2. \A j \in 1..Len(f) : f[j].of \in 0..l.of
      BY DEF Ok
    <2>3. Ok(l2, w, t, o, s, f, d)
      BY <1>3, <2>2, CutGoesOn DEF Reading
    <2> QED
      BY <2>1, <2>3
  <1> QED
    BY <1>2, <1>3

-----------------------------------------------------------------------------
(* Before a request, and behind it.                                        *)

\* The router gets the request.
LEMMA HandleOk ==
    ASSUME NEW l \in Locals, NEW w, NEW t, NEW o, NEW s, NEW f, NEW d \in Seq(Entries),
           Ok(l, w, t, o, s, f, d), l.pc = "handle",
           NEW l2 \in Locals, l2.pc \in {"head", "openhead"}, l2.of = l.of, l2.whole = l.whole,
           NEW d2, d2 = Append(d, [of |-> l.of, body |-> l.body, whole |-> l.whole])
    PROVE  Ok(l2, w, t, o, s, f, d2)
  <1> DEFINE e == [of |-> l.of, body |-> l.body, whole |-> l.whole]
  <1>1. Len(d2) = Len(d) + 1 /\ Len(d) \in Nat /\ d2[Len(d2)] = e /\ \A i \in 1..Len(d) : d2[i] = d[i]
    BY DEF Entries, Locals
  <1>2. Len(d) = l.of - 1 /\ Whole(d, s) /\ AtReading(l, w, t, o, s) /\ l.of \in Nat /\ l.of # 0
        /\ l.whole \in BOOLEAN
    BY DEF Ok, Place, Given, Reading, Locals
  <1>3. Len(d2) = l.of
    BY <1>1, <1>2
  <1>4. AtLine(l2, w, t, o, s)
    <2>1. CASE l.whole
      <3>1. AtLine(l, w, t, o, s)
        BY <1>2, <2>1 DEF AtReading, WholeReading, AtHandle
      <3> QED
        BY <3>1 DEF AtLine, TrailerAhead, BodyAhead
    <2>2. CASE ~l.whole
      BY <1>2, <2>2 DEF AtReading, CutReading, AtLine
    <2> QED
      BY <2>1, <2>2
  <1>5. Place(l2, w, t, o, s)
    BY <1>4 DEF Place, Before, Between, Reading
  <1>6. /\ Len(l.body) <= MaxBody
        /\ (l.whole /\ l.body = WholeBody(l.of, s[l.of])) \/ LastIs(e, s[l.of], w, t, o)
    <2>1. CASE l.whole
      BY <1>2, <2>1 DEF AtReading, WholeReading, AtHandle, LastIs
    <2>2. CASE ~l.whole
      BY <1>2, <2>2 DEF AtReading, CutReading, LastIs
    <2> QED
      BY <2>1, <2>2
  <1>7. e.of = l.of /\ e.body = l.body /\ e.whole = l.whole
    OBVIOUS
  <1> HIDE DEF e
  <1>8. WholeOrCut(d2, w, t, o, s)
    <2>1. ASSUME NEW i \in 1..Len(d2)
          PROVE  /\ d2[i].of = i /\ Len(d2[i].body) <= MaxBody
                 /\ \/ d2[i].whole /\ d2[i].body = WholeBody(i, s[i])
                    \/ i = Len(d2) /\ LastIs(d2[i], s[i], w, t, o)
      <3>1. CASE i = Len(d2)
        BY <1>1, <1>3, <1>6, <1>7, <3>1
      <3>2. CASE i # Len(d2)
        <4>1. i \in 1..Len(d) /\ d2[i] = d[i]
          BY <1>1, <3>2
        <4> QED
          BY <1>2, <4>1 DEF Whole
      <3> QED
        BY <3>1, <3>2
    <2> QED
      BY <2>1 DEF WholeOrCut
  <1>9. Given(l2, d2, w, t, o, s)
    BY <1>1, <1>3, <1>7, <1>8 DEF Given, Before, Between, Reading
  <1> QED
    BY <1>5, <1>9 DEF Ok

\* A response is written.
LEMMA AnswerOk ==
    ASSUME NEW l \in Locals, NEW w, NEW t, NEW o, NEW s, NEW f, NEW d, Ok(l, w, t, o, s, f, d),
           l.pc \in Between, NEW l2 \in Locals, l2.pc \in Between, l2.of = l.of,
           l2.whole = l.whole, NEW f2, \A j \in 1..Len(f2) : f2[j].of \in 0..l.of
    PROVE  Ok(l2, w, t, o, s, f2, d)
  <1>1. AtLine(l, w, t, o, s) /\ Len(d) = l.of /\ WholeOrCut(d, w, t, o, s)
        /\ (l.of # 0 => d[l.of].whole = l.whole)
    BY DEF Ok, Place, Given
  <1>2. Place(l2, w, t, o, s)
    BY <1>1 DEF Place, AtLine, TrailerAhead, BodyAhead, Before, Between, Reading
  <1>3. Given(l2, d, w, t, o, s)
    BY <1>1 DEF Given, Before, Between, Reading
  <1> QED
    BY <1>2, <1>3 DEF Ok

\* A connection comes up, or is dropped.
LEMMA BeforeOk ==
    ASSUME NEW l \in Locals, NEW w, NEW t, NEW o, NEW s, NEW f, NEW d, Ok(l, w, t, o, s, f, d),
           l.pc \in Before, NEW l2 \in Locals, l2.pc \in Before \cup {"shed", "line"}, l2.of = l.of,
           l2.whole = l.whole
    PROVE  Ok(l2, w, t, o, s, f, d)
  <1>1. l.of = 0 /\ l.whole /\ Ahead(Then(w, t), 0, <<>>, Later(s, 0)) /\ d = <<>>
        /\ WholeOrCut(d, w, t, o, s)
    BY DEF Ok, Place, Given
  <1>2. Place(l2, w, t, o, s)
    BY <1>1 DEF Place, AtLine, Before, Between, Reading
  <1>3. Given(l2, d, w, t, o, s)
    BY <1>1 DEF Given, Before, Between, Reading
  <1> QED
    BY <1>2, <1>3 DEF Ok

\* A thread returns.
LEMMA ReturnOk ==
    ASSUME NEW l \in Locals, NEW w \in Seq(Quiet), NEW t, NEW o, NEW s, NEW f, NEW d,
           Ok(l, w, t, o, s, f, d), NEW l2, l2.pc \in {"ended", "closed"}, l2.of = l.of,
           \/ l.pc \in {"start", "ended"} \cup Between
           \/ ~o
           \/ TooBig(l.of, s[l.of])
    PROVE  Ok(l2, w, t, o, s, f, d)
  <1>1. o /\ l.of > Len(d) => TooBig(l.of, s[l.of])
    <2>1. CASE l.pc = "start"
      BY <2>1 DEF Ok, Place, Given, Before
    <2>2. CASE l.pc = "ended"
      BY <2>2 DEF Ok, Given
    <2>3. CASE l.pc \in Between
      BY <2>3 DEF Ok, Given, Locals
    <2> QED
      BY <2>1, <2>2, <2>3
  <1> QED
    BY <1>1, StopsOk

-----------------------------------------------------------------------------
(* The steps of a thread.                                                  *)

LEMMA Now ==
    ASSUME StreamInv, NEW c \in Conns
    PROVE  /\ conn[c] \in Locals /\ wire[c] \in Seq(Quiet) /\ todo[c] \in Seq(Tokens)
           /\ script[c] \in Seq(Request) /\ handled[c] \in Seq(Entries) /\ out[c] \in Seq(Frames)
           /\ Ok(conn[c], wire[c], todo[c], open[c], script[c], out[c], handled[c])
  BY DEF StreamInv, StreamOk, Ok, Typed

\* A step of the thread of c, by what it leaves alone.
Stepping(c) == StreamInv /\ Typed' /\ UNCHANGED client

LEMMA StepOk ==
    ASSUME NEW c \in Conns, Stepping(c),
           Ok(conn'[c], wire'[c], todo[c], open[c], script[c], out'[c], handled'[c])
    PROVE  StreamOk(c)'
  BY DEF Stepping, StreamOk, client

LEMMA GotoIs ==
    ASSUME Typed, NEW c \in Conns, NEW step, Goto(c, step)
    PROVE  /\ conn'[c].pc = step /\ conn'[c].of = conn[c].of /\ conn'[c].fields = conn[c].fields
           /\ conn'[c].body = conn[c].body /\ conn'[c].left = conn[c].left
           /\ conn'[c].whole = conn[c].whole /\ conn'[c].version = conn[c].version
  BY DEF Typed, Goto, Locals

LEMMA LocalsNext == ASSUME Typed', NEW c \in Conns PROVE conn'[c] \in Locals
  BY DEF Typed

LEMMA ReturnsOk ==
    ASSUME NEW c \in Conns, Stepping(c), Return(c), handled' = handled,
           \/ conn[c].pc \in {"start"} \cup Between
           \/ ~open[c]
           \/ TooBig(conn[c].of, script[c][conn[c].of])
    PROVE  StreamOk(c)'
  <1>1. conn'[c].pc = "ended" /\ conn'[c].of = conn[c].of /\ wire' = wire /\ out' = out
    BY GotoIs DEF Return, Stepping, StreamInv
  <1>2. /\ conn[c] \in Locals /\ wire[c] \in Seq(Quiet)
        /\ Ok(conn[c], wire[c], todo[c], open[c], script[c], out[c], handled[c])
    BY Now DEF Stepping
  <1>3. Ok(conn'[c], wire[c], todo[c], open[c], script[c], out[c], handled[c])
    BY <1>1, <1>2, ReturnOk
  <1> QED
    BY <1>1, <1>3, StepOk

LEMMA WrittenIs ==
    ASSUME StreamInv, NEW c \in Conns, NEW kind, NEW len, NEW keep, Write(c, Sent(c, kind, len, keep))
    PROVE  wire' = wire /\ \A j \in 1..Len(out'[c]) : out'[c][j].of \in 0..conn[c].of
  <1> DEFINE f == out[c]
             x == Sent(c, kind, len, keep)
  <1>1. f \in Seq(Frames) /\ conn[c].of \in Nat /\ \A j \in 1..Len(f) : f[j].of \in 0..conn[c].of
    BY Now DEF Ok, Locals
  <1>2. out'[c] = Append(f, x) /\ wire' = wire
    BY DEF Write, StreamInv, Typed
  <1>3. x.of = conn[c].of
    BY DEF Sent
  <1>4. ASSUME NEW j \in 1..Len(Append(f, x))
        PROVE  Append(f, x)[j].of \in 0..conn[c].of
    <2>1. CASE j \in 1..Len(f)
      BY <1>1, <2>1
    <2>2. CASE j = Len(f) + 1
      BY <1>1, <1>3, <2>2
    <2> QED
      BY <1>1, <2>1, <2>2
  <1> QED
    BY <1>2, <1>4

LEMMA StartStreams == ASSUME NEW c \in Conns, Stepping(c), Start(c) PROVE StreamOk(c)'
  <1>1. At(c, "start") /\ handled' = handled
    BY DEF Start
  <1>2. CASE Goto(c, "line") /\ UNCHANGED <<wire, out>>
    <2>1. conn'[c].pc = "line" /\ conn'[c].of = conn[c].of /\ conn'[c] \in Locals
          /\ conn'[c].whole = conn[c].whole
      BY <1>2, GotoIs, LocalsNext DEF Stepping, StreamInv
    <2>2. Ok(conn'[c], wire[c], todo[c], open[c], script[c], out[c], handled[c])
      BY <1>1, <2>1, Now, BeforeOk DEF Stepping, At, Before
    <2> QED
      BY <1>1, <1>2, <2>2, StepOk
  <1>3. CASE Return(c)
    BY <1>1, <1>3, ReturnsOk DEF At
  <1> QED
    BY <1>2, <1>3 DEF Start

LEMMA ReadIs ==
    ASSUME Typed, NEW c \in Conns, NEW kinds, ReadLine(c, kinds)
    PROVE  wire[c] # <<>> /\ Head(wire[c]).is \in kinds /\ wire'[c] = Tail(wire[c]) /\ out' = out
  BY DEF Typed, ReadLine

LEMMA RequestLineStreams == ASSUME NEW c \in Conns, Stepping(c), RequestLine(c) PROVE StreamOk(c)'
  <1> DEFINE l == conn[c]
             w == wire[c]
             t == todo[c]
             o == open[c]
             s == script[c]
             f == out[c]
             d == handled[c]
             l2 == conn'[c]
  <1>0. At(c, "line") /\ handled' = handled /\ StreamInv /\ Typed /\ Typed'
    BY DEF RequestLine, Stepping, StreamInv
  <1>1. l \in Locals /\ w \in Seq(Quiet) /\ t \in Seq(Tokens) /\ s \in Seq(Request)
        /\ Ok(l, w, t, o, s, f, d) /\ l.pc = "line"
    BY <1>0, Now DEF At
  <1>2. l2 \in Locals
    BY <1>0, LocalsNext
  <1>4. CASE /\ ReadLine(c, {"request"})
             /\ conn' = [conn EXCEPT ![c] = Received(Head(wire[c]).val, TRUE, TRUE)]
    <2>1. w # <<>> /\ wire'[c] = Tail(w) /\ out' = out /\ Head(w).is = "request"
      BY <1>0, <1>4, ReadIs
    <2>2. l2 = Received(Head(w).val, TRUE, TRUE)
      BY <1>0, <1>4 DEF Typed
    <2>3. l2.pc = "field" /\ l2.of = Head(w).val /\ l2.fields = {} /\ l2.body = <<>> /\ l2.whole
      <3> HIDE DEF l2
      <3>1. l2.pc = "field" /\ l2.of = Head(w).val /\ l2.fields = {} /\ l2.body = <<>> /\ l2.whole = TRUE
        BY <2>2, ReceivedWhole
      <3> QED
        BY <3>1
    <2> HIDE DEF l, w, t, o, s, f, d, l2
    <2>4. Ok(l2, Tail(w), t, o, s, f, d)
      BY <1>1, <1>2, <2>1, <2>3, RequestLineOk
    <2> QED
      BY <1>0, <2>1, <2>4, StepOk DEF l, w, t, o, s, f, d, l2
  <1>5. CASE /\ conn[c].whole /\ CutShort(c, {"request"}) /\ UNCHANGED <<wire, out>>
             /\ \E version \in BOOLEAN :
                    conn' = [conn EXCEPT ![c] = Received(Head(todo[c]).val, version, FALSE)]
    <2>1. l.whole /\ w = <<>> /\ ~o /\ t # <<>> /\ Head(t).is = "request"
      BY <1>5 DEF CutShort, ReadsEnd
    <2>2. PICK version \in BOOLEAN : l2 = Received(Head(t).val, version, FALSE)
      BY <1>0, <1>5 DEF Typed
    <2>3. l2.pc = "field" /\ l2.of = Head(t).val /\ l2.body = <<>> /\ ~l2.whole
      <3> HIDE DEF l2
      <3>1. l2.pc = "field" /\ l2.of = Head(t).val /\ l2.body = <<>> /\ l2.whole = FALSE
        BY <2>2, ReceivedCut
      <3> QED
        BY <3>1
    <2> HIDE DEF l, w, t, o, s, f, d, l2
    <2>4. Ok(l2, w, t, o, s, f, d)
      BY <1>1, <1>2, <2>1, <2>3, RequestCutOk
    <2> QED
      BY <1>0, <1>5, <2>4, StepOk DEF l, w, t, o, s, f, d, l2
  <1>6. CASE Malformed(c, {"request"}) \/ ReadFails(c)
    BY <1>0, <1>6, ReturnsOk DEF At, Malformed, ReadFails, Between
  <1> QED
    BY <1>4, <1>5, <1>6 DEF RequestLine

LEMMA HeaderLineStreams == ASSUME NEW c \in Conns, Stepping(c), HeaderLine(c) PROVE StreamOk(c)'
  <1> DEFINE l == conn[c]
             w == wire[c]
             t == todo[c]
             o == open[c]
             s == script[c]
             f == out[c]
             d == handled[c]
             l2 == conn'[c]
  <1>0. At(c, "field") /\ handled' = handled /\ Typed /\ Typed'
    BY DEF HeaderLine, Stepping, StreamInv
  <1>1. l \in Locals /\ w \in Seq(Quiet) /\ t \in Seq(Tokens) /\ Ok(l, w, t, o, s, f, d) /\ l.pc = "field"
    BY <1>0, Now DEF Stepping, At
  <1>2. l2 \in Locals /\ s \in Seq(Request) /\ l.whole \in BOOLEAN
    BY <1>0, <1>1, LocalsNext DEF Locals, Typed
  <1>8. w # <<>> => l.whole
    <2> HIDE DEF l, w, t, o, s, f, d
    <2> QED
      BY <1>1, <1>2, StillWhole DEF Reading
  <1>3. CASE ReadLine(c, FieldKinds) /\ conn' = [conn EXCEPT ![c].fields = @ \cup {Head(wire[c])}]
    <2>1. w # <<>> /\ wire'[c] = Tail(w) /\ out' = out /\ Head(w).is \in FieldKinds
      BY <1>0, <1>3, ReadIs
    <2>2. l2 = [l EXCEPT !.fields = @ \cup {Head(w)}]
      BY <1>0, <1>3 DEF Typed
    <2>3. l2.pc = "field" /\ l2.of = l.of /\ l2.body = l.body /\ l2.fields = l.fields \cup {Head(w)}
          /\ l2.whole
      BY <1>1, <1>8, <2>1, <2>2 DEF Locals
    <2> HIDE DEF l, w, t, o, s, f, d, l2
    <2>5. l.whole
      BY <1>8, <2>1
    <2>4. Ok(l2, Tail(w), t, o, s, f, d)
      BY <1>1, <1>2, <2>1, <2>3, <2>5, FieldOk
    <2> QED
      BY <1>0, <2>1, <2>4, StepOk DEF l, w, t, o, s, f, d, l2
  <1>4. CASE ReadLine(c, {"blank"}) /\ Goto(c, "expect")
    <2>1. w # <<>> /\ wire'[c] = Tail(w) /\ out' = out /\ Head(w).is = "blank"
      BY <1>0, <1>4, ReadIs
    <2>2. l2.pc = "expect" /\ l2.of = l.of /\ l2.body = l.body /\ l2.fields = l.fields
          /\ l2.whole
      BY <1>0, <1>4, <1>8, <2>1, GotoIs
    <2> HIDE DEF l, w, t, o, s, f, d, l2
    <2>4. l.whole
      BY <1>8, <2>1
    <2>3. Ok(l2, Tail(w), t, o, s, f, d)
      BY <1>1, <1>2, <2>1, <2>2, <2>4, BlankOk
    <2> QED
      BY <1>0, <2>1, <2>3, StepOk DEF l, w, t, o, s, f, d, l2
  <1>5. CASE /\ ReadsEnd(c) /\ UNCHANGED <<wire, out>>
             /\ \E cut \in CutField(c) :
                    conn' = [conn EXCEPT ![c].fields = @ \cup cut, ![c].whole = FALSE,
                                         ![c].pc = "expect"]
    <2>1. w = <<>> /\ ~o
      BY <1>5 DEF ReadsEnd
    <2>2. PICK cut \in CutField(c) :
              conn' = [conn EXCEPT ![c].fields = @ \cup cut, ![c].whole = FALSE, ![c].pc = "expect"]
      BY <1>5
    <2>3. l2 = [l EXCEPT !.fields = @ \cup cut, !.whole = FALSE, !.pc = "expect"]
      BY <1>0, <2>2 DEF Typed
    <2>4. l2.pc = "expect" /\ l2.of = l.of /\ l2.body = l.body /\ ~l2.whole
      BY <1>1, <2>3 DEF Locals
    <2> HIDE DEF l, w, t, o, s, f, d, l2
    <2>5. Ok(l2, w, t, o, s, f, d)
      BY <1>1, <1>2, <2>1, <2>4, HeadCutOk
    <2> QED
      BY <1>0, <1>5, <2>5, StepOk DEF l, w, t, o, s, f, d, l2
  <1>6. ~Malformed(c, FieldKinds \cup {"blank"})
    <2>3. ASSUME w # <<>> PROVE Head(w).is \in FieldKinds \cup {"blank"}
      <3> HIDE DEF l, w, t, o, s, f, d
      <3>1. AtField(l, w, t, s)
        BY <1>1, <1>8, <2>3, WholeReads DEF Reading, WholeReading
      <3>2. l.of \in Nat
        BY <1>1 DEF Locals
      <3>3. PICK r \in Seq(FieldTokens) :
                Ahead(Then(w, t), l.of, Then(r, One(Token("blank", 0))), BodyAhead(l, s))
        BY <3>1 DEF AtField
      <3> QED
        BY <1>1, <2>3, <3>2, <3>3, HeadGoesOn
    <2> QED
      BY <2>3 DEF Malformed
  <1>7. CASE ReadFails(c)
    BY <1>0, <1>7, ReturnsOk DEF ReadFails
  <1> QED
    BY <1>3, <1>4, <1>5, <1>6, <1>7 DEF HeaderLine

LEMMA ContinueStreams == ASSUME NEW c \in Conns, Stepping(c), Continue(c) PROVE StreamOk(c)'
  <1> DEFINE l == conn[c]
             w == wire[c]
             t == todo[c]
             o == open[c]
             s == script[c]
             f == out[c]
             d == handled[c]
             l2 == conn'[c]
             f2 == out'[c]
  <1>0. At(c, "expect") /\ handled' = handled /\ StreamInv /\ Typed /\ Typed'
    BY DEF Continue, Stepping, StreamInv
  <1>1. l \in Locals /\ w \in Seq(Quiet) /\ Ok(l, w, t, o, s, f, d) /\ l.pc = "expect"
    BY <1>0, Now DEF At
  <1>2. l2 \in Locals
    BY <1>0, LocalsNext
  <1>3. ASSUME Goto(c, "plan"), wire' = wire, \A j \in 1..Len(f2) : f2[j].of \in 0..l.of
        PROVE  StreamOk(c)'
    <2>1. l2.pc = "plan" /\ l2.of = l.of /\ l2.body = l.body /\ l2.fields = l.fields
          /\ l2.whole = l.whole
      BY <1>0, <1>3, GotoIs
    <2> HIDE DEF l, w, t, o, s, f, d, l2, f2
    <2>2. Ok(l2, w, t, o, s, f2, d)
      BY <1>1, <1>2, <1>3, <2>1, ContinueOk
    <2> QED
      BY <1>0, <1>3, <2>2, StepOk DEF l, w, t, o, s, f, d, l2, f2
  <1>4. CASE Goto(c, "plan") /\ UNCHANGED <<wire, out>>
    <2>1. \A j \in 1..Len(f) : f[j].of \in 0..l.of
      BY <1>1 DEF Ok
    <2> QED
      BY <1>3, <1>4, <2>1
  <1>5. CASE Write(c, Sent(c, "continue", 0, TRUE)) /\ Goto(c, "plan")
    <2>1. wire' = wire /\ \A j \in 1..Len(f2) : f2[j].of \in 0..l.of
      BY <1>0, <1>5, WrittenIs
    <2> QED
      BY <1>3, <1>5, <2>1
  <1>6. CASE WriteFails(c)
    BY <1>0, <1>6, ReturnsOk DEF WriteFails
  <1> QED
    BY <1>4, <1>5, <1>6 DEF Continue

LEMMA PlanIs ==
    ASSUME NEW c
    PROVE  Has(c, "chunked") = Carries(conn[c].fields, "chunked") /\ ContentLength(c) = LengthIn(conn[c].fields)
  BY DEF Has, ContentLength, Carries, LengthIn

LEMMA ExactIs ==
    ASSUME Typed, NEW c \in Conns, NEW n \in Nat, ReadExact(c, n)
    PROVE  n <= Len(wire[c]) /\ wire'[c] = Skip(wire[c], n) /\ out' = out
  BY DEF Typed, ReadExact, Skip

LEMMA ReadBodyStreams == ASSUME NEW c \in Conns, Stepping(c), ReadBody(c) PROVE StreamOk(c)'
  <1> DEFINE l == conn[c]
             w == wire[c]
             t == todo[c]
             o == open[c]
             s == script[c]
             f == out[c]
             d == handled[c]
             l2 == conn'[c]
             n == ContentLength(c)
  <1>0. At(c, "plan") /\ handled' = handled /\ StreamInv /\ Typed /\ Typed' /\ n \in Nat
    BY LengthTyped DEF ReadBody, Stepping, StreamInv
  <1>1. l \in Locals /\ w \in Seq(Quiet) /\ t \in Seq(Tokens) /\ s \in Seq(Request)
        /\ Ok(l, w, t, o, s, f, d) /\ l.pc = "plan"
    BY <1>0, Now DEF At
  <1>2. l2 \in Locals /\ l.whole \in BOOLEAN
    BY <1>0, <1>1, LocalsNext DEF Locals
  <1>7. \A j \in 1..Len(f) : f[j].of \in 0..l.of
    BY <1>1 DEF Ok
  <1>3. n = LengthIn(l.fields) /\ (BodyPlan(c) = "chunked" <=> Carries(l.fields, "chunked"))
        /\ (BodyPlan(c) = "empty" => n = 0) /\ (BodyPlan(c) = "fixed" => n # 0)
    BY PlanIs DEF BodyPlan
  <1> HIDE DEF n
  <1>4. CASE BodyPlan(c) = "empty" /\ Goto(c, "handle") /\ UNCHANGED <<wire, out>>
    <2>1. l2.pc = "handle" /\ l2.of = l.of /\ l2.body = l.body /\ l2.whole = l.whole
      BY <1>0, <1>4, GotoIs
    <2>2. ~Carries(l.fields, "chunked") /\ LengthIn(l.fields) = 0
      BY <1>3, <1>4
    <2> HIDE DEF l, w, t, o, s, f, d, l2
    <2>3. Ok(l2, w, t, o, s, f, d)
      <3>1. CASE l.whole
        BY <1>1, <1>2, <2>1, <2>2, <3>1, NoBodyOk
      <3>2. CASE ~l.whole
        BY <1>1, <1>2, <1>7, <2>1, <3>2, CutGoesOn DEF Reading
      <3> QED
        BY <3>1, <3>2
    <2> QED
      BY <1>0, <1>4, <2>3, StepOk DEF l, w, t, o, s, f, d, l2
  <1>5. CASE BodyPlan(c) = "chunked" /\ Goto(c, "size") /\ UNCHANGED <<wire, out>>
    <2>1. l2.pc = "size" /\ l2.of = l.of /\ l2.body = l.body /\ l2.whole = l.whole
      BY <1>0, <1>5, GotoIs
    <2>2. Carries(l.fields, "chunked")
      BY <1>3, <1>5
    <2> HIDE DEF l, w, t, o, s, f, d, l2
    <2>3. Ok(l2, w, t, o, s, f, d)
      <3>1. CASE l.whole
        BY <1>1, <1>2, <2>1, <2>2, <3>1, ChunkedOk
      <3>2. CASE ~l.whole
        BY <1>1, <1>2, <1>7, <2>1, <3>2, CutGoesOn DEF Reading
      <3> QED
        BY <3>1, <3>2
    <2> QED
      BY <1>0, <1>5, <2>3, StepOk DEF l, w, t, o, s, f, d, l2
  <1>6. CASE BodyPlan(c) = "fixed" /\ ReadFixed(c)
    <2>0. ~Carries(l.fields, "chunked") /\ LengthIn(l.fields) = n /\ n # 0
      BY <1>3, <1>6
    <2>1. CASE n > MaxBody /\ Return(c)
      <3>1. o => TooBig(l.of, s[l.of])
        <4> HIDE DEF l, w, t, o, s, f, d
        <4> QED
          BY <1>0, <1>1, <2>0, <2>1, FixedTooBig
      <3> QED
        BY <1>0, <2>1, <3>1, ReturnsOk
    <2>2. CASE /\ n <= MaxBody /\ ReadExact(c, n)
               /\ conn' = [conn EXCEPT ![c].body = SubSeq(wire[c], 1, n), ![c].pc = "handle"]
      <3>1. n <= Len(w) /\ wire'[c] = Skip(w, n) /\ out' = out
        BY <1>0, <2>2, ExactIs
      <3>2. l2 = [l EXCEPT !.body = SubSeq(w, 1, n), !.pc = "handle"]
        BY <1>0, <2>2 DEF Typed
      <3>3. l2.pc = "handle" /\ l2.of = l.of /\ l2.body = First(w, n) /\ l2.whole = l.whole
        BY <1>1, <3>2 DEF Locals, First
      <3>5. w # <<>>
        BY <1>0, <1>1, <2>0, <3>1
      <3> HIDE DEF l, w, t, o, s, f, d, l2
      <3>6. l2.whole
        BY <1>1, <1>2, <3>3, <3>5, StillWhole DEF Reading
      <3>4. Ok(l2, Skip(w, n), t, o, s, f, d)
        BY <1>0, <1>1, <1>2, <2>0, <2>2, <3>1, <3>3, <3>6, FixedOk
      <3> QED
        BY <1>0, <3>1, <3>4, StepOk DEF l, w, t, o, s, f, d, l2
    <2>3. CASE ReadFails(c)
      BY <1>0, <2>3, ReturnsOk DEF ReadFails
    <2> QED
      BY <1>6, <2>1, <2>2, <2>3 DEF ReadFixed, n
  <1> QED
    BY <1>4, <1>5, <1>6 DEF ReadBody

LEMMA ChunkSizeStreams == ASSUME NEW c \in Conns, Stepping(c), ChunkSize(c) PROVE StreamOk(c)'
  <1> DEFINE l == conn[c]
             w == wire[c]
             t == todo[c]
             o == open[c]
             s == script[c]
             f == out[c]
             d == handled[c]
             l2 == conn'[c]
             n == Head(wire[c]).val
             next == AfterSize(c, n)
  <1>0. At(c, "size") /\ handled' = handled /\ StreamInv /\ Typed /\ Typed'
    BY DEF ChunkSize, Stepping, StreamInv
  <1>1. l \in Locals /\ w \in Seq(Quiet) /\ t \in Seq(Tokens) /\ s \in Seq(Request)
        /\ Ok(l, w, t, o, s, f, d) /\ l.pc = "size"
    BY <1>0, Now DEF At
  <1>2. l2 \in Locals /\ l.whole \in BOOLEAN
    BY <1>0, <1>1, LocalsNext DEF Locals
  <1>3. CASE ReadLine(c, {"size"}) /\ conn' = [conn EXCEPT ![c].left = n, ![c].pc = next]
    <2>1. w # <<>> /\ wire'[c] = Tail(w) /\ out' = out
      BY <1>0, <1>3, ReadIs
    <2> HIDE DEF next, n
    <2>2. l2 = [l EXCEPT !.left = n, !.pc = next]
      BY <1>0, <1>3 DEF Typed
    <2>3. l2.pc = next /\ l2.of = l.of /\ l2.body = l.body /\ l2.left = n /\ l2.whole = l.whole
      BY <1>1, <2>2 DEF Locals
    <2>4. l2.left = Head(w).val
      BY <2>3 DEF n
    <2>5. l2.pc = IF l2.left = 0 THEN "trailer"
                  ELSE IF l2.left >= Word \/ OverLimit(Len(l.body), l2.left) THEN "ended"
                  ELSE IF Unallocatable(l2.left) THEN "died" ELSE "chunk"
      BY <2>3 DEF next, AfterSize
    <2> HIDE DEF l, w, t, o, s, f, d, l2
    <2>7. l2.whole
      BY <1>1, <1>2, <2>1, <2>3, StillWhole DEF Reading
    <2>6. Ok(l2, Tail(w), t, o, s, f, d)
      BY <1>1, <1>2, <2>1, <2>3, <2>4, <2>5, <2>7, SizeOk
    <2> QED
      BY <1>0, <2>1, <2>6, StepOk DEF l, w, t, o, s, f, d, l2
  <1>4. ~Malformed(c, {"size"})
    <2>1. w # <<>> => Head(w).is = "size"
      <3> HIDE DEF l, w, t, o, s, f, d
      <3>1. w # <<>> => (\E m, k : NextChunk(l, w, t, s, m, k)) \/ NoMoreChunks(l, w, t, s)
        BY <1>1, SizeRead
      <3>2. ASSUME NEW m, NEW k, NextChunk(l, w, t, s, m, k) PROVE Head(w).is = "size"
        BY <3>2 DEF NextChunk, Token
      <3>3. NoMoreChunks(l, w, t, s) => Head(w).is = "size"
        BY DEF NoMoreChunks, Token
      <3> QED
        BY <3>1, <3>2, <3>3
    <2> QED
      BY <2>1 DEF Malformed
  <1>5. CASE ReadFails(c)
    BY <1>0, <1>5, ReturnsOk DEF ReadFails
  <1>6. CASE /\ CutShort(c, {"size"}) /\ UNCHANGED <<wire, out>>
             /\ \E x \in PartsOf(Head(todo[c])) :
                    conn' = [conn EXCEPT ![c].left = x.val, ![c].pc = AfterSize(c, x.val),
                                         ![c].whole = FALSE]
    <2>1. w = <<>> /\ ~o /\ t # <<>> /\ Head(t).is = "size"
      BY <1>6 DEF CutShort, ReadsEnd
    <2>2. PICK x \in PartsOf(Head(t)) :
              conn' = [conn EXCEPT ![c].left = x.val, ![c].pc = AfterSize(c, x.val), ![c].whole = FALSE]
      BY <1>6
    <2>3. AfterSize(c, x.val) \in {"trailer", "ended", "died", "chunk"}
      BY DEF AfterSize
    <2>4. l2 = [l EXCEPT !.left = x.val, !.pc = AfterSize(c, x.val), !.whole = FALSE]
      BY <1>0, <2>2 DEF Typed
    <2>5. l2.pc \in {"trailer", "ended", "died", "chunk"} /\ l2.of = l.of /\ l2.body = l.body
          /\ ~l2.whole
      BY <1>1, <2>3, <2>4 DEF Locals
    <2> HIDE DEF l, w, t, o, s, f, d, l2
    <2>6. Ok(l2, w, t, o, s, f, d)
      BY <1>1, <1>2, <2>1, <2>5, SizeCutOk
    <2> QED
      BY <1>0, <1>6, <2>6, StepOk DEF l, w, t, o, s, f, d, l2
  <1> QED
    BY <1>3, <1>4, <1>5, <1>6 DEF ChunkSize

LEMMA ChunkStreams == ASSUME NEW c \in Conns, Stepping(c), Chunk(c) PROVE StreamOk(c)'
  <1> DEFINE l == conn[c]
             w == wire[c]
             t == todo[c]
             o == open[c]
             s == script[c]
             f == out[c]
             d == handled[c]
             l2 == conn'[c]
  <1>0. At(c, "chunk") /\ handled' = handled /\ StreamInv /\ Typed /\ Typed'
    BY DEF Chunk, Stepping, StreamInv
  <1>1. l \in Locals /\ w \in Seq(Quiet) /\ t \in Seq(Tokens) /\ s \in Seq(Request)
        /\ Ok(l, w, t, o, s, f, d) /\ l.pc = "chunk" /\ l.left \in Nat
        /\ l.whole \in BOOLEAN
    BY <1>0, Now DEF At, Locals
  <1>2. l2 \in Locals
    BY <1>0, LocalsNext
  <1>3. CASE /\ ReadExact(c, conn[c].left + 1)
             /\ conn' = [conn EXCEPT ![c].body = @ \o SubSeq(wire[c], 1, conn[c].left), ![c].pc = "size"]
    <2>1. l.left + 1 <= Len(w) /\ wire'[c] = Skip(w, l.left + 1) /\ out' = out
      <3>1. l.left + 1 \in Nat
        BY <1>1
      <3> QED
        BY <1>0, <1>3, <3>1, ExactIs
    <2>2. l2 = [l EXCEPT !.body = @ \o SubSeq(w, 1, l.left), !.pc = "size"]
      BY <1>0, <1>3 DEF Typed
    <2>3. l2.pc = "size" /\ l2.of = l.of /\ l2.body = Then(l.body, First(w, l.left))
          /\ l2.whole = l.whole
      BY <1>1, <2>2 DEF Locals, First, Then
    <2>5. w # <<>>
      BY <1>1, <2>1
    <2> HIDE DEF l, w, t, o, s, f, d, l2
    <2>6. l2.whole
      BY <1>1, <2>3, <2>5, StillWhole DEF Reading
    <2>4. Ok(l2, Skip(w, l.left + 1), t, o, s, f, d)
      BY <1>1, <1>2, <2>1, <2>3, <2>6, ChunkOk
    <2> QED
      BY <1>0, <2>1, <2>4, StepOk DEF l, w, t, o, s, f, d, l2
  <1>4. CASE ReadFails(c)
    BY <1>0, <1>4, ReturnsOk DEF ReadFails
  <1> QED
    BY <1>3, <1>4 DEF Chunk

LEMMA TrailerStreams == ASSUME NEW c \in Conns, Stepping(c), Trailer(c) PROVE StreamOk(c)'
  <1> DEFINE l == conn[c]
             w == wire[c]
             t == todo[c]
             o == open[c]
             s == script[c]
             f == out[c]
             d == handled[c]
             l2 == conn'[c]
             w2 == wire'[c]
  <1>0. At(c, "trailer") /\ handled' = handled /\ StreamInv /\ Typed /\ Typed'
    BY DEF Trailer, Stepping, StreamInv
  <1>1. l \in Locals /\ w \in Seq(Quiet) /\ t \in Seq(Tokens) /\ s \in Seq(Request)
        /\ Ok(l, w, t, o, s, f, d) /\ l.pc = "trailer"
    BY <1>0, Now DEF At
  <1>2. l2 \in Locals
    BY <1>0, LocalsNext
  <1>3. CASE wire[c] # <<>> /\ Head(wire[c]).is # "blank" /\ ReadExact(c, 1) /\ UNCHANGED conn
    <2>1. w2 = Skip(w, 1) /\ out' = out
      BY <1>0, <1>3, ExactIs
    <2>2. w # <<>> /\ Head(w).is # "blank" /\ l2 = l
      BY <1>3
    <2> HIDE DEF l, w, t, o, s, f, d, l2, w2
    <2>3. Ok(l2, w2, t, o, s, f, d)
      BY <1>1, <2>1, <2>2, SkipTrailerOk
    <2> QED
      BY <1>0, <2>1, <2>3, StepOk DEF l, w, t, o, s, f, d, l2, w2
  <1>4. ASSUME Goto(c, "handle"), out' = out,
               \/ w # <<>> /\ Head(w).is = "blank" /\ w2 = Tail(w)
               \/ w = <<>> /\ ~o /\ w2 = w
        PROVE  StreamOk(c)'
    <2>1. l2.pc = "handle" /\ l2.of = l.of /\ l2.body = l.body /\ l2.whole = l.whole
      BY <1>0, <1>4, GotoIs
    <2> HIDE DEF l, w, t, o, s, f, d, l2, w2
    <2>2. Ok(l2, w2, t, o, s, f, d)
      BY <1>1, <1>2, <1>4, <2>1, TrailerEndOk
    <2> QED
      BY <1>0, <1>4, <2>2, StepOk DEF l, w, t, o, s, f, d, l2, w2
  <1>5. CASE ReadLine(c, {"blank"}) /\ Goto(c, "handle")
    BY <1>0, <1>4, <1>5, ReadIs
  <1>6. CASE ReadsEnd(c) /\ Goto(c, "handle") /\ UNCHANGED <<wire, out>>
    BY <1>4, <1>6 DEF ReadsEnd
  <1>7. CASE ReadFails(c)
    BY <1>0, <1>7, ReturnsOk DEF ReadFails
  <1> QED
    BY <1>3, <1>5, <1>6, <1>7 DEF Trailer

LEMMA HandleStreams == ASSUME NEW c \in Conns, Stepping(c), Handle(c) PROVE StreamOk(c)'
  <1> DEFINE l == conn[c]
             w == wire[c]
             t == todo[c]
             o == open[c]
             s == script[c]
             f == out[c]
             d == handled[c]
             l2 == conn'[c]
             d2 == handled'[c]
  <1>0. At(c, "handle") /\ UNCHANGED <<wire, out>> /\ StreamInv /\ Typed /\ Typed'
    BY DEF Handle, Stepping, StreamInv
  <1>1. l \in Locals /\ Ok(l, w, t, o, s, f, d) /\ l.pc = "handle" /\ d \in Seq(Entries)
    BY <1>0, Now DEF At
  <1>2. l2 \in Locals
    BY <1>0, LocalsNext
  <1>3. d2 = Append(d, [of |-> l.of, body |-> l.body, whole |-> l.whole])
    BY <1>0 DEF Handle, Typed
  <1>4. PICK exact \in BOOLEAN :
            conn' = [conn EXCEPT ![c].pc = IF exact THEN "head" ELSE "openhead",
                                 ![c].keep = KeepAlive(c, exact)]
    BY DEF Handle
  <1>5. l2 = [l EXCEPT !.pc = IF exact THEN "head" ELSE "openhead", !.keep = KeepAlive(c, exact)]
    BY <1>0, <1>4 DEF Typed
  <1>6. l2.pc \in {"head", "openhead"} /\ l2.of = l.of /\ l2.whole = l.whole
    BY <1>1, <1>5 DEF Locals
  <1> HIDE DEF l, w, t, o, s, f, d, l2, d2
  <1>7. Ok(l2, w, t, o, s, f, d2)
    BY <1>1, <1>2, <1>3, <1>6, HandleOk
  <1> QED
    BY <1>0, <1>7, StepOk DEF l, w, t, o, s, f, d, l2, d2

\* What is common to the steps that answer.
LEMMA AnswerStreams ==
    ASSUME NEW c \in Conns, Stepping(c), handled' = handled, wire' = wire, conn[c].pc \in Between,
           conn'[c].pc \in Between \cup {"ended"}, conn'[c].of = conn[c].of,
           conn'[c].whole = conn[c].whole, \A j \in 1..Len(out'[c]) : out'[c][j].of \in 0..conn[c].of
    PROVE  StreamOk(c)'
  <1> DEFINE l == conn[c]
             w == wire[c]
             t == todo[c]
             o == open[c]
             s == script[c]
             f == out[c]
             d == handled[c]
             l2 == conn'[c]
             f2 == out'[c]
  <1>0. StreamInv /\ Typed'
    BY DEF Stepping
  <1>1. l \in Locals /\ w \in Seq(Quiet) /\ Ok(l, w, t, o, s, f, d) /\ l2 \in Locals
    BY <1>0, Now, LocalsNext
  <1>2. l.pc \in Between /\ l2.pc \in Between \cup {"ended"} /\ l2.of = l.of /\ l2.whole = l.whole
        /\ \A j \in 1..Len(f2) : f2[j].of \in 0..l.of
    OBVIOUS
  <1> HIDE DEF l, w, t, o, s, f, d, l2, f2
  <1>3. CASE l2.pc \in Between
    <2>1. Ok(l2, w, t, o, s, f2, d)
      BY <1>1, <1>2, <1>3, AnswerOk
    <2> QED
      BY <2>1, StepOk DEF l, w, t, o, s, f, d, l2, f2
  <1>4. CASE l2.pc = "ended"
    <2>1. Ok(l, w, t, o, s, f2, d)
      BY <1>1, <1>2, AnswerOk
    <2>2. Ok(l2, w, t, o, s, f2, d)
      BY <1>1, <1>2, <1>4, <2>1, ReturnOk
    <2> QED
      BY <2>2, StepOk DEF l, w, t, o, s, f, d, l2, f2
  <1> QED
    BY <1>2, <1>3, <1>4

LEMMA WriteHeadStreams == ASSUME NEW c \in Conns, Stepping(c), WriteHead(c) PROVE StreamOk(c)'
  <1> DEFINE next == IF Method(c) = "HEAD" THEN AfterAnswer(c) ELSE "frame"
             x == Sent(c, "head", ContentLengthSent(c), conn[c].keep)
  <1>0. handled' = handled /\ StreamInv /\ Typed /\ conn[c].pc \in Between
    BY DEF WriteHead, Stepping, StreamInv, Between
  <1>1. CASE Write(c, x) /\ conn' = [conn EXCEPT ![c].left = Pieces, ![c].pc = next]
    <2>1. wire' = wire /\ \A j \in 1..Len(out'[c]) : out'[c][j].of \in 0..conn[c].of
      BY <1>0, <1>1, WrittenIs
    <2>2. next \in Between \cup {"ended"}
      BY DEF AfterAnswer, Between
    <2> HIDE DEF next
    <2>3. conn'[c] = [conn[c] EXCEPT !.left = Pieces, !.pc = next]
      BY <1>0, <1>1 DEF Typed
    <2>4. conn'[c].pc = next /\ conn'[c].of = conn[c].of /\ conn'[c].whole = conn[c].whole
      BY <1>0, <2>3 DEF Typed, Locals
    <2> QED
      BY <1>0, <2>1, <2>2, <2>4, AnswerStreams
  <1>2. CASE WriteFails(c)
    BY <1>0, <1>2, ReturnsOk DEF WriteFails
  <1> QED
    BY <1>1, <1>2 DEF WriteHead

LEMMA FrameStreams == ASSUME NEW c \in Conns, Stepping(c), Frame(c) PROVE StreamOk(c)'
  <1>0. handled' = handled /\ StreamInv /\ Typed /\ conn[c].pc = "frame" /\ conn[c].pc \in Between
    BY DEF Frame, Stepping, StreamInv, Between, At
  <1>1. CASE Write(c, Sent(c, "data", 0, TRUE)) /\ conn' = [conn EXCEPT ![c].left = @ - 1]
    <2>1. wire' = wire /\ \A j \in 1..Len(out'[c]) : out'[c][j].of \in 0..conn[c].of
      BY <1>0, <1>1, WrittenIs
    <2>2. conn'[c] = [conn[c] EXCEPT !.left = @ - 1]
      BY <1>0, <1>1 DEF Typed
    <2>3. conn'[c].pc = conn[c].pc /\ conn'[c].of = conn[c].of /\ conn'[c].whole = conn[c].whole
      BY <1>0, <2>2 DEF Typed, Locals
    <2> QED
      BY <1>0, <2>1, <2>3, AnswerStreams
  <1>2. CASE Return(c)
    BY <1>0, <1>2, ReturnsOk
  <1>3. CASE Goto(c, AfterAnswer(c)) /\ UNCHANGED <<wire, out>>
    <2>1. conn'[c].pc \in Between \cup {"ended"} /\ conn'[c].of = conn[c].of
          /\ conn'[c].whole = conn[c].whole
      BY <1>0, <1>3, GotoIs DEF AfterAnswer, Between
    <2>2. \A j \in 1..Len(out[c]) : out[c][j].of \in 0..conn[c].of
      BY <1>0, Now DEF Ok
    <2> QED
      BY <1>0, <1>3, <2>1, <2>2, AnswerStreams
  <1> QED
    BY <1>1, <1>2, <1>3 DEF Frame

LEMMA EndStreams == ASSUME NEW c \in Conns, Stepping(c), End(c) PROVE StreamOk(c)'
  <1>0. StreamInv /\ Typed /\ UNCHANGED <<wire, out, handled>> /\ conn[c].pc = "ended"
    BY DEF End, Stepping, StreamInv, At
  <1>1. conn'[c].pc = "closed" /\ conn'[c].of = conn[c].of
    BY <1>0, GotoIs DEF End
  <1>2. Ok(conn'[c], wire[c], todo[c], open[c], script[c], out[c], handled[c])
    BY <1>0, <1>1, Now, ReturnOk
  <1> QED
    BY <1>0, <1>2, StepOk

LEMMA ThreadStreams == ASSUME NEW c \in Conns, StreamInv, Typed', Thread(c) PROVE StreamOk(c)'
  <1>1. Stepping(c)
    BY DEF Stepping, Thread, Start, RequestLine, HeaderLine, Continue, ReadBody, ChunkSize, Chunk,
           Trailer, Handle, WriteHead, Frame, End
  <1> QED
    BY <1>1, StartStreams, RequestLineStreams, HeaderLineStreams, ContinueStreams, ReadBodyStreams,
       ChunkSizeStreams, ChunkStreams, TrailerStreams, HandleStreams, WriteHeadStreams,
       FrameStreams, EndStreams DEF Thread

-----------------------------------------------------------------------------
(* Every step, and all connections.                                        *)

\* What a step leaves alone of a connection.
Alone(c) ==
    /\ conn'[c] = conn[c] /\ wire'[c] = wire[c] /\ todo'[c] = todo[c] /\ open'[c] = open[c]
    /\ script'[c] = script[c] /\ out'[c] = out[c] /\ handled'[c] = handled[c]

LEMMA AloneOk == ASSUME NEW c, StreamOk(c), Alone(c) PROVE StreamOk(c)'
  BY DEF StreamOk, Alone

LEMMA OthersAlone ==
    ASSUME Typed, NEW c \in Conns, NEW e \in Conns \ {c},
           Connect(c) \/ Client(c) \/ Break(c) \/ Thread(c)
    PROVE  Alone(e)
  <1> USE DEF Alone, Typed, client, Goto, Return, ReadLine, ReadExact, Write, Malformed, ReadFails,
              WriteFails
  <1>1. CASE Connect(c) \/ Client(c) \/ Break(c)
    BY <1>1 DEF Connect, Client, Send, Hear, Finish, Break
  <1>2. CASE Start(c) \/ RequestLine(c) \/ HeaderLine(c) \/ Continue(c)
    BY <1>2 DEF Start, RequestLine, HeaderLine, Continue
  <1>3. CASE ReadBody(c)
    BY <1>3 DEF ReadBody, ReadFixed
  <1>4. CASE ChunkSize(c) \/ Chunk(c) \/ Trailer(c)
    BY <1>4 DEF ChunkSize, Chunk, Trailer
  <1>5. CASE Handle(c) \/ WriteHead(c) \/ Frame(c) \/ End(c)
    BY <1>5 DEF Handle, WriteHead, Frame, End
  <1> QED
    BY <1>1, <1>2, <1>3, <1>4, <1>5 DEF Thread

\* A connection that has no thread yet goes from one step to the next.
LEMMA ArrivalOk ==
    ASSUME StreamInv, Typed', NEW c \in Conns, conn[c].pc \in {"away", "queued"},
           NEW step \in {"queued", "shed", "start"}, Goto(c, step),
           UNCHANGED <<client, wire, out, handled>>
    PROVE  \A e \in Conns : StreamOk(e)'
  <1>1. Typed
    BY DEF StreamInv
  <1>2. conn'[c].pc = step /\ conn'[c].of = conn[c].of /\ conn'[c] \in Locals
        /\ conn'[c].whole = conn[c].whole
    BY <1>1, GotoIs, LocalsNext
  <1>3. Ok(conn'[c], wire[c], todo[c], open[c], script[c], out[c], handled[c])
    BY <1>2, Now, BeforeOk DEF Before
  <1>4. StreamOk(c)'
    BY <1>3 DEF StreamOk, client
  <1>5. ASSUME NEW e \in Conns \ {c} PROVE StreamOk(e)'
    <2>1. Alone(e)
      BY <1>1 DEF Alone, Goto, Typed, client
    <2> QED
      BY <2>1, AloneOk DEF StreamInv
  <1> QED
    BY <1>4, <1>5

LEMMA StreamStep == ASSUME SlotsInductive, StreamInv, [Next]_vars PROVE StreamInv'
  <1>1. Typed /\ Typed'
    BY TypedStep DEF StreamInv
  <1>2. SUFFICES \A e \in Conns : StreamOk(e)'
    BY <1>1 DEF StreamInv
  <1>3. CASE conn' = conn /\ UNCHANGED <<client, wire, out, handled>>
    BY <1>3, AloneOk DEF Alone, StreamInv, client
  <1>4. CASE Check \/ Spawn
    <2>1. loop.at \in Conns /\ At(loop.at, "queued")
      BY <1>1, <1>4 DEF Check, Spawn, Typed, SlotsInductive, SlotInv
    <2>2. CASE Goto(loop.at, "shed") \/ Goto(loop.at, "start")
      BY <1>1, <1>4, <2>1, <2>2, ArrivalOk DEF Check, Spawn, At
    <2> QED
      BY <1>3, <1>4, <2>2 DEF Check, Spawn
  <1>5. CASE Add \/ (\E c \in Conns : Accept(c)) \/ UNCHANGED vars
    BY <1>3, <1>5 DEF Add, Accept, vars
  <1>6. ASSUME NEW c \in Conns, Connect(c) PROVE \A e \in Conns : StreamOk(e)'
    BY <1>1, <1>6, ArrivalOk DEF Connect, At
  <1>7. ASSUME NEW c \in Conns, Client(c) \/ Break(c) \/ Thread(c) PROVE \A e \in Conns : StreamOk(e)'
    <2>1. StreamOk(c)'
      BY <1>1, <1>7, ClientOk, ThreadStreams
    <2>2. ASSUME NEW e \in Conns \ {c} PROVE StreamOk(e)'
      BY <1>1, <1>7, OthersAlone, AloneOk DEF StreamInv
    <2> QED
      BY <2>1, <2>2
  <1> QED
    BY <1>4, <1>5, <1>6, <1>7 DEF Next, Loop

LEMMA StreamInit == Init => StreamInv
  <1> SUFFICES ASSUME Init PROVE StreamInv
    OBVIOUS
  <1>1. Typed
    BY InitTyped
  <1>2. ASSUME NEW c \in Conns PROVE StreamOk(c)
    <2> DEFINE s == script[c]
               x == Later(s, 0)
    <2>1. s \in Seq(Request) /\ Len(s) \in Nat /\ 0 \in 0..Len(s)
      BY <1>1 DEF Typed
    <2>2. todo[c] = FlattenSeq(RequestsOf(s))
      BY DEF Init, RequestsOf
    <2>3. todo[c] = x /\ x \in Seq(Above(0)) /\ x \in Seq(Tokens)
      BY <2>1, <2>2, LaterIs, LaterAbove, Widen
    <2> HIDE DEF x
    <2>4. Then(<<>>, x) = x /\ Ahead(x, 0, <<>>, x)
      BY <2>3, ThenNothing, JustAhead
    <2>5. conn[c] = Idle /\ wire[c] = <<>> /\ out[c] = <<>> /\ handled[c] = <<>> /\ open[c] = TRUE
      BY DEF Init
    <2>6. Place(Idle, <<>>, x, TRUE, s)
      BY <2>4 DEF Place, Idle, Before, Between, Reading, x
    <2>7. Given(Idle, <<>>, <<>>, x, TRUE, s)
      BY DEF Given, WholeOrCut, Idle, Before, Between, Reading
    <2>8. Ok(Idle, <<>>, x, TRUE, s, <<>>, <<>>)
      <3>1. Idle.of = 0 /\ <<>> \in Seq(Quiet) /\ 1..Len(<<>>) = {}
        BY DEF Idle
      <3> QED
        BY <2>1, <2>6, <2>7, <3>1 DEF Ok
    <2> QED
      BY <2>3, <2>5, <2>8 DEF StreamOk
  <1> QED
    BY <1>1, <1>2 DEF StreamInv

LEMMA StreamLemma == Spec => [](SlotsInductive /\ StreamInv)
  <1>1. SlotsInductive /\ StreamInv /\ [Next]_vars => StreamInv'
    BY StreamStep
  <1> QED
    BY <1>1, StreamInit, SlotsLemma, PTL DEF Spec

LEMMA BeginningIs ==
    ASSUME NEW b \in Seq(Tokens), NEW x, Begins(b, x)
    PROVE  IsPrefix(b, x)
  <1>1. PICK z \in Seq(Tokens) : Then(b, z) = x
    BY DEF Begins
  <1>2. Len(b) \in Nat /\ Len(z) \in Nat /\ x = b \o z
    BY <1>1 DEF Then
  <1>3. Len(x) = Len(b) + Len(z) /\ Len(b) <= Len(x)
    BY <1>2
  <1>4. SubSeq(x, 1, Len(b)) = b /\ SubSeq(b, 1, Len(b)) = b
    BY <1>2
  <1> QED
    BY <1>3, <1>4 DEF IsPrefix

\* The router gets the requests of a connection in the order they were sent, none skipped
\* or made up, each with all the bytes of its own body and no others, for any script of
\* the client and however far it runs ahead of its answers; but for the last one, of
\* which the client broke off a line, or whose announced length is no usize.
THEOREM InOrderAndWhole == Spec => []RequestsAsSent
  <1>1. StreamInv => RequestsAsSent
    <2> SUFFICES ASSUME StreamInv, NEW c \in Conns, NEW i \in DOMAIN handled[c]
                 PROVE  /\ handled[c][i].of = i
                        /\ \/ /\ handled[c][i].whole
                              /\ handled[c][i].body = WholeBody(i, script[c][i])
                           \/ /\ handled[c][i].whole /\ handled[c][i].body = <<>>
                              /\ Unreadable(script[c][i]) /\ i = Len(handled[c])
                           \/ /\ ~handled[c][i].whole /\ BrokenOff(c) /\ i = Len(handled[c])
                              /\ IsPrefix(handled[c][i].body, WholeBody(i, script[c][i]))
      BY DEF RequestsAsSent
    <2> DEFINE d == handled[c]
               e == d[i]
               q == script[c][i]
    <2>1. WholeOrCut(d, wire[c], todo[c], open[c], script[c])
      BY Now DEF Ok, Given
    <2>2. i \in 1..Len(d) /\ e.body \in Seq(Tokens)
      <3>1. d \in Seq(Entries)
        BY Now
      <3> HIDE DEF d
      <3>2. i \in 1..Len(d) /\ d[i] \in Entries
        BY <3>1 DEF d
      <3> QED
        BY <3>2 DEF Entries
    <2>3. Cut(wire[c], todo[c], open[c]) => BrokenOff(c)
      BY DEF Cut, Dead, BrokenOff, CutShort, ReadsEnd
    <2> HIDE DEF d
    <2>4. /\ e.of = i
          /\ \/ e.whole /\ e.body = WholeBody(i, q)
             \/ i = Len(d) /\ LastIs(e, q, wire[c], todo[c], open[c])
      BY <2>1, <2>2 DEF WholeOrCut
    <2> HIDE DEF e, q
    <2>5. CASE LastIs(e, q, wire[c], todo[c], open[c]) /\ i = Len(d)
      BY <2>2, <2>3, <2>4, <2>5, BeginningIs DEF LastIs, d, e, q
    <2> QED
      BY <2>4, <2>5 DEF d, e, q
  <1> QED
    BY <1>1, StreamLemma, PTL

\* Of a body above the limit nothing above the limit gets to the router, whether its
\* length is announced or comes in chunks whose sum wraps; and no other body is refused
\* while its client stays.
THEOREM LimitAlone == Spec => []LimitDecides
  <1>1. StreamInv => LimitDecides
    <2> SUFFICES ASSUME StreamInv, NEW c \in Conns
                 PROVE  /\ \A i \in DOMAIN handled[c] : Len(handled[c][i].body) <= MaxBody
                        /\ Over(c) /\ open[c] /\ conn[c].of > Len(handled[c]) =>
                               TooBig(conn[c].of, script[c][conn[c].of])
      BY DEF LimitDecides
    <2>1. Ok(conn[c], wire[c], todo[c], open[c], script[c], out[c], handled[c])
      BY Now
    <2>2. WholeOrCut(handled[c], wire[c], todo[c], open[c], script[c])
      BY <2>1 DEF Ok, Given
    <2>3. DOMAIN handled[c] = 1..Len(handled[c]) /\ Len(handled[c]) \in Nat
      BY Now
    <2>4. At(c, "shed") => conn[c].of = 0
      BY <2>1 DEF Ok, Place, At
    <2>5. conn[c].pc \in {"ended", "closed", "died"} /\ open[c] /\ conn[c].of > Len(handled[c]) =>
              TooBig(conn[c].of, script[c][conn[c].of])
      BY <2>1 DEF Ok, Given
    <2> QED
      BY <2>2, <2>3, <2>4, <2>5 DEF WholeOrCut, Over, At
  <1> QED
    BY <1>1, StreamLemma, PTL

-----------------------------------------------------------------------------
(* What a client reads: f is what a thread has sent, s its client's script. *)

HeadsOf(f, k) == {i \in 1..k : f[i].is = "head"}

\* The heads and interim responses behind the j-th frame, and where the next one is.
Behind(f, j) == {i \in (j + 1)..Len(f) : f[i].is # "data"}

NextOf(f, j) ==
    IF Behind(f, j) = {} THEN Len(f) + 1
    ELSE CHOOSE i \in Behind(f, j) : \A k \in Behind(f, j) : i <= k

\* How much of a body a client expects behind a head.
Due(s, x) == IF s[x.of].method = "HEAD" THEN 0 ELSE x.len

FramedAt(f, s, j) ==
    /\ f[j].is = "head" =>
           /\ f[j].of = Cardinality(HeadsOf(f, j))
           /\ Due(s, f[j]) # None => NextOf(f, j) - j - 1 <= Due(s, f[j])
           /\ Behind(f, j) # {} =>
                  f[j].keep /\ Due(s, f[j]) # None /\ NextOf(f, j) - j - 1 = Due(s, f[j])
    /\ f[j].is = "continue" => f[j].of = Cardinality(HeadsOf(f, j)) + 1

Framed(f, s) == \A j \in 1..Len(f) : FramedAt(f, s, j)

\* The head with nothing but its body behind it, if there is one.
Latest(f) == {j \in 1..Len(f) : f[j].is = "head" /\ Behind(f, j) = {}}

\* The client may read on: the body that was announced is there, and the head says that
\* the connection stays.
Complete(f, s) ==
    \A j \in Latest(f) : f[j].keep /\ Due(s, f[j]) # None /\ Len(f) - j = Due(s, f[j])

\* In the middle of a body.
UnderWay(l, f, s) ==
    /\ l.left <= Pieces /\ s[l.of].method # "HEAD"
    /\ \A j \in Latest(f) :
           /\ f[j].of = l.of /\ f[j].keep = l.keep
           /\ Len(f) - j = Pieces - l.left
           /\ f[j].len = Pieces \/ (f[j].len = None /\ ~l.keep)

Asking == Reading \cup {"line"}

\* The inductive invariant, of one connection: d is what the router got.
FrameOk(l, f, s, d) ==
    /\ Framed(f, s)
    /\ l.pc \in Before => f = <<>>
    /\ l.pc \in Asking => Complete(f, s) /\ Cardinality(HeadsOf(f, Len(f))) = Len(d)
    /\ l.pc \in {"head", "openhead"} =>
           Complete(f, s) /\ Cardinality(HeadsOf(f, Len(f))) = Len(d) - 1
    /\ l.pc = "openhead" /\ l.keep => s[l.of].method = "HEAD"
    /\ l.pc = "frame" => UnderWay(l, f, s) /\ Cardinality(HeadsOf(f, Len(f))) = Len(d)


-----------------------------------------------------------------------------
(* One more frame.                                                         *)

\* What the CHOOSE of NextOf finds.
LEMMA NextIs ==
    ASSUME NEW f, Len(f) \in Nat, NEW j \in 1..Len(f)
    PROVE  /\ Behind(f, j) = {} => NextOf(f, j) = Len(f) + 1
           /\ Behind(f, j) # {} =>
                  /\ NextOf(f, j) \in Behind(f, j) /\ \A k \in Behind(f, j) : NextOf(f, j) <= k
                  /\ \A i \in Behind(f, j) :
                         (\A k \in Behind(f, j) : i <= k) => i = NextOf(f, j)
           /\ NextOf(f, j) \in Nat
  <1>1. CASE Behind(f, j) = {}
    BY <1>1 DEF NextOf
  <1>2. CASE Behind(f, j) # {}
    <2> DEFINE A == Behind(f, j)
    <2>1. A \subseteq Nat /\ A # {}
      BY <1>2 DEF Behind
    <2> HIDE DEF A
    <2>2. \E i \in A : \A k \in A : i <= k
      BY <2>1, Least
    <2>3. NextOf(f, j) = CHOOSE i \in A : \A k \in A : i <= k
      BY <1>2 DEF NextOf, A
    <2>4. NextOf(f, j) \in A /\ \A k \in A : NextOf(f, j) <= k
      BY <2>2, <2>3
    <2>5. ASSUME NEW i \in A, \A k \in A : i <= k
          PROVE  i = NextOf(f, j)
      <3> DEFINE m == NextOf(f, j)
      <3>1. m \in Nat /\ i \in Nat /\ i <= m /\ m <= i
        BY <2>1, <2>4, <2>5
      <3> HIDE DEF m
      <3>2. i = m
        BY <3>1
      <3> QED
        BY <3>2 DEF m
    <2> QED
      BY <1>2, <2>1, <2>4, <2>5 DEF A
  <1> QED
    BY <1>1, <1>2

LEMMA OneMore ==
    ASSUME NEW f \in Seq(Frames), NEW x \in Frames
    PROVE  /\ Append(f, x) \in Seq(Frames) /\ Len(f) \in Nat /\ Len(Append(f, x)) = Len(f) + 1
           /\ Append(f, x)[Len(f) + 1] = x
           /\ \A j \in 1..Len(f) : Append(f, x)[j] = f[j]
           /\ \A j \in 1..Len(f) : f[j] \in Frames
  OBVIOUS

LEMMA HeadsKept ==
    ASSUME NEW f \in Seq(Frames), NEW x \in Frames
    PROVE  /\ \A j \in 0..Len(f) : HeadsOf(Append(f, x), j) = HeadsOf(f, j)
           /\ Cardinality(HeadsOf(f, Len(f))) \in Nat
           /\ Cardinality(HeadsOf(Append(f, x), Len(f) + 1)) =
                  Cardinality(HeadsOf(f, Len(f))) + (IF x.is = "head" THEN 1 ELSE 0)
  <1> DEFINE g == Append(f, x)
             n == Len(f)
             A == HeadsOf(f, n)
  <1>1. n \in Nat /\ g[n + 1] = x /\ \A j \in 1..n : g[j] = f[j]
    BY OneMore
  <1> HIDE DEF g, n
  <1>2. \A j \in 0..n : HeadsOf(g, j) = HeadsOf(f, j)
    BY <1>1 DEF HeadsOf
  <1>3. IsFiniteSet(A) /\ n + 1 \notin A
    <2>1. IsFiniteSet(1..n) /\ A \subseteq 1..n
      BY <1>1, FS_Interval DEF HeadsOf
    <2> QED
      BY <1>1, <2>1, FS_Subset
  <1>4. HeadsOf(g, n + 1) = IF x.is = "head" THEN A \cup {n + 1} ELSE A
    BY <1>1 DEF HeadsOf
  <1> HIDE DEF A
  <1>5. Cardinality(A) \in Nat /\ Cardinality(A \cup {n + 1}) = Cardinality(A) + 1
    BY <1>3, FS_CardinalityType, FS_AddElement
  <1> QED
    BY <1>2, <1>4, <1>5 DEF A, g, n

LEMMA BehindIs ==
    ASSUME NEW f \in Seq(Frames), NEW x \in Frames
    PROVE  /\ \A j \in 1..Len(f) :
                  Behind(Append(f, x), j) =
                      IF x.is = "data" THEN Behind(f, j) ELSE Behind(f, j) \cup {Len(f) + 1}
           /\ Behind(Append(f, x), Len(f) + 1) = {}
  <1> DEFINE g == Append(f, x)
             n == Len(f)
  <1>1. n \in Nat /\ Len(g) = n + 1 /\ g[n + 1] = x /\ \A j \in 1..n : g[j] = f[j]
    BY OneMore
  <1> HIDE DEF g
  <1>2. ASSUME NEW j \in 1..n
        PROVE  Behind(g, j) = IF x.is = "data" THEN Behind(f, j) ELSE Behind(f, j) \cup {n + 1}
    <2> HIDE DEF n
    <2> QED
      BY <1>1 DEF Behind, n
  <1>3. Behind(g, n + 1) = {}
    BY <1>1 DEF Behind
  <1> QED
    BY <1>2, <1>3 DEF g

\* Where the next head or interim response is, when one more frame is there.
LEMMA NextKept ==
    ASSUME NEW f \in Seq(Frames), NEW x \in Frames, NEW j \in 1..Len(f)
    PROVE  IF x.is = "data" /\ Behind(f, j) = {} THEN NextOf(Append(f, x), j) = Len(f) + 2
           ELSE NextOf(Append(f, x), j) = NextOf(f, j)
  <1> DEFINE g == Append(f, x)
             n == Len(f)
             A == Behind(f, j)
             B == Behind(g, j)
             a == NextOf(f, j)
             b == NextOf(g, j)
  <1>1. n \in Nat /\ Len(g) = n + 1 /\ Len(g) \in Nat /\ j \in 1..Len(g)
    BY OneMore
  <1>2. B = IF x.is = "data" THEN A ELSE A \cup {n + 1}
    BY BehindIs
  <1>3. A \subseteq 1..n
    BY <1>1 DEF Behind
  <1>4. /\ A = {} => a = n + 1
        /\ A # {} => a \in A /\ \A k \in A : a <= k
    BY <1>1, NextIs
  <1>5. /\ B = {} => b = n + 2
        /\ B # {} => /\ b \in B
                     /\ \A i \in B : (\A k \in B : i <= k) => i = b
    <2> HIDE DEF g
    <2>1. /\ B = {} => b = Len(g) + 1
          /\ B # {} => /\ b \in B
                       /\ \A i \in B : (\A k \in B : i <= k) => i = b
      BY <1>1, NextIs
    <2> HIDE DEF n, b, B
    <2> QED
      BY <1>1, <2>1
  <1> HIDE DEF g, n, A, B, a, b
  <1>6. ASSUME x.is = "data", A = {} PROVE b = n + 2
    BY <1>2, <1>5, <1>6
  <1>7. ASSUME x.is = "data", A # {} PROVE b = a
    <2>1. B = A /\ a \in B /\ \A k \in B : a <= k
      BY <1>2, <1>4, <1>7
    <2> QED
      BY <1>5, <1>7, <2>1
  <1>8. ASSUME x.is # "data" PROVE b = a
    <2>1. B = A \cup {n + 1}
      BY <1>2, <1>8
    <2>2. a \in B /\ \A k \in B : a <= k
      <3>1. CASE A = {}
        BY <1>1, <1>4, <2>1, <3>1
      <3>2. CASE A # {}
        <4>1. a \in 1..n /\ a \in A /\ \A k \in A : a <= k
          BY <1>3, <1>4, <3>2
        <4>2. a <= n + 1
          BY <1>1, <4>1
        <4> QED
          BY <2>1, <4>1, <4>2
      <3> QED
        BY <3>1, <3>2
    <2> QED
      BY <1>5, <2>1, <2>2
  <1>9. IF x.is = "data" /\ A = {} THEN b = n + 2 ELSE b = a
    BY <1>6, <1>7, <1>8
  <1> QED
    BY <1>9 DEF g, n, A, B, a, b

\* A piece of a body is written where the body has room for it.
LEMMA DataFramed ==
    ASSUME NEW f \in Seq(Frames), NEW s, NEW x \in Frames, x.is = "data", Framed(f, s),
           \A j \in Latest(f) : Due(s, f[j]) # None => Len(f) + 1 - j <= Due(s, f[j])
    PROVE  Framed(Append(f, x), s)
  <1> DEFINE g == Append(f, x)
             n == Len(f)
  <1>1. n \in Nat /\ Len(g) = n + 1 /\ g[n + 1] = x /\ \A j \in 1..n : g[j] = f[j]
    BY OneMore
  <1>2. ASSUME NEW j \in 1..n
        PROVE  FramedAt(g, s, j)
    <2>1. FramedAt(f, s, j) /\ g[j] = f[j]
      BY <1>1 DEF Framed
    <2>2. Behind(g, j) = Behind(f, j) /\ HeadsOf(g, j) = HeadsOf(f, j)
      BY BehindIs, HeadsKept
    <2>3. IF Behind(f, j) = {} THEN NextOf(g, j) = n + 2 ELSE NextOf(g, j) = NextOf(f, j)
      BY NextKept
    <2>4. f[j].is = "head" /\ Behind(f, j) = {} /\ Due(s, f[j]) # None => n + 1 - j <= Due(s, f[j])
      BY DEF Latest
    <2>5. (n + 2) - j - 1 = n + 1 - j
      BY <1>1
    <2> HIDE DEF g, n
    <2>6. CASE Behind(f, j) = {}
      BY <2>1, <2>2, <2>3, <2>4, <2>5, <2>6 DEF FramedAt
    <2>7. CASE Behind(f, j) # {}
      BY <2>1, <2>2, <2>3, <2>7 DEF FramedAt
    <2> QED
      BY <2>6, <2>7
  <1>3. FramedAt(g, s, n + 1)
    BY <1>1 DEF FramedAt
  <1> HIDE DEF g
  <1>4. \A j \in 1..Len(g) : j \in 1..n \/ j = n + 1
    BY <1>1
  <1> QED
    BY <1>2, <1>3, <1>4 DEF Framed, g

\* A head, or an interim response, is written behind an answer that is complete.
LEMMA HeadFramed ==
    ASSUME NEW f \in Seq(Frames), NEW s, NEW x \in Frames, x.is # "data", Framed(f, s),
           Complete(f, s), x.of = Cardinality(HeadsOf(f, Len(f))) + 1
    PROVE  /\ Framed(Append(f, x), s)
           /\ Latest(Append(f, x)) = IF x.is = "head" THEN {Len(f) + 1} ELSE {}
  <1> DEFINE g == Append(f, x)
             n == Len(f)
  <1>1. n \in Nat /\ Len(g) = n + 1 /\ g[n + 1] = x /\ (\A j \in 1..n : g[j] = f[j])
        /\ g \in Seq(Frames)
    BY OneMore
  <1>2. ASSUME NEW j \in 1..n
        PROVE  FramedAt(g, s, j) /\ Behind(g, j) # {}
    <2>1. FramedAt(f, s, j) /\ g[j] = f[j]
      BY <1>1 DEF Framed
    <2>2. Behind(g, j) = Behind(f, j) \cup {n + 1} /\ HeadsOf(g, j) = HeadsOf(f, j)
      BY BehindIs, HeadsKept
    <2>3. NextOf(g, j) = NextOf(f, j)
      BY NextKept
    <2>4. CASE Behind(f, j) = {} /\ f[j].is = "head"
      <3>1. NextOf(f, j) = n + 1
        BY <1>1, <2>4, NextIs
      <3>2. f[j].keep /\ Due(s, f[j]) # None /\ n - j = Due(s, f[j])
        BY <2>4 DEF Complete, Latest
      <3>3. (n + 1) - j - 1 = n - j /\ n - j <= n - j
        BY <1>1
      <3> HIDE DEF g, n
      <3> QED
        BY <2>1, <2>2, <2>3, <2>4, <3>1, <3>2, <3>3 DEF FramedAt
    <2>5. CASE Behind(f, j) # {} \/ f[j].is # "head"
      <3> HIDE DEF g, n
      <3> QED
        BY <2>1, <2>2, <2>3, <2>5 DEF FramedAt
    <2> QED
      BY <2>2, <2>4, <2>5
  <1>3. Behind(g, n + 1) = {}
    BY BehindIs
  <1>4. FramedAt(g, s, n + 1)
    <2>1. /\ HeadsOf(g, n) = HeadsOf(f, n) /\ Cardinality(HeadsOf(f, n)) \in Nat
          /\ Cardinality(HeadsOf(g, n + 1)) =
                 Cardinality(HeadsOf(f, n)) + (IF x.is = "head" THEN 1 ELSE 0)
      BY <1>1, HeadsKept
    <2>2. NextOf(g, n + 1) = n + 2
      <3> HIDE DEF g
      <3>1. NextOf(g, n + 1) = Len(g) + 1
        BY <1>1, <1>3, NextIs
      <3> QED
        BY <1>1, <3>1
    <2>3. (n + 2) - (n + 1) - 1 = 0
      BY <1>1
    <2>4. Due(s, x) # None => 0 <= Due(s, x)
      BY DEF Due, Frames
    <2>5. x.of = Cardinality(HeadsOf(f, n)) + 1
      OBVIOUS
    <2> HIDE DEF g, n
    <2>6. x.is = "head" => x.of = Cardinality(HeadsOf(g, n + 1))
      BY <2>1, <2>5
    <2>7. x.is = "continue" => x.of = Cardinality(HeadsOf(g, n + 1)) + 1
      BY <2>1, <2>5
    <2> QED
      BY <1>1, <1>3, <2>2, <2>3, <2>4, <2>6, <2>7 DEF FramedAt
  <1> HIDE DEF g, n
  <1>5. \A j \in 1..Len(g) : j \in 1..n \/ j = n + 1
    BY <1>1
  <1>6. Framed(g, s)
    BY <1>2, <1>4, <1>5 DEF Framed
  <1>7. Latest(g) = IF x.is = "head" THEN {n + 1} ELSE {}
    <2>1. n + 1 \in 1..Len(g)
      BY <1>1
    <2> QED
      BY <1>1, <1>2, <1>3, <1>5, <2>1 DEF Latest
  <1> QED
    BY <1>6, <1>7 DEF g, n

-----------------------------------------------------------------------------
(* What a thread has sent, step by step.                                   *)

LEMMA AskingOk ==
    ASSUME NEW l, NEW f, NEW s, NEW d, FrameOk(l, f, s, d), l.pc \in Asking,
           NEW l2, l2.pc \in Asking
    PROVE  FrameOk(l2, f, s, d)
  BY DEF FrameOk, Asking, Before, Reading

LEMMA StoppedOk ==
    ASSUME NEW l, NEW f, NEW s, NEW d, FrameOk(l, f, s, d),
           NEW l2, l2.pc \in {"shed", "ended", "closed", "died"}
    PROVE  FrameOk(l2, f, s, d)
  BY DEF FrameOk, Asking, Before, Reading

LEMMA ComingOk ==
    ASSUME NEW l, NEW f, NEW s, NEW d, FrameOk(l, f, s, d), l.pc \in Before, d = <<>>,
           NEW l2, l2.pc \in Before \cup {"line"}
    PROVE  FrameOk(l2, f, s, d)
  <1>1. f = <<>> /\ Framed(f, s)
    BY DEF FrameOk
  <1>2. Complete(f, s)
    BY <1>1 DEF Complete, Latest
  <1>3. HeadsOf(f, Len(f)) = {}
    BY <1>1 DEF HeadsOf
  <1>4. Cardinality(HeadsOf(f, Len(f))) = Len(d)
    BY <1>3, FS_EmptySet
  <1> QED
    BY <1>1, <1>2, <1>4 DEF FrameOk, Before, Asking, Reading

LEMMA ContinuesOk ==
    ASSUME NEW l, NEW f \in Seq(Frames), NEW s, NEW d, FrameOk(l, f, s, d), l.pc \in Asking,
           NEW x \in Frames, x.is = "continue", x.of = Len(d) + 1, NEW l2, l2.pc \in Asking
    PROVE  FrameOk(l2, Append(f, x), s, d)
  <1> DEFINE g == Append(f, x)
  <1>1. Framed(f, s) /\ Complete(f, s) /\ Cardinality(HeadsOf(f, Len(f))) = Len(d)
    BY DEF FrameOk
  <1>2. Framed(g, s) /\ Latest(g) = {}
    BY <1>1, HeadFramed
  <1>3. Len(g) = Len(f) + 1
    BY OneMore
  <1>4. Cardinality(HeadsOf(g, Len(f) + 1)) = Cardinality(HeadsOf(f, Len(f))) + 0
        /\ Cardinality(HeadsOf(f, Len(f))) \in Nat
    BY HeadsKept
  <1> HIDE DEF g
  <1>5. Cardinality(HeadsOf(g, Len(g))) = Len(d)
    BY <1>1, <1>3, <1>4
  <1>6. Complete(g, s)
    BY <1>2 DEF Complete
  <1> QED
    BY <1>2, <1>5, <1>6 DEF FrameOk, Asking, Before, Reading, g

LEMMA HandsOverOk ==
    ASSUME NEW l, NEW f \in Seq(Frames), NEW s, NEW d, FrameOk(l, f, s, d), l.pc \in Asking,
           Len(d) \in Nat, NEW d2, Len(d2) = Len(d) + 1,
           NEW l2, l2.pc \in {"head", "openhead"},
           l2.pc = "openhead" /\ l2.keep => s[l2.of].method = "HEAD"
    PROVE  FrameOk(l2, f, s, d2)
  <1>1. Framed(f, s) /\ Complete(f, s) /\ Cardinality(HeadsOf(f, Len(f))) = Len(d)
    BY DEF FrameOk
  <1>2. Len(d) = Len(d2) - 1
    OBVIOUS
  <1> QED
    BY <1>1, <1>2 DEF FrameOk, Asking, Before, Reading

LEMMA AnswersOk ==
    ASSUME NEW l, NEW f \in Seq(Frames), NEW s, NEW d, FrameOk(l, f, s, d),
           l.pc \in {"head", "openhead"}, Len(d) \in Nat, Len(d) = l.of,
           NEW x \in Frames, x.is = "head", x.of = l.of, x.keep = l.keep,
           x.len = IF l.pc = "head" \/ s[l.of].method = "HEAD" THEN Pieces ELSE None,
           NEW l2, l2.of = l.of, l2.keep = l.keep, l2.left = Pieces,
           l2.pc = IF s[l.of].method = "HEAD" THEN (IF l.keep THEN "line" ELSE "ended") ELSE "frame"
    PROVE  FrameOk(l2, Append(f, x), s, d)
  <1> DEFINE g == Append(f, x)
             n == Len(f)
  <1>1. Framed(f, s) /\ Complete(f, s) /\ Cardinality(HeadsOf(f, n)) = Len(d) - 1
    BY DEF FrameOk
  <1>2. Cardinality(HeadsOf(f, n)) \in Nat /\ Cardinality(HeadsOf(g, n + 1)) = Cardinality(HeadsOf(f, n)) + 1
    BY HeadsKept
  <1>3. x.of = Cardinality(HeadsOf(f, n)) + 1
    BY <1>1
  <1>4. Framed(g, s) /\ Latest(g) = {n + 1}
    BY <1>1, <1>3, HeadFramed
  <1>5. n \in Nat /\ Len(g) = n + 1 /\ g[n + 1] = x
    BY OneMore
  <1> HIDE DEF g, n
  <1>6. Cardinality(HeadsOf(g, Len(g))) = Len(d)
    BY <1>1, <1>2, <1>5
  <1>7. Len(g) - (n + 1) = 0 /\ Pieces - Pieces = 0 /\ Pieces <= Pieces /\ None # 0
    BY <1>5, ServerAssumption
  <1>8. CASE s[l.of].method = "HEAD" /\ l.keep
    <2>1. Due(s, x) = 0 /\ x.keep
      BY <1>8 DEF Due
    <2>2. Complete(g, s)
      BY <1>4, <1>5, <1>7, <2>1 DEF Complete
    <2>3. l2.pc = "line"
      BY <1>8
    <2> QED
      BY <1>4, <1>6, <2>2, <2>3 DEF FrameOk, Asking, Before, Reading, g
  <1>9. CASE s[l.of].method = "HEAD" /\ ~l.keep
    <2>1. l2.pc = "ended"
      BY <1>9
    <2> QED
      BY <1>4, <2>1 DEF FrameOk, Asking, Before, Reading, g
  <1>10. CASE s[l.of].method # "HEAD"
    <2>1. l2.pc = "frame"
      BY <1>10
    <2>2. x.len = Pieces \/ (x.len = None /\ ~l.keep)
      <3>1. l.pc = "openhead" => ~l.keep
        BY <1>10 DEF FrameOk
      <3> QED
        BY <1>10, <3>1
    <2>3. UnderWay(l2, g, s)
      BY <1>4, <1>5, <1>7, <1>10, <2>2 DEF UnderWay
    <2> QED
      BY <1>4, <1>6, <2>1, <2>3 DEF FrameOk, Asking, Before, Reading, g
  <1> QED
    BY <1>8, <1>9, <1>10

LEMMA PieceOk ==
    ASSUME NEW l \in Locals, NEW f \in Seq(Frames), NEW s, NEW d, FrameOk(l, f, s, d),
           l.pc = "frame", l.left > 0, NEW x \in Frames, x.is = "data",
           NEW l2, l2.pc = "frame", l2.of = l.of, l2.keep = l.keep, l2.left = l.left - 1
    PROVE  FrameOk(l2, Append(f, x), s, d)
  <1> DEFINE g == Append(f, x)
             n == Len(f)
  <1>1. Framed(f, s) /\ UnderWay(l, f, s) /\ Cardinality(HeadsOf(f, n)) = Len(d)
    BY DEF FrameOk
  <1>2. Cardinality(HeadsOf(f, n)) \in Nat
        /\ Cardinality(HeadsOf(g, n + 1)) = Cardinality(HeadsOf(f, n)) + 0
    BY HeadsKept
  <1>3. n \in Nat /\ Len(g) = n + 1 /\ (\A j \in 1..n : g[j] = f[j]) /\ g[n + 1] = x
    BY OneMore
  <1>4. l.left \in Nat /\ Pieces \in Nat /\ l.left <= Pieces
    BY <1>1, ServerAssumption DEF Locals, UnderWay
  <1>5. ASSUME NEW j \in Latest(f)
        PROVE  /\ Due(s, f[j]) # None => n + 1 - j <= Due(s, f[j])
               /\ n + 1 - j = Pieces - l2.left
    <2>1. j \in 1..n /\ f[j].of = l.of /\ n - j = Pieces - l.left
          /\ (f[j].len = Pieces \/ f[j].len = None)
      BY <1>1 DEF UnderWay, Latest
    <2>2. Due(s, f[j]) = f[j].len
      BY <1>1, <2>1 DEF UnderWay, Due
    <2>3. n + 1 - j = Pieces - (l.left - 1) /\ n + 1 - j <= Pieces
      <3> DEFINE k == l.left
      <3>1. n \in Nat /\ j \in Nat /\ k \in Nat /\ Pieces \in Nat /\ k > 0 /\ n - j = Pieces - k
        BY <1>3, <1>4, <2>1
      <3> HIDE DEF n, k
      <3>2. n + 1 - j = Pieces - (k - 1) /\ n + 1 - j <= Pieces
        BY <3>1
      <3> QED
        BY <3>2 DEF k
    <2> QED
      BY <2>1, <2>2, <2>3
  <1>6. Framed(g, s)
    BY <1>1, <1>5, DataFramed
  <1>7. Latest(g) = Latest(f)
    <2>1. /\ \A j \in 1..n : Behind(g, j) = Behind(f, j)
      BY BehindIs
    <2>2. \A j \in 1..Len(g) : j \in 1..n \/ (j = n + 1 /\ g[j].is # "head")
      <3> HIDE DEF g, n
      <3> QED
        BY <1>3
    <2>3. \A j \in 1..n : j \in 1..Len(g)
      <3> HIDE DEF g, n
      <3> QED
        BY <1>3
    <2> HIDE DEF g
    <2> QED
      BY <1>3, <2>1, <2>2, <2>3 DEF Latest
  <1> HIDE DEF g, n
  <1>8. UnderWay(l2, g, s)
    <2>1. l2.left <= Pieces /\ s[l2.of].method # "HEAD"
      BY <1>1, <1>4 DEF UnderWay
    <2>2. ASSUME NEW j \in Latest(g)
          PROVE  /\ g[j].of = l2.of /\ g[j].keep = l2.keep /\ Len(g) - j = Pieces - l2.left
                 /\ g[j].len = Pieces \/ (g[j].len = None /\ ~l2.keep)
      <3>1. j \in Latest(f) /\ j \in 1..n
        BY <1>7, <2>2 DEF Latest, n
      <3>2. g[j] = f[j] /\ Len(g) - j = n + 1 - j
        BY <1>3, <3>1
      <3> QED
        BY <1>1, <1>5, <3>1, <3>2 DEF UnderWay
    <2> QED
      BY <2>1, <2>2 DEF UnderWay
  <1>9. Cardinality(HeadsOf(g, Len(g))) = Len(d)
    BY <1>1, <1>2, <1>3
  <1> QED
    BY <1>6, <1>8, <1>9 DEF FrameOk, Asking, Before, Reading, g

LEMMA LastPieceOk ==
    ASSUME NEW l \in Locals, NEW f \in Seq(Frames), NEW s, NEW d, FrameOk(l, f, s, d),
           l.pc = "frame", l.left = 0, NEW l2, l2.pc = IF l.keep THEN "line" ELSE "ended"
    PROVE  FrameOk(l2, f, s, d)
  <1>1. Framed(f, s) /\ UnderWay(l, f, s) /\ Cardinality(HeadsOf(f, Len(f))) = Len(d)
    BY DEF FrameOk
  <1>2. CASE l.keep
    <2>1. ASSUME NEW j \in Latest(f)
          PROVE  f[j].keep /\ Due(s, f[j]) # None /\ Len(f) - j = Due(s, f[j])
      <3>1. f[j].of = l.of /\ f[j].keep /\ Len(f) - j = Pieces - 0 /\ f[j].len = Pieces
        BY <1>1, <1>2 DEF UnderWay
      <3>2. Due(s, f[j]) = Pieces
        BY <1>1, <3>1 DEF UnderWay, Due
      <3>3. Pieces \in Nat /\ Pieces # None /\ Pieces - 0 = Pieces
        BY ServerAssumption
      <3> QED
        BY <3>1, <3>2, <3>3
    <2>2. Complete(f, s)
      BY <2>1 DEF Complete
    <2> QED
      BY <1>1, <1>2, <2>2 DEF FrameOk, Asking, Before, Reading
  <1>3. CASE ~l.keep
    BY <1>3, StoppedOk
  <1> QED
    BY <1>2, <1>3

-----------------------------------------------------------------------------
(* The steps of a thread, by what they write.                              *)

FramesOk(c) == FrameOk(conn[c], out[c], script[c], handled[c])

LEMMA Written ==
    ASSUME NEW c \in Conns, Typed, NEW x, Write(c, x)
    PROVE  out'[c] = Append(out[c], x)
  BY DEF Write, Typed

\* A step of which c sends nothing, within a request or to its end.
LEMMA SilentOk ==
    ASSUME NEW c \in Conns, Typed, FramesOk(c), out'[c] = out[c], script' = script,
           \/ conn[c].pc \in Asking /\ conn'[c].pc \in Asking /\ handled'[c] = handled[c]
           \/ conn'[c].pc \in {"shed", "ended", "closed", "died"}
    PROVE  FramesOk(c)'
  <1>1. CASE conn[c].pc \in Asking /\ conn'[c].pc \in Asking /\ handled'[c] = handled[c]
    <2>1. FrameOk(conn'[c], out[c], script[c], handled[c])
      BY <1>1, AskingOk DEF FramesOk
    <2> QED
      BY <1>1, <2>1 DEF FramesOk
  <1>2. CASE conn'[c].pc \in {"shed", "ended", "closed", "died"}
    <2>1. FrameOk(conn'[c], out[c], script[c], handled'[c])
      BY <1>2 DEF FramesOk, FrameOk, Asking, Before, Reading
    <2> QED
      BY <2>1 DEF FramesOk
  <1> QED
    BY <1>1, <1>2

LEMMA ReturnFrames ==
    ASSUME NEW c \in Conns, Typed, FramesOk(c), Return(c), script' = script
    PROVE  FramesOk(c)'
  <1>1. conn'[c].pc = "ended" /\ out' = out
    BY GotoIs DEF Return
  <1> QED
    BY <1>1, SilentOk

\* Every step up to the body is read, but for the interim response.
LEMMA ReadingFrames ==
    ASSUME NEW c \in Conns, StreamInv, FramesOk(c),
           \/ RequestLine(c) \/ HeaderLine(c) \/ ReadBody(c) \/ ChunkSize(c) \/ Chunk(c) \/ Trailer(c)
    PROVE  FramesOk(c)'
  <1>1. Typed /\ script' = script /\ handled' = handled /\ conn[c].pc \in Asking /\ conn[c] \in Locals
    BY DEF StreamInv, RequestLine, HeaderLine, ReadBody, ChunkSize, Chunk, Trailer, client, At, Asking,
           Reading, Typed
  <1>2. SUFFICES out' = out /\ conn'[c].pc \in Asking \cup {"ended", "died"}
    BY <1>1, SilentOk
  <1>4. ASSUME NEW step, Goto(c, step) PROVE conn'[c].pc = step
    BY <1>1, <1>4, GotoIs
  <1>5. ASSUME Return(c) PROVE out' = out /\ conn'[c].pc = "ended"
    BY <1>4, <1>5 DEF Return
  <1>6. \A kinds : ReadLine(c, kinds) => out' = out
    BY DEF ReadLine
  <1>7. \A kinds : Malformed(c, kinds) \/ ReadFails(c) => Return(c)
    BY DEF Malformed, ReadFails
  <1>8. \A n : ReadExact(c, n) => out' = out
    BY DEF ReadExact
  <1>9. CASE RequestLine(c)
    <2>1. ASSUME NEW i, NEW version, NEW whole,
                 conn' = [conn EXCEPT ![c] = Received(i, version, whole)]
          PROVE  conn'[c].pc = "field"
      <3>1. conn'[c] = Received(i, version, whole)
        BY <1>1, <2>1 DEF Typed
      <3> QED
        BY <3>1 DEF Received, Idle
    <2> QED
      BY <1>5, <1>6, <1>7, <1>9, <2>1 DEF RequestLine, Asking, Reading
  <1>10. CASE HeaderLine(c)
    <2>1. ASSUME NEW fields, conn' = [conn EXCEPT ![c].fields = fields]
          PROVE  conn'[c].pc = conn[c].pc
      BY <1>1, <2>1 DEF Typed, Locals
    <2>2. ASSUME NEW fields,
                 conn' = [conn EXCEPT ![c].fields = fields, ![c].whole = FALSE, ![c].pc = "expect"]
          PROVE  conn'[c].pc = "expect"
      BY <1>1, <2>2 DEF Typed, Locals
    <2>3. CASE ReadLine(c, FieldKinds) /\ conn' = [conn EXCEPT ![c].fields = @ \cup {Head(wire[c])}]
      BY <1>1, <1>6, <2>1, <2>3
    <2>4. CASE ReadLine(c, {"blank"}) /\ Goto(c, "expect")
      BY <1>4, <1>6, <2>4 DEF Asking, Reading
    <2>5. CASE /\ ReadsEnd(c) /\ UNCHANGED <<wire, out>>
               /\ \E cut \in CutField(c) :
                      conn' = [conn EXCEPT ![c].fields = @ \cup cut, ![c].whole = FALSE,
                                           ![c].pc = "expect"]
      BY <2>2, <2>5 DEF Asking, Reading
    <2>6. CASE Malformed(c, FieldKinds \cup {"blank"}) \/ ReadFails(c)
      BY <1>5, <1>7, <2>6
    <2> QED
      BY <1>10, <2>3, <2>4, <2>5, <2>6 DEF HeaderLine
  <1>11. CASE ReadBody(c)
    <2>1. ASSUME NEW body, conn' = [conn EXCEPT ![c].body = body, ![c].pc = "handle"]
          PROVE  conn'[c].pc = "handle"
      BY <1>1, <2>1 DEF Typed, Locals
    <2> QED
      BY <1>4, <1>5, <1>7, <1>8, <1>11, <2>1 DEF ReadBody, ReadFixed, Asking, Reading
  <1>12. CASE ChunkSize(c)
    <2>1. ASSUME NEW n, conn' = [conn EXCEPT ![c].left = n, ![c].pc = AfterSize(c, n)]
          PROVE  conn'[c].pc = AfterSize(c, n)
      BY <1>1, <2>1 DEF Typed, Locals
    <2>2. ASSUME NEW n, conn' = [conn EXCEPT ![c].left = n, ![c].pc = AfterSize(c, n), ![c].whole = FALSE]
          PROVE  conn'[c].pc = AfterSize(c, n)
      BY <1>1, <2>2 DEF Typed, Locals
    <2>3. \A n : AfterSize(c, n) \in Asking \cup {"ended", "died"}
      BY DEF AfterSize, Asking, Reading
    <2> QED
      BY <1>5, <1>6, <1>7, <1>12, <2>1, <2>2, <2>3 DEF ChunkSize
  <1>13. CASE Chunk(c)
    <2>1. ASSUME NEW body, conn' = [conn EXCEPT ![c].body = body, ![c].pc = "size"]
          PROVE  conn'[c].pc = "size"
      BY <1>1, <2>1 DEF Typed, Locals
    <2> QED
      BY <1>5, <1>7, <1>8, <1>13, <2>1 DEF Chunk, Asking, Reading
  <1>14. CASE Trailer(c)
    BY <1>1, <1>4, <1>5, <1>6, <1>7, <1>8, <1>14 DEF Trailer, Asking, Reading
  <1> QED
    BY <1>9, <1>10, <1>11, <1>12, <1>13, <1>14

LEMMA ContinueFrames ==
    ASSUME NEW c \in Conns, StreamInv, FramesOk(c), Continue(c)
    PROVE  FramesOk(c)'
  <1>1. Typed /\ script' = script /\ handled' = handled /\ conn[c].pc = "expect"
        /\ conn[c].pc \in Asking
    BY DEF StreamInv, Continue, client, At, Asking, Reading
  <1>2. CASE Goto(c, "plan") /\ UNCHANGED <<wire, out>>
    <2>1. conn'[c].pc \in Asking
      BY <1>1, <1>2, GotoIs DEF Asking, Reading
    <2> QED
      BY <1>1, <1>2, <2>1, SilentOk
  <1>3. CASE Write(c, Sent(c, "continue", 0, TRUE)) /\ Goto(c, "plan")
    <2> DEFINE x == Sent(c, "continue", 0, TRUE)
    <2>1. conn'[c].pc \in Asking
      BY <1>1, <1>3, GotoIs DEF Asking, Reading
    <2>2. x \in Frames /\ x.is = "continue" /\ x.of = conn[c].of
      BY <1>1 DEF Typed, Locals, Sent, Frames
    <2>3. Len(handled[c]) = conn[c].of - 1 /\ conn[c].of \in Nat /\ out[c] \in Seq(Frames)
      BY <1>1, Now DEF Ok, Given, Reading, Locals
    <2>4. out'[c] = Append(out[c], x)
      BY <1>1, <1>3, Written
    <2> HIDE DEF x
    <2>5. x.of = Len(handled[c]) + 1
      BY <2>2, <2>3
    <2>6. FrameOk(conn'[c], Append(out[c], x), script[c], handled[c])
      BY <1>1, <2>1, <2>2, <2>3, <2>5, ContinuesOk DEF FramesOk
    <2> QED
      BY <1>1, <2>4, <2>6 DEF FramesOk
  <1>4. CASE WriteFails(c)
    BY <1>1, <1>4, ReturnFrames DEF WriteFails
  <1> QED
    BY <1>2, <1>3, <1>4 DEF Continue

LEMMA HandleFrames ==
    ASSUME NEW c \in Conns, StreamInv, FramesOk(c), Handle(c)
    PROVE  FramesOk(c)'
  <1>1. Typed /\ script' = script /\ out' = out /\ conn[c].pc \in Asking
    BY DEF StreamInv, Handle, client, At, Asking, Reading
  <1>2. PICK exact \in BOOLEAN :
            conn' = [conn EXCEPT ![c].pc = IF exact THEN "head" ELSE "openhead",
                                 ![c].keep = KeepAlive(c, exact)]
    BY DEF Handle
  <1>3. conn'[c] = [conn[c] EXCEPT !.pc = IF exact THEN "head" ELSE "openhead",
                                   !.keep = KeepAlive(c, exact)]
    BY <1>1, <1>2 DEF Typed
  <1>4. /\ conn'[c].pc = (IF exact THEN "head" ELSE "openhead") /\ conn'[c].of = conn[c].of
        /\ conn'[c].keep = KeepAlive(c, exact)
    BY <1>1, <1>3 DEF Typed, Locals
  <1>5. conn'[c].pc = "openhead" /\ conn'[c].keep => script[c][conn'[c].of].method = "HEAD"
    BY <1>4 DEF KeepAlive, Method
  <1>6. handled[c] \in Seq(Entries)
        /\ handled'[c] = Append(handled[c], [of |-> conn[c].of, body |-> conn[c].body,
                                                whole |-> conn[c].whole])
    BY <1>1 DEF Handle, Typed
  <1>7. Len(handled[c]) \in Nat /\ Len(handled'[c]) = Len(handled[c]) + 1
    BY <1>6
  <1>8. out[c] \in Seq(Frames) /\ conn'[c].pc \in {"head", "openhead"}
    BY <1>1, <1>4 DEF Typed
  <1> DEFINE l == conn[c]
             d == handled[c]
             l2 == conn'[c]
             d2 == handled'[c]
  <1>9. /\ FrameOk(l, out[c], script[c], d) /\ l.pc \in Asking
        /\ l2.pc = "openhead" /\ l2.keep => script[c][l2.of].method = "HEAD"
        /\ Len(d) \in Nat /\ Len(d2) = Len(d) + 1
        /\ out[c] \in Seq(Frames) /\ l2.pc \in {"head", "openhead"}
    BY <1>1, <1>5, <1>7, <1>8 DEF FramesOk
  <1> HIDE DEF l, d, l2, d2
  <1>10. FrameOk(l2, out[c], script[c], d2)
    BY <1>9, HandsOverOk
  <1> QED
    BY <1>1, <1>10 DEF FramesOk, l2, d2

LEMMA WriteHeadFrames ==
    ASSUME NEW c \in Conns, StreamInv, FramesOk(c), WriteHead(c)
    PROVE  FramesOk(c)'
  <1> DEFINE next == IF Method(c) = "HEAD" THEN AfterAnswer(c) ELSE "frame"
             x == Sent(c, "head", ContentLengthSent(c), conn[c].keep)
  <1>1. Typed /\ script' = script /\ handled' = handled /\ conn[c].pc \in {"head", "openhead"}
    BY DEF StreamInv, WriteHead, client
  <1>2. CASE Write(c, x) /\ conn' = [conn EXCEPT ![c].left = Pieces, ![c].pc = next]
    <2>1. conn[c] \in Locals /\ out[c] \in Seq(Frames)
          /\ Len(handled[c]) = conn[c].of /\ conn[c].of \in Nat
      BY <1>1, Now DEF Ok, Given, Between, Locals
    <2>2. conn[c].keep \in BOOLEAN /\ ContentLengthSent(c) \in Nat \cup {None}
      BY <2>1, ServerAssumption DEF Locals, ContentLengthSent
    <2>3. x \in Frames /\ x.is = "head" /\ x.of = conn[c].of /\ x.len = ContentLengthSent(c)
          /\ x.keep = conn[c].keep
      BY <2>1, <2>2 DEF Sent, Frames
    <2>4. out'[c] = Append(out[c], x)
      BY <1>1, <1>2, Written
    <2>5. ContentLengthSent(c) =
              IF conn[c].pc = "head" \/ script[c][conn[c].of].method = "HEAD" THEN Pieces ELSE None
      BY DEF ContentLengthSent, At, Method
    <2>6. next = IF script[c][conn[c].of].method = "HEAD"
                 THEN (IF conn[c].keep THEN "line" ELSE "ended") ELSE "frame"
      BY DEF Method, AfterAnswer
    <2> HIDE DEF next, x
    <2>7. conn'[c] = [conn[c] EXCEPT !.left = Pieces, !.pc = next]
      BY <1>1, <1>2 DEF Typed
    <2>8. conn'[c].of = conn[c].of /\ conn'[c].keep = conn[c].keep /\ conn'[c].left = Pieces
          /\ conn'[c].pc = next
      BY <2>1, <2>7 DEF Locals
    <2>9. FrameOk(conn'[c], Append(out[c], x), script[c], handled[c])
      BY <1>1, <2>1, <2>3, <2>5, <2>6, <2>8, AnswersOk DEF FramesOk
    <2> QED
      BY <1>1, <2>4, <2>9 DEF FramesOk
  <1>3. CASE WriteFails(c)
    BY <1>1, <1>3, ReturnFrames DEF WriteFails
  <1> QED
    BY <1>2, <1>3 DEF WriteHead

LEMMA FrameFrames ==
    ASSUME NEW c \in Conns, StreamInv, FramesOk(c), Frame(c)
    PROVE  FramesOk(c)'
  <1> DEFINE x == Sent(c, "data", 0, TRUE)
  <1>1. Typed /\ script' = script /\ handled' = handled /\ conn[c].pc = "frame"
        /\ conn[c] \in Locals /\ out[c] \in Seq(Frames)
    BY DEF StreamInv, Frame, client, At, Typed
  <1>2. CASE conn[c].left > 0 /\ Write(c, x) /\ conn' = [conn EXCEPT ![c].left = @ - 1]
    <2>1. x \in Frames /\ x.is = "data"
      BY <1>1 DEF Typed, Locals, Sent, Frames
    <2>2. out'[c] = Append(out[c], x)
      BY <1>1, <1>2, Written
    <2>3. conn'[c] = [conn[c] EXCEPT !.left = @ - 1]
      BY <1>1, <1>2 DEF Typed
    <2>4. conn'[c].pc = "frame" /\ conn'[c].of = conn[c].of /\ conn'[c].keep = conn[c].keep
          /\ conn'[c].left = conn[c].left - 1
      BY <1>1, <2>3 DEF Locals
    <2> HIDE DEF x
    <2>5. FrameOk(conn'[c], Append(out[c], x), script[c], handled[c])
      BY <1>1, <1>2, <2>1, <2>4, PieceOk DEF FramesOk
    <2> QED
      BY <1>1, <2>2, <2>5 DEF FramesOk
  <1>3. CASE Return(c)
    BY <1>1, <1>3, ReturnFrames
  <1>4. CASE conn[c].left = 0 /\ Goto(c, AfterAnswer(c)) /\ UNCHANGED <<wire, out>>
    <2>1. conn'[c].pc = IF conn[c].keep THEN "line" ELSE "ended"
      BY <1>1, <1>4, GotoIs DEF AfterAnswer
    <2>2. FrameOk(conn'[c], out[c], script[c], handled[c])
      BY <1>1, <1>4, <2>1, LastPieceOk DEF FramesOk
    <2> QED
      BY <1>1, <1>4, <2>2 DEF FramesOk
  <1> QED
    BY <1>2, <1>3, <1>4 DEF Frame

\* A connection that comes up: nothing is sent before its first request is read.
LEMMA ComingFrames ==
    ASSUME NEW c \in Conns, StreamInv, FramesOk(c), conn[c].pc \in Before,
           NEW step \in {"queued", "shed", "start", "line"}, Goto(c, step),
           UNCHANGED <<script, out, handled>>
    PROVE  FramesOk(c)'
  <1>1. Typed /\ handled[c] = <<>>
    BY Now DEF StreamInv, Ok, Given
  <1>2. conn'[c].pc = step
    BY <1>1, GotoIs
  <1>3. FrameOk(conn'[c], out[c], script[c], handled[c])
    <2>1. CASE step = "shed"
      BY <1>2, <2>1, StoppedOk DEF FramesOk
    <2>2. CASE step # "shed"
      <3>1. conn'[c].pc \in Before \cup {"line"}
        BY <1>2, <2>2 DEF Before
      <3> QED
        BY <1>1, <3>1, ComingOk DEF FramesOk
    <2> QED
      BY <2>1, <2>2
  <1> QED
    BY <1>3 DEF FramesOk

LEMMA ThreadFrames ==
    ASSUME NEW c \in Conns, StreamInv, FramesOk(c), Thread(c)
    PROVE  FramesOk(c)'
  <1>1. Typed
    BY DEF StreamInv
  <1>2. CASE Start(c)
    <2>1. conn[c].pc \in Before /\ UNCHANGED <<script, handled>>
      BY <1>2 DEF Start, At, Before, client
    <2>2. CASE Goto(c, "line") /\ UNCHANGED <<wire, out>>
      BY <2>1, <2>2, ComingFrames
    <2>3. CASE Return(c)
      BY <1>1, <2>1, <2>3, ReturnFrames
    <2> QED
      BY <1>2, <2>2, <2>3 DEF Start
  <1>3. CASE End(c)
    <2>1. conn'[c].pc = "closed" /\ out' = out /\ script' = script
      BY <1>1, <1>3, GotoIs DEF End, client
    <2> QED
      BY <1>1, <2>1, SilentOk
  <1> QED
    BY <1>2, <1>3, ReadingFrames, ContinueFrames, HandleFrames, WriteHeadFrames, FrameFrames DEF Thread

\* What no step of another connection touches.
LEMMA AloneFrames == ASSUME NEW c, FramesOk(c), Alone(c) PROVE FramesOk(c)'
  BY DEF FramesOk, Alone

FrameInv == \A c \in Conns : FramesOk(c)

LEMMA ArrivalFrames ==
    ASSUME StreamInv, FrameInv, NEW c \in Conns, conn[c].pc \in {"away", "queued"},
           NEW step \in {"queued", "shed", "start"}, Goto(c, step),
           UNCHANGED <<client, wire, out, handled>>
    PROVE  FrameInv'
  <1>1. Typed
    BY DEF StreamInv
  <1>2. FramesOk(c)'
    BY ComingFrames DEF FrameInv, client, Before
  <1>3. ASSUME NEW e \in Conns \ {c} PROVE FramesOk(e)'
    <2>1. Alone(e)
      BY <1>1 DEF Alone, Goto, Typed, client
    <2> QED
      BY <2>1, AloneFrames DEF FrameInv
  <1> QED
    BY <1>2, <1>3 DEF FrameInv

LEMMA FramesStep == ASSUME SlotsInductive, StreamInv, FrameInv, [Next]_vars PROVE FrameInv'
  <1>1. Typed
    BY DEF StreamInv
  <1>2. CASE conn' = conn /\ UNCHANGED <<script, out, handled>>
    BY <1>2 DEF FrameInv, FramesOk
  <1>3. CASE Check \/ Spawn
    <2>1. loop.at \in Conns /\ At(loop.at, "queued")
      BY <1>1, <1>3 DEF Check, Spawn, Typed, SlotsInductive, SlotInv
    <2>2. CASE Goto(loop.at, "shed") \/ Goto(loop.at, "start")
      BY <1>3, <2>1, <2>2, ArrivalFrames DEF Check, Spawn, At
    <2> QED
      BY <1>2, <1>3, <2>2 DEF Check, Spawn, client
  <1>4. CASE Add \/ (\E c \in Conns : Accept(c)) \/ UNCHANGED vars
    BY <1>2, <1>4 DEF Add, Accept, vars, client
  <1>5. ASSUME NEW c \in Conns, Connect(c) PROVE FrameInv'
    BY <1>5, ArrivalFrames DEF Connect, At
  <1>6. ASSUME NEW c \in Conns, Client(c) \/ Break(c) PROVE FrameInv'
    BY <1>2, <1>6 DEF Client, Send, Hear, Finish, Break
  <1>7. ASSUME NEW c \in Conns, Thread(c) PROVE FrameInv'
    <2>1. FramesOk(c)'
      BY <1>7, ThreadFrames DEF FrameInv
    <2>2. ASSUME NEW e \in Conns \ {c} PROVE FramesOk(e)'
      BY <1>1, <1>7, OthersAlone, AloneFrames DEF FrameInv
    <2> QED
      BY <2>1, <2>2 DEF FrameInv
  <1> QED
    BY <1>3, <1>4, <1>5, <1>6, <1>7 DEF Next, Loop

LEMMA FrameInit == Init => FrameInv
  <1> SUFFICES ASSUME Init, NEW c \in Conns PROVE FramesOk(c)
    BY DEF FrameInv
  <1>1. out[c] = <<>> /\ conn[c].pc = "away"
    BY DEF Init, Idle
  <1>2. Framed(<<>>, script[c])
    BY DEF Framed
  <1> QED
    BY <1>1, <1>2 DEF FramesOk, FrameOk, Before, Asking, Reading

\* A client that reads by the framing of the heads finds every response where it looks
\* for it, for any number of requests on a connection and of frames in a response: no
\* head or interim response falls inside a body, none goes out of turn, and behind a body
\* of unknown length or one that broke off there is nothing.
THEOREM FramesWhereAnnounced == Spec => []AnswersFramed
  <1>1. StreamInv /\ FrameInv => AnswersFramed
    <2> SUFFICES ASSUME StreamInv, FrameInv, NEW c \in Conns, NEW j \in DOMAIN out[c]
                 PROVE  FramedAt(out[c], script[c], j)
      BY Zenon DEF AnswersFramed, FramedAt, NextOf, Behind, HeadsOf, Due
    <2>1. DOMAIN out[c] = 1..Len(out[c])
      BY Now
    <2> QED
      BY <2>1 DEF FrameInv, FramesOk, FrameOk, Framed
  <1>2. SlotsInductive /\ StreamInv /\ FrameInv /\ [Next]_vars => FrameInv'
    BY FramesStep
  <1> QED
    BY <1>1, <1>2, FrameInit, StreamLemma, PTL DEF Spec
=============================================================================
