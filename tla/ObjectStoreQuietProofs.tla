----------------------- MODULE ObjectStoreQuietProofs -----------------------
(***************************************************************************)
(* What is left once nothing is under way: a cache that is right and       *)
(* copies that are whole, for clients that take turns on an object, and    *)
(* no directory with nothing in it, for all.                               *)
(***************************************************************************)
EXTENDS ObjectStoreProofs

-----------------------------------------------------------------------------
(* Where a step takes its request.                                         *)

\* Request r comes to one of the steps in L, and its call is what it was.
Moves(r, L) ==
    /\ Only(r) /\ req'[r].pc \in L
    /\ req'[r].op = req[r].op /\ req'[r].key = req[r].key /\ req'[r].src = req[r].src

LEMMA GotoMoves == ASSUME TypeOK, NEW r \in Reqs, NEW l, Goto(r, l) PROVE Moves(r, {l})
  <1>1. req[r] \in ReqType /\ Only(r) /\ req'[r] = [req[r] EXCEPT !.pc = l]
    BY DEF Goto, Only, TypeOK, ReqOK
  <1> QED
    BY <1>1 DEF Moves, ReqType

LEMMA AnswerMoves == ASSUME TypeOK, NEW r \in Reqs, NEW s, Answer(r, s) PROVE Moves(r, {"done"})
  <1>1. Only(r) /\ req'[r] = Answered(req[r], s)
    BY DEF Answer, Only, TypeOK, ReqOK
  <1> QED
    BY <1>1 DEF Moves, Answered, Idle

LEMMA EnsureParentMoves ==
    ASSUME TypeOK, NEW r \in Reqs, NEW a, EnsureParent(r, a)
    PROVE  Moves(r, {"mkdir"})
  <1>1. req[r] \in ReqType /\ Only(r)
        /\ req'[r] = [req[r] EXCEPT !.pc = "mkdir", !.att = a, !.walk = <<ParentOf[Path(r)]>>]
    BY DEF EnsureParent, Only, TypeOK, ReqOK
  <1> QED
    BY <1>1 DEF Moves, ReqType

LEMMA RetryOrFailMoves ==
    ASSUME TypeOK, NEW r \in Reqs, RetryOrFail(r)
    PROVE  Moves(r, {"mkdir", "done"})
  BY EnsureParentMoves, AnswerMoves DEF RetryOrFail, Moves

LEMMA MkdirReturnsMoves ==
    ASSUME TypeOK, NEW r \in Reqs, MkdirReturns(r)
    PROVE  Moves(r, {"mkdown", "copyopen", "name", "create"})
  <1>1. PICK l \in {"mkdown", "copyopen", "name", "create"} :
            req' = [req EXCEPT ![r].walk = Tail(req[r].walk), ![r].pc = l]
    BY DEF MkdirReturns
  <1>2. req[r] \in ReqType /\ Only(r)
        /\ req'[r] = [req[r] EXCEPT !.walk = Tail(req[r].walk), !.pc = l]
    BY <1>1 DEF Only, TypeOK, ReqOK
  <1> QED
    BY <1>2 DEF Moves, ReqType

LEMMA PruneFromMoves ==
    ASSUME TypeOK, NEW r \in Reqs, NEW d, PruneFrom(r, d)
    PROVE  Moves(r, {"prune", "done"})
  <1>1. CASE req' = [req EXCEPT ![r].pc = "prune", ![r].walk = <<d>>]
    <2>1. req[r] \in ReqType /\ Only(r) /\ req'[r] = [req[r] EXCEPT !.pc = "prune", !.walk = <<d>>]
      BY <1>1 DEF Only, TypeOK, ReqOK
    <2> QED
      BY <2>1 DEF Moves, ReqType
  <1> QED
    BY <1>1, AnswerMoves DEF PruneFrom, Moves

\* The steps of PUT.
LEMMA PutMovesTo ==
    ASSUME TypeOK, NEW r \in Reqs
    PROVE  /\ Mkdir(r) => Moves(r, {"mkdir", "isdir", "mkdown", "copyopen", "name", "create"})
           /\ IsDirCheck(r) => Moves(r, {"mkdown", "copyopen", "name", "create", "done"})
           /\ TakeName(r) => Moves(r, {"create"})
           /\ PutCreate(r) => Moves(r, {"write", "mkdir", "done"})
           /\ PutWrite(r) => Moves(r, {"write"})
           /\ PutFlush(r) => Moves(r, {"sync", "rename"})
           /\ PutSync(r) => Moves(r, {"rename"})
           /\ PutRename(r) => Moves(r, {"uncache"})
           /\ PutFail(r) => Moves(r, {"cleanup"})
           /\ PutCleanup(r) => Moves(r, {"done"})
           /\ WriteUncache(r) => Moves(r, {"restat"})
           /\ Restat(r) => Moves(r, {"prime", "done"})
           /\ PutPrime(r) => Moves(r, {"done"})
  <1>1. req \in [Reqs -> ReqType] /\ req[r] \in ReqType
    BY DEF TypeOK, ReqOK
  <1>2. ASSUME Mkdir(r) PROVE Moves(r, {"mkdir", "isdir", "mkdown", "copyopen", "name", "create"})
    <2>1. CASE At(r, "mkdir") /\ req' = [req EXCEPT ![r].walk = <<ParentOf[Head(req[r].walk)]>> \o @]
      <3>1. Only(r) /\ req'[r] = [req[r] EXCEPT !.walk = <<ParentOf[Head(req[r].walk)]>> \o @]
        BY <1>1, <2>1 DEF Only
      <3> QED
        BY <1>1, <2>1, <3>1 DEF Moves, At, ReqType
    <2> QED
      BY <1>2, <2>1, MkdirReturnsMoves, GotoMoves DEF Mkdir, Moves
  <1>3. ASSUME NEW x, NEW y, NEW e, OpenTrunc(r, e, y) PROVE Moves(r, {y})
    <2> DEFINE i == OpenTruncGives(e, NewInode(r))
    <2>1. Only(r) /\ req'[r] = [req[r] EXCEPT !.pc = y, !.wfd = i, !.off = 0]
      BY <1>1, <1>3 DEF OpenTrunc, Only
    <2> QED
      BY <1>1, <2>1 DEF Moves, ReqType
  <1>4. TakeName(r) => Moves(r, {"create"})
    BY <1>1 DEF TakeName, Moves, Only, ReqType
  <1>5. PutWrite(r) => Moves(r, {"write"})
    BY <1>1 DEF PutWrite, WritePiece, At, Moves, Only, ReqType
  <1>6. Restat(r) => Moves(r, {"prime", "done"})
    <2>1. ASSUME NEW s, req' = [req EXCEPT ![r].pc = "prime", ![r].stat = s] PROVE Moves(r, {"prime"})
      BY <1>1, <2>1 DEF Moves, Only, ReqType
    <2> QED
      BY <2>1, AnswerMoves DEF Restat, Moves
  <1>7. PutFlush(r) => Moves(r, {"sync", "rename"})
    BY GotoMoves DEF PutFlush, AfterFlush, Moves
  <1>8. PutCreate(r) => Moves(r, {"write", "mkdir", "done"})
    BY <1>3, RetryOrFailMoves DEF PutCreate, Moves
  <1>9. IsDirCheck(r) => Moves(r, {"mkdown", "copyopen", "name", "create", "done"})
    BY MkdirReturnsMoves, AnswerMoves DEF IsDirCheck, Moves
  <1> QED
    BY <1>2, <1>4, <1>5, <1>6, <1>7, <1>8, <1>9, GotoMoves, AnswerMoves
       DEF PutSync, PutRename, PutFail, PutCleanup, WriteUncache, PutPrime

\* The steps of COPY, DELETE, HEAD and GET.
LEMMA OtherMovesTo ==
    ASSUME TypeOK, NEW r \in Reqs
    PROVE  /\ CopySrcStat(r) => Moves(r, {"canon", "done"})
           /\ CopyCanon(r) => Moves(r, {"mkdir", "done"})
           /\ CopyOpen(r) => Moves(r, {"copytrunc", "mkdir", "done"})
           /\ CopyTrunc(r) => Moves(r, {"copying", "mkdir", "done"})
           /\ CopyPiece(r) => Moves(r, {"copying", "uncache", "mkdir", "done"})
           /\ DeleteRemove(r) => Moves(r, {"uncache", "prune", "done"})
           /\ DeleteUncache(r) => Moves(r, {"prune", "done"})
           /\ Prune(r) => Moves(r, {"prune", "done"})
           /\ HeadLookup(r) => Moves(r, {"stat", "done"})
           /\ HeadStat(r) => Moves(r, {"insert", "done"})
           /\ HeadInsert(r) => Moves(r, {"done"})
           /\ GetOpen(r) => Moves(r, {"metadata", "done"})
           /\ GetMetadata(r) => Moves(r, {"stream", "done"})
           /\ GetStream(r) => Moves(r, {"stream", "done"})
           /\ LateRemove(r) \/ LateRmdir(r) \/ Abandon(r) => Moves(r, {"done"})
           /\ Timeout(r) => Moves(r, {"late_remove", "late_rmdir", "done"})
  <1>1. req \in [Reqs -> ReqType] /\ req[r] \in ReqType
    BY DEF TypeOK, ReqOK
  <1>2. ASSUME NEW l, NEW s, req' = [req EXCEPT ![r].pc = l, ![r].stat = s] PROVE Moves(r, {l})
    BY <1>1, <1>2 DEF Moves, Only, ReqType
  <1>3. ASSUME NEW l, NEW s, req' = [req EXCEPT ![r].pc = l, ![r].fd = s] PROVE Moves(r, {l})
    BY <1>1, <1>3 DEF Moves, Only, ReqType
  <1>4. CopyOpen(r) => Moves(r, {"copytrunc", "mkdir", "done"})
    BY <1>3, RetryOrFailMoves DEF CopyOpen, Moves
  <1>5. CopyTrunc(r) => Moves(r, {"copying", "mkdir", "done"})
    <2>1. OpenTrunc(r, Path(r), "copying") => Moves(r, {"copying"})
      BY <1>1 DEF OpenTrunc, Moves, Only, ReqType
    <2> QED
      BY <2>1, RetryOrFailMoves DEF CopyTrunc, Moves
  <1>6. CopyPiece(r) => Moves(r, {"copying", "uncache", "mkdir", "done"})
    <2>1. ASSUME At(r, "copying"), NEW x, WritePiece(r, x) PROVE Moves(r, {"copying"})
      BY <1>1, <2>1 DEF WritePiece, At, Moves, Only, ReqType
    <2> QED
      BY <2>1, RetryOrFailMoves, GotoMoves DEF CopyPiece, Moves
  <1>7. HeadLookup(r) => Moves(r, {"stat", "done"})
    <2> DEFINE c == [req[r] EXCEPT !.stat = cache[req[r].key]]
    <2>1. ASSUME req' = [req EXCEPT ![r] = Answered(c, "200")] PROVE Moves(r, {"done"})
      BY <1>1, <2>1 DEF Moves, Only, Answered, Idle, ReqType
    <2> QED
      BY <2>1, GotoMoves DEF HeadLookup, Moves
  <1>8. HeadStat(r) => Moves(r, {"insert", "done"})
    BY <1>2, AnswerMoves DEF HeadStat, Moves
  <1>9. GetOpen(r) => Moves(r, {"metadata", "done"})
    BY <1>3, AnswerMoves DEF GetOpen, Moves
  <1>10. GetMetadata(r) => Moves(r, {"stream", "done"})
    <2>1. ASSUME NEW s, req' = [req EXCEPT ![r].pc = "stream", ![r].stat = s, ![r].resp = "200"]
          PROVE  Moves(r, {"stream"})
      BY <1>1, <2>1 DEF Moves, Only, ReqType
    <2> QED
      BY <2>1, AnswerMoves DEF GetMetadata, Moves
  <1>11. GetStream(r) => Moves(r, {"stream", "done"})
    <2>1. ASSUME NEW s, At(r, "stream"), req' = [req EXCEPT ![r].got = s] PROVE Moves(r, {"stream"})
      BY <1>1, <2>1 DEF Moves, Only, At, ReqType
    <2> QED
      BY <2>1, AnswerMoves DEF GetStream, Moves
  <1>12. Timeout(r) => Moves(r, {"late_remove", "late_rmdir", "done"})
    <2>1. ASSUME NEW l, req' = [req EXCEPT ![r].pc = l, ![r].resp = "504"] PROVE Moves(r, {l})
      BY <1>1, <2>1 DEF Moves, Only, ReqType
    <2> QED
      BY <2>1, AnswerMoves DEF Timeout, Moves
  <1>13. /\ CopySrcStat(r) => Moves(r, {"canon", "done"})
         /\ CopyCanon(r) => Moves(r, {"mkdir", "done"})
    BY GotoMoves, AnswerMoves, EnsureParentMoves DEF CopySrcStat, CopyCanon, Moves
  <1>14. /\ DeleteRemove(r) => Moves(r, {"uncache", "prune", "done"})
         /\ DeleteUncache(r) => Moves(r, {"prune", "done"})
         /\ Prune(r) => Moves(r, {"prune", "done"})
    BY GotoMoves, AnswerMoves, PruneFromMoves DEF DeleteRemove, DeleteUncache, Prune, Moves
  <1> QED
    BY <1>4, <1>5, <1>6, <1>7, <1>8, <1>9, <1>10, <1>11, <1>12, <1>13, <1>14, AnswerMoves
       DEF HeadInsert, LateRemove, LateRmdir, Abandon

\* A request that steps is under way, and its call stays the same.
LEMMA StepsMove ==
    ASSUME TypeOK, NEW r \in Reqs, Step(r) \/ Timeout(r) \/ Abandon(r)
    PROVE  Active(r) /\ \E L : Moves(r, L)
  <1>1. \E L : Moves(r, L)
    BY PutMovesTo, OtherMovesTo DEF Step
  <1>2. ASSUME Step(r) PROVE Active(r)
    BY <1>2 DEF Step, At, Active, Mkdir, IsDirCheck, TakeName, PutCreate, PutWrite, PutFlush,
                PutSync, PutRename, PutFail, PutCleanup, WriteUncache, Restat, PutPrime,
                CopySrcStat, CopyCanon, CopyOpen, CopyTrunc, CopyPiece, DeleteRemove,
                DeleteUncache, Prune, HeadLookup, HeadStat, HeadInsert, GetOpen, GetMetadata,
                GetStream, LateRemove, LateRmdir
  <1>3. ASSUME Timeout(r) \/ Abandon(r) PROVE Active(r)
    BY <1>3 DEF Timeout, Abandon, At, Active
  <1> QED
    BY <1>1, <1>2, <1>3

\* The steps at which a request holds something of its object.
Holding == {"canon", "copytrunc", "copying", "uncache", "restat", "prime", "insert"}

LEMMA Arrivals ==
    ASSUME TypeOK, NEW r \in Reqs, Step(r) \/ Timeout(r) \/ Abandon(r), req'[r].pc \in Holding
    PROVE  \/ req'[r].pc = "canon" /\ CopySrcStat(r)
           \/ req'[r].pc = "copytrunc" /\ CopyOpen(r)
           \/ req'[r].pc = "copying" /\ (CopyTrunc(r) \/ CopyPiece(r))
           \/ req'[r].pc = "uncache" /\ (PutRename(r) \/ CopyPiece(r) \/ DeleteRemove(r))
           \/ req'[r].pc = "restat" /\ WriteUncache(r)
           \/ req'[r].pc = "prime" /\ Restat(r)
           \/ req'[r].pc = "insert" /\ HeadStat(r)
  BY PutMovesTo, OtherMovesTo DEF Step, Moves, Holding

-----------------------------------------------------------------------------
(* The files a step reaches.                                               *)

\* The object at p, if there was one or there is one now, is as it was.
SameFile(p) ==
    node[p] \in Inodes \/ node'[p] \in Inodes =>
        node'[p] = node[p] /\ ino'[node[p]] = ino[node[p]]

\* A step that writes, names or removes the object of its request.
Reaches(r) ==
    \/ PutRename(r) \/ DeleteRemove(r) \/ LateRemove(r)
    \/ At(r, "copytrunc") /\ OpenTrunc(r, Path(r), "copying")
    \/ At(r, "copying") /\ \E piece : WritePiece(r, piece)

LEMMA KeptFiles ==
    ASSUME TypeOK, NEW r \in Reqs, Kept(r), NEW p \in Paths,
           p # Path(r) \/ req[r].op # "DELETE"
    PROVE  SameFile(p)
  <1>1. p \in Entries /\ p \notin Temps /\ UNCHANGED ino
    BY TempEntry DEF Entries, Kept
  <1> QED
    BY <1>1 DEF Kept, MildNode, Takes, SameFile

\* A request that writes a file writes its own.
LEMMA StrongFiles ==
    ASSUME UploadInv, NEW r \in Reqs, CopyHeld(r), Strong(r), NEW p \in Paths,
           p # Path(r) \/ ~Reaches(r)
    PROVE  SameFile(p)
  <1>1. TypeOK /\ OneName /\ LocalsSet(req[r]) /\ p \in Entries /\ p \notin Temps
    BY TempEntry DEF UploadInv, TypeOK, ReqOK, Entries
  <1>2. CASE TakeName(r) \/ PutFlush(r)
    BY <1>2 DEF TakeName, PutFlush, SameFile
  <1>3. CASE PutWrite(r) \/ PutSync(r)
    <2>1. Uploading(r) /\ req[r].pc \in Writing /\ UNCHANGED node
      BY <1>1, <1>3 DEF PutWrite, PutSync, At, LocalsSet, Uploading, Writing
    <2>2. node[p] \in Inodes => node[p] # req[r].wfd
      BY <2>1, WrittenAlone
    <2> QED
      BY <1>1, <1>3, <2>1, <2>2 DEF PutWrite, PutSync, WritePiece, SameFile, TypeOK
  <1>4. CASE At(r, "copying") /\ (\E piece : WritePiece(r, piece)) /\ UNCHANGED node
    <2>1. node[Path(r)] = req[r].wfd /\ req[r].wfd \in Inodes /\ Path(r) \in Entries /\ p # Path(r)
      BY <1>1, <1>4, PathTyped DEF CopyHeld, At, LocalsSet, Reaches
    <2>2. node[p] # req[r].wfd
      BY <1>1, <2>1 DEF OneName
    <2> QED
      BY <1>1, <1>4, <2>2 DEF WritePiece, SameFile, TypeOK
  <1>5. CASE PutRename(r)
    <2>1. p # Path(r) /\ p # Temp(r)
      BY <1>1, <1>5, TempTyped DEF Reaches, PutRename, At, LocalsSet
    <2> QED
      BY <1>1, <1>5, <2>1, PathTyped DEF PutRename, SameFile, TypeOK
  <1>6. CASE Opens(r)
    <2>1. PICK e \in Entries : p # e /\ \E l \in {"write", "copying"} : OpenTrunc(r, e, l)
      <3>1. At(r, "create") => Temp(r) \in Temps /\ Temp(r) \in Entries
        BY <1>1, TempTyped DEF LocalsSet, At
      <3> QED
        BY <1>1, <1>6, <3>1, PathTyped DEF Opens, Reaches
    <2>2. req[r].pc \in BeforeOpen /\ Active(r)
      BY <1>6 DEF Opens, At, BeforeOpen, Active
    <2> DEFINE i == OpenTruncGives(e, NewInode(r))
    <2>3. i \in Inodes /\ node[p] # i
      BY <1>1, <2>1, <2>2, OpenedAlone
    <2>4. node' = [node EXCEPT ![e] = i] /\ ino' = [ino EXCEPT ![i] = EmptyFile(r)]
      BY <2>1 DEF OpenTrunc
    <2> QED
      BY <1>1, <2>1, <2>3, <2>4 DEF SameFile, TypeOK
  <1> QED
    BY <1>2, <1>3, <1>4, <1>5, <1>6 DEF Strong, Writes

LEMMA FilesReached ==
    ASSUME UploadInv, NEW r \in Reqs, CopyHeld(r), NEW p \in Paths,
           Start(r) \/ Step(r) \/ Timeout(r) \/ Abandon(r),
           p # Path(r) \/ ~Reaches(r)
    PROVE  SameFile(p)
  <1>1. TypeOK /\ LocalsSet(req[r]) /\ (Kept(r) \/ Strong(r))
    BY OtherStepsMild DEF UploadInv, TypeOK, ReqOK
  <1>2. CASE UNCHANGED <<node, ino>>
    BY <1>2 DEF SameFile
  <1>3. CASE req[r].op = "DELETE" /\ p = Path(r) /\ Kept(r) /\ ~UNCHANGED node
    <2> DEFINE d == Head(req[r].walk)
    <2>1. Prune(r) \/ LateRmdir(r)
      BY <1>1, <1>3 DEF Start, Step, Timeout, Abandon, Reaches, LocalsSet, At, Mkdir, IsDirCheck,
             TakeName, PutCreate, PutWrite, PutFlush, PutSync, PutRename, PutFail, PutCleanup,
             WriteUncache, Restat, PutPrime, CopySrcStat, CopyCanon, CopyOpen, CopyTrunc,
             CopyPiece, DeleteUncache, HeadLookup, HeadStat, HeadInsert, GetOpen, GetMetadata,
             GetStream
    <2>2. node[d] = Directory /\ node' = [node EXCEPT ![d] = NoEntry] /\ UNCHANGED ino
      BY <1>3, <2>1 DEF Prune, LateRmdir, PruneRemoves, CanRmdir, IsDir
    <2> QED
      BY <1>1, <2>2, DistinctAssumption DEF SameFile, TypeOK, Entries
  <1> QED
    BY <1>1, <1>2, <1>3, KeptFiles, StrongFiles DEF Kept

-----------------------------------------------------------------------------
(* Turns are taken, and what a request holds of its object stays so.       *)

LEMMA StartTurn ==
    ASSUME TypeOK, StepsFit, Serialised, NEW r \in Reqs, Start(r)
    PROVE  /\ Only(r) /\ ~Active(r)
           /\ req'[r].pc \in {"mkdir", "srcstat", "remove", "lookup", "open"}
           /\ req'[r].op = "COPY" => req'[r].pc = "srcstat"
           /\ \A q \in Reqs : Active(q) => Touches(req'[r]) \cap Touches(req[q]) = {}
  <1>1. PICK k \in Calls :
            /\ \A q \in Reqs : Active(q) => Touches(k) \cap Touches(req[q]) = {}
            /\ req' = [req EXCEPT ![r] =
               [Idle EXCEPT !.pc = FirstStep(k.op), !.op = k.op, !.key = k.key, !.src = k.src,
                   !.walk = IF k.op = "PUT" THEN <<ParentOf[PathOf[k.key]]>> ELSE <<>>]]
    BY DEF Start
  <1>2. FirstStep(k.op) \in {"mkdir", "srcstat", "remove", "lookup", "open"}
        /\ (k.op = "COPY" => FirstStep(k.op) = "srcstat")
    BY CallAssumption DEF FirstStep, Ops
  <1>3. Only(r) /\ req'[r].pc = FirstStep(k.op) /\ req'[r].op = k.op /\ req'[r].key = k.key
        /\ req'[r].src = k.src
    BY <1>1 DEF Only, TypeOK, ReqOK, Idle
  <1>4. Touches(req'[r]) = Touches(k)
    BY <1>3 DEF Touches
  <1> QED
    BY <1>1, <1>2, <1>3, <1>4 DEF Start, At, Active

LEMMA TurnsStay ==
    ASSUME UploadInv, Serialised, TurnsTaken, NEW r \in Reqs,
           Start(r) \/ Step(r) \/ Timeout(r) \/ Abandon(r)
    PROVE  TurnsTaken'
  <1>1. TypeOK /\ StepsFit
    BY DEF UploadInv
  <1>2. Only(r) /\ \A q \in Reqs \ {r} : Active(r)' /\ Active(q) =>
                       Touches(req'[r]) \cap Touches(req[q]) = {}
    <2>1. CASE Start(r)
      BY <1>1, <2>1, StartTurn
    <2>2. CASE Step(r) \/ Timeout(r) \/ Abandon(r)
      <3>1. Active(r) /\ Only(r) /\ Touches(req'[r]) = Touches(req[r])
        BY <1>1, <2>2, StepsMove DEF Moves, Touches
      <3> QED
        BY <3>1 DEF TurnsTaken
    <2> QED
      BY <2>1, <2>2
  <1>3. ASSUME NEW q \in Reqs \ {r} PROVE req'[q] = req[q] /\ (Active(q)' <=> Active(q))
    BY <1>2 DEF Only, Active
  <1> SUFFICES ASSUME NEW q \in Reqs, NEW p \in Reqs, Active(q)', Active(p)', q # p
               PROVE  Touches(req'[q]) \cap Touches(req'[p]) = {}
    BY DEF TurnsTaken, Touches
  <1> QED
    BY <1>2, <1>3 DEF TurnsTaken

\* A request that does not step holds what it held.
LEMMA HeldStays ==
    ASSUME TypeOK, NEW q \in Reqs, StatHeld(q), CopyHeld(q), req'[q] = req[q],
           SameFile(Path(q)), req[q].op = "COPY" /\ Active(q) => SameFile(Source(q))
    PROVE  StatHeld(q)' /\ CopyHeld(q)'
  <1>1. Path(q)' = Path(q) /\ Source(q)' = Source(q) /\ LocalsSet(req[q])
    BY DEF Path, Source, TypeOK, ReqOK
  <1>2. StatHeld(q)'
    <2>1. node[Path(q)] \in Inodes =>
              node'[Path(q)] = node[Path(q)] /\ StatOf(node[Path(q)])' = StatOf(node[Path(q)])
      <3> DEFINE p == Path(q)
      <3>1. ASSUME node[p] \in Inodes PROVE node'[p] = node[p] /\ ino'[node[p]] = ino[node[p]]
        BY <3>1 DEF SameFile
      <3>2. p' = p
        BY <1>1
      <3> HIDE DEF p
      <3>3. ASSUME node[p] \in Inodes PROVE StatOf(node[p])' = StatOf(node[p])
        BY <3>1, <3>2, <3>3 DEF StatOf
      <3> QED
        BY <3>1, <3>3 DEF p
    <2> QED
      BY <1>1, <2>1 DEF StatHeld, At, IsFile
  <1>3. CopyHeld(q)'
    <2>1. At(q, "canon") => req[q].op = "COPY" /\ Active(q)
      BY <1>1 DEF LocalsSet, At, Active
    <2>2. req[q].pc \in {"copytrunc", "copying"} =>
              req[q].op = "COPY" /\ Active(q) /\ req[q].fd \in Inodes
      BY <1>1 DEF LocalsSet, Active
    <2>3. At(q, "copying") => req[q].wfd \in Inodes
      BY <1>1 DEF LocalsSet, At
    <2> QED
      BY <1>1, <2>1, <2>2, <2>3 DEF CopyHeld, SameFile, At, Active, IsFile
  <1> QED
    BY <1>2, <1>3

LEMMA OthersHold ==
    ASSUME UploadInv, Serialised, TurnsInv, NEW r \in Reqs, NEW q \in Reqs, q # r,
           Start(r) \/ Step(r) \/ Timeout(r) \/ Abandon(r)
    PROVE  StatHeld(q)' /\ CopyHeld(q)'
  <1>1. TypeOK /\ StatHeld(q) /\ CopyHeld(q) /\ CopyHeld(r) /\ TurnsTaken
        /\ Path(q) \in Paths /\ Source(q) \in Paths
    BY CallAssumption DEF UploadInv, TurnsInv, TypeOK, ReqOK, ReqType, Path, Source
  <1>2. req'[q] = req[q]
    BY <1>1, StartTurn, StepsMove DEF Moves, Only, UploadInv
  <1>3. CASE Start(r)
    BY <1>1, <1>2, <1>3, HeldStays DEF Start, SameFile
  <1>4. CASE ~Active(q)
    BY <1>2, <1>4 DEF StatHeld, CopyHeld, Active, At
  <1>5. CASE Active(q) /\ (Step(r) \/ Timeout(r) \/ Abandon(r))
    <2>1. Touches(req[q]) \cap Touches(req[r]) = {}
      BY <1>1, <1>5, StepsMove DEF TurnsTaken
    <2>2. Path(q) # Path(r) /\ (req[q].op = "COPY" => Source(q) # Path(r))
      BY <2>1 DEF Touches, Path, Source
    <2> QED
      BY <1>1, <1>2, <1>5, <2>2, FilesReached, HeldStays
  <1> QED
    BY <1>3, <1>4, <1>5

\* What a request comes to hold, it has just seen.
LEMMA SelfStat ==
    ASSUME UploadInv, NEW r \in Reqs, StatHeld(r), Step(r) \/ Timeout(r) \/ Abandon(r)
    PROVE  StatHeld(r)'
  <1>1. TypeOK /\ req[r] \in ReqType /\ req \in [Reqs -> ReqType] /\ LocalsSet(req[r])
        /\ Path(r) \in Entries /\ Path(r) \notin Temps /\ Path(r)' = Path(r)
        /\ req'[r].op = req[r].op
    BY StepsMove, PathTyped, TempEntry DEF UploadInv, TypeOK, ReqOK, Moves, Path
  <1>2. CASE req'[r].pc \notin {"uncache", "restat", "prime", "insert"}
    BY <1>2 DEF StatHeld, At
  <1>3. CASE PutRename(r) /\ req'[r].pc = "uncache"
    <2>1. Temp(r) \in Temps /\ node[Temp(r)] \in Inodes
      BY <1>1, <1>3, TempTyped DEF PutRename, At, LocalsSet, CanRename, IsFile
    <2>2. node'[Path(r)] \in Inodes
      BY <1>1, <1>3, <2>1 DEF PutRename, TypeOK
    <2> QED
      BY <1>1, <1>3, <2>2 DEF StatHeld, IsFile
  <1>4. CASE (CopyPiece(r) \/ DeleteRemove(r)) /\ req'[r].pc = "uncache"
    <2>1. req[r].op # "PUT"
      BY <1>1, <1>4 DEF CopyPiece, DeleteRemove, At, LocalsSet, UploadInv, StepsFit
    <2> QED
      BY <1>1, <1>4, <2>1 DEF StatHeld
  <1>5. CASE WriteUncache(r) /\ req'[r].pc = "restat"
    BY <1>1, <1>5 DEF WriteUncache, At, StatHeld, IsFile
  <1>6. CASE Restat(r) /\ req'[r].pc = "prime"
    <2>1. req[r].op = "PUT" /\ req' = [req EXCEPT ![r].pc = "prime", ![r].stat = StatOf(node[Path(r)])]
      BY <1>1, <1>6, AnswerMoves DEF Restat, Moves
    <2>2. req'[r].stat = StatOf(node[Path(r)]) /\ node[Path(r)] \in Inodes /\ UNCHANGED <<node, ino>>
      BY <1>1, <1>6, <2>1 DEF Restat, At, StatHeld, IsFile, ReqType
    <2> QED
      BY <1>1, <1>6, <2>2 DEF StatHeld, IsFile, StatOf
  <1>7. CASE HeadStat(r) /\ req'[r].pc = "insert"
    <2>1. IsFile(Path(r)) /\ req' = [req EXCEPT ![r].pc = "insert", ![r].stat = StatOf(node[Path(r)])]
      BY <1>1, <1>7, AnswerMoves DEF HeadStat, Moves
    <2>2. req'[r].stat = StatOf(node[Path(r)]) /\ node[Path(r)] \in Inodes /\ UNCHANGED <<node, ino>>
      BY <1>1, <1>7, <2>1 DEF HeadStat, IsFile, ReqType
    <2> QED
      BY <1>1, <1>7, <2>2 DEF StatHeld, IsFile, StatOf
  <1> QED
    BY <1>1, <1>2, <1>3, <1>4, <1>5, <1>6, <1>7, Arrivals DEF Holding

LEMMA SelfCopy ==
    ASSUME UploadInv, NEW r \in Reqs, CopyHeld(r), Step(r) \/ Timeout(r) \/ Abandon(r)
    PROVE  CopyHeld(r)'
  <1>1. TypeOK /\ req[r] \in ReqType /\ req \in [Reqs -> ReqType] /\ LocalsSet(req[r])
        /\ Path(r) \in Entries /\ Source(r) \in Entries
        /\ Path(r)' = Path(r) /\ Source(r)' = Source(r) /\ req'[r].op = req[r].op
    BY StepsMove, PathTyped, CallAssumption
       DEF UploadInv, TypeOK, ReqOK, ReqType, Moves, Path, Source, Entries
  <1>2. (At(r, "canon") => IsFile(Source(r)))'
    <2>1. CASE CopySrcStat(r) /\ At(r, "canon")'
      <3>1. IsFile(Source(r)) /\ UNCHANGED node
        BY <1>1, <2>1, AnswerMoves DEF CopySrcStat, Moves, At
      <3> QED
        BY <1>1, <3>1 DEF IsFile
    <2> QED
      BY <1>1, <2>1, Arrivals DEF Holding, At
  <1>3. (req[r].op = "COPY" /\ Active(r) /\ req[r].pc \notin {"srcstat", "canon"} => Source(r) # Path(r))'
    <2> SUFFICES ASSUME req[r].op = "COPY", Active(r)', req'[r].pc \notin {"srcstat", "canon"}
                 PROVE  Source(r) # Path(r)
      BY <1>1 DEF Active
    <2>1. Active(r)
      BY <1>1, StepsMove
    <2>2. CASE At(r, "srcstat")
      <3>1. CopySrcStat(r) \/ Timeout(r) \/ Abandon(r)
        BY <2>2 DEF Step, At, Mkdir, IsDirCheck, TakeName, PutCreate, PutWrite, PutFlush,
                PutSync, PutRename, PutFail, PutCleanup, WriteUncache, Restat, PutPrime,
                CopyCanon, CopyOpen, CopyTrunc, CopyPiece, DeleteRemove,
                DeleteUncache, Prune, HeadLookup, HeadStat, HeadInsert, GetOpen, GetMetadata,
                GetStream, LateRemove, LateRmdir
      <3> QED
        BY <1>1, <2>2, <3>1, OtherMovesTo DEF Moves, Active, Timeout, At
    <2>3. CASE At(r, "canon")
      <3>1. CopyCanon(r) \/ Timeout(r) \/ Abandon(r)
        BY <2>3 DEF Step, At, Mkdir, IsDirCheck, TakeName, PutCreate, PutWrite, PutFlush,
                PutSync, PutRename, PutFail, PutCleanup, WriteUncache, Restat, PutPrime,
                CopySrcStat, CopyOpen, CopyTrunc, CopyPiece, DeleteRemove,
                DeleteUncache, Prune, HeadLookup, HeadStat, HeadInsert, GetOpen, GetMetadata,
                GetStream, LateRemove, LateRmdir
      <3>2. CASE CopyCanon(r)
        <4>1. ~IsSelfCopy(req[r])
          BY <1>1, <3>2, AnswerMoves DEF CopyCanon, Moves, Active
        <4> QED
          BY <2>3, <4>1, DistinctAssumption DEF IsSelfCopy, CopyHeld, IsFile, Source, Path
      <3> QED
        BY <1>1, <2>3, <3>1, <3>2, OtherMovesTo DEF Moves, Active, Timeout, At
    <2> QED
      BY <2>1, <2>2, <2>3 DEF CopyHeld, At
  <1>4. (req[r].pc \in {"copytrunc", "copying"} => node[Source(r)] = req[r].fd)'
    <2>1. CASE CopyOpen(r) /\ req'[r].pc = "copytrunc"
      <3>1. req' = [req EXCEPT ![r].pc = "copytrunc", ![r].fd = node[Source(r)]]
        BY <1>1, <2>1, RetryOrFailMoves DEF CopyOpen, Moves
      <3>2. req'[r].fd = node[Source(r)] /\ UNCHANGED node
        BY <1>1, <2>1, <3>1 DEF CopyOpen, ReqType
      <3> QED
        BY <1>1, <3>2
    <2>2. CASE CopyTrunc(r) /\ req'[r].pc = "copying"
      <3> DEFINE i == OpenTruncGives(Path(r), NewInode(r))
      <3>1. node' = [node EXCEPT ![Path(r)] = i]
            /\ req' = [req EXCEPT ![r].pc = "copying", ![r].wfd = i, ![r].off = 0]
        BY <1>1, <2>2, RetryOrFailMoves DEF CopyTrunc, Moves, OpenTrunc
      <3>2. req'[r].fd = req[r].fd
        BY <1>1, <3>1 DEF ReqType
      <3>3. Source(r) # Path(r) /\ node[Source(r)] = req[r].fd
        BY <1>1, <2>2 DEF CopyTrunc, At, CopyHeld, LocalsSet, Active
      <3>4. node'[Source(r)] = node[Source(r)]
        BY <1>1, <3>1, <3>3 DEF TypeOK
      <3> QED
        BY <1>1, <3>2, <3>3, <3>4
    <2>3. CASE CopyPiece(r) /\ req'[r].pc = "copying"
      <3>1. PICK x : WritePiece(r, x)
        BY <1>1, <2>3, GotoMoves, RetryOrFailMoves DEF CopyPiece, Moves
      <3>2. req'[r].fd = req[r].fd /\ UNCHANGED node
        BY <1>1, <2>3, <3>1 DEF CopyPiece, WritePiece, ReqType
      <3> QED
        BY <1>1, <2>3, <3>2 DEF CopyPiece, CopyHeld, At
    <2> QED
      BY <1>1, <2>1, <2>2, <2>3, Arrivals DEF Holding
  <1>5. (At(r, "copying") => node[Path(r)] = req[r].wfd)'
    <2>1. CASE CopyTrunc(r) /\ req'[r].pc = "copying"
      <3> DEFINE i == OpenTruncGives(Path(r), NewInode(r))
      <3>1. node' = [node EXCEPT ![Path(r)] = i]
            /\ req' = [req EXCEPT ![r].pc = "copying", ![r].wfd = i, ![r].off = 0]
        BY <1>1, <2>1, RetryOrFailMoves DEF CopyTrunc, Moves, OpenTrunc
      <3>2. req'[r].wfd = i
        BY <1>1, <3>1 DEF ReqType
      <3>3. node'[Path(r)] = i
        BY <1>1, <3>1 DEF TypeOK
      <3> QED
        BY <1>1, <3>2, <3>3
    <2>2. CASE CopyPiece(r) /\ req'[r].pc = "copying"
      <3>1. PICK x : WritePiece(r, x)
        BY <1>1, <2>2, GotoMoves, RetryOrFailMoves DEF CopyPiece, Moves
      <3>2. req'[r].wfd = req[r].wfd /\ UNCHANGED node
        BY <1>1, <2>2, <3>1 DEF CopyPiece, WritePiece, ReqType
      <3> QED
        BY <1>1, <2>2, <3>2 DEF CopyPiece, CopyHeld, At
    <2> QED
      BY <1>1, <2>1, <2>2, Arrivals DEF Holding, At
  <1> QED
    BY <1>2, <1>3, <1>4, <1>5 DEF CopyHeld

-----------------------------------------------------------------------------
(* TurnsInv is inductive where clients take turns.                         *)

LEMMA NobodyHolds ==
    ASSUME NEW r \in Reqs, ~Active(r)
    PROVE  StatHeld(r) /\ CopyHeld(r)
  BY DEF StatHeld, CopyHeld, Active, At

LEMMA StartHolds ==
    ASSUME UploadInv, Serialised, NEW r \in Reqs, Start(r)
    PROVE  StatHeld(r)' /\ CopyHeld(r)'
  BY StartTurn DEF UploadInv, StatHeld, CopyHeld, At

LEMMA CrashEnds == ASSUME Crash, NEW r \in Reqs PROVE ~Active(r)'
  <1>1. req'[r] = IF Active(r) THEN Answered(req[r], "lost") ELSE req[r]
    BY DEF Crash
  <1> QED
    BY <1>1 DEF Active, Answered, Idle

LEMMA TurnsInit == Init => TurnsInv
  <1> SUFFICES ASSUME Init PROVE TurnsInv
    OBVIOUS
  <1>1. \A r \in Reqs : ~Active(r)
    BY DEF Init, Active, Idle
  <1> QED
    BY <1>1, NobodyHolds DEF TurnsInv, TurnsTaken

LEMMA TurnsStep ==
    ASSUME UploadInv, Serialised, TurnsInv, [Next]_vars
    PROVE  TurnsInv'
  <1>1. CASE UNCHANGED <<node, ino, req>>
    BY <1>1 DEF TurnsInv, TurnsTaken, StatHeld, CopyHeld, Active, At, Path, Source, IsFile,
                StatOf, Touches
  <1>2. CASE Crash
    BY <1>2, CrashEnds DEF TurnsInv, TurnsTaken, StatHeld, CopyHeld, Active, At
  <1>3. ASSUME NEW r \in Reqs, Start(r) \/ Step(r) \/ Timeout(r) \/ Abandon(r)
        PROVE  TurnsInv'
    <2>1. TurnsTaken'
      BY <1>3, TurnsStay DEF TurnsInv
    <2>2. StatHeld(r)' /\ CopyHeld(r)'
      BY <1>3, StartHolds, SelfStat, SelfCopy DEF TurnsInv
    <2>3. ASSUME NEW q \in Reqs, q # r PROVE StatHeld(q)' /\ CopyHeld(q)'
      BY <1>3, <2>3, OthersHold
    <2> QED
      BY <2>1, <2>2, <2>3 DEF TurnsInv
  <1> QED
    BY <1>1, <1>2, <1>3 DEF Next, vars, CacheLose

-----------------------------------------------------------------------------
(* The stat cache of clients that take turns.                              *)

\* Without the request timeout nothing happens that nobody waits for.
NeverLate == \A r \in Reqs : req[r].pc \notin {"late_remove", "late_rmdir"}

CacheInv == CacheRight /\ NeverLate

LEMMA NeverLateStep ==
    ASSUME UploadInv, Serialised, ~RequestTimeout, NeverLate, [Next]_vars
    PROVE  NeverLate'
  <1>1. TypeOK /\ StepsFit
    BY DEF UploadInv
  <1>2. ASSUME NEW r \in Reqs, Start(r) \/ Step(r) \/ Timeout(r) \/ Abandon(r) PROVE NeverLate'
    <2>1. Only(r)
      BY <1>1, <1>2, StartTurn, StepsMove DEF Moves
    <2>2. req'[r].pc \notin {"late_remove", "late_rmdir"}
      <3>1. CASE Start(r)
        BY <1>1, <3>1, StartTurn
      <3>2. CASE Step(r) \/ Timeout(r) \/ Abandon(r)
        BY <1>1, <3>2, PutMovesTo, OtherMovesTo DEF Step, Moves, Timeout
      <3> QED
        BY <1>2, <3>1, <3>2
    <2> QED
      BY <2>1, <2>2 DEF NeverLate, Only
  <1>3. CASE Crash
    BY <1>3, CrashEnds DEF NeverLate, Active
  <1>4. CASE UNCHANGED req
    BY <1>4 DEF NeverLate
  <1> QED
    BY <1>2, <1>3, <1>4 DEF Next, vars, CacheLose

\* How a step of r changes the cache.
LEMMA CacheWritten ==
    ASSUME NEW r \in Reqs, Start(r) \/ Step(r) \/ Timeout(r) \/ Abandon(r)
    PROVE  \/ UNCHANGED cache
           \/ At(r, "uncache") /\ cache' = Uncached(req[r].key)
           \/ /\ req[r].pc \in {"prime", "insert"} /\ UNCHANGED <<node, ino>>
              /\ cache' = Inserted(req[r].key, req[r].stat)
  BY DEF Start, Step, Timeout, Abandon, At, Mkdir, IsDirCheck, TakeName, PutCreate, PutWrite,
         PutFlush, PutSync, PutRename, PutFail, PutCleanup, WriteUncache, Restat, PutPrime,
         CopySrcStat, CopyCanon, CopyOpen, CopyTrunc, CopyPiece, DeleteRemove, DeleteUncache,
         Prune, HeadLookup, HeadStat, HeadInsert, GetOpen, GetMetadata, GetStream, LateRemove,
         LateRmdir

\* A step that reaches the object of its request leaves it dirty, or as it was.
LEMMA ReachedIsDirty ==
    ASSUME TypeOK, NeverLate, ~MayFail("copy"), NEW r \in Reqs, Step(r), Reaches(r)
    PROVE  Dirty(r)' \/ UNCHANGED <<node, ino>>
  <1>1. CASE PutRename(r)
    BY <1>1, PutMovesTo DEF Moves, Dirty
  <1>2. CASE DeleteRemove(r)
    <2>1. CASE Goto(r, "uncache")
      BY <2>1, GotoMoves DEF Moves, Dirty
    <2> QED
      BY <1>2, <2>1 DEF DeleteRemove
  <1>3. CASE At(r, "copytrunc") /\ OpenTrunc(r, Path(r), "copying")
    BY <1>3 DEF OpenTrunc, Dirty, TypeOK, ReqOK, ReqType
  <1>4. CASE At(r, "copying") /\ \E piece : WritePiece(r, piece)
    BY <1>4 DEF WritePiece, Dirty, At, TypeOK, ReqOK, ReqType
  <1> QED
    BY <1>1, <1>2, <1>3, <1>4 DEF Reaches, NeverLate, LateRemove, At

\* A dirty request stays so until the entry of its key is gone.
LEMMA DirtyUncaches ==
    ASSUME TypeOK, ~MayFail("copy"), ~RequestTimeout, ~Disconnects,
           NEW r \in Reqs, Dirty(r), Start(r) \/ Step(r) \/ Timeout(r) \/ Abandon(r)
    PROVE  Dirty(r)' \/ cache' = Uncached(req[r].key)
  <1>1. CopyPiece(r) \/ WriteUncache(r) \/ DeleteUncache(r)
    BY DEF Dirty, Start, Step, Timeout, Abandon, At, Mkdir, IsDirCheck, TakeName, PutCreate,
         PutWrite, PutFlush, PutSync, PutRename, PutFail, PutCleanup, Restat, PutPrime,
         CopySrcStat, CopyCanon, CopyOpen, CopyTrunc, DeleteRemove, Prune, HeadLookup, HeadStat,
         HeadInsert, GetOpen, GetMetadata, GetStream, LateRemove, LateRmdir
  <1>2. CASE CopyPiece(r)
    <2>1. ASSUME NEW x, WritePiece(r, x), At(r, "copying") PROVE Dirty(r)'
      BY <2>1 DEF WritePiece, Dirty, At, TypeOK, ReqOK, ReqType
    <2>2. CASE Goto(r, "uncache")
      BY <2>2, GotoMoves DEF Moves, Dirty
    <2> QED
      BY <1>2, <2>1, <2>2 DEF CopyPiece
  <1> QED
    BY <1>1, <1>2 DEF WriteUncache, DeleteUncache

LEMMA RightStays ==
    ASSUME NEW k \in Keys, EntryRight(k), SameFile(PathOf[k]), cache'[k] = cache[k]
    PROVE  EntryRight(k)'
  <1> DEFINE p == PathOf[k]
  <1>1. node[p] \in Inodes /\ node'[p] = node[p] /\ ino'[node[p]] = ino[node[p]]
        /\ cache[k] = StatOf(node[p])
    BY DEF EntryRight, IsFile, SameFile
  <1> HIDE DEF p
  <1>2. StatOf(node[p])' = StatOf(node[p])
    BY <1>1 DEF StatOf, p
  <1> QED
    BY <1>1, <1>2 DEF EntryRight, IsFile, p

LEMMA CacheStep ==
    ASSUME UploadInv, TurnsInv, Serialised, ~MayFail("copy"), ~RequestTimeout, ~Disconnects,
           \A k, l \in Keys : PathOf[k] = PathOf[l] => k = l,
           CacheRight, NeverLate,
           NEW r \in Reqs, Start(r) \/ Step(r) \/ Timeout(r) \/ Abandon(r)
    PROVE  CacheRight'
  <1> SUFFICES ASSUME NEW k \in Keys, cache'[k] # NoStat
               PROVE  EntryRight(k)' \/ \E q \in Reqs : req'[q].key = k /\ Dirty(q)'
    BY DEF CacheRight
  <1>1. TypeOK /\ cache \in [Keys -> Stats \cup {NoStat}] /\ req[r].key \in Keys
        /\ PathOf[k] \in Paths /\ Path(r) = PathOf[req[r].key] /\ StatHeld(r) /\ CopyHeld(r)
    BY CallAssumption DEF UploadInv, TypeOK, ReqOK, ReqType, TurnsInv, Path
  <1>2. Only(r) /\ (Active(r) => req'[r].key = req[r].key)
    BY <1>1, StartTurn, StepsMove DEF Moves, UploadInv
  <1>3. CASE cache'[k] # cache[k]
    <2>1. k = req[r].key /\ req[r].pc \in {"prime", "insert"} /\ UNCHANGED <<node, ino>>
          /\ cache'[k] = req[r].stat
      BY <1>1, <1>3, CacheWritten DEF Uncached, Inserted
    <2>2. IsFile(PathOf[k]) /\ cache'[k] = StatOf(node[PathOf[k]])
      BY <1>1, <2>1 DEF StatHeld
    <2> QED
      BY <2>1, <2>2 DEF EntryRight, IsFile, StatOf
  <1>4. CASE cache'[k] = cache[k]
    <2>1. CASE \E q \in Reqs : req[q].key = k /\ Dirty(q)
      <3>1. PICK q \in Reqs : req[q].key = k /\ Dirty(q)
        BY <2>1
      <3>2. CASE q # r
        BY <1>2, <3>1, <3>2 DEF Only, Dirty
      <3>3. CASE q = r
        <4>1. cache' # Uncached(req[r].key)
          BY <1>1, <3>1, <3>3 DEF Uncached
        <4> QED
          BY <1>1, <1>2, <3>1, <3>3, <4>1, DirtyUncaches DEF Dirty, Active
      <3> QED
        BY <3>2, <3>3
    <2>2. CASE EntryRight(k) /\ (PathOf[k] # Path(r) \/ ~Reaches(r))
      BY <1>1, <1>4, <2>2, FilesReached, RightStays
    <2>3. CASE EntryRight(k) /\ PathOf[k] = Path(r) /\ Reaches(r)
      <3>1. k = req[r].key
        BY <1>1, <2>3
      <3>2. Step(r) /\ Active(r)
        <4>1. req[r].pc \in {"rename", "remove", "late_remove", "copytrunc", "copying"}
          BY <2>3 DEF Reaches, PutRename, DeleteRemove, LateRemove, At
        <4>2. PutRename(r) \/ DeleteRemove(r) \/ LateRemove(r) \/ CopyTrunc(r) \/ CopyPiece(r)
              \/ PutFail(r)
          BY <4>1 DEF Start, Step, Timeout, Abandon, At, Mkdir, IsDirCheck, TakeName, PutCreate,
                 PutWrite, PutFlush, PutSync, PutCleanup, WriteUncache, Restat, PutPrime,
                 CopySrcStat, CopyCanon, CopyOpen, DeleteUncache, Prune, HeadLookup, HeadStat,
                 HeadInsert, GetOpen, GetMetadata, GetStream, LateRmdir
        <4> QED
          BY <4>1, <4>2 DEF Step, Active
      <3>3. Dirty(r)' \/ UNCHANGED <<node, ino>>
        BY <1>1, <2>3, <3>2, ReachedIsDirty
      <3>4. CASE UNCHANGED <<node, ino>>
        BY <1>4, <2>3, <3>4, RightStays DEF SameFile
      <3> QED
        BY <1>2, <3>1, <3>2, <3>3, <3>4
    <2> QED
      BY <1>4, <2>1, <2>2, <2>3 DEF CacheRight
  <1> QED
    BY <1>3, <1>4

\* Where clients take turns on each object, whatever storage fails and the server
\* does but for a copy that breaks off halfway, a HEAD served from the cache says
\* what a stat would: every write and delete invalidates before another request
\* can look.  Two keys with one path would each need invalidating.
THEOREM CacheStaysCoherent ==
    ASSUME Serialised, ~Disconnects, ~RequestTimeout, ~MayFail("copy"),
           \A k, l \in Keys : PathOf[k] = PathOf[l] => k = l
    PROVE  Spec => []CoherentWhenQuiet
  <1> DEFINE Inv == UploadInv /\ TurnsInv /\ CacheInv
  <1>1. Init => Inv
    <2> SUFFICES ASSUME Init PROVE CacheInv
      BY UploadInit, TurnsInit
    <2> QED
      BY DEF Init, Idle, CacheInv, CacheRight, NeverLate
  <1>2. Inv /\ [Next]_vars => Inv'
    <2> SUFFICES ASSUME Inv, [Next]_vars PROVE Inv'
      OBVIOUS
    <2>1. UploadInv' /\ TurnsInv' /\ NeverLate'
      BY UploadStep, TurnsStep, NeverLateStep DEF CacheInv
    <2>2. ASSUME Crash PROVE CacheRight'
      BY <2>2 DEF Crash, CacheRight
    <2>3. ASSUME UNCHANGED <<node, ino, req>>, \A k \in Keys : cache'[k] \in {cache[k], NoStat}
          PROVE  CacheRight'
      BY <2>3 DEF CacheInv, CacheRight, EntryRight, Dirty, IsFile, StatOf
    <2>4. ASSUME NEW k \in Keys, CacheLose(k)
          PROVE  UNCHANGED <<node, ino, req>> /\ \A l \in Keys : cache'[l] \in {cache[l], NoStat}
      BY <2>4 DEF CacheLose, UploadInv, TypeOK
    <2>5. ASSUME NEW r \in Reqs, Start(r) \/ Step(r) \/ Timeout(r) \/ Abandon(r) PROVE CacheRight'
      BY <2>5, CacheStep DEF CacheInv
    <2>6. CacheRight'
      BY <2>2, <2>3, <2>4, <2>5 DEF Next, vars
    <2> QED
      BY <2>1, <2>6 DEF CacheInv
  <1>3. Inv => CoherentWhenQuiet
    <2> SUFFICES ASSUME CacheRight, Quiet, NEW k \in Keys, cache[k] # NoStat PROVE EntryRight(k)
      BY DEF CoherentWhenQuiet, EntryRight, CacheInv
    <2>1. \A r \in Reqs : ~Dirty(r)
      BY DEF Quiet, Dirty, Active
    <2> QED
      BY <2>1 DEF CacheRight
  <1> QED
    BY <1>1, <1>2, <1>3, PTL DEF Spec

-----------------------------------------------------------------------------
(* The copies of clients that take turns.                                  *)

\* Writing the next piece of data at the end of what was copied of it.
LEMMA CopyAtEnd ==
    ASSUME NEW d, NEW n \in Nat
    PROVE  WriteAt([k \in 1..n |-> d[k]], n, d[n + 1]) = [k \in 1..(n + 1) |-> d[k]]
  <1> DEFINE c == [k \in 1..n |-> d[k]]
  <1>1. Len(c) = n
    <2>1. c \in Seq({d[k] : k \in 1..n})
      BY SeqDef
    <2>2. DOMAIN c = 1..n
      OBVIOUS
    <2> QED
      BY <2>1, <2>2, LenProperties
  <1>2. WriteAt(c, n, d[n + 1]) = [k \in 1..(n + 1) |-> IF k = n + 1 THEN d[n + 1]
                                                          ELSE IF k <= n THEN c[k] ELSE Hole]
    BY <1>1 DEF WriteAt
  <1>3. ASSUME NEW k \in 1..(n + 1)
        PROVE  (IF k = n + 1 THEN d[n + 1] ELSE IF k <= n THEN c[k] ELSE Hole) = d[k]
    OBVIOUS
  <1> QED
    BY <1>2, <1>3

\* What a COPY reads and writes is of two files, and their objects' alone.
LEMMA CopyFiles ==
    ASSUME UploadInv, NEW r \in Reqs, CopyHeld(r), At(r, "copying")
    PROVE  /\ req[r].op = "COPY" /\ Active(r) /\ Source(r) # Path(r)
           /\ Source(r) \in Paths /\ Path(r) \in Paths
           /\ node[Source(r)] = req[r].fd /\ req[r].fd \in Inodes
           /\ node[Path(r)] = req[r].wfd /\ req[r].wfd \in Inodes
           /\ req[r].fd # req[r].wfd
           /\ ino[req[r].fd].data \in Seq(Payloads \cup {Hole})
           /\ req[r].off \in Nat
  <1>1. TypeOK /\ OneName /\ LocalsSet(req[r]) /\ req[r] \in ReqType
        /\ Source(r) \in Paths /\ Path(r) \in Paths /\ req[r].off \in Nat
    BY CallAssumption DEF UploadInv, TypeOK, ReqOK, ReqType, Path, Source
  <1>2. req[r].op = "COPY" /\ req[r].fd \in Inodes /\ req[r].wfd \in Inodes /\ Active(r)
    BY <1>1 DEF LocalsSet, At, Active
  <1>3. Source(r) # Path(r) /\ node[Source(r)] = req[r].fd /\ node[Path(r)] = req[r].wfd
    BY <1>2 DEF CopyHeld, At
  <1>4. req[r].fd # req[r].wfd
    BY <1>1, <1>2, <1>3 DEF OneName, Entries
  <1>5. ino[req[r].fd].data \in Seq(Payloads \cup {Hole})
    BY <1>1, <1>2 DEF TypeOK, InoType
  <1> QED
    BY <1>1, <1>2, <1>3, <1>4, <1>5

\* The turns of others keep a copy as it is.
LEMMA OthersCopy ==
    ASSUME UploadInv, TurnsInv, Serialised, NEW r \in Reqs, NEW q \in Reqs, q # r, CopyProgress(q),
           Start(r) \/ Step(r) \/ Timeout(r) \/ Abandon(r)
    PROVE  CopyProgress(q)'
  <1>1. TypeOK /\ CopyHeld(q) /\ CopyHeld(r) /\ TurnsTaken /\ StepsFit
    BY DEF UploadInv, TurnsInv
  <1>2. req'[q] = req[q]
    BY <1>1, StartTurn, StepsMove DEF Moves, Only
  <1>3. CASE At(q, "copying")
    <2>1. SameFile(Path(q)) /\ SameFile(Source(q))
      <3>1. CASE Start(r)
        BY <3>1 DEF Start, SameFile
      <3>2. CASE Step(r) \/ Timeout(r) \/ Abandon(r)
        <4>1. Touches(req[q]) \cap Touches(req[r]) = {}
          BY <1>1, <1>3, <3>2, StepsMove, CopyFiles DEF TurnsTaken
        <4>2. Path(q) # Path(r) /\ Source(q) # Path(r)
          BY <1>1, <1>3, <4>1, CopyFiles DEF Touches, Path, Source
        <4> QED
          BY <1>1, <1>3, <3>2, <4>2, CopyFiles, FilesReached
      <3> QED
        BY <3>1, <3>2
    <2>2. ino'[req[q].fd] = ino[req[q].fd] /\ ino'[req[q].wfd] = ino[req[q].wfd]
      BY <1>1, <1>3, <2>1, CopyFiles DEF SameFile
    <2> QED
      BY <1>2, <2>2 DEF CopyProgress, At
  <1> QED
    BY <1>2, <1>3 DEF CopyProgress, At

\* So does its own step, which takes it one piece further.
LEMMA SelfCopies ==
    ASSUME UploadInv, NEW r \in Reqs, CopyHeld(r), CopyProgress(r), Step(r) \/ Timeout(r) \/ Abandon(r)
    PROVE  CopyProgress(r)'
  <1>1. TypeOK /\ TypeOK' /\ req[r] \in ReqType /\ req \in [Reqs -> ReqType]
        /\ UploadInv' /\ CopyHeld(r)'
    <2>1. [Next]_vars
      BY DEF Next
    <2> QED
      BY <2>1, UploadStep, SelfCopy DEF UploadInv, TypeOK, ReqOK
  <1>2. CASE CopyTrunc(r) /\ At(r, "copying")'
    <2> DEFINE i == OpenTruncGives(Path(r), NewInode(r))
               from == ino'[req'[r].fd].data
    <2>1. ino' = [ino EXCEPT ![i] = EmptyFile(r)]
          /\ req' = [req EXCEPT ![r].pc = "copying", ![r].wfd = i, ![r].off = 0]
      BY <1>1, <1>2, RetryOrFailMoves DEF CopyTrunc, Moves, OpenTrunc, At
    <2>2. req'[r].wfd = i /\ req'[r].off = 0
      BY <1>1, <2>1 DEF ReqType
    <2>3. i \in Inodes /\ from \in Seq(Payloads \cup {Hole})
      <3>1. /\ At(r, "copying")' => req'[r].wfd \in Inodes /\ req'[r].fd \in Inodes
            /\ ino' \in [Inodes -> InoType]
        BY <1>1 DEF TypeOK, ReqOK, LocalsSet, At
      <3> QED
        BY <1>2, <2>2, <3>1 DEF InoType
    <2>4. ino'[i].data = <<>>
      BY <1>1, <2>1, <2>3 DEF TypeOK, EmptyFile
    <2>5. Len(from) \in Nat
      BY <2>3
    <2>6. [k \in 1..0 |-> from[k]] = <<>>
      OBVIOUS
    <2> QED
      BY <2>2, <2>4, <2>5, <2>6 DEF CopyProgress
  <1>3. CASE CopyPiece(r) /\ At(r, "copying")'
    <2> DEFINE from == ino[req[r].fd].data
               n == req[r].off
               w == req[r].wfd
    <2>1. /\ At(r, "copying") /\ n < Len(from)
          /\ WritePiece(r, from[n + 1])
      BY <1>1, <1>3, GotoMoves, RetryOrFailMoves DEF CopyPiece, Moves, At
    <2>2. n \in Nat /\ w \in Inodes /\ req[r].fd \in Inodes /\ req[r].fd # w
          /\ Len(from) \in Nat /\ ino[w].data = [k \in 1..n |-> from[k]]
      BY <2>1, CopyFiles DEF CopyProgress
    <2>3. req'[r].off = n + 1 /\ req'[r].wfd = w /\ req'[r].fd = req[r].fd
      BY <1>1, <2>1 DEF WritePiece, ReqType
    <2>4. ino'[req[r].fd] = ino[req[r].fd] /\ ino'[w].data = WriteAt(ino[w].data, n, from[n + 1])
      BY <1>1, <2>1, <2>2 DEF WritePiece, TypeOK
    <2>5. ino'[w].data = [k \in 1..(n + 1) |-> from[k]]
      <3> HIDE DEF from, n, w
      <3>1. WriteAt([k \in 1..n |-> from[k]], n, from[n + 1]) = [k \in 1..(n + 1) |-> from[k]]
        BY <2>2, CopyAtEnd
      <3> QED
        BY <2>2, <2>4, <3>1
    <2>6. n + 1 <= Len(from)
      BY <2>1, <2>2
    <2> QED
      BY <2>3, <2>4, <2>5, <2>6 DEF CopyProgress
  <1> QED
    BY <1>1, <1>2, <1>3, Arrivals DEF CopyProgress, Holding, At

\* The object at p is whole, or a COPY is filling it.
WholeOrFilling(p) ==
    IsFile(p) => \/ \E w \in Payloads : ino[node[p]].data = Whole(w)
                 \/ \E r \in Reqs : At(r, "copying") /\ Path(r) = p

\* A copy that has come to its end is whole, as its source is.
LEMMA CopyEnds ==
    ASSUME UploadInv, TurnsTaken, NEW r \in Reqs, CopyHeld(r), CopyProgress(r),
           At(r, "copying"), WholeOrFilling(Source(r)), req[r].off >= Len(ino[req[r].fd].data)
    PROVE  \E w \in Payloads : ino[req[r].wfd].data = Whole(w)
  <1> DEFINE from == ino[req[r].fd].data
  <1>1. req[r].off = Len(from) /\ from \in Seq(Payloads \cup {Hole})
        /\ ino[req[r].wfd].data = [k \in 1..Len(from) |-> from[k]]
    BY CopyFiles DEF CopyProgress
  <1>2. ino[req[r].wfd].data = from
    BY <1>1
  <1>3. ASSUME NEW q \in Reqs, At(q, "copying"), Path(q) = Source(r) PROVE FALSE
    <2>1. q # r /\ Active(q) /\ Active(r) /\ req[r].op = "COPY"
      BY <1>3, CopyFiles DEF At, Active
    <2>2. Touches(req[q]) \cap Touches(req[r]) = {}
      BY <2>1 DEF TurnsTaken
    <2> QED
      BY <1>3, <2>1, <2>2 DEF Touches, Path, Source
  <1>4. IsFile(Source(r)) /\ node[Source(r)] = req[r].fd
    BY CopyFiles DEF IsFile
  <1> QED
    BY <1>2, <1>3, <1>4 DEF WholeOrFilling

\* The object a step reaches is whole then, or a COPY is filling it.
LEMMA ReachedIsWhole ==
    ASSUME UploadInv, NEW r \in Reqs, Reaches(r), WholeOrFilling(Path(r))
    PROVE  \/ WholeOrFilling(Path(r))'
           \/ UNCHANGED <<node, ino>> /\ (DeleteRemove(r) \/ LateRemove(r))
  <1> DEFINE p == Path(r)
  <1>1. TypeOK /\ LocalsSet(req[r]) /\ p \in Paths /\ p \in Entries /\ p \notin Temps
        /\ req \in [Reqs -> ReqType] /\ req[r] \in ReqType /\ r \in Payloads
    BY PathTyped, TempEntry DEF UploadInv, TypeOK, ReqOK, Payloads
  <1>2. CASE PutRename(r)
    <2>1. Uploading(r) /\ At(r, "rename")
      BY <1>1, <1>2 DEF PutRename, At, LocalsSet, Uploading
    <2>2. Temp(r) \in Temps /\ node[Temp(r)] = req[r].wfd /\ req[r].wfd \in Inodes
      BY <1>1, <2>1, UploadTyped DEF UploadInv, WritersApart
    <2>3. node'[p] = req[r].wfd /\ ino' = ino
      BY <1>1, <1>2, <2>2 DEF PutRename, TypeOK
    <2>4. ino[req[r].wfd].data = [k \in 1..req[r].off |-> r] /\ req[r].off = Chunks
      BY <2>1 DEF UploadInv, UploadsProgress, Progress, At
    <2>5. ino'[node'[p]].data = Whole(r) /\ p' = p
      BY <1>1, <1>2, <2>3, <2>4, PutMovesTo DEF Whole, Moves, Path
    <2> QED
      BY <1>1, <2>5 DEF WholeOrFilling
  <1>3. CASE DeleteRemove(r) \/ LateRemove(r)
    <2>1. p' = p
      BY <1>1, <1>3, OtherMovesTo DEF Moves, Path
    <2>2. node'[p] = NoEntry \/ UNCHANGED <<node, ino>>
      BY <1>1, <1>3 DEF DeleteRemove, LateRemove, TypeOK
    <2> QED
      BY <1>3, <2>1, <2>2, DistinctAssumption DEF WholeOrFilling, IsFile
  <1>4. CASE At(r, "copytrunc") /\ OpenTrunc(r, p, "copying")
    <2> DEFINE i == OpenTruncGives(p, NewInode(r))
    <2>1. req' = [req EXCEPT ![r].pc = "copying", ![r].wfd = i, ![r].off = 0]
      BY <1>4 DEF OpenTrunc
    <2>2. req'[r].pc = "copying" /\ req'[r].key = req[r].key
      BY <1>1, <2>1 DEF ReqType
    <2> QED
      BY <2>2 DEF WholeOrFilling, At, Path
  <1>5. CASE At(r, "copying") /\ \E piece : WritePiece(r, piece)
    <2>1. req'[r].pc = "copying" /\ req'[r].key = req[r].key
      BY <1>1, <1>5 DEF WritePiece, At, ReqType
    <2> QED
      BY <2>1 DEF WholeOrFilling, At, Path
  <1> QED
    BY <1>2, <1>3, <1>4, <1>5 DEF Reaches

\* A copy under way goes on, unless it has come to its end.
LEMMA CopyGoesOn ==
    ASSUME TypeOK, ~MayFail("copy"), ~Disconnects, NEW r \in Reqs, At(r, "copying"),
           LocalsSet(req[r]), Start(r) \/ Step(r) \/ Timeout(r) \/ Abandon(r)
    PROVE  \/ At(r, "copying")' /\ Path(r)' = Path(r)
           \/ req[r].off >= Len(ino[req[r].fd].data) /\ UNCHANGED <<node, ino>>
  <1>1. CopyPiece(r)
    BY DEF LocalsSet, Timed, Start, Step, Timeout, Abandon, At, Mkdir, IsDirCheck, TakeName,
         PutCreate, PutWrite, PutFlush, PutSync, PutRename, PutFail, PutCleanup, WriteUncache,
         Restat, PutPrime, CopySrcStat, CopyCanon, CopyOpen, CopyTrunc, DeleteRemove,
         DeleteUncache, Prune, HeadLookup, HeadStat, HeadInsert, GetOpen, GetMetadata, GetStream,
         LateRemove, LateRmdir
  <1>2. ASSUME NEW x, WritePiece(r, x) PROVE At(r, "copying")' /\ Path(r)' = Path(r)
    BY <1>2 DEF WritePiece, At, Path, TypeOK, ReqOK, ReqType
  <1> QED
    BY <1>1, <1>2 DEF CopyPiece

LEMMA CopiesStep ==
    ASSUME UploadInv, TurnsInv, Serialised, ~MayFail("copy"), ~Disconnects,
           NEW r \in Reqs, Start(r) \/ Step(r) \/ Timeout(r) \/ Abandon(r),
           CopyProgress(r), \A q \in Paths : WholeOrFilling(q),
           NEW p \in Paths
    PROVE  WholeOrFilling(p)'
  <1>1. TypeOK /\ StepsFit /\ TurnsTaken /\ CopyHeld(r) /\ Path(r) \in Paths /\ Source(r) \in Paths
        /\ LocalsSet(req[r])
    BY CallAssumption DEF UploadInv, TurnsInv, TypeOK, ReqOK, ReqType, Path, Source
  <1>2. Only(r)
    BY <1>1, StartTurn, StepsMove DEF Moves
  <1>3. CASE SameFile(p) /\ node'[p] \in Inodes
    <2>1. node'[p] = node[p] /\ ino'[node'[p]] = ino[node[p]] /\ IsFile(p)
      BY <1>3 DEF SameFile, IsFile
    <2>2. CASE \E w \in Payloads : ino[node[p]].data = Whole(w)
      BY <2>1, <2>2 DEF WholeOrFilling
    <2>3. ASSUME NEW q \in Reqs, At(q, "copying"), Path(q) = p
          PROVE  WholeOrFilling(p)'
      <3>1. CASE At(q, "copying")' /\ Path(q)' = Path(q)
        BY <2>3, <3>1 DEF WholeOrFilling
      <3>2. CASE q # r
        BY <1>2, <2>3, <3>2 DEF WholeOrFilling, Only, At, Path
      <3>3. CASE q = r /\ req[r].off >= Len(ino[req[r].fd].data)
        BY <1>1, <2>1, <2>3, <3>3, CopyEnds, CopyFiles DEF WholeOrFilling
      <3> QED
        BY <1>1, <2>3, <3>1, <3>2, <3>3, CopyGoesOn
    <2> QED
      BY <2>1, <2>2, <2>3 DEF WholeOrFilling
  <1>4. CASE p # Path(r) \/ ~Reaches(r)
    BY <1>1, <1>3, <1>4, FilesReached DEF WholeOrFilling, IsFile
  <1>5. CASE p = Path(r) /\ Reaches(r)
    <2>1. CASE UNCHANGED <<node, ino>>
      BY <1>3, <2>1 DEF SameFile, WholeOrFilling, IsFile
    <2>2. Path(r)' = Path(r)
      <3>1. Active(r)
        BY <1>5 DEF Reaches, PutRename, DeleteRemove, LateRemove, At, Active
      <3> QED
        BY <1>1, <3>1, StepsMove, StartTurn DEF Moves, Path
    <2> QED
      BY <1>5, <2>1, <2>2, ReachedIsWhole DEF WholeOrFilling
  <1> QED
    BY <1>4, <1>5

\* A COPY truncates and fills its destination in place; where clients take turns
\* on each object and nothing breaks a copy off, it leaves a whole one all the
\* same: its source does not change meanwhile, and nobody else writes its file.
THEOREM CopiesStayWhole ==
    ASSUME Serialised, ~Disconnects, ~MayFail("copy"), Crashes = 0
    PROVE  Spec => []CopiesWholeWhenQuiet
  <1> DEFINE Inv == UploadInv /\ TurnsInv /\ CopiesInv
  <1>1. Init => Inv
    <2> SUFFICES ASSUME Init PROVE CopiesInv
      BY UploadInit, TurnsInit
    <2>1. \A r \in Reqs : CopyProgress(r)
      BY DEF Init, Idle, CopyProgress, At
    <2>2. ASSUME NEW p \in Paths, IsFile(p) PROVE \E w \in Payloads : ino[node[p]].data = Whole(w)
      <3>1. node[p] = p /\ p \in Initial /\ p \in Inodes /\ p \in Payloads
        BY <2>2, DistinctAssumption DEF Init, StorageInit, IsFile, Entries, Inodes, Payloads
      <3> QED
        BY <3>1 DEF Init, StorageInit
    <2> QED
      BY <2>1, <2>2 DEF CopiesInv
  <1>2. Inv /\ [Next]_vars => Inv'
    <2> SUFFICES ASSUME Inv, [Next]_vars PROVE Inv'
      OBVIOUS
    <2>1. UploadInv' /\ TurnsInv' /\ crashes \in Nat
      BY UploadStep, TurnsStep DEF UploadInv, TypeOK
    <2>2. ~Crash
      BY <2>1 DEF Crash
    <2>3. ASSUME UNCHANGED <<node, ino, req>> PROVE CopiesInv'
      BY <2>3 DEF CopiesInv, CopyProgress, At, Path, IsFile
    <2>4. ASSUME NEW r \in Reqs, Start(r) \/ Step(r) \/ Timeout(r) \/ Abandon(r) PROVE CopiesInv'
      <3>1. \A q \in Reqs : CopyProgress(q)'
        <4>1. CASE Start(r)
          BY <2>4, <4>1, StartTurn, OthersCopy DEF CopiesInv, CopyProgress, At, UploadInv
        <4>2. CASE Step(r) \/ Timeout(r) \/ Abandon(r)
          BY <2>4, <4>2, SelfCopies, OthersCopy DEF CopiesInv, TurnsInv
        <4> QED
          BY <2>4, <4>1, <4>2
      <3>2. \A p \in Paths : WholeOrFilling(p)
        BY DEF CopiesInv, WholeOrFilling
      <3>3. \A p \in Paths : WholeOrFilling(p)'
        BY <2>4, <3>2, CopiesStep DEF CopiesInv
      <3> QED
        BY <3>1, <3>3 DEF CopiesInv, WholeOrFilling
    <2>5. CopiesInv'
      BY <2>2, <2>3, <2>4 DEF Next, vars, CacheLose
    <2> QED
      BY <2>1, <2>5
  <1>3. Inv => CopiesWholeWhenQuiet
    <2>1. Quiet => \A r \in Reqs : ~At(r, "copying")
      BY DEF Quiet, Active, At
    <2> QED
      BY <2>1 DEF CopiesInv, CopiesWholeWhenQuiet
  <1> QED
    BY <1>1, <1>2, <1>3, PTL DEF Spec

-----------------------------------------------------------------------------
(* The directories a request makes.                                        *)

LEMMA WalkTail ==
    ASSUME NEW w \in Seq(Paths), w # <<>>
    PROVE  /\ Len(w) \in Nat \ {0} /\ Head(w) = w[1] /\ w[1] \in Paths
           /\ Tail(w) \in Seq(Paths) /\ Len(Tail(w)) = Len(w) - 1
           /\ \A i \in 1..(Len(w) - 1) : Tail(w)[i] = w[i + 1] /\ w[i + 1] \in Paths
           /\ Tail(w) = <<>> => Len(w) = 1
  <1>1. Len(w) \in Nat \ {0} /\ Head(w) = w[1] /\ w[1] \in Paths
    OBVIOUS
  <1>2. Tail(w) \in Seq(Paths) /\ Len(Tail(w)) = Len(w) - 1
    OBVIOUS
  <1>3. ASSUME NEW i \in 1..(Len(w) - 1) PROVE Tail(w)[i] = w[i + 1] /\ w[i + 1] \in Paths
    OBVIOUS
  <1>4. Tail(w) = <<>> => Len(w) = 1
    BY <1>1, <1>2
  <1> QED
    BY <1>1, <1>2, <1>3, <1>4

LEMMA WalkUp ==
    ASSUME NEW w \in Seq(Paths), w # <<>>, NEW p \in Paths
    PROVE  LET v == <<p>> \o w
           IN  /\ Len(v) = Len(w) + 1 /\ v[1] = p
               /\ \A i \in 1..Len(w) : v[i + 1] = w[i]
  OBVIOUS

\* The chain of directories from w down to directory e.
Leads(w, e) ==
    /\ w[Len(w)] = e
    /\ \A i \in 1..(Len(w) - 1) : w[i + 1] # Root /\ ParentOf[w[i + 1]] = w[i]

LEMMA TailLeads ==
    ASSUME NEW w \in Seq(Paths), w # <<>>, NEW e, Leads(w, e)
    PROVE  /\ Tail(w) # <<>> => Leads(Tail(w), e) /\ MakesIn(Tail(w), Head(w))
           /\ Tail(w) = <<>> => Head(w) = e
  <1> DEFINE v == Tail(w)
             n == Len(w)
  <1>1. n \in Nat \ {0} /\ v \in Seq(Paths) /\ Len(v) = n - 1 /\ (v = <<>> => n = 1)
        /\ Head(w) = w[1] /\ \A i \in 1..(n - 1) : v[i] = w[i + 1]
    BY WalkTail
  <1>2. ASSUME v # <<>> PROVE Head(v) = v[1] /\ Len(v) \in Nat \ {0} /\ n >= 2
    <2>1. Head(v) = v[1] /\ Len(v) \in Nat \ {0}
      BY <1>1, <1>2, WalkTail
    <2> QED
      BY <1>1, <2>1
  <1> HIDE DEF v, n
  <1>3. w[n] = e /\ \A i \in 1..(n - 1) : w[i + 1] # Root /\ ParentOf[w[i + 1]] = w[i]
    BY DEF Leads, n
  <1>4. ASSUME v # <<>> PROVE Leads(v, e)
    <2>1. v[Len(v)] = e
      BY <1>1, <1>2, <1>3, <1>4
    <2>2. ASSUME NEW i \in 1..(Len(v) - 1) PROVE v[i + 1] # Root /\ ParentOf[v[i + 1]] = v[i]
      <3>1. i + 1 \in 1..(n - 1) /\ i \in 1..(n - 1)
        BY <1>1, <1>2, <1>4
      <3> QED
        BY <1>1, <1>3, <3>1
    <2> QED
      BY <2>1, <2>2 DEF Leads
  <1>5. ASSUME v # <<>> PROVE MakesIn(v, Head(w))
    <2>1. 1 \in 1..(n - 1)
      BY <1>1, <1>2, <1>5
    <2> QED
      BY <1>1, <1>2, <1>3, <1>5, <2>1 DEF MakesIn
  <1> QED
    BY <1>1, <1>3, <1>4, <1>5 DEF v

LEMMA UpLeads ==
    ASSUME NEW w \in Seq(Paths), w # <<>>, NEW e, Leads(w, e), Head(w) # Root
    PROVE  Leads(<<ParentOf[Head(w)]>> \o w, e)
  <1> DEFINE v == <<ParentOf[Head(w)]>> \o w
             n == Len(w)
  <1>1. n \in Nat \ {0} /\ Head(w) = w[1] /\ w[1] \in Paths
    BY WalkTail
  <1>2. ParentOf[Head(w)] \in Paths
    BY <1>1, TreeAssumption
  <1>3. Len(v) = n + 1 /\ v[1] = ParentOf[Head(w)] /\ \A i \in 1..n : v[i + 1] = w[i]
    BY <1>2, WalkUp
  <1> HIDE DEF v, n
  <1>4. w[n] = e /\ \A i \in 1..(n - 1) : w[i + 1] # Root /\ ParentOf[w[i + 1]] = w[i]
    BY DEF Leads, n
  <1>5. v[Len(v)] = e
    BY <1>1, <1>3, <1>4
  <1>6. ASSUME NEW i \in 1..(Len(v) - 1) PROVE v[i + 1] # Root /\ ParentOf[v[i + 1]] = v[i]
    <2>1. CASE i = 1
      BY <1>1, <1>3, <2>1
    <2>2. CASE i # 1
      <3>1. i - 1 \in 1..(n - 1) /\ i - 1 \in 1..n /\ i \in 1..n
        BY <1>1, <1>3, <2>2
      <3>2. v[i + 1] = w[i] /\ v[(i - 1) + 1] = w[i - 1] /\ (i - 1) + 1 = i
        BY <1>3, <3>1
      <3> QED
        BY <1>4, <3>1, <3>2
    <2> QED
      BY <2>1, <2>2
  <1> QED
    BY <1>5, <1>6 DEF Leads, v

LEMMA WalkLeads ==
    ASSUME NEW c
    PROVE  WalkFits(c) <=> (c.pc \in {"mkdir", "mkdown", "isdir"} => Leads(c.walk, ParentOf[PathOf[c.key]]))
  BY DEF WalkFits, Leads

\* A directory that was made or found is going to get something.
LEMMA MkdirReturnsFills ==
    ASSUME TypeOK, NEW r \in Reqs, req[r].pc \in {"mkdir", "mkdown", "isdir"}, WalkFits(req[r]),
           MkdirReturns(r), NEW d, d = Head(req[r].walk)
    PROVE  WalkFits(req'[r]) /\ Fills(r, d)'
  <1> DEFINE w == req[r].walk
  <1>1. req[r] \in ReqType /\ w \in Seq(Paths) /\ w # <<>> /\ Leads(w, ParentOf[Path(r)])
    BY WalkLeads DEF TypeOK, ReqOK, ReqType, LocalsSet, Path
  <1>2. PICK l \in {"mkdown", "copyopen", "name", "create"} :
            /\ l = "mkdown" <=> Tail(w) # <<>>
            /\ req' = [req EXCEPT ![r].walk = Tail(w), ![r].pc = l]
    BY DEF MkdirReturns
  <1>3. req'[r].pc = l /\ req'[r].walk = Tail(w) /\ req'[r].key = req[r].key
    BY <1>1, <1>2 DEF TypeOK, ReqOK, ReqType
  <1>4. CASE Tail(w) # <<>>
    BY <1>1, <1>2, <1>3, <1>4, TailLeads, WalkLeads DEF Fills, At, Path
  <1>5. CASE Tail(w) = <<>>
    <2>1. Head(w) = ParentOf[Path(r)] /\ l \in {"copyopen", "name", "create"}
      BY <1>1, <1>2, <1>5, TailLeads
    <2> QED
      BY <1>1, <1>3, <2>1 DEF WalkFits, Fills, Path
  <1> QED
    BY <1>4, <1>5

LEMMA AnswerSays ==
    ASSUME TypeOK, NEW r \in Reqs, NEW s, Answer(r, s)
    PROVE  WalkFits(req'[r]) /\ req'[r].pc = "done" /\ req'[r].resp = s
  <1>1. req'[r] = Answered(req[r], s)
    BY DEF Answer, TypeOK, ReqOK
  <1> QED
    BY <1>1 DEF Answered, Idle, WalkFits

LEMMA GotoSays ==
    ASSUME TypeOK, NEW r \in Reqs, NEW l, Goto(r, l)
    PROVE  /\ req'[r].pc = l /\ req'[r].resp = req[r].resp
           /\ req'[r].walk = req[r].walk /\ req'[r].key = req[r].key
  <1>1. req[r] \in ReqType /\ req'[r] = [req[r] EXCEPT !.pc = l]
    BY DEF Goto, TypeOK, ReqOK
  <1> QED
    BY <1>1 DEF ReqType

\* The parent of an object that is made again is going to get the object.
LEMMA EnsureParentFills ==
    ASSUME TypeOK, NEW r \in Reqs, NEW a, EnsureParent(r, a), NEW d, d = ParentOf[Path(r)]
    PROVE  WalkFits(req'[r]) /\ Fills(r, d)' /\ req'[r].resp = req[r].resp
  <1>1. req'[r] = [req[r] EXCEPT !.pc = "mkdir", !.att = a, !.walk = <<ParentOf[Path(r)]>>]
        /\ req[r] \in ReqType
    BY DEF EnsureParent, TypeOK, ReqOK
  <1>2. req'[r].pc = "mkdir" /\ req'[r].walk = <<ParentOf[Path(r)]>> /\ req'[r].key = req[r].key
        /\ req'[r].resp = req[r].resp
    BY <1>1 DEF ReqType
  <1> QED
    BY <1>2 DEF WalkFits, Fills, At, Path

LEMMA RetryOrFailFills ==
    ASSUME TypeOK, NEW r \in Reqs, RetryOrFail(r), NEW d, d = ParentOf[Path(r)]
    PROVE  /\ WalkFits(req'[r])
           /\ \/ Fills(r, d)' /\ req'[r].resp = req[r].resp
              \/ Failed(r)' /\ req'[r].pc = "done"
  BY EnsureParentFills, AnswerSays DEF RetryOrFail, Failed

LEMMA PruneFromPrunes ==
    ASSUME TypeOK, NEW r \in Reqs, NEW d, PruneFrom(r, d)
    PROVE  /\ WalkFits(req'[r])
           /\ req'[r].pc = "done" \/ req'[r].resp = req[r].resp
           /\ PruneEmptyDirs /\ d # Root => Prunes(r, d)'
  <1>1. CASE PruneEmptyDirs /\ d # Root
    <2>1. req[r] \in ReqType /\ req'[r] = [req[r] EXCEPT !.pc = "prune", !.walk = <<d>>]
      BY <1>1 DEF PruneFrom, TypeOK, ReqOK
    <2>2. req'[r].pc = "prune" /\ req'[r].walk = <<d>> /\ req'[r].resp = req[r].resp
      BY <2>1 DEF ReqType
    <2> QED
      BY <2>2 DEF WalkFits, Prunes, At
  <1> QED
    BY <1>1, AnswerSays DEF PruneFrom

\* r gets no answer but 200 before it is done, and its walk is a chain.
WalksOn(r) ==
    /\ WalkFits(req'[r])
    /\ req'[r].pc = "done" \/ req'[r].resp \in {req[r].resp, "200", "none"}

LEMMA MkdirReturnsSays ==
    ASSUME TypeOK, NEW r \in Reqs, MkdirReturns(r)
    PROVE  req'[r].resp = req[r].resp
  <1>1. PICK l, w : req'[r] = [req[r] EXCEPT !.walk = w, !.pc = l]
    BY DEF MkdirReturns, TypeOK, ReqOK
  <1> QED
    BY <1>1 DEF TypeOK, ReqOK, ReqType

LEMMA MkdirWalks ==
    ASSUME TypeOK, NEW r \in Reqs, WalkFits(req[r]), Mkdir(r) \/ IsDirCheck(r)
    PROVE  WalksOn(r)
  <1> DEFINE w == req[r].walk
             d == Head(w)
  <1>1. req[r].pc \in {"mkdir", "mkdown", "isdir"} /\ req[r] \in ReqType
        /\ w \in Seq(Paths) /\ w # <<>> /\ Leads(w, ParentOf[Path(r)])
    BY WalkLeads DEF Mkdir, IsDirCheck, At, TypeOK, ReqOK, ReqType, LocalsSet, Path
  <1>2. CASE MkdirReturns(r)
    BY <1>1, <1>2, MkdirReturnsFills, MkdirReturnsSays DEF WalksOn
  <1>3. CASE Answer(r, "500")
    BY <1>3, AnswerSays DEF WalksOn
  <1>4. CASE Goto(r, "isdir")
    BY <1>1, <1>4, GotoSays DEF WalksOn, WalkFits
  <1>5. CASE d # Root /\ At(r, "mkdir") /\ req' = [req EXCEPT ![r].walk = <<ParentOf[d]>> \o @]
    <2>1. req'[r] = [req[r] EXCEPT !.walk = <<ParentOf[d]>> \o w]
      BY <1>5 DEF TypeOK, ReqOK
    <2>2. req'[r].walk = <<ParentOf[d]>> \o w /\ req'[r].key = req[r].key
          /\ req'[r].resp = req[r].resp
      BY <1>1, <2>1 DEF ReqType
    <2>3. Leads(<<ParentOf[d]>> \o w, ParentOf[Path(r)])
      BY <1>1, <1>5, UpLeads
    <2> QED
      BY <2>2, <2>3, WalkLeads DEF WalksOn, Path
  <1> QED
    BY <1>2, <1>3, <1>4, <1>5 DEF Mkdir, IsDirCheck, MkdirFindsNoParent

LEMMA StepWalks ==
    ASSUME TypeOK, StepsFit, NEW r \in Reqs, WalkFits(req[r]), Start(r) \/ Step(r) \/ Abandon(r)
    PROVE  WalksOn(r)
  <1>1. req[r] \in ReqType /\ req \in [Reqs -> ReqType]
    BY DEF TypeOK, ReqOK
  <1>2. ASSUME NEW l \in Pcs \ {"mkdir", "mkdown", "isdir"}, Goto(r, l) PROVE WalksOn(r)
    BY <1>2, GotoSays DEF WalksOn, WalkFits
  <1>3. ASSUME NEW s, Answer(r, s) PROVE WalksOn(r)
    BY <1>3, AnswerSays DEF WalksOn
  <1>4. ASSUME RetryOrFail(r) PROVE WalksOn(r)
    BY <1>4, RetryOrFailFills DEF WalksOn
  <1>5. ASSUME NEW d, PruneFrom(r, d) PROVE WalksOn(r)
    BY <1>5, PruneFromPrunes DEF WalksOn
  <1>6. ASSUME NEW l \in Pcs \ {"mkdir", "mkdown", "isdir"}, req'[r].pc = l,
               req'[r].resp \in {req[r].resp, "200", "none"}
        PROVE  WalksOn(r)
    BY <1>6 DEF WalksOn, WalkFits
  <1>7. CASE Start(r)
    <2>1. PICK k \in Calls :
            req' = [req EXCEPT ![r] =
               [Idle EXCEPT !.pc = FirstStep(k.op), !.op = k.op, !.key = k.key, !.src = k.src,
                   !.walk = IF k.op = "PUT" THEN <<ParentOf[PathOf[k.key]]>> ELSE <<>>]]
      BY <1>7 DEF Start
    <2>2. /\ FirstStep(k.op) \in {"mkdir", "srcstat", "remove", "lookup", "open"}
          /\ FirstStep(k.op) = "mkdir" => k.op = "PUT"
      BY CallAssumption DEF FirstStep, Ops
    <2>3. /\ req'[r].pc = FirstStep(k.op) /\ req'[r].resp = "none" /\ req'[r].key = k.key
          /\ k.op = "PUT" => req'[r].walk = <<ParentOf[PathOf[k.key]]>>
      BY <1>1, <2>1 DEF Idle
    <2>4. req'[r].pc = "mkdir" => WalkFits(req'[r])
      <3>1. ASSUME NEW d PROVE Leads(<<d>>, d)
        BY DEF Leads
      <3> QED
        BY <2>2, <2>3, <3>1, WalkLeads
    <2>5. req'[r].pc # "mkdir" => WalkFits(req'[r])
      BY <2>2, <2>3 DEF WalkFits
    <2> QED
      BY <2>3, <2>4, <2>5 DEF WalksOn
  <1>8. CASE TakeName(r)
    <2>1. req'[r].pc = "create" /\ req'[r].resp = req[r].resp
      BY <1>1, <1>8 DEF TakeName, ReqType
    <2> QED
      BY <1>6, <2>1 DEF Pcs
  <1>9. ASSUME NEW e, NEW l \in {"write", "copying"}, OpenTrunc(r, e, l) PROVE WalksOn(r)
    <2>1. req'[r].pc = l /\ req'[r].resp = req[r].resp
      BY <1>1, <1>9 DEF OpenTrunc, ReqType
    <2> QED
      BY <1>6, <2>1 DEF Pcs
  <1>10. ASSUME NEW x, WritePiece(r, x), req[r].pc \in {"write", "copying"} PROVE WalksOn(r)
    <2>1. req'[r].pc = req[r].pc /\ req'[r].resp = req[r].resp
      BY <1>1, <1>10 DEF WritePiece, ReqType
    <2> QED
      BY <1>6, <1>10, <2>1 DEF Pcs
  <1>11. ASSUME NEW s, NEW l \in {"prime", "insert"}, req' = [req EXCEPT ![r].pc = l, ![r].stat = s]
         PROVE  WalksOn(r)
    <2>1. req'[r].pc = l /\ req'[r].resp = req[r].resp
      BY <1>1, <1>11 DEF ReqType
    <2> QED
      BY <1>6, <2>1 DEF Pcs
  <1>12. ASSUME NEW f, NEW l \in {"copytrunc", "metadata"}, req' = [req EXCEPT ![r].pc = l, ![r].fd = f]
         PROVE  WalksOn(r)
    <2>1. req'[r].pc = l /\ req'[r].resp = req[r].resp
      BY <1>1, <1>12 DEF ReqType
    <2> QED
      BY <1>6, <2>1 DEF Pcs
  <1>13. CASE HeadLookup(r)
    <2>1. ASSUME NEW c, req' = [req EXCEPT ![r] = Answered(c, "200")] PROVE WalksOn(r)
      <3>1. req'[r].pc = "done" /\ req'[r].resp = "200"
        BY <1>1, <2>1 DEF Answered, Idle
      <3> QED
        BY <1>6, <3>1 DEF Pcs
    <2> QED
      BY <1>2, <1>13, <2>1 DEF HeadLookup, Pcs
  <1>14. CASE GetMetadata(r)
    <2>1. ASSUME NEW s, req' = [req EXCEPT ![r].pc = "stream", ![r].stat = s, ![r].resp = "200"]
          PROVE  WalksOn(r)
      <3>1. req'[r].pc = "stream" /\ req'[r].resp = "200"
        BY <1>1, <2>1 DEF ReqType
      <3> QED
        BY <1>6, <3>1 DEF Pcs
    <2> QED
      BY <1>3, <1>14, <2>1 DEF GetMetadata
  <1>15. CASE GetStream(r)
    <2>1. ASSUME NEW s, At(r, "stream"), req' = [req EXCEPT ![r].got = s] PROVE WalksOn(r)
      <3>1. req'[r].pc = "stream" /\ req'[r].resp = req[r].resp
        BY <1>1, <2>1 DEF ReqType, At
      <3> QED
        BY <1>6, <3>1 DEF Pcs
    <2> QED
      BY <1>3, <1>15, <2>1 DEF GetStream
  <1>16. CASE PutCreate(r) \/ PutWrite(r) \/ PutFlush(r) \/ PutSync(r) \/ PutRename(r) \/ PutFail(r)
              \/ PutCleanup(r)
    BY <1>2, <1>3, <1>4, <1>9, <1>10, <1>16
       DEF PutCreate, PutWrite, PutFlush, AfterFlush, PutSync, PutRename, PutFail, PutCleanup, At, Pcs
  <1>17. CASE WriteUncache(r) \/ Restat(r) \/ PutPrime(r) \/ CopySrcStat(r)
    BY <1>2, <1>3, <1>11, <1>17 DEF WriteUncache, Restat, PutPrime, CopySrcStat, Pcs
  <1>18. CASE CopyCanon(r)
    <2>1. CASE EnsureParent(r, 1)
      BY <2>1, EnsureParentFills DEF WalksOn
    <2> QED
      BY <1>3, <1>18, <2>1 DEF CopyCanon
  <1>19. CASE CopyOpen(r) \/ CopyTrunc(r) \/ CopyPiece(r)
    BY <1>2, <1>4, <1>9, <1>10, <1>12, <1>19 DEF CopyOpen, CopyTrunc, CopyPiece, At, Pcs
  <1>20. CASE DeleteRemove(r) \/ DeleteUncache(r) \/ Prune(r)
    BY <1>2, <1>3, <1>5, <1>20 DEF DeleteRemove, DeleteUncache, Prune, Pcs
  <1>21. CASE HeadStat(r) \/ HeadInsert(r) \/ GetOpen(r) \/ LateRemove(r) \/ LateRmdir(r) \/ Abandon(r)
    BY <1>2, <1>3, <1>11, <1>12, <1>21
       DEF HeadStat, HeadInsert, GetOpen, LateRemove, LateRmdir, Abandon
  <1> QED
    BY <1>7, <1>8, <1>13, <1>14, <1>15, <1>16, <1>17, <1>18, <1>19, <1>20, <1>21, MkdirWalks DEF Step

-----------------------------------------------------------------------------
(* Every step that leaves a directory empty sees to it.                    *)

Sees(r, d) == Failed(r) \/ Fills(r, d) \/ Prunes(r, d)

LEMMA WasEmpty ==
    ASSUME TypeOK, NEW e \in Entries, NEW v, node' = [node EXCEPT ![e] = v], NEW d \in Paths, d # e,
           IsDir(d)', Empty(d)', e # Root /\ DirOf(e) = d /\ v = NoEntry => node[e] = NoEntry
    PROVE  IsDir(d) /\ Empty(d)
  <1>1. d \in Entries /\ node \in [Entries -> Inodes \cup {NoEntry, Directory}]
    BY DEF Entries, TypeOK
  <1>2. \A f \in Entries : f # e => node'[f] = node[f]
    BY <1>1
  <1>3. node'[e] = v
    BY <1>1
  <1>4. ASSUME NEW f \in Entries \ {Root}, DirOf(f) = d PROVE node[f] = NoEntry
    BY <1>2, <1>3, <1>4 DEF Empty
  <1> QED
    BY <1>1, <1>2, <1>4 DEF IsDir, Empty

LEMMA AbandonFails == ASSUME TypeOK, NEW r \in Reqs, Abandon(r) PROVE Failed(r)'
  BY AnswerSays DEF Abandon, Failed

LEMMA TimeoutFails == ASSUME TypeOK, NEW r \in Reqs, Timeout(r) PROVE WalkFits(req'[r]) /\ Failed(r)' /\ req'[r].pc \in {"done", "late_remove", "late_rmdir"}
  <1>1. ASSUME NEW l \in {"late_remove", "late_rmdir"}, req' = [req EXCEPT ![r].pc = l, ![r].resp = "504"]
        PROVE  WalkFits(req'[r]) /\ Failed(r)' /\ req'[r].pc = l
    <2>1. req'[r].pc = l /\ req'[r].resp = "504"
      BY <1>1 DEF TypeOK, ReqOK, ReqType
    <2> QED
      BY <2>1 DEF WalkFits, Failed
  <1> QED
    BY <1>1, AnswerSays DEF Timeout, Failed

\* A PUT or COPY goes on until something is in the directory, or fails.
LEMMA FillsOn ==
    ASSUME TypeOK, TreeClosed, NEW r \in Reqs, WalkFits(req[r]), NEW d \in Paths \ {Root},
           IsDir(d), Empty(d), IsDir(d)', Empty(d)', Fills(r, d),
           Start(r) \/ Step(r) \/ Timeout(r) \/ Abandon(r)
    PROVE  Sees(r, d)'
  <1> DEFINE h == Head(req[r].walk)
  <1>1. req[r] \in ReqType /\ req \in [Reqs -> ReqType] /\ LocalsSet(req[r]) /\ d \in Entries \ {Root}
        /\ node \in [Entries -> Inodes \cup {NoEntry, Directory}]
        /\ Path(r) \in Entries \ {Root} /\ DirOf(Path(r)) = ParentOf[Path(r)]
    BY PathTyped DEF TypeOK, ReqOK, Entries, DirOf
  <1>2. \A e \in Entries \ {Root} : DirOf(e) = d => node[e] = NoEntry /\ node'[e] = NoEntry
    BY DEF Empty
  <1>3. CASE req[r].pc \in {"mkdir", "mkdown"}
    <2>1. Mkdir(r) \/ Abandon(r)
      BY <1>3 DEF Start, Step, Timeout, At, IsDirCheck, TakeName, PutCreate, PutWrite, PutFlush,
                PutSync, PutRename, PutFail, PutCleanup, WriteUncache, Restat, PutPrime,
                CopySrcStat, CopyCanon, CopyOpen, CopyTrunc, CopyPiece, DeleteRemove,
                DeleteUncache, Prune, HeadLookup, HeadStat, HeadInsert, GetOpen, GetMetadata,
                GetStream, LateRemove, LateRmdir
    <2>2. h \in Paths
      BY <1>1, <1>3, WalkTail DEF LocalsSet, ReqType
    <2>3. CASE At(r, "mkdir") /\ d = h
      <3>1. node[d] # NoEntry /\ node[ParentOf[d]] # NoEntry
        BY <1>1, DistinctAssumption DEF TreeClosed, IsDir, DirOf
      <3>2. ~CanMkdir(d) /\ ~MkdirFindsNoParent(d)
        BY <3>1 DEF CanMkdir, MkdirFindsNoParent
      <3>3. Goto(r, "isdir") \/ Abandon(r)
        BY <2>1, <2>3, <3>2 DEF Mkdir
      <3> QED
        BY <2>3, <3>3, GotoSays, AbandonFails DEF Sees, Fills, At
    <2>4. CASE At(r, "mkdown") /\ MakesIn(req[r].walk, d)
      <3>1. h \in Entries \ {Root} /\ DirOf(h) = d
        BY <2>2, <2>4 DEF MakesIn, Entries, DirOf
      <3>2. ~(CanMkdir(h) /\ node' = [node EXCEPT ![h] = Directory])
        BY <1>1, <1>2, <3>1, DistinctAssumption
      <3>3. Goto(r, "isdir") \/ Abandon(r)
        BY <2>1, <2>4, <3>2 DEF Mkdir, At
      <3> QED
        BY <2>4, <3>3, GotoSays, AbandonFails DEF Sees, Fills, At
    <2> QED
      BY <1>3, <2>3, <2>4 DEF Fills, At
  <1>4. CASE At(r, "isdir")
    <2>1. IsDirCheck(r) \/ Abandon(r)
      BY <1>4 DEF Start, Step, Timeout, At, Mkdir, TakeName, PutCreate, PutWrite, PutFlush,
                PutSync, PutRename, PutFail, PutCleanup, WriteUncache, Restat, PutPrime,
                CopySrcStat, CopyCanon, CopyOpen, CopyTrunc, CopyPiece, DeleteRemove,
                DeleteUncache, Prune, HeadLookup, HeadStat, HeadInsert, GetOpen, GetMetadata,
                GetStream, LateRemove, LateRmdir
    <2>2. h \in Paths
      BY <1>1, <1>4, WalkTail DEF LocalsSet, ReqType, At
    <2>3. CASE IsDirCheck(r) /\ IsDir(h)
      <3>1. ~MakesIn(req[r].walk, d)
        <4>1. ASSUME MakesIn(req[r].walk, d) PROVE FALSE
          <5>1. h \in Entries \ {Root} /\ DirOf(h) = d
            BY <2>2, <4>1 DEF MakesIn, Entries, DirOf
          <5> QED
            BY <1>2, <2>3, <5>1, DistinctAssumption DEF IsDir
        <4> QED
          BY <4>1
      <3>2. d = h
        BY <1>4, <3>1 DEF Fills, At
      <3> QED
        BY <1>4, <2>3, <3>2, MkdirReturnsFills DEF IsDirCheck, At, Sees
    <2>4. CASE IsDirCheck(r) /\ ~IsDir(h)
      BY <2>4, AnswerSays DEF IsDirCheck, Sees, Failed
    <2> QED
      BY <2>1, <2>3, <2>4, AbandonFails DEF Sees
  <1>5. CASE req[r].pc \in {"name", "create", "copyopen", "copytrunc"}
    <2>1. TakeName(r) \/ PutCreate(r) \/ CopyOpen(r) \/ CopyTrunc(r) \/ Abandon(r)
      BY <1>5 DEF Start, Step, Timeout, At, Mkdir, IsDirCheck, PutWrite, PutFlush,
                PutSync, PutRename, PutFail, PutCleanup, WriteUncache, Restat, PutPrime,
                CopySrcStat, CopyCanon, CopyPiece, DeleteRemove,
                DeleteUncache, Prune, HeadLookup, HeadStat, HeadInsert, GetOpen, GetMetadata,
                GetStream, LateRemove, LateRmdir
    <2>2. d = ParentOf[Path(r)]
      BY <1>5 DEF Fills, At
    <2>3. CASE TakeName(r)
      <3>1. req'[r].pc = "create" /\ req'[r].key = req[r].key
        BY <1>1, <2>3 DEF TakeName, ReqType
      <3> QED
        BY <2>2, <3>1 DEF Sees, Fills, Path
    <2>4. ASSUME RetryOrFail(r) PROVE Sees(r, d)'
      BY <2>2, <2>4, RetryOrFailFills DEF Sees
    <2>5. ASSUME NEW e \in Entries \ {Root}, DirOf(e) = d, NEW l, OpenTrunc(r, e, l) PROVE FALSE
      <3>1. OpenTruncGives(e, NewInode(r)) # NoEntry
        BY <1>1, DistinctAssumption DEF OpenTruncGives, IsFile, NewInode, Inodes, ReqType
      <3>2. node'[e] # NoEntry
        BY <1>1, <2>5, <3>1 DEF OpenTrunc
      <3> QED
        BY <1>2, <2>5, <3>2
    <2>6. CASE PutCreate(r)
      <3>1. Temp(r) \in Entries \ {Root} /\ DirOf(Temp(r)) = d
        BY <1>1, <2>2, <2>6, TempTyped, TempEntry DEF PutCreate, At, LocalsSet, DirOf, Temp
      <3> QED
        BY <2>4, <2>5, <2>6, <3>1 DEF PutCreate
    <2>7. CASE CopyTrunc(r)
      BY <1>1, <2>2, <2>4, <2>5, <2>7 DEF CopyTrunc
    <2>8. CASE CopyOpen(r)
      <3>1. ASSUME NEW f, req' = [req EXCEPT ![r].pc = "copytrunc", ![r].fd = f] PROVE Sees(r, d)'
        <4>1. req'[r].pc = "copytrunc" /\ req'[r].key = req[r].key
          BY <1>1, <3>1 DEF ReqType
        <4> QED
          BY <2>2, <4>1 DEF Sees, Fills, Path
      <3> QED
        BY <2>4, <2>8, <3>1 DEF CopyOpen
    <2> QED
      BY <2>1, <2>3, <2>6, <2>7, <2>8, AbandonFails DEF Sees
  <1> QED
    BY <1>3, <1>4, <1>5 DEF Fills, At

\* A DELETE goes on until it has pruned the directory, or is cut off.
LEMMA PrunesOn ==
    ASSUME TypeOK, ~MayFail("rmdir"), PruneEmptyDirs, NEW r \in Reqs, NEW d \in Paths \ {Root},
           IsDir(d), Empty(d), IsDir(d)', Prunes(r, d),
           Start(r) \/ Step(r) \/ Timeout(r) \/ Abandon(r)
    PROVE  Sees(r, d)'
  <1>1. CASE At(r, "uncache") /\ req[r].op = "DELETE" /\ d = ParentOf[Path(r)]
    <2>1. DeleteUncache(r) \/ Abandon(r)
      BY <1>1 DEF Start, Step, Timeout, At, Mkdir, IsDirCheck, TakeName, PutCreate, PutWrite,
                PutFlush, PutSync, PutRename, PutFail, PutCleanup, WriteUncache, Restat, PutPrime,
                CopySrcStat, CopyCanon, CopyOpen, CopyTrunc, CopyPiece, DeleteRemove,
                Prune, HeadLookup, HeadStat, HeadInsert, GetOpen, GetMetadata,
                GetStream, LateRemove, LateRmdir
    <2> QED
      BY <1>1, <2>1, PruneFromPrunes, AbandonFails DEF DeleteUncache, Sees
  <1>2. CASE At(r, "prune") /\ d = Head(req[r].walk)
    <2>1. Prune(r) \/ Abandon(r) \/ Timeout(r)
      BY <1>2 DEF Start, Step, At, Mkdir, IsDirCheck, TakeName, PutCreate, PutWrite,
                PutFlush, PutSync, PutRename, PutFail, PutCleanup, WriteUncache, Restat, PutPrime,
                CopySrcStat, CopyCanon, CopyOpen, CopyTrunc, CopyPiece, DeleteRemove,
                DeleteUncache, HeadLookup, HeadStat, HeadInsert, GetOpen, GetMetadata,
                GetStream, LateRemove, LateRmdir
    <2>2. ~Prune(r)
      <3>1. PruneRemoves(d) /\ d \in Entries
        BY DEF PruneRemoves, CanRmdir, Entries
      <3>2. node' # [node EXCEPT ![d] = NoEntry]
        BY <3>1, DistinctAssumption DEF TypeOK, IsDir
      <3> QED
        BY <1>2, <3>1, <3>2 DEF Prune
    <2> QED
      BY <2>1, <2>2, TimeoutFails, AbandonFails DEF Sees
  <1> QED
    BY <1>1, <1>2 DEF Prunes

\* The request whose step leaves the directory empty sees to it.
LEMMA Empties ==
    ASSUME TypeOK, TreeClosed, StepsFit, PruneEmptyDirs, NEW r \in Reqs, WalkFits(req[r]),
           NEW d \in Paths \ {Root}, ~(IsDir(d) /\ Empty(d)), IsDir(d)', Empty(d)',
           Start(r) \/ Step(r) \/ Timeout(r) \/ Abandon(r)
    PROVE  Sees(r, d)'
  <1> DEFINE h == Head(req[r].walk)
  <1>1. req[r] \in ReqType /\ req \in [Reqs -> ReqType] /\ LocalsSet(req[r]) /\ d \in Entries \ {Root}
        /\ node \in [Entries -> Inodes \cup {NoEntry, Directory}]
        /\ Path(r) \in Entries \ {Root} /\ DirOf(Path(r)) = ParentOf[Path(r)]
    BY PathTyped DEF TypeOK, ReqOK, Entries, DirOf
  <1>2. node' # node
    BY DEF IsDir, Empty
  <1>3. ASSUME NEW e \in Entries, NEW v, node' = [node EXCEPT ![e] = v], d # e,
               v # NoEntry \/ DirOf(e) # d
        PROVE  FALSE
    BY <1>3, WasEmpty
  <1>4. CASE Mkdir(r)
    <2>1. CanMkdir(h) /\ node' = [node EXCEPT ![h] = Directory] /\ MkdirReturns(r)
      BY <1>2, <1>4 DEF Mkdir
    <2>2. h \in Entries /\ req[r].pc \in {"mkdir", "mkdown", "isdir"}
      BY <1>1, <1>4, WalkTail DEF LocalsSet, ReqType, Mkdir, Entries
    <2>3. d = h
      BY <1>3, <2>1, <2>2, DistinctAssumption
    <2> QED
      BY <2>1, <2>2, <2>3, MkdirReturnsFills DEF Sees
  <1>5. ASSUME NEW e \in Entries, NEW l, OpenTrunc(r, e, l) PROVE FALSE
    <2> DEFINE i == OpenTruncGives(e, NewInode(r))
    <2>1. i \in Inodes
      BY <1>1 DEF OpenTruncGives, IsFile, NewInode, Inodes, ReqType
    <2>2. node' = [node EXCEPT ![e] = i] /\ i # NoEntry /\ i # Directory
      BY <1>5, <2>1, DistinctAssumption DEF OpenTrunc
    <2>3. d # e
      BY <1>1, <2>2 DEF IsDir
    <2> QED
      BY <1>3, <2>2, <2>3
  <1>6. CASE PutCreate(r)
    <2>1. Temp(r) \in Entries
      BY <1>1, <1>6, TempTyped DEF PutCreate, At, LocalsSet
    <2> QED
      BY <1>2, <1>5, <1>6, <2>1 DEF PutCreate
  <1>7. CASE CopyTrunc(r)
    BY <1>1, <1>2, <1>5, <1>7 DEF CopyTrunc
  <1>8. CASE PutRename(r)
    <2> DEFINE p == Path(r)
               t == Temp(r)
    <2>1. t \in Entries \ {Root} /\ t # p /\ DirOf(t) = ParentOf[p] /\ DirOf(p) = ParentOf[p]
      BY <1>1, <1>8, TempTyped, TempEntry, PathTyped DEF PutRename, At, LocalsSet, DirOf, Temp
    <2>2. node[t] \in Inodes /\ node' = [node EXCEPT ![p] = node[t], ![t] = NoEntry]
      BY <1>8 DEF PutRename, CanRename, IsFile
    <2>3. node'[p] = node[t] /\ node'[t] = NoEntry /\ \A e \in Entries : e # p /\ e # t => node'[e] = node[e]
      BY <1>1, <2>1, <2>2
    <2>4. d # p /\ d # t /\ DirOf(p) # d
      BY <1>1, <2>2, <2>3, DistinctAssumption DEF IsDir, Empty
    <2>5. IsDir(d) /\ \A e \in Entries \ {Root} : DirOf(e) = d => node[e] = NoEntry
      BY <1>1, <2>1, <2>3, <2>4 DEF IsDir, Empty
    <2> QED
      BY <2>5 DEF Empty
  <1>9. CASE PutCleanup(r) \/ LateRemove(r) \/ LateRmdir(r)
    BY <1>9, AnswerSays DEF PutCleanup, LateRemove, LateRmdir, Sees, Failed
  <1>10. CASE DeleteRemove(r)
    <2>1. node' = [node EXCEPT ![Path(r)] = NoEntry] /\ Goto(r, "uncache") /\ req[r].op = "DELETE"
      BY <1>2, <1>10 DEF DeleteRemove, StepsFit, At
    <2>2. d # Path(r)
      BY <1>1, <2>1, DistinctAssumption DEF IsDir
    <2>3. d = ParentOf[Path(r)]
      BY <1>1, <1>3, <2>1, <2>2
    <2>4. req'[r].op = req[r].op /\ req'[r].key = req[r].key /\ req'[r].pc = "uncache"
      BY <2>1, GotoMoves, GotoSays DEF Moves
    <2> QED
      BY <2>1, <2>3, <2>4 DEF Sees, Prunes, At, Path
  <1>11. CASE Prune(r)
    <2>1. node' = [node EXCEPT ![h] = NoEntry] /\ PruneFrom(r, ParentOf[h])
      BY <1>2, <1>11 DEF Prune
    <2>2. h \in Paths \ {Root} /\ h \in Entries
      BY <1>1, <1>11, WalkTail DEF LocalsSet, ReqType, Prune, At, Entries
    <2>3. d # h /\ DirOf(h) = ParentOf[h]
      BY <1>1, <2>1, <2>2, DistinctAssumption DEF IsDir, DirOf
    <2>4. d = ParentOf[h]
      BY <1>3, <2>1, <2>2, <2>3
    <2> QED
      BY <2>1, <2>4, PruneFromPrunes DEF Sees
  <1> QED
    BY <1>2, <1>4, <1>6, <1>7, <1>8, <1>9, <1>10, <1>11
       DEF Start, Timeout, Abandon, Step, IsDirCheck, TakeName, PutWrite, PutFlush, PutSync, PutFail,
           WriteUncache, Restat, PutPrime, CopySrcStat, CopyCanon, CopyOpen, CopyPiece,
           DeleteUncache, HeadLookup, HeadStat, HeadInsert, GetOpen, GetMetadata, GetStream

-----------------------------------------------------------------------------
(* No directory is left with nothing in it.                                *)

LEMMA SkeletonStep ==
    ASSUME TypeOK, TreeClosed, StepsFit, ~MayFail("rmdir"), SkeletonInv, [Next]_vars
    PROVE  SkeletonInv'
  <1>1. CASE UNCHANGED <<node, req>>
    BY <1>1 DEF SkeletonInv, WalkFits, Failed, SeenTo, Fills, Prunes, MakesIn, At, Path, IsDir, Empty
  <1>2. CASE Crash
    <2>1. UNCHANGED node /\ \A r \in Reqs : req'[r] = IF Active(r) THEN Answered(req[r], "lost") ELSE req[r]
      BY <1>2 DEF Crash
    <2>2. ASSUME NEW r \in Reqs, Active(r) PROVE WalkFits(req'[r]) /\ Failed(r)' /\ req'[r].pc = "done"
      BY <2>1, <2>2 DEF Answered, Idle, WalkFits, Failed
    <2>3. ASSUME NEW r \in Reqs, ~Active(r)
          PROVE  req'[r] = req[r] /\ ~(\E d \in Paths : Fills(r, d) \/ Prunes(r, d))
      BY <2>1, <2>3 DEF Active, Fills, Prunes, At
    <2>4. ASSUME NEW d \in Paths, SeenTo(d) PROVE SeenTo(d)'
      <3>1. PICK r \in Reqs : Failed(r) \/ Fills(r, d) \/ Prunes(r, d)
        BY <2>4 DEF SeenTo
      <3>2. Failed(r)'
        BY <2>2, <2>3, <3>1 DEF Failed
      <3> QED
        BY <3>2 DEF SeenTo
    <2>5. \A r \in Reqs : WalkFits(req'[r]) /\ (Failed(r)' => req'[r].pc \in {"done", "late_remove", "late_rmdir"})
      BY <2>2, <2>3 DEF SkeletonInv, Failed
    <2>6. ASSUME NEW d \in Paths PROVE (IsDir(d) /\ Empty(d))' <=> IsDir(d) /\ Empty(d)
      BY <2>1 DEF IsDir, Empty
    <2> QED
      BY <2>4, <2>5, <2>6 DEF SkeletonInv
  <1>3. ASSUME NEW r \in Reqs, Start(r) \/ Step(r) \/ Timeout(r) \/ Abandon(r) PROVE SkeletonInv'
    <2>1. Only(r) /\ WalkFits(req[r]) /\ (Failed(r) => req[r].pc \in {"done", "late_remove", "late_rmdir"})
      <3>1. Start(r) => Only(r)
        BY DEF Start, Only, TypeOK, ReqOK
      <3> QED
        BY <1>3, <3>1, StepsMove DEF Moves, SkeletonInv
    <2>2. At(r, "idle") => req[r].resp = "none"
      <3>1. Idle.resp = "none"
        BY DEF Idle
      <3> QED
        BY <3>1 DEF StepsFit
    <2>3. Failed(r) => LateRemove(r) \/ LateRmdir(r)
      BY <1>3, <2>1, <2>2 DEF Failed, Start, Step, Timeout, Abandon, Active, At, Mkdir, IsDirCheck,
             TakeName, PutCreate, PutWrite, PutFlush, PutSync, PutRename, PutFail, PutCleanup,
             WriteUncache, Restat, PutPrime, CopySrcStat, CopyCanon, CopyOpen, CopyTrunc, CopyPiece,
             DeleteRemove, DeleteUncache, Prune, HeadLookup, HeadStat, HeadInsert, GetOpen,
             GetMetadata, GetStream
    <2>4. Failed(r) => Failed(r)' /\ WalkFits(req'[r]) /\ req'[r].pc = "done"
      BY <2>3, AnswerSays DEF LateRemove, LateRmdir, Failed
    <2>5. WalkFits(req'[r]) /\ (Failed(r)' => req'[r].pc \in {"done", "late_remove", "late_rmdir"})
      BY <1>3, <2>1, <2>4, StepWalks, TimeoutFails DEF WalksOn, Failed
    <2>6. \A q \in Reqs : WalkFits(req'[q])
                          /\ (Failed(q)' => req'[q].pc \in {"done", "late_remove", "late_rmdir"})
      BY <2>1, <2>5 DEF Only, SkeletonInv, Failed
    <2>7. ASSUME PruneEmptyDirs, NEW d \in Paths \ {Root}, IsDir(d)', Empty(d)' PROVE SeenTo(d)'
      <3>1. CASE ~(IsDir(d) /\ Empty(d))
        <4>1. Sees(r, d)'
          BY <1>3, <2>1, <2>7, <3>1, Empties
        <4> QED
          BY <4>1 DEF Sees, SeenTo
      <3>2. CASE IsDir(d) /\ Empty(d)
        <4>1. PICK q \in Reqs : Failed(q) \/ Fills(q, d) \/ Prunes(q, d)
          BY <2>7, <3>2 DEF SkeletonInv, SeenTo
        <4>2. CASE q # r
          <5>1. req'[q] = req[q]
            BY <2>1, <4>2 DEF Only
          <5>2. Failed(q)' \/ Fills(q, d)' \/ Prunes(q, d)'
            BY <4>1, <5>1 DEF Failed, Fills, Prunes, At, Path
          <5> QED
            BY <5>2 DEF SeenTo
        <4>3. CASE q = r
          <5>1. Sees(r, d)'
            BY <1>3, <2>1, <2>4, <2>7, <3>2, <4>1, <4>3, FillsOn, PrunesOn DEF Sees
          <5> QED
            BY <5>1 DEF Sees, SeenTo
        <4> QED
          BY <4>2, <4>3
      <3> QED
        BY <3>1, <3>2
    <2> QED
      BY <2>6, <2>7 DEF SkeletonInv
  <1> QED
    BY <1>1, <1>2, <1>3 DEF Next, vars, CacheLose

\* On any tree, with any number of PUTs, COPYs and DELETEs in it at the same time:
\* when all are answered and none with 500 or 504, no directory is left with nothing
\* in it, because at every moment before that each such directory has a PUT or COPY
\* on its way into it or a DELETE on its way up through it.  It says nothing of a
\* history in which a request failed, timed out or was lost, as a crash under it loses
\* it: such a request may leave a directory behind.  (A removal that storage refuses,
\* and a skeleton that was there when the server first started, are nobody's.)
THEOREM NoSkeletonStays ==
    ASSUME ~MayFail("rmdir"),
           \A d \in InitialDirs \ {Root} :
               \E p \in (Initial \cup InitialDirs) \ {Root} : ParentOf[p] = d
    PROVE  Spec => []NoSkeleton
  <1> DEFINE Inv == UploadInv /\ TreeClosed /\ SkeletonInv
  <1>1. Init => Inv
    <2> SUFFICES ASSUME Init PROVE SkeletonInv
      BY UploadInit, TreeInit
    <2>1. \A r \in Reqs : WalkFits(req[r]) /\ ~Failed(r)
      BY DEF Init, Idle, WalkFits, Failed
    <2>2. ASSUME NEW d \in Paths \ {Root}, IsDir(d), Empty(d) PROVE FALSE
      <3>1. d \in InitialDirs
        BY <2>2, DistinctAssumption DEF Init, StorageInit, IsDir, Entries, Inodes
      <3>2. PICK p \in (Initial \cup InitialDirs) \ {Root} : ParentOf[p] = d
        BY <3>1
      <3>3. p \in Entries \ {Root} /\ DirOf(p) = d /\ node[p] \in {p, Directory}
        BY <3>2, TreeAssumption DEF Init, StorageInit, Entries, DirOf
      <3>4. p # NoEntry
        BY <3>2, TreeAssumption, DistinctAssumption DEF Inodes
      <3> QED
        BY <2>2, <3>3, <3>4, DistinctAssumption DEF Empty
    <2> QED
      BY <2>1, <2>2 DEF SkeletonInv
  <1>2. Inv /\ [Next]_vars => Inv'
    BY UploadStep, TreeStep, SkeletonStep DEF UploadInv
  <1>3. Inv => NoSkeleton
    BY DEF SkeletonInv, NoSkeleton, SeenTo, Failed, Fills, Prunes, Quiet, Active, At
  <1> QED
    BY <1>1, <1>2, <1>3, PTL DEF Spec
==============================================================================
