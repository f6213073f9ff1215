--------------------- MODULE ObjectStoreRefinementProofs ---------------------
(***************************************************************************)
(* Where clients do not COPY, a GET streams one upload, and the handlers   *)
(* implement the atomic map of ObjectMap.                                  *)
(*                                                                         *)
(* Both rest on published files: what a GET opens is the whole of an       *)
(* upload and stays as it is, whatever becomes of its name.                *)
(***************************************************************************)
EXTENDS ObjectStoreProofs, ObjectStoreRefinement

-----------------------------------------------------------------------------
(* Published files.                                                        *)

\* An object is published: its file has no other name, so no upload has it.
LEMMA ObjectPublished ==
    ASSUME IInv, ~CopyAllowed, NEW p \in Paths, IsFile(p)
    PROVE  Published(node[p])
  <1>1. UploadInv /\ TypeOK /\ StepsFit /\ OneName /\ FreshInodes /\ ObjectsSafe
    BY DEF IInv, UploadInv
  <1>2. node[p] \in Inodes /\ p \in Entries /\ p \notin Temps
    BY DistinctAssumption DEF IsFile, Entries
  <1>3. ino[node[p]].data = Whole(ino[node[p]].by) /\ (PowerLoss => ino[node[p]].synced)
    BY <1>1 DEF ObjectsSafe, StepsFit
  <1>4. ASSUME NEW e \in Temps PROVE node[e] # node[p]
    BY <1>1, <1>2 DEF OneName, Entries
  <1>5. ASSUME NEW q \in Reqs, req[q].pc \in Writing PROVE req[q].wfd # node[p]
    <2>1. req[q].op # "COPY" /\ LocalsSet(req[q])
      BY <1>1 DEF StepsFit, TypeOK, ReqOK
    <2>2. Uploading(q)
      BY <1>5, <2>1 DEF Uploading, Writing, LocalsSet
    <2> QED
      BY <1>1, <1>5, <2>2, WrittenAlone
  <1>6. ASSUME NEW q \in Reqs, NEW a \in {1, 2}, Ahead(req[q], a) PROVE <<q, a>> # node[p]
    BY <1>1, <1>2, <1>6 DEF FreshInodes
  <1> QED
    BY <1>2, <1>3, <1>4, <1>5, <1>6 DEF Published

\* What Published says beside the content.
Apart(i) ==
    /\ \A e \in Temps : node[e] # i
    /\ \A q \in Reqs : /\ req[q].pc \in Writing => req[q].wfd # i
                       /\ \A a \in {1, 2} : Ahead(req[q], a) => <<q, a>> # i

LEMMA PublishedFrom ==
    ASSUME NEW i, Published(i), ino'[i] = ino[i], Apart(i)'
    PROVE  Published(i)' /\ ino'[i] = ino[i]
  BY DEF Published, Apart

LEMMA StaysApart ==
    ASSUME NEW i, Apart(i), NEW r \in Reqs, Only(r),
           \A e \in Temps : node'[e] # i,
           req'[r].pc \in Writing => req'[r].wfd # i,
           \A a \in {1, 2} : Ahead(req'[r], a) => Ahead(req[r], a)
    PROVE  Apart(i)'
  <1>1. ASSUME NEW q \in Reqs
        PROVE  /\ req'[q].pc \in Writing => req'[q].wfd # i
               /\ \A a \in {1, 2} : Ahead(req'[q], a) => <<q, a>> # i
    BY DEF Apart, Only
  <1> QED
    BY <1>1 DEF Apart

LEMMA KeptPublishes ==
    ASSUME IInv, NEW r \in Reqs, Kept(r), NEW i, Published(i)
    PROVE  Published(i)' /\ ino'[i] = ino[i]
  <1>1. ino' = ino /\ MildReq(r) /\ MildNode(r) /\ i \in Inodes
    BY DEF Kept, Published
  <1>2. ASSUME NEW e \in Temps PROVE node'[e] # i
    BY <1>1, TempEntry DEF MildNode, Published
  <1>3. ASSUME NEW q \in Reqs PROVE req'[q].pc \in Writing => req'[q].wfd # i
    BY <1>1 DEF MildReq, Mild, Only, Writing, Published
  <1>4. ASSUME NEW q \in Reqs, NEW a \in {1, 2}, Ahead(req'[q], a) PROVE <<q, a>> # i
    BY <1>1, <1>4 DEF MildReq, Mild, Only, Published
  <1>5. Apart(i)'
    BY <1>2, <1>3, <1>4 DEF Apart
  <1> QED
    BY <1>1, <1>5, PublishedFrom

\* An upload under way takes, opens, writes, syncs or renames no published file.
LEMMA StrongPublishes ==
    ASSUME IInv, ~CopyAllowed, NEW r \in Reqs, Strong(r), NEW i, Published(i)
    PROVE  Published(i)' /\ ino'[i] = ino[i]
  <1>1. UploadInv /\ TypeOK /\ req[r] \in ReqType /\ LocalsSet(req[r]) /\ req[r].op # "COPY"
        /\ i \in Inodes /\ Apart(i)
    BY DEF IInv, UploadInv, TypeOK, ReqOK, StepsFit, Published, Apart
  <1>2. CASE TakeName(r)
    <2>1. UNCHANGED <<node, ino>> /\ Only(r) /\ At(r, "name")
          /\ req'[r] = [req[r] EXCEPT !.pc = "create", !.tmp = counter]
      BY <1>1, <1>2 DEF TakeName, Only, TypeOK, ReqOK
    <2>2. req'[r].pc = "create" /\ req'[r].att = req[r].att
      BY <1>1, <2>1 DEF ReqType
    <2>3. Apart(i)'
      BY <1>1, <2>1, <2>2 DEF Apart, Only, Writing, Ahead, BeforeOpen, At
    <2> QED
      BY <2>1, <2>3, PublishedFrom
  <1>3. CASE PutFlush(r) \/ PutSync(r) \/ (Writes(r) /\ UNCHANGED <<node, counter>>)
    <2>1. req[r].pc \in Writing /\ req[r].pc # "copying" /\ UNCHANGED node
      BY <1>1, <1>3 DEF PutFlush, PutSync, Writes, PutWrite, At, Writing, LocalsSet
    <2>2. Only(r) /\ req'[r].pc \in Writing /\ req'[r].wfd = req[r].wfd /\ req'[r].att = req[r].att
      <3>1. CASE PutFlush(r)
        <4>1. Only(r) /\ req'[r] = [req[r] EXCEPT !.pc = AfterFlush]
          BY <1>1, <3>1 DEF PutFlush, Goto, Only, TypeOK, ReqOK
        <4> QED
          BY <1>1, <4>1 DEF AfterFlush, Writing, ReqType
      <3>2. CASE PutSync(r)
        <4>1. Only(r) /\ req'[r] = [req[r] EXCEPT !.pc = "rename"]
          BY <1>1, <3>2 DEF PutSync, Goto, Only, TypeOK, ReqOK
        <4> QED
          BY <1>1, <4>1 DEF Writing, ReqType
      <3>3. CASE Writes(r)
        <4>1. Only(r) /\ req'[r] = [req[r] EXCEPT !.off = req[r].off + 1]
          BY <1>1, <3>3 DEF Writes, PutWrite, WritePiece, Only, TypeOK, ReqOK
        <4> QED
          BY <1>1, <2>1, <4>1 DEF ReqType
      <3> QED
        BY <1>3, <3>1, <3>2, <3>3
    <2>3. req[r].wfd # i
      BY <1>1, <2>1 DEF Apart
    <2>4. ino'[i] = ino[i]
      BY <1>1, <1>3, <2>3 DEF PutFlush, PutSync, Writes, PutWrite, WritePiece, TypeOK
    <2>5. Apart(i)'
      BY <1>1, <2>1, <2>2 DEF Apart, Only, Ahead, Writing, BeforeOpen
    <2> QED
      BY <2>4, <2>5, PublishedFrom
  <1>4. CASE PutRename(r)
    <2>1. ino' = ino /\ Temp(r) \in Entries /\ Path(r) \in Paths /\ At(r, "rename")
      BY <1>1, <1>4, PathTyped, TempTyped DEF PutRename, At, LocalsSet
    <2>2. ASSUME NEW e \in Temps PROVE node'[e] # i
      BY <1>1, <1>4, <2>1, TempEntry, DistinctAssumption DEF PutRename, Apart, TypeOK
    <2>3. Only(r) /\ req'[r] = [req[r] EXCEPT !.pc = "uncache"]
      BY <1>1, <1>4 DEF PutRename, Goto, Only, TypeOK, ReqOK
    <2>4. req'[r].pc = "uncache" /\ req'[r].att = req[r].att
      BY <1>1, <2>3 DEF ReqType
    <2>5. req'[r].pc \notin Writing /\ \A a \in {1, 2} : Ahead(req'[r], a) => Ahead(req[r], a)
      BY <2>1, <2>4 DEF Writing, Ahead, BeforeOpen, At
    <2>6. Apart(i)'
      BY <1>1, <2>2, <2>3, <2>5, StaysApart
    <2> QED
      BY <2>1, <2>6, PublishedFrom
  <1>5. CASE Opens(r)
    <2> DEFINE j == OpenTruncGives(Temp(r), NewInode(r))
    <2>1. At(r, "create") /\ OpenTrunc(r, Temp(r), "write") /\ Temp(r) \in Temps /\ Temp(r) \in Entries
      BY <1>1, <1>5, TempTyped DEF Opens, At, LocalsSet
    <2>2. req[r].pc \in BeforeOpen /\ Ahead(req[r], req[r].att) /\ req[r].att \in {1, 2}
      BY <1>1, <2>1 DEF At, BeforeOpen, Ahead, ReqType
    <2>3. j # i
      BY <1>1, <2>1, <2>2 DEF Apart, OpenTruncGives, NewInode
    <2>4. /\ node' = [node EXCEPT ![Temp(r)] = j] /\ ino' = [ino EXCEPT ![j] = EmptyFile(r)]
          /\ req' = [req EXCEPT ![r].pc = "write", ![r].wfd = j, ![r].off = 0]
      BY <2>1 DEF OpenTrunc
    <2>5. ino'[i] = ino[i] /\ \A e \in Temps : node'[e] # i
      BY <1>1, <2>1, <2>3, <2>4, TempEntry DEF Apart, TypeOK
    <2>6. Only(r) /\ req'[r] = [req[r] EXCEPT !.pc = "write", !.wfd = j, !.off = 0]
      BY <1>1, <2>4 DEF Only, TypeOK, ReqOK
    <2>7. req'[r].pc = "write" /\ req'[r].wfd = j /\ req'[r].att = req[r].att
      BY <1>1, <2>6 DEF ReqType
    <2>8. \A a \in {1, 2} : Ahead(req'[r], a) => Ahead(req[r], a)
      BY <2>2, <2>7 DEF Ahead, BeforeOpen
    <2>9. Apart(i)'
      BY <1>1, <2>3, <2>5, <2>6, <2>7, <2>8, StaysApart
    <2> QED
      BY <2>5, <2>9, PublishedFrom
  <1> QED
    BY <1>2, <1>3, <1>4, <1>5 DEF Strong

LEMMA CrashPublishes ==
    ASSUME IInv, Crash, NEW i, Published(i)
    PROVE  Published(i)' /\ ino'[i] = ino[i]
  <1>1. PICK lost \in SUBSET (IF PowerLoss THEN Unsynced ELSE {}) :
            ino' = [j \in Inodes |-> IF j \in lost THEN [ino[j] EXCEPT !.data = <<>>] ELSE ino[j]]
    BY DEF Crash
  <1>2. i \notin lost /\ i \in Inodes
    BY <1>1 DEF Published, Unsynced
  <1>3. ino'[i] = ino[i] /\ node' = node
    BY <1>1, <1>2 DEF Crash
  <1>4. ASSUME NEW q \in Reqs
        PROVE  req'[q].pc \notin Writing /\ \A a \in {1, 2} : Ahead(req'[q], a) => Ahead(req[q], a)
    <2>1. req'[q] = IF Active(q) THEN Answered(req[q], "lost") ELSE req[q]
      BY DEF Crash
    <2>2. CASE Active(q)
      <3>1. req'[q].pc = "done"
        BY <2>1, <2>2 DEF Answered, Idle
      <3> QED
        BY <3>1 DEF Ahead, Writing
    <2>3. CASE ~Active(q)
      BY <2>1, <2>3 DEF Active, Writing
    <2> QED
      BY <2>2, <2>3
  <1>5. Apart(i)'
    BY <1>3, <1>4 DEF Apart, Published
  <1> QED
    BY <1>3, <1>5, PublishedFrom

LEMMA StaysPublished ==
    ASSUME IInv, ~CopyAllowed, [Next]_vars, NEW i, Published(i)
    PROVE  Published(i)' /\ ino'[i] = ino[i]
  <1>1. CASE UNCHANGED <<node, ino, counter, req>>
    BY <1>1 DEF Published
  <1>2. UploadInv
    BY DEF IInv
  <1> QED
    BY <1>1, <1>2, OtherStepsMild, KeptPublishes, StrongPublishes, CrashPublishes
       DEF Next, CacheLose, vars

-----------------------------------------------------------------------------
(* The ways a step leaves its request.                                     *)

\* r goes on to step l of its call.
Goes(r, l) ==
    /\ Only(r) /\ req'[r].pc = l
    /\ req'[r].op = req[r].op /\ req'[r].key = req[r].key
    /\ req'[r].resp \in {req[r].resp, "504"}

LEMMA GotoGoes == ASSUME TypeOK, NEW r \in Reqs, NEW l, Goto(r, l) PROVE Goes(r, l)
  <1>1. req[r] \in ReqType /\ Only(r) /\ req'[r] = [req[r] EXCEPT !.pc = l]
    BY DEF Goto, Only, TypeOK, ReqOK
  <1> QED
    BY <1>1 DEF Goes, ReqType

LEMMA EnsureParentGoes ==
    ASSUME TypeOK, NEW r \in Reqs, NEW attempt, EnsureParent(r, attempt)
    PROVE  Goes(r, "mkdir")
  <1>1. req[r] \in ReqType /\ Only(r)
        /\ req'[r] = [req[r] EXCEPT !.pc = "mkdir", !.att = attempt, !.walk = <<ParentOf[Path(r)]>>]
    BY DEF EnsureParent, Only, TypeOK, ReqOK
  <1> QED
    BY <1>1 DEF Goes, ReqType

LEMMA RetryOrFailGoes ==
    ASSUME TypeOK, NEW r \in Reqs, RetryOrFail(r)
    PROVE  Goes(r, "mkdir") \/ Answer(r, "500")
  BY EnsureParentGoes DEF RetryOrFail

LEMMA MkdirReturnsGoes ==
    ASSUME TypeOK, NEW r \in Reqs, MkdirReturns(r), req[r].op # "COPY"
    PROVE  Goes(r, "mkdown") \/ Goes(r, "name") \/ Goes(r, "create")
  <1>1. PICK l \in {"mkdown", "name", "create"} :
            req' = [req EXCEPT ![r].walk = Tail(req[r].walk), ![r].pc = l]
    BY DEF MkdirReturns
  <1>2. req[r] \in ReqType /\ Only(r)
        /\ req'[r] = [req[r] EXCEPT !.walk = Tail(req[r].walk), !.pc = l]
    BY <1>1 DEF Only, TypeOK, ReqOK
  <1>3. Goes(r, l)
    BY <1>2 DEF Goes, ReqType
  <1> QED
    BY <1>1, <1>3

LEMMA PruneFromGoes ==
    ASSUME TypeOK, NEW r \in Reqs, NEW d, PruneFrom(r, d)
    PROVE  Goes(r, "prune") \/ Answer(r, "204")
  <1>1. CASE req' = [req EXCEPT ![r].pc = "prune", ![r].walk = <<d>>]
    <2>1. req[r] \in ReqType /\ Only(r)
          /\ req'[r] = [req[r] EXCEPT !.pc = "prune", !.walk = <<d>>]
      BY <1>1 DEF Only, TypeOK, ReqOK
    <2> QED
      BY <2>1 DEF Goes, ReqType
  <1> QED
    BY <1>1 DEF PruneFrom

\* r goes on with the stat it has made.
KeepsStat(r, l, s) == req' = [req EXCEPT ![r].pc = l, ![r].stat = s]

LEMMA KeepStatGoes ==
    ASSUME TypeOK, NEW r \in Reqs, NEW l, NEW s, KeepsStat(r, l, s)
    PROVE  Goes(r, l)
  <1>1. req[r] \in ReqType /\ Only(r) /\ req'[r] = [req[r] EXCEPT !.pc = l, !.stat = s]
    BY DEF KeepsStat, Only, TypeOK, ReqOK
  <1>2. req'[r].pc = l /\ req'[r].op = req[r].op /\ req'[r].key = req[r].key
        /\ req'[r].resp = req[r].resp
    BY <1>1 DEF ReqType
  <1> QED
    BY <1>1, <1>2 DEF Goes

\* A request under way that is no COPY is at a step of its call.
LEMMA StepOfCall ==
    ASSUME IInv, ReadInv, ~CopyAllowed, NEW r \in Reqs
    PROVE  /\ TypeOK /\ req[r] \in ReqType /\ LocalsSet(req[r]) /\ req[r].op # "COPY"
           /\ CallFits(req[r]) /\ ReaderFits(req[r])
  BY DEF IInv, UploadInv, TypeOK, ReqOK, StepsFit, ReadInv

\* The steps of an upload before its rename.
PutPending == PutSteps \ {"uncache", "restat", "prime"}

\* What the steps of a PUT do with their request.
PutMoves(r) ==
    \/ Answer(r, "500")
    \/ req[r].pc = "prime" /\ Answer(r, "200")
    \/ req[r].pc \in PutPending /\ \E l \in PutPending : Goes(r, l)
    \/ req[r].pc \in {"uncache", "restat"} /\ \E l \in {"restat", "prime"} : Goes(r, l)

LEMMA PutStep ==
    ASSUME IInv, ReadInv, ~CopyAllowed, NEW r \in Reqs,
           \/ Mkdir(r) \/ IsDirCheck(r) \/ TakeName(r) \/ PutCreate(r) \/ PutWrite(r)
           \/ PutFlush(r) \/ PutSync(r) \/ PutFail(r) \/ PutCleanup(r)
           \/ WriteUncache(r) \/ Restat(r) \/ PutPrime(r)
    PROVE  req[r].op = "PUT" /\ PutMoves(r)
  <1>1. TypeOK /\ req[r] \in ReqType /\ req[r].op # "COPY" /\ CallFits(req[r])
    BY StepOfCall
  <1>2. req[r].op = "PUT" /\ req[r].pc \in PutSteps
    BY <1>1 DEF Mkdir, IsDirCheck, TakeName, PutCreate, PutWrite, PutFlush, PutSync, PutFail,
                PutCleanup, WriteUncache, Restat, PutPrime, At, CallFits, PutSteps, DeleteSteps,
                HeadSteps, GetSteps
  <1> SUFFICES PutMoves(r)
    BY <1>2
  <1>3. CASE Mkdir(r)
    <2>1. req[r].pc \in {"mkdir", "mkdown"}
      BY <1>3 DEF Mkdir
    <2>2. CASE req' = [req EXCEPT ![r].walk = <<ParentOf[Head(req[r].walk)]>> \o @]
      <3> DEFINE w == <<ParentOf[Head(req[r].walk)]>> \o req[r].walk
      <3>1. Only(r) /\ req'[r] = [req[r] EXCEPT !.walk = w]
        BY <1>1, <2>2 DEF Only, TypeOK, ReqOK
      <3> HIDE DEF w
      <3>2. Goes(r, req[r].pc)
        BY <1>1, <3>1 DEF Goes, ReqType
      <3> QED
        BY <2>1, <3>2 DEF PutMoves, PutPending, PutSteps
    <2>3. CASE MkdirReturns(r) \/ Goto(r, "isdir")
      BY <1>1, <2>1, <2>3, MkdirReturnsGoes, GotoGoes DEF PutMoves, PutPending, PutSteps
    <2> QED
      BY <1>3, <2>2, <2>3 DEF Mkdir
  <1>4. CASE IsDirCheck(r)
    BY <1>1, <1>4, MkdirReturnsGoes DEF IsDirCheck, At, PutMoves, PutPending, PutSteps
  <1>5. CASE TakeName(r)
    <2>1. Only(r) /\ req'[r] = [req[r] EXCEPT !.pc = "create", !.tmp = counter]
      BY <1>1, <1>5 DEF TakeName, Only, TypeOK, ReqOK
    <2>2. Goes(r, "create")
      BY <1>1, <2>1 DEF Goes, ReqType
    <2> QED
      BY <1>5, <2>2 DEF TakeName, At, PutMoves, PutPending, PutSteps
  <1>6. CASE PutCreate(r)
    <2>1. ASSUME OpenTrunc(r, Temp(r), "write") PROVE Goes(r, "write")
      <3> DEFINE i == OpenTruncGives(Temp(r), NewInode(r))
      <3>1. req' = [req EXCEPT ![r].pc = "write", ![r].wfd = i, ![r].off = 0]
        BY <2>1 DEF OpenTrunc
      <3> HIDE DEF i
      <3>2. Only(r) /\ req'[r] = [req[r] EXCEPT !.pc = "write", !.wfd = i, !.off = 0]
        BY <1>1, <3>1 DEF Only, TypeOK, ReqOK
      <3> QED
        BY <1>1, <3>2 DEF Goes, ReqType
    <2> QED
      BY <1>1, <1>6, <2>1, RetryOrFailGoes DEF PutCreate, At, PutMoves, PutPending, PutSteps
  <1>7. CASE PutWrite(r)
    <2>1. Only(r) /\ req'[r] = [req[r] EXCEPT !.off = req[r].off + 1]
      BY <1>1, <1>7 DEF PutWrite, WritePiece, Only, TypeOK, ReqOK
    <2>2. Goes(r, req[r].pc)
      BY <1>1, <2>1 DEF Goes, ReqType
    <2> QED
      BY <1>7, <2>2 DEF PutWrite, At, PutMoves, PutPending, PutSteps
  <1>8. CASE PutFlush(r) \/ PutSync(r) \/ PutFail(r)
    BY <1>1, <1>8, GotoGoes
       DEF PutFlush, PutSync, PutFail, AfterFlush, At, PutMoves, PutPending, PutSteps
  <1>9. CASE PutCleanup(r) \/ PutPrime(r)
    BY <1>9 DEF PutCleanup, PutPrime, At, PutMoves
  <1>10. CASE WriteUncache(r) \/ Restat(r)
    BY <1>1, <1>2, <1>10, GotoGoes, KeepStatGoes DEF KeepsStat, WriteUncache, Restat, At, PutMoves
  <1> QED
    BY <1>2, <1>3, <1>4, <1>5, <1>6, <1>7, <1>8, <1>9, <1>10

\* What the steps of a DELETE do with their request.
DeleteMoves(r) ==
    \/ req[r].pc \in {"remove", "uncache", "prune"} /\ (Goes(r, "prune") \/ Answer(r, "204"))
    \/ req[r].pc = "remove" /\ Goes(r, "uncache")
    \/ req[r].pc \in {"late_remove", "late_rmdir"} /\ Answer(r, "504")

LEMMA DeleteStep ==
    ASSUME IInv, ReadInv, ~CopyAllowed, NEW r \in Reqs,
           DeleteRemove(r) \/ DeleteUncache(r) \/ Prune(r) \/ LateRemove(r) \/ LateRmdir(r)
    PROVE  req[r].op = "DELETE" /\ DeleteMoves(r)
  <1>1. TypeOK /\ req[r] \in ReqType /\ CallFits(req[r])
    BY StepOfCall
  <1>2. req[r].op = "DELETE"
    BY <1>1 DEF DeleteRemove, DeleteUncache, Prune, LateRemove, LateRmdir, At, CallFits, PutSteps,
                HeadSteps, GetSteps
  <1>3. CASE DeleteRemove(r)
    BY <1>1, <1>2, <1>3, GotoGoes, PruneFromGoes DEF DeleteRemove, At, DeleteMoves
  <1>4. CASE DeleteUncache(r)
    BY <1>1, <1>2, <1>4, PruneFromGoes DEF DeleteUncache, At, DeleteMoves
  <1>5. CASE Prune(r)
    BY <1>1, <1>2, <1>5, PruneFromGoes DEF Prune, At, DeleteMoves
  <1>6. CASE LateRemove(r) \/ LateRmdir(r)
    BY <1>1, <1>2, <1>6 DEF LateRemove, LateRmdir, At, DeleteMoves
  <1> QED
    BY <1>3, <1>4, <1>5, <1>6

\* What the steps of a HEAD do with their request.
HeadMoves(r) ==
    \/ Goes(r, "stat") \/ Goes(r, "insert") \/ Answer(r, "404") \/ Answer(r, "200")
    \/ /\ Only(r) /\ req'[r].pc = "done" /\ req'[r].op = req[r].op

LEMMA HeadStep ==
    ASSUME IInv, ReadInv, ~CopyAllowed, NEW r \in Reqs,
           HeadLookup(r) \/ HeadStat(r) \/ HeadInsert(r)
    PROVE  req[r].op = "HEAD" /\ HeadMoves(r)
  <1>1. TypeOK /\ req[r] \in ReqType /\ CallFits(req[r])
    BY StepOfCall
  <1>2. req[r].op = "HEAD"
    BY <1>1 DEF HeadLookup, HeadStat, HeadInsert, At, CallFits, PutSteps, DeleteSteps, GetSteps
  <1>3. CASE HeadLookup(r)
    <2> DEFINE c == [req[r] EXCEPT !.stat = cache[req[r].key]]
    <2>1. CASE req' = [req EXCEPT ![r] = Answered(c, "200")]
      <3>1. Only(r) /\ req'[r] = Answered(c, "200") /\ c.op = req[r].op
        BY <1>1, <2>1 DEF Only, TypeOK, ReqOK, ReqType
      <3>2. req'[r].pc = "done" /\ req'[r].op = req[r].op
        BY <3>1 DEF Answered, Idle
      <3> QED
        BY <1>2, <3>1, <3>2 DEF HeadMoves
    <2>2. CASE Goto(r, "stat")
      BY <1>1, <1>2, <2>2, GotoGoes DEF HeadMoves
    <2> QED
      BY <1>3, <2>1, <2>2 DEF HeadLookup
  <1>4. CASE HeadStat(r) \/ HeadInsert(r)
    BY <1>1, <1>2, <1>4, KeepStatGoes DEF HeadStat, HeadInsert, KeepsStat, HeadMoves
  <1> QED
    BY <1>3, <1>4

LEMMA TimeoutStep ==
    ASSUME IInv, ReadInv, ~CopyAllowed, NEW r \in Reqs, Timeout(r)
    PROVE  \/ Answer(r, "504")
           \/ req[r].pc = "remove" /\ Goes(r, "late_remove")
           \/ req[r].pc = "prune" /\ Goes(r, "late_rmdir")
  <1>1. TypeOK /\ req[r] \in ReqType
    BY StepOfCall
  <1>2. ASSUME NEW l, req' = [req EXCEPT ![r].pc = l, ![r].resp = "504"] PROVE Goes(r, l)
    <2>1. Only(r) /\ req'[r] = [req[r] EXCEPT !.pc = l, !.resp = "504"]
      BY <1>1, <1>2 DEF Only, TypeOK, ReqOK
    <2> QED
      BY <1>1, <2>1 DEF Goes, ReqType
  <1> QED
    BY <1>2 DEF Timeout, At

-----------------------------------------------------------------------------
(* ReadInv, step by step.                                                  *)

Fits(r) == CallFits(req[r]) /\ ReaderFits(req[r])

LEMMA AnswerFits ==
    ASSUME IInv, ReadInv, ~CopyAllowed, NEW r \in Reqs, NEW s, Answer(r, s),
           req[r].op = "GET" => s # "200"
    PROVE  Fits(r)'
  <1>1. TypeOK /\ req[r] \in ReqType /\ CallFits(req[r])
    BY StepOfCall
  <1>2. req'[r] = Answered(req[r], s)
    BY <1>1 DEF Answer, TypeOK, ReqOK
  <1>3. req'[r].pc = "done" /\ req'[r].op = req[r].op /\ req'[r].resp = s
    BY <1>2 DEF Answered, Idle
  <1> QED
    BY <1>1, <1>3 DEF Fits, CallFits, ReaderFits

LEMMA GoesFits ==
    ASSUME IInv, ReadInv, ~CopyAllowed, NEW r \in Reqs, NEW l, Goes(r, l),
           req[r].pc \notin {"idle", "done"}, l \notin {"idle", "done"},
           \/ req[r].op = "PUT" /\ l \in PutSteps
           \/ req[r].op = "DELETE" /\ l \in DeleteSteps
           \/ req[r].op = "HEAD" /\ l \in HeadSteps
    PROVE  Fits(r)'
  <1>1. CallFits(req[r])
    BY StepOfCall
  <1>2. req'[r].resp # "200"
    BY <1>1 DEF CallFits, Goes, PutSteps, DeleteSteps, HeadSteps
  <1>3. l \notin {"open", "metadata", "stream", "done"}
    BY DEF PutSteps, DeleteSteps, HeadSteps
  <1>4. ReaderFits(req[r])'
    BY <1>3 DEF ReaderFits, Goes
  <1>5. CallFits(req[r])'
    BY <1>1, <1>2 DEF CallFits, Goes
  <1> QED
    BY <1>4, <1>5 DEF Fits

LEMMA StartFits ==
    ASSUME IInv, ReadInv, ~CopyAllowed, NEW r \in Reqs, Start(r)
    PROVE  Fits(r)'
  <1>1. PICK k \in Calls :
            req' = [req EXCEPT ![r] =
               [Idle EXCEPT !.pc = FirstStep(k.op), !.op = k.op, !.key = k.key, !.src = k.src,
                   !.walk = IF k.op = "PUT" THEN <<ParentOf[PathOf[k.key]]>> ELSE <<>>]]
    BY DEF Start
  <1>2. TypeOK
    BY StepOfCall
  <1>3. req'[r].pc = FirstStep(k.op) /\ req'[r].op = k.op /\ req'[r].got = <<>> /\ req'[r].resp = "none"
    BY <1>1, <1>2 DEF TypeOK, ReqOK, Idle
  <1>4. k.op \in Ops /\ k.op # "COPY"
    BY CallAssumption DEF CopyAllowed
  <1> QED
    BY <1>3, <1>4
       DEF Fits, CallFits, ReaderFits, FirstStep, Ops, PutSteps, DeleteSteps, HeadSteps, GetSteps

LEMMA RunLen == ASSUME NEW w, NEW n \in Nat PROVE Len([k \in 1..n |-> w]) = n
  <1> DEFINE d == [k \in 1..n |-> w]
  <1>1. d \in Seq({w})
    BY SeqDef
  <1>2. DOMAIN d = 1..n
    OBVIOUS
  <1> QED
    BY <1>1, <1>2, LenProperties

LEMMA RunGrows ==
    ASSUME NEW w, NEW n \in Nat
    PROVE  Append([k \in 1..n |-> w], w) = [k \in 1..(n + 1) |-> w]
  <1> DEFINE d == [k \in 1..n |-> w]
             a == Append(d, w)
  <1>1. d \in Seq({w}) /\ Len(d) = n
    BY SeqDef, RunLen
  <1>2. \A k \in 1..n : d[k] = w
    OBVIOUS
  <1> HIDE DEF d
  <1>3. a \in Seq({w}) /\ Len(a) = n + 1
    BY <1>1, AppendProperties
  <1> HIDE DEF a
  <1>4. a = [k \in 1..(n + 1) |-> a[k]] /\ \A k \in 1..(n + 1) : a[k] = w
    BY <1>3
  <1>5. a = [k \in 1..(n + 1) |-> w]
    BY <1>4
  <1> QED
    BY <1>5 DEF a, d

\* The whole of an upload, as long as it is and piece by piece.
LEMMA WholeIs ==
    ASSUME NEW w
    PROVE  Len(Whole(w)) = Chunks /\ \A k \in 1..Chunks : Whole(w)[k] = w
  BY RunLen, DataAssumption DEF Whole

\* n pieces of upload w.
Run(w, n) == [k \in 1..n |-> w]

\* A GET that is at these steps with file i.
LEMMA ReaderOpened ==
    ASSUME NEW r \in Reqs, NEW i, req'[r].pc = "metadata", req'[r].fd = i,
           req'[r].got = <<>>, i # Directory => Published(i)'
    PROVE  ReaderFits(req[r])'
  BY DEF ReaderFits

LEMMA ReaderStreams ==
    ASSUME NEW r \in Reqs, NEW i, NEW n \in Nat, NEW s,
           req'[r].pc = "stream", req'[r].fd = i, req'[r].stat = s,
           i # Directory => /\ Published(i)' /\ s = StatOf(i)' /\ n <= Chunks
                            /\ req'[r].got = Run(s.by, n)
    PROVE  ReaderFits(req[r])'
  <1>1. i # Directory => Len(req'[r].got) = n
    BY RunLen DEF Run
  <1> QED
    BY <1>1 DEF ReaderFits, Run

LEMMA GetFits ==
    ASSUME NEW r \in Reqs, NEW l \in {"metadata", "stream", "done"}, req'[r].pc = l,
           req'[r].op = "GET", req'[r].resp = "200" => l \in {"stream", "done"}
    PROVE  CallFits(req[r])'
  BY DEF CallFits, GetSteps

\* The GET opens the file of an object, and announces and streams that file.
LEMMA GetOpenFits ==
    ASSUME IInv, ReadInv, ~CopyAllowed, [Next]_vars, NEW r \in Reqs, GetOpen(r)
    PROVE  Fits(r)'
  <1>1. TypeOK /\ req[r] \in ReqType /\ req[r].pc = "open" /\ req[r].op = "GET"
        /\ req[r].got = <<>> /\ req[r].resp # "200"
    BY StepOfCall
       DEF GetOpen, At, CallFits, ReaderFits, PutSteps, DeleteSteps, HeadSteps
  <1>2. PICK n : n = node[Path(r)]
    OBVIOUS
  <1>3. CASE n # NoEntry /\ req' = [req EXCEPT ![r].pc = "metadata", ![r].fd = n]
    <2>1. (n = Directory \/ (n \in Inodes /\ IsFile(Path(r)))) /\ Path(r) \in Paths
      BY <1>1, <1>2, <1>3, PathTyped DEF TypeOK, IsFile
    <2>2. req'[r] = [req[r] EXCEPT !.pc = "metadata", !.fd = n]
      BY <1>1, <1>3 DEF TypeOK, ReqOK
    <2>3. req'[r].pc = "metadata" /\ req'[r].fd = n /\ req'[r].op = "GET"
          /\ req'[r].got = <<>> /\ req'[r].resp # "200"
      BY <1>1, <2>2 DEF ReqType
    <2>4. n # Directory => Published(n)
      BY <1>2, <2>1, ObjectPublished, PathTyped
    <2>5. n # Directory => Published(n)'
      BY <2>4, StaysPublished
    <2> QED
      BY <2>3, <2>5, ReaderOpened, GetFits DEF Fits
  <1> QED
    BY <1>1, <1>2, <1>3, AnswerFits DEF GetOpen

LEMMA GetMetadataFits ==
    ASSUME IInv, ReadInv, ~CopyAllowed, [Next]_vars, NEW r \in Reqs, GetMetadata(r)
    PROVE  Fits(r)'
  <1>1. TypeOK /\ req[r] \in ReqType /\ req[r].pc = "metadata" /\ req[r].op = "GET"
        /\ req[r].got = <<>> /\ req[r].resp # "200" /\ ino' = ino
        /\ (req[r].fd # Directory => Published(req[r].fd))
    BY StepOfCall
       DEF GetMetadata, At, CallFits, ReaderFits, PutSteps, DeleteSteps, HeadSteps
  <1>2. PICK i : i = req[r].fd
    OBVIOUS
  <1>3. PICK s : s = StatOf(i)
    OBVIOUS
  <1>4. CASE req' = [req EXCEPT ![r].pc = "stream", ![r].stat = s, ![r].resp = "200"]
    <2>1. req'[r] = [req[r] EXCEPT !.pc = "stream", !.stat = s, !.resp = "200"]
      BY <1>1, <1>4 DEF TypeOK, ReqOK
    <2>2. req'[r].pc = "stream" /\ req'[r].fd = i /\ req'[r].op = "GET"
          /\ req'[r].got = <<>> /\ req'[r].stat = s
      BY <1>1, <1>2, <2>1 DEF ReqType
    <2>3. i # Directory => Published(i)'
      BY <1>1, <1>2, StaysPublished
    <2>4. StatOf(i)' = s
      BY <1>1, <1>3 DEF StatOf
    <2>5. req'[r].got = [k \in 1..0 |-> s.by]
      BY <2>2
    <2>6. i # Directory => /\ Published(i)' /\ s = StatOf(i)' /\ 0 <= Chunks
                           /\ req'[r].got = Run(s.by, 0)
      BY <2>3, <2>4, <2>5, DataAssumption DEF Run
    <2>7. ReaderFits(req[r])'
      <3>1. req'[r].pc = "stream" /\ req'[r].fd = i /\ req'[r].stat = s /\ 0 \in Nat
        BY <2>2
      <3> QED
        BY <2>6, <3>1, ReaderStreams
    <2> QED
      BY <2>2, <2>7, GetFits DEF Fits
  <1> QED
    BY <1>1, <1>2, <1>3, <1>4, AnswerFits DEF GetMetadata

LEMMA GetStreamFits ==
    ASSUME IInv, ReadInv, ~CopyAllowed, [Next]_vars, NEW r \in Reqs, GetStream(r)
    PROVE  Fits(r)'
  <1>1. TypeOK /\ req[r] \in ReqType /\ ReaderFits(req[r]) /\ req[r].pc = "stream"
        /\ req[r].op = "GET" /\ ino' = ino
    BY StepOfCall
       DEF GetStream, At, CallFits, PutSteps, DeleteSteps, HeadSteps
  <1>2. PICK i : i = req[r].fd
    OBVIOUS
  <1>3. PICK s : s = req[r].stat
    OBVIOUS
  <1>4. PICK n : n = Len(req[r].got)
    OBVIOUS
  <1>5. n \in Nat
    BY <1>1, <1>4 DEF ReqType
  <1>6. ASSUME i # Directory
        PROVE  /\ Published(i) /\ Published(i)' /\ s = StatOf(i) /\ n <= Chunks
               /\ req[r].got = [k \in 1..n |-> s.by]
    BY <1>1, <1>2, <1>3, <1>4, <1>6, StaysPublished DEF ReaderFits
  <1>7. ASSUME i # Directory
        PROVE  /\ s.by = ino[i].by /\ s.size = Chunks /\ Len(ino[i].data) = Chunks
               /\ \A k \in 1..Chunks : ino[i].data[k] = s.by
    <2>1. ino[i].data = Whole(ino[i].by)
      BY <1>6, <1>7 DEF Published
    <2>2. Len(ino[i].data) = Chunks /\ \A k \in 1..Chunks : ino[i].data[k] = ino[i].by
      BY <2>1, WholeIs
    <2>3. s.by = ino[i].by /\ s.size = Len(ino[i].data)
      BY <1>6, <1>7 DEF StatOf
    <2> QED
      BY <2>2, <2>3
  <1>8. CASE /\ i # Directory /\ n < s.size
             /\ req' = [req EXCEPT ![r].got = Append(@, ino[i].data[n + 1])]
    <2>1. n + 1 \in 1..Chunks /\ n + 1 \in Nat /\ n + 1 <= Chunks
      BY <1>5, <1>7, <1>8, DataAssumption
    <2>2. PICK g : g = Append(req[r].got, ino[i].data[n + 1])
      OBVIOUS
    <2>3. g = [k \in 1..(n + 1) |-> s.by]
      BY <1>5, <1>6, <1>7, <1>8, <2>1, <2>2, RunGrows
    <2>4. req'[r] = [req[r] EXCEPT !.got = g]
      BY <1>1, <1>8, <2>2 DEF TypeOK, ReqOK
    <2>5. req'[r].pc = "stream" /\ req'[r].fd = i /\ req'[r].op = "GET"
          /\ req'[r].got = g /\ req'[r].stat = s
      BY <1>1, <1>2, <1>3, <2>4 DEF ReqType
    <2>6. StatOf(i)' = StatOf(i)
      BY <1>1 DEF StatOf
    <2>7. i # Directory => /\ Published(i)' /\ s = StatOf(i)' /\ n + 1 <= Chunks
                           /\ req'[r].got = Run(s.by, n + 1)
      BY <1>6, <2>1, <2>3, <2>5, <2>6 DEF Run
    <2>8. ReaderFits(req[r])'
      <3>1. req'[r].pc = "stream" /\ req'[r].fd = i /\ req'[r].stat = s
        BY <2>5
      <3> QED
        BY <2>1, <2>7, <3>1, ReaderStreams
    <2> QED
      BY <2>5, <2>8, GetFits DEF Fits
  <1>9. CASE /\ Answer(r, "200")
             /\ ~(i # Directory /\ n < s.size /\ n < Len(ino[i].data))
    <2>1. req'[r] = Answered(req[r], "200")
      BY <1>1, <1>9 DEF Answer, TypeOK, ReqOK
    <2>2. req'[r].pc = "done" /\ req'[r].op = "GET" /\ req'[r].fd = i
          /\ req'[r].got = req[r].got /\ req'[r].stat = s
      BY <1>1, <1>2, <1>3, <2>1 DEF Answered, Idle
    <2>3. ASSUME i # Directory PROVE s.size = Chunks /\ req[r].got = Whole(s.by)
      <3>1. n = Chunks
        BY <1>5, <1>6, <1>7, <1>9, <2>3, DataAssumption
      <3> QED
        BY <1>6, <1>7, <2>3, <3>1 DEF Whole
    <2>4. ReaderFits(req[r])'
      BY <2>2, <2>3 DEF ReaderFits
    <2> QED
      BY <2>2, <2>4, GetFits DEF Fits
  <1> QED
    BY <1>2, <1>3, <1>4, <1>8, <1>9 DEF GetStream

\* A reader keeps what it has, whatever the others do.
LEMMA OthersFit ==
    ASSUME IInv, ReadInv, ~CopyAllowed, [Next]_vars, NEW q \in Reqs, req'[q] = req[q]
    PROVE  Fits(q)'
  <1>1. CallFits(req[q]) /\ ReaderFits(req[q])
    BY StepOfCall
  <1>2. ASSUME req[q].pc \in {"metadata", "stream"}, req[q].fd # Directory
        PROVE  Published(req[q].fd)' /\ StatOf(req[q].fd)' = StatOf(req[q].fd)
    BY <1>1, <1>2, StaysPublished DEF ReaderFits, StatOf
  <1>3. ReaderFits(req[q])'
    BY <1>1, <1>2 DEF ReaderFits
  <1> QED
    BY <1>1, <1>3 DEF Fits, CallFits

\* The request that steps fits its call again, and no other one has moved.
Fine(r) == Fits(r)' /\ Only(r)

LEMMA AnswerOnly ==
    ASSUME TypeOK, NEW r \in Reqs, NEW s, Answer(r, s)
    PROVE  Only(r)
  BY DEF Answer, Only, TypeOK, ReqOK

LEMMA PutFine ==
    ASSUME IInv, ReadInv, ~CopyAllowed, NEW r \in Reqs, req[r].op = "PUT", PutMoves(r)
    PROVE  Fine(r)
  <1>1. TypeOK
    BY StepOfCall
  <1>2. ASSUME NEW s, Answer(r, s) PROVE Fine(r)
    BY <1>1, <1>2, AnswerFits, AnswerOnly DEF Fine
  <1>3. ASSUME NEW l \in PutSteps, req[r].pc \in PutSteps, Goes(r, l) PROVE Fine(r)
    <2>1. req[r].pc \notin {"idle", "done"} /\ l \notin {"idle", "done"}
      BY <1>3 DEF PutSteps
    <2> QED
      BY <1>3, <2>1, GoesFits DEF Fine, Goes
  <1>4. PutPending \subseteq PutSteps /\ {"uncache", "restat", "prime"} \subseteq PutSteps
    BY DEF PutPending, PutSteps
  <1> QED
    BY <1>2, <1>3, <1>4 DEF PutMoves

LEMMA DeleteFine ==
    ASSUME IInv, ReadInv, ~CopyAllowed, NEW r \in Reqs, req[r].op = "DELETE", DeleteMoves(r)
    PROVE  Fine(r)
  <1>1. TypeOK
    BY StepOfCall
  <1>2. ASSUME NEW s, Answer(r, s) PROVE Fine(r)
    BY <1>1, <1>2, AnswerFits, AnswerOnly DEF Fine
  <1>3. ASSUME NEW l \in DeleteSteps, req[r].pc \in DeleteSteps, Goes(r, l) PROVE Fine(r)
    <2>1. req[r].pc \notin {"idle", "done"} /\ l \notin {"idle", "done"}
      BY <1>3 DEF DeleteSteps
    <2> QED
      BY <1>3, <2>1, GoesFits DEF Fine, Goes
  <1> QED
    BY <1>2, <1>3 DEF DeleteMoves, DeleteSteps

LEMMA HeadFine ==
    ASSUME IInv, ReadInv, ~CopyAllowed, NEW r \in Reqs, req[r].op = "HEAD",
           req[r].pc \in HeadSteps, HeadMoves(r)
    PROVE  Fine(r)
  <1>1. TypeOK
    BY StepOfCall
  <1>2. ASSUME NEW s, Answer(r, s) PROVE Fine(r)
    BY <1>1, <1>2, AnswerFits, AnswerOnly DEF Fine
  <1>3. ASSUME NEW l \in HeadSteps, Goes(r, l) PROVE Fine(r)
    <2>1. req[r].pc \notin {"idle", "done"} /\ l \notin {"idle", "done"}
      BY <1>3 DEF HeadSteps
    <2> QED
      BY <1>3, <2>1, GoesFits DEF Fine, Goes
  <1>4. CASE Only(r) /\ req'[r].pc = "done" /\ req'[r].op = req[r].op
    <2>1. \E call \in Calls : call.op = "HEAD"
      BY StepOfCall DEF CallFits
    <2> QED
      BY <1>4, <2>1 DEF Fine, Fits, CallFits, ReaderFits
  <1> QED
    BY <1>2, <1>3, <1>4 DEF HeadMoves, HeadSteps

LEMMA GetFine ==
    ASSUME IInv, ReadInv, ~CopyAllowed, [Next]_vars, NEW r \in Reqs,
           GetOpen(r) \/ GetMetadata(r) \/ GetStream(r)
    PROVE  Fine(r)
  <1>1. Fits(r)'
    BY GetOpenFits, GetMetadataFits, GetStreamFits
  <1>2. TypeOK
    BY StepOfCall
  <1>3. Only(r)
    <2>1. ASSUME NEW s, Answer(r, s) PROVE Only(r)
      BY <1>2, <2>1, AnswerOnly
    <2>2. CASE GetOpen(r)
      BY <1>2, <2>1, <2>2 DEF GetOpen, Only, TypeOK, ReqOK
    <2>3. CASE GetMetadata(r)
      BY <1>2, <2>1, <2>3 DEF GetMetadata, Only, TypeOK, ReqOK
    <2>4. CASE GetStream(r)
      BY <1>2, <2>1, <2>4 DEF GetStream, Only, TypeOK, ReqOK
    <2> QED
      BY <2>2, <2>3, <2>4
  <1> QED
    BY <1>1, <1>3 DEF Fine

\* Where clients do not COPY, no request is at a step of one.
LEMMA NoCopySteps ==
    ASSUME IInv, ReadInv, ~CopyAllowed, NEW r \in Reqs
    PROVE  ~(CopySrcStat(r) \/ CopyCanon(r) \/ CopyOpen(r) \/ CopyTrunc(r) \/ CopyPiece(r))
  <1>1. req[r].pc \notin {"srcstat", "canon", "copyopen", "copytrunc", "copying"}
    BY StepOfCall DEF CallFits, PutSteps, DeleteSteps, HeadSteps, GetSteps
  <1> QED
    BY <1>1 DEF CopySrcStat, CopyCanon, CopyOpen, CopyTrunc, CopyPiece, At

LEMMA StepFine ==
    ASSUME IInv, ReadInv, ~CopyAllowed, [Next]_vars, NEW r \in Reqs,
           Start(r) \/ Step(r) \/ Timeout(r) \/ Abandon(r)
    PROVE  Fine(r)
  <1>1. TypeOK /\ CallFits(req[r])
    BY StepOfCall
  <1>2. CASE Start(r)
    BY <1>1, <1>2, StartFits DEF Start, Fine, Only, TypeOK, ReqOK
  <1>3. CASE \/ Mkdir(r) \/ IsDirCheck(r) \/ TakeName(r) \/ PutCreate(r) \/ PutWrite(r)
             \/ PutFlush(r) \/ PutSync(r) \/ PutFail(r) \/ PutCleanup(r)
             \/ WriteUncache(r) \/ Restat(r) \/ PutPrime(r)
    BY <1>3, PutStep, PutFine
  <1>4. CASE PutRename(r)
    <2>1. Goes(r, "uncache") /\ req[r].pc = "rename"
      BY <1>1, <1>4, GotoGoes DEF PutRename, At
    <2>2. req[r].op = "PUT"
      BY <1>1, <2>1 DEF CallFits, DeleteSteps, HeadSteps, GetSteps
    <2> QED
      BY <2>1, <2>2, GoesFits DEF Fine, Goes, PutSteps
  <1>5. CASE DeleteRemove(r) \/ DeleteUncache(r) \/ Prune(r) \/ LateRemove(r) \/ LateRmdir(r)
    BY <1>5, DeleteStep, DeleteFine
  <1>6. CASE HeadLookup(r) \/ HeadStat(r) \/ HeadInsert(r)
    <2>1. req[r].pc \in HeadSteps
      BY <1>6 DEF HeadLookup, HeadStat, HeadInsert, At, HeadSteps
    <2> QED
      BY <1>6, <2>1, HeadStep, HeadFine
  <1>7. CASE GetOpen(r) \/ GetMetadata(r) \/ GetStream(r)
    BY <1>7, GetFine
  <1>8. CASE Timeout(r)
    <2>1. ASSUME Answer(r, "504") PROVE Fine(r)
      BY <1>1, <2>1, AnswerFits, AnswerOnly DEF Fine
    <2>2. ASSUME req[r].pc \in {"remove", "prune"}, NEW l \in {"late_remove", "late_rmdir"}, Goes(r, l)
          PROVE Fine(r)
      <3>1. req[r].op = "DELETE"
        BY <1>1, <2>2 DEF CallFits, PutSteps, HeadSteps, GetSteps
      <3> QED
        BY <2>2, <3>1, GoesFits DEF Fine, Goes, DeleteSteps
    <2> QED
      BY <1>8, <2>1, <2>2, TimeoutStep
  <1>9. CASE Abandon(r)
    BY <1>1, <1>9, AnswerFits, AnswerOnly DEF Abandon, Fine
  <1> QED
    BY <1>2, <1>3, <1>4, <1>5, <1>6, <1>7, <1>8, <1>9, NoCopySteps DEF Step

LEMMA CrashFits ==
    ASSUME IInv, ReadInv, ~CopyAllowed, [Next]_vars, Crash
    PROVE  ReadInv'
  <1>1. ASSUME NEW r \in Reqs PROVE Fits(r)'
    <2>1. req'[r] = IF Active(r) THEN Answered(req[r], "lost") ELSE req[r]
      BY DEF Crash
    <2>2. CASE Active(r)
      <3>1. req'[r].pc = "done" /\ req'[r].op = req[r].op /\ req'[r].resp = "lost"
        BY <2>1, <2>2 DEF Answered, Idle
      <3>2. CallFits(req[r])
        BY StepOfCall
      <3> QED
        BY <3>1, <3>2 DEF Fits, CallFits, ReaderFits
    <2> QED
      BY <2>1, <2>2, OthersFit
  <1> QED
    BY <1>1 DEF ReadInv, Fits

LEMMA ReadStep ==
    ASSUME IInv, ReadInv, ~CopyAllowed, [Next]_vars
    PROVE  ReadInv'
  <1>1. ASSUME NEW r \in Reqs, Start(r) \/ Step(r) \/ Timeout(r) \/ Abandon(r)
        PROVE  ReadInv'
    <2>1. Fits(r)' /\ Only(r)
      BY <1>1, StepFine DEF Fine
    <2>2. ASSUME NEW q \in Reqs PROVE Fits(q)'
      BY <2>1, OthersFit DEF Only
    <2> QED
      BY <2>2 DEF ReadInv, Fits
  <1>2. CASE UNCHANGED req
    BY <1>2, OthersFit DEF ReadInv, Fits
  <1> QED
    BY <1>1, <1>2, CrashFits DEF Next, CacheLose, vars

LEMMA ReadInit == Init => ReadInv
  <1>1. ASSUME Init, NEW r \in Reqs PROVE CallFits(req[r]) /\ ReaderFits(req[r])
    <2>1. req[r] = Idle
      BY <1>1 DEF Init
    <2>2. req[r].pc = "idle" /\ req[r].op = "GET" /\ req[r].resp = "none"
      BY <2>1 DEF Idle
    <2> QED
      BY <2>2 DEF CallFits, ReaderFits
  <1> QED
    BY <1>1 DEF ReadInv

\* What readers hold open is published, whatever the writers, the deletes and the
\* crashes do, as long as clients do not COPY.
THEOREM ReadersHoldPublished ==
    ASSUME PowerLoss => Fsync, ~CopyAllowed
    PROVE  Spec => []ReadInv
  <1>1. IInv /\ ReadInv /\ [Next]_vars => ReadInv'
    BY ReadStep
  <1> QED
    BY <1>1, ReadInit, Inductive, PTL DEF Spec

\* A part of an upload is what its beginning is.
LEMMA RunOfWhole ==
    ASSUME NEW w, NEW n \in Nat, n <= Chunks
    PROVE  SubSeq(Whole(w), 1, n) = Run(w, n)
  BY WholeIs, DataAssumption DEF Whole, Run

\* Where clients do not COPY, what a GET streams is the upload its ETag and its
\* length announced, and all of it when it ends, though the object be replaced,
\* deleted or its directory pruned meanwhile.
THEOREM ReadsStayConsistent ==
    ASSUME PowerLoss => Fsync, ~CopyAllowed
    PROVE  Spec => []GetConsistent
  <1>1. ASSUME IInv, ReadInv PROVE GetConsistent
    <2>1. ASSUME NEW r \in Reqs, req[r].op = "GET", req[r].resp = "200", req[r].fd # Directory
          PROVE  /\ req[r].stat.size = Len(Whole(req[r].stat.by))
                 /\ req[r].got = SubSeq(Whole(req[r].stat.by), 1, Len(req[r].got))
                 /\ At(r, "done") => req[r].got = Whole(req[r].stat.by)
      <3>1. PICK w : w = req[r].stat.by
        OBVIOUS
      <3>2. CallFits(req[r]) /\ ReaderFits(req[r]) /\ req[r] \in ReqType
        BY <1>1 DEF ReadInv, IInv, UploadInv, TypeOK, ReqOK
      <3>3. CASE req[r].pc = "stream"
        <4>1. /\ Published(req[r].fd) /\ req[r].stat = StatOf(req[r].fd)
              /\ Len(req[r].got) <= Chunks /\ req[r].got = Run(w, Len(req[r].got))
          BY <2>1, <3>1, <3>2, <3>3 DEF ReaderFits, Run
        <4>2. req[r].stat.size = Len(Whole(w))
          <5>1. ino[req[r].fd].by = w /\ req[r].stat.size = Len(ino[req[r].fd].data)
            BY <2>1, <3>1, <4>1 DEF StatOf
          <5> QED
            BY <4>1, <5>1 DEF Published
        <4>3. Len(req[r].got) \in Nat
          BY <3>2 DEF ReqType
        <4> QED
          BY <3>1, <3>3, <4>1, <4>2, <4>3, RunOfWhole DEF At
      <3>4. CASE req[r].pc = "done"
        <4>1. req[r].stat.size = Chunks /\ req[r].got = Whole(w)
          BY <2>1, <3>1, <3>2, <3>4 DEF ReaderFits
        <4>2. Len(Whole(w)) = Chunks /\ Chunks \in Nat
          BY WholeIs, DataAssumption
        <4>3. SubSeq(Whole(w), 1, Chunks) = Whole(w)
          BY <4>2, RunOfWhole DEF Run, Whole
        <4> QED
          BY <3>1, <4>1, <4>2, <4>3
      <3> QED
        BY <2>1, <3>2, <3>3, <3>4 DEF CallFits
    <2> QED
      BY <2>1 DEF GetConsistent
  <1> QED
    BY <1>1, Inductive, ReadersHoldPublished, PTL

-----------------------------------------------------------------------------
(* The refinement: the steps of ObjectMap, in terms of what changes.       *)

\* A call that has begun.
Called(phase, kind, name, seen) ==
    [phase |-> phase, kind |-> kind, name |-> name, seen |-> seen]

\* The call of r becomes v, and no other changes.
Changes(r, v) == CallNow' = [q \in Reqs |-> IF q = r THEN v ELSE CallNow[q]]

\* What two fields of it become.
Recall(x, phase, seen) == [x EXCEPT !.phase = phase, !.seen = seen]

LEMMA Recalled ==
    ASSUME NEW x, NEW p, NEW k, NEW n, NEW s, NEW p2, NEW s2, x = Called(p, k, n, s)
    PROVE  Recall(x, p2, s2) = Called(p2, k, n, s2)
  <1> DEFINE y == [x EXCEPT !.phase = p2]
  <1>1. y = Called(p2, k, n, s)
    BY DEF Called
  <1>2. Recall(x, p2, s2) = [y EXCEPT !.seen = s2]
    BY DEF Recall
  <1> HIDE DEF y
  <1> QED
    BY <1>1, <1>2 DEF Called

LEMMA AsExcept ==
    ASSUME NEW r \in Reqs, NEW v, Changes(r, v)
    PROVE  CallNow' = [CallNow EXCEPT ![r] = v]
  <1>1. CallNow = [q \in Reqs |-> CallNow[q]]
    BY DEF CallNow
  <1> QED
    BY <1>1 DEF Changes

LEMMA AsInvoke ==
    ASSUME NEW r \in Reqs, NEW k \in {"PUT", "DELETE", "GET"}, NEW n \in Paths,
           CallNow[r] = [phase |-> "idle"], Changes(r, Called("pending", k, n, Missing)),
           ObjNow' = ObjNow
    PROVE  Map!MapNext
  <1>1. CallNow' = [CallNow EXCEPT ![r] = Called("pending", k, n, Missing)]
    BY AsExcept
  <1>2. Map!Invoke(r)
    BY <1>1 DEF Map!Invoke, Map!NotCalled, Map!Kinds, Called
  <1> QED
    BY <1>2 DEF Map!MapNext

LEMMA AsFail ==
    ASSUME NEW r \in Reqs, NEW p \in {"pending", "applied", "late"}, NEW k, NEW n, NEW s,
           CallNow[r] = Called(p, k, n, s), Changes(r, Called("failed", k, n, Missing)),
           ObjNow' = ObjNow
    PROVE  Map!MapNext
  <1>1. CallNow[r].phase = p
    BY DEF Called
  <1>2. [CallNow[r] EXCEPT !.phase = "failed", !.seen = Missing] = Called("failed", k, n, Missing)
    <2>1. Recall(CallNow[r], "failed", Missing) = Called("failed", k, n, Missing)
      BY Recalled
    <2> QED
      BY <2>1 DEF Recall
  <1>3. Map!Fail({r})
    BY <1>1, <1>2 DEF Map!Fail, Map!Failed, Changes
  <1> QED
    BY <1>3 DEF Map!MapNext

LEMMA AsSucceed ==
    ASSUME NEW r \in Reqs, NEW k, NEW n, NEW s, CallNow[r] = Called("applied", k, n, s),
           Changes(r, Called("ok", k, n, s)), ObjNow' = ObjNow
    PROVE  Map!MapNext
  <1>1. CallNow[r].phase = "applied"
    BY DEF Called
  <1>2. [CallNow[r] EXCEPT !.phase = "ok"] = Called("ok", k, n, s)
    BY DEF Called
  <1>3. CallNow' = [CallNow EXCEPT ![r] = [CallNow[r] EXCEPT !.phase = "ok"]]
    BY <1>2, AsExcept
  <1>4. Map!Succeed(r)
    BY <1>1, <1>3 DEF Map!Succeed
  <1> QED
    BY <1>4 DEF Map!MapNext

LEMMA AsTimeOut ==
    ASSUME NEW r \in Reqs, NEW n, NEW s, CallNow[r] = Called("pending", "DELETE", n, s),
           Changes(r, Called("late", "DELETE", n, Missing)), ObjNow' = ObjNow
    PROVE  Map!MapNext
  <1>1. CallNow[r].phase = "pending" /\ CallNow[r].kind = "DELETE"
    BY DEF Called
  <1>2. [CallNow[r] EXCEPT !.phase = "late", !.seen = Missing] = Called("late", "DELETE", n, Missing)
    <2>1. Recall(CallNow[r], "late", Missing) = Called("late", "DELETE", n, Missing)
      BY Recalled
    <2> QED
      BY <2>1 DEF Recall
  <1>3. CallNow' = [CallNow EXCEPT ![r] = [CallNow[r] EXCEPT !.phase = "late", !.seen = Missing]]
    BY <1>2, AsExcept
  <1>4. Map!TimeOut(r)
    BY <1>1, <1>3 DEF Map!TimeOut, Map!Failed
  <1> QED
    BY <1>4 DEF Map!MapNext

\* How the map of objects changes when a call takes effect.
Affects(r, kind, name) ==
    /\ kind = "PUT" => ObjNow' = [ObjNow EXCEPT ![name] = r]
    /\ kind = "DELETE" => ObjNow' = [ObjNow EXCEPT ![name] = Missing]
    /\ kind = "GET" => ObjNow' = ObjNow

LEMMA AsEffect ==
    ASSUME NEW r \in Reqs, NEW k \in {"PUT", "DELETE", "GET"}, NEW n,
           CallNow[r].kind = k, CallNow[r].name = n, Affects(r, k, n)
    PROVE  Map!Effect(r)
  BY DEF Map!Effect, Affects

LEMMA AsTake ==
    ASSUME NEW r \in Reqs, NEW k \in {"PUT", "DELETE", "GET"}, NEW n, NEW s,
           NEW p \in {"applied", "ok"}, NEW t, t = IF k = "GET" THEN ObjNow[n] ELSE Missing,
           CallNow[r] = Called("pending", k, n, s), Changes(r, Called(p, k, n, t)),
           Affects(r, k, n)
    PROVE  Map!MapNext
  <1>1. CallNow[r].phase = "pending" /\ CallNow[r].kind = k /\ CallNow[r].name = n
    BY DEF Called
  <1>2. [CallNow[r] EXCEPT !.phase = p, !.seen = t] = Called(p, k, n, t)
    <2>1. Recall(CallNow[r], p, t) = Called(p, k, n, t)
      BY Recalled
    <2> QED
      BY <2>1 DEF Recall
  <1>3. CallNow' = [CallNow EXCEPT ![r] = [CallNow[r] EXCEPT !.phase = p, !.seen = t]]
    BY <1>2, AsExcept
  <1>4. Map!Effect(r)
    BY <1>1, AsEffect
  <1>5. CallNow' = [CallNow EXCEPT ![r].phase = p,
            ![r].seen = IF CallNow[r].kind = "GET" THEN ObjNow[CallNow[r].name] ELSE Missing]
    BY <1>1, <1>3
  <1>6. Map!Take(r)
    BY <1>1, <1>4, <1>5 DEF Map!Take
  <1> QED
    BY <1>6 DEF Map!MapNext

LEMMA AsTakeLate ==
    ASSUME NEW r \in Reqs, NEW k \in {"PUT", "DELETE", "GET"}, NEW n, NEW s,
           CallNow[r] = Called("late", k, n, s), Changes(r, Called("failed", k, n, s)),
           Affects(r, k, n)
    PROVE  Map!MapNext
  <1>1. CallNow[r].phase = "late" /\ CallNow[r].kind = k /\ CallNow[r].name = n
    BY DEF Called
  <1>2. [CallNow[r] EXCEPT !.phase = "failed"] = Called("failed", k, n, s)
    BY DEF Called
  <1>3. CallNow' = [CallNow EXCEPT ![r] = [CallNow[r] EXCEPT !.phase = "failed"]]
    BY <1>2, AsExcept
  <1>4. Map!Effect(r)
    BY <1>1, AsEffect
  <1>5. Map!TakeLate(r)
    BY <1>1, <1>3, <1>4 DEF Map!TakeLate
  <1> QED
    BY <1>5 DEF Map!MapNext

-----------------------------------------------------------------------------
(* What the steps of the handlers leave of objects and calls.              *)

LEMMA ValueOfWhole ==
    ASSUME Chunks > 0, NEW w \in Payloads
    PROVE  Value(Whole(w)) = w
  <1>1. ASSUME NEW v, Whole(w) = Whole(v) PROVE v = w
    <2>1. Whole(w)[1] = w /\ Whole(v)[1] = v
      BY WholeIs, DataAssumption
    <2> QED
      BY <1>1, <2>1
  <1> HIDE DEF Whole
  <1>2. PICK d : d = Whole(w)
    OBVIOUS
  <1>3. (\E v \in Payloads : d = Whole(v)) /\ \A v \in Payloads : d = Whole(v) => v = w
    BY <1>1, <1>2
  <1>4. Value(d) = w
    BY <1>3 DEF Value
  <1> QED
    BY <1>2, <1>4

\* No object changes but one that comes to another file, goes or appears.
LEMMA ObjectKept ==
    ASSUME IInv, ~CopyAllowed, [Next]_vars, NEW p \in Paths,
           \/ node'[p] = node[p]
           \/ node[p] \notin Inodes /\ node'[p] \notin Inodes
    PROVE  ObjNow'[p] = ObjNow[p]
  <1>1. PICK i : i = node[p]
    OBVIOUS
  <1>2. PICK j : j = node'[p]
    OBVIOUS
  <1>3. ObjNow[p] = ValueOf(i) /\ ObjNow'[p] = ValueOf(j)'
    BY <1>1, <1>2 DEF ObjNow
  <1>4. CASE i \in Inodes
    <2>1. i = j /\ Published(i)
      BY <1>1, <1>2, <1>4, ObjectPublished DEF IsFile
    <2>2. ino'[i] = ino[i]
      BY <2>1, StaysPublished
    <2> QED
      BY <1>3, <2>1, <2>2 DEF ValueOf
  <1>5. CASE i \notin Inodes
    BY <1>1, <1>2, <1>3, <1>5 DEF ValueOf
  <1> QED
    BY <1>4, <1>5

LEMMA ObjectsKept ==
    ASSUME \A p \in Paths : ObjNow'[p] = ObjNow[p]
    PROVE  ObjNow' = ObjNow
  <1>1. ObjNow' = [p \in Paths |-> ObjNow'[p]] /\ ObjNow = [p \in Paths |-> ObjNow[p]]
    BY DEF ObjNow
  <1> QED
    BY <1>1

\* Only a DELETE and the rename of a PUT change the object of a path.
LEMMA StepKeepsObjects ==
    ASSUME IInv, ~CopyAllowed, [Next]_vars, NEW r \in Reqs, req[r].op # "DELETE",
           Start(r) \/ Step(r) \/ Timeout(r) \/ Abandon(r), ~PutRename(r)
    PROVE  ObjNow' = ObjNow
  <1>1. TypeOK /\ UploadInv /\ LocalsSet(req[r]) /\ req[r].op # "COPY"
    BY DEF IInv, UploadInv, TypeOK, ReqOK, StepsFit
  <1>2. ASSUME Kept(r), NEW p \in Paths PROVE ObjNow'[p] = ObjNow[p]
    <2>1. p \in Entries /\ p \notin Temps
      BY DistinctAssumption DEF Entries
    <2>2. node'[p] = node[p] \/ (node'[p] \notin Inodes /\ node[p] \notin Inodes)
      BY <1>2, <2>1 DEF Kept, MildNode, Takes
    <2> QED
      BY <2>2, ObjectKept
  <1>3. ASSUME Strong(r), NEW p \in Paths PROVE ObjNow'[p] = ObjNow[p]
    <2>1. CASE UNCHANGED node
      BY <2>1, ObjectKept
    <2>2. CASE Opens(r)
      <3>1. At(r, "create") /\ OpenTrunc(r, Temp(r), "write")
        BY <1>1, <2>2 DEF Opens, At, LocalsSet
      <3>2. Temp(r) \in Entries /\ Temp(r) # p /\ p \in Entries
        BY <1>1, <3>1, TempTyped, TempEntry DEF At, LocalsSet, Entries
      <3>3. node'[p] = node[p]
        BY <1>1, <3>1, <3>2 DEF OpenTrunc, TypeOK
      <3> QED
        BY <3>3, ObjectKept
    <2> QED
      BY <1>3, <2>1, <2>2 DEF Strong, TakeName, PutFlush, PutSync
  <1>4. \A p \in Paths : ObjNow'[p] = ObjNow[p]
    BY <1>1, <1>2, <1>3, OtherStepsMild
  <1> QED
    BY <1>4, ObjectsKept

\* A call looks the same while its request stays as it is.
LEMMA ViewStays ==
    ASSUME IInv, ~CopyAllowed, [Next]_vars, NEW c,
           c.pc \in {"metadata", "stream"} /\ c.fd # Directory => Published(c.fd)
    PROVE  View(c)' = View(c)
  <1>1. PICK i : i = c.fd
    OBVIOUS
  <1>2. c.pc \in {"metadata", "stream"} => ValueOf(i)' = ValueOf(i)
    <2>1. CASE i = Directory
      BY <2>1, DistinctAssumption DEF ValueOf
    <2>2. ASSUME i # Directory, c.pc \in {"metadata", "stream"} PROVE ino'[i] = ino[i]
      BY <1>1, <2>2, StaysPublished
    <2> QED
      BY <2>1, <2>2 DEF ValueOf
  <1> QED
    BY <1>1, <1>2 DEF View, SeenBy

LEMMA OthersView ==
    ASSUME IInv, ReadInv, ~CopyAllowed, [Next]_vars, NEW q \in Reqs, req'[q] = req[q]
    PROVE  CallNow'[q] = CallNow[q]
  <1>1. PICK c : c = req[q]
    OBVIOUS
  <1>2. View(c)' = View(c)
    BY <1>1, StepOfCall, ViewStays DEF ReaderFits
  <1>3. CallNow[q] = View(c) /\ CallNow'[q] = View(c)'
    BY <1>1 DEF CallNow
  <1> QED
    BY <1>2, <1>3

LEMMA ViewChanges ==
    ASSUME IInv, ReadInv, ~CopyAllowed, [Next]_vars, NEW r \in Reqs, Only(r), NEW v,
           View(req[r])' = v
    PROVE  Changes(r, v)
  <1>1. CallNow'[r] = v
    BY DEF CallNow
  <1>2. \A q \in Reqs \ {r} : CallNow'[q] = CallNow[q]
    BY OthersView DEF Only
  <1>3. CallNow' = [q \in Reqs |-> CallNow'[q]]
    BY DEF CallNow
  <1> QED
    BY <1>1, <1>2, <1>3 DEF Changes

LEMMA ViewKept ==
    ASSUME NEW r \in Reqs, NEW v, CallNow[r] = v, Changes(r, v)
    PROVE  CallNow' = CallNow
  <1>1. CallNow = [q \in Reqs |-> CallNow[q]]
    BY DEF CallNow
  <1>2. \A q \in Reqs : (IF q = r THEN v ELSE CallNow[q]) = CallNow[q]
    OBVIOUS
  <1> QED
    BY <1>1, <1>2 DEF Changes

\* The call of a PUT or a DELETE has seen nothing.
LEMMA ViewNow ==
    ASSUME NEW r \in Reqs, NEW k, NEW n, k = req[r].op, n = Path(r), k # "GET",
           req[r].pc \notin {"idle", "done"}
    PROVE  CallNow[r] = Called(PhaseAt(req[r].pc), k, n, Missing)
  BY DEF CallNow, View, PhaseOf, SeenBy, Path, Called

LEMMA GoesView ==
    ASSUME NEW r \in Reqs, NEW l, NEW k, NEW n, k = req[r].op, n = Path(r), k # "GET",
           Goes(r, l), l \notin {"idle", "done"}
    PROVE  View(req[r])' = Called(PhaseAt(l), k, n, Missing)
  BY DEF Goes, View, PhaseOf, SeenBy, Path, Called

\* The phase an answer leaves a call in.
PhaseAfter(s) == IF s \in {"200", "204", "404"} THEN "ok" ELSE "failed"

LEMMA AnswerView ==
    ASSUME TypeOK, NEW r \in Reqs, NEW s, NEW k, NEW n, k = req[r].op, n = Path(r),
           Answer(r, s), k # "GET" \/ PhaseAfter(s) = "failed"
    PROVE  View(req[r])' = Called(PhaseAfter(s), k, n, Missing)
  <1>1. req'[r] = Answered(req[r], s)
    BY DEF Answer, TypeOK, ReqOK
  <1>2. /\ req'[r].pc = "done" /\ req'[r].op = k /\ PathOf[req'[r].key] = n /\ req'[r].resp = s
        /\ k # "GET" => req'[r].fd = None
    BY <1>1 DEF Answered, Idle, Path
  <1>3. None # Directory
    BY SentinelAssumption
  <1> QED
    BY <1>2, <1>3 DEF View, PhaseOf, PhaseAfter, SeenBy, Called

-----------------------------------------------------------------------------
(* Every step of a handler is a step of ObjectMap, or none.                *)

MapStep == Map!MapNext \/ (CallNow' = CallNow /\ ObjNow' = ObjNow)

LEMMA PhasesAt ==
    ASSUME NEW l
    PROVE  /\ l # "late_rmdir" => PhaseAt(l) \in {"pending", "applied", "late"}
           /\ l \in PutPending => PhaseAt(l) = "pending"
           /\ l \in {"uncache", "restat", "prime", "prune"} => PhaseAt(l) = "applied"
  BY DEF PhaseAt, PutPending, PutSteps

LEMMA SimulateFail ==
    ASSUME IInv, ReadInv, ~CopyAllowed, [Next]_vars, NEW r \in Reqs, NEW s, Answer(r, s),
           PhaseAfter(s) = "failed", req[r].pc \notin {"idle", "done", "late_rmdir"},
           ObjNow' = ObjNow
    PROVE  Map!MapNext
  <1>1. TypeOK /\ Only(r)
    BY StepOfCall, AnswerOnly
  <1>2. PICK k : k = req[r].op
    OBVIOUS
  <1>3. PICK n : n = Path(r)
    OBVIOUS
  <1>4. PICK t : t = SeenBy(req[r])
    OBVIOUS
  <1>5. PICK p \in {"pending", "applied", "late"} : p = PhaseAt(req[r].pc)
    BY PhasesAt
  <1>6. CallNow[r] = Called(p, k, n, t)
    BY <1>2, <1>3, <1>4, <1>5 DEF CallNow, View, PhaseOf, Path, Called
  <1>7. Changes(r, Called("failed", k, n, Missing))
    BY <1>1, <1>2, <1>3, AnswerView, ViewChanges
  <1> QED
    BY <1>6, <1>7, AsFail

LEMMA SimulateStart ==
    ASSUME IInv, ReadInv, \A c \in Calls : c.op \in {"PUT", "DELETE", "GET"}, ~CopyAllowed,
           [Next]_vars, NEW r \in Reqs, Start(r), ObjNow' = ObjNow
    PROVE  Map!MapNext
  <1>1. TypeOK /\ Only(r) /\ req[r].pc = "idle"
    BY StepOfCall DEF Start, At, Only, TypeOK, ReqOK
  <1>2. PICK c \in Calls :
            req' = [req EXCEPT ![r] =
               [Idle EXCEPT !.pc = FirstStep(c.op), !.op = c.op, !.key = c.key, !.src = c.src,
                   !.walk = IF c.op = "PUT" THEN <<ParentOf[PathOf[c.key]]>> ELSE <<>>]]
    BY DEF Start
  <1>3. req'[r].pc = FirstStep(c.op) /\ req'[r].op = c.op /\ req'[r].key = c.key
    BY <1>1, <1>2 DEF TypeOK, ReqOK, Idle
  <1>4. PICK k \in {"PUT", "DELETE", "GET"} : k = c.op
    OBVIOUS
  <1>5. PICK n \in Paths : n = PathOf[c.key]
    BY CallAssumption
  <1>6. View(req[r])' = Called("pending", k, n, Missing)
    BY <1>3, <1>4, <1>5 DEF View, PhaseOf, PhaseAt, SeenBy, FirstStep, Called
  <1>7. CallNow[r] = [phase |-> "idle"]
    BY <1>1 DEF CallNow, View
  <1>8. Changes(r, Called("pending", k, n, Missing))
    BY <1>1, <1>6, ViewChanges
  <1> QED
    BY <1>7, <1>8, AsInvoke

\* r goes on without its call making a step.
LEMMA SimulateNothing ==
    ASSUME IInv, ReadInv, ~CopyAllowed, [Next]_vars, NEW r \in Reqs, NEW l, Goes(r, l),
           req[r].op # "GET", req[r].pc \notin {"idle", "done"}, l \notin {"idle", "done"},
           PhaseAt(l) = PhaseAt(req[r].pc), ObjNow' = ObjNow
    PROVE  MapStep
  <1>1. PICK k : k = req[r].op
    OBVIOUS
  <1>2. PICK n : n = Path(r)
    OBVIOUS
  <1>3. PICK p : p = PhaseAt(l)
    OBVIOUS
  <1>4. CallNow[r] = Called(p, k, n, Missing)
    BY <1>1, <1>2, <1>3, ViewNow
  <1>5. View(req[r])' = Called(p, k, n, Missing)
    BY <1>1, <1>2, <1>3, GoesView
  <1>6. Changes(r, Called(p, k, n, Missing))
    BY <1>5, ViewChanges DEF Goes
  <1> QED
    BY <1>4, <1>6, ViewKept DEF MapStep

\* A PUT or a DELETE that took effect is answered with success.
LEMMA SimulateSucceed ==
    ASSUME IInv, ReadInv, ~CopyAllowed, [Next]_vars, NEW r \in Reqs, NEW s, Answer(r, s),
           PhaseAfter(s) = "ok", req[r].op # "GET",
           req[r].pc \in {"uncache", "restat", "prime", "prune"}, ObjNow' = ObjNow
    PROVE  Map!MapNext
  <1>1. TypeOK /\ Only(r) /\ PhaseAt(req[r].pc) = "applied"
    BY StepOfCall, AnswerOnly, PhasesAt
  <1>2. PICK k : k = req[r].op
    OBVIOUS
  <1>3. PICK n : n = Path(r)
    OBVIOUS
  <1>4. CallNow[r] = Called("applied", k, n, Missing)
    BY <1>1, <1>2, <1>3, ViewNow
  <1>5. Changes(r, Called("ok", k, n, Missing))
    BY <1>1, <1>2, <1>3, AnswerView, ViewChanges
  <1> QED
    BY <1>4, <1>5, AsSucceed

LEMMA SimulatePut ==
    ASSUME IInv, ReadInv, ~CopyAllowed, [Next]_vars, NEW r \in Reqs, req[r].op = "PUT",
           req[r].pc \in PutSteps, PutMoves(r), ObjNow' = ObjNow
    PROVE  MapStep
  <1>1. req[r].pc \notin {"idle", "done", "late_rmdir"}
    BY DEF PutSteps
  <1>2. CASE Answer(r, "500")
    BY <1>1, <1>2, SimulateFail DEF PhaseAfter, MapStep
  <1>3. CASE req[r].pc = "prime" /\ Answer(r, "200")
    BY <1>3, SimulateSucceed DEF PhaseAfter, MapStep
  <1>4. ASSUME req[r].pc \in PutPending, NEW l \in PutPending, Goes(r, l) PROVE MapStep
    <2>1. l \notin {"idle", "done"}
      BY <1>4 DEF PutPending, PutSteps
    <2> QED
      BY <1>1, <1>4, <2>1, PhasesAt, SimulateNothing
  <1>5. ASSUME req[r].pc \in {"uncache", "restat"}, NEW l \in {"restat", "prime"}, Goes(r, l)
        PROVE  MapStep
    BY <1>1, <1>5, PhasesAt, SimulateNothing
  <1> QED
    BY <1>2, <1>3, <1>4, <1>5 DEF PutMoves

\* The rename of a PUT, which must have written all of its upload.
LEMMA SimulateRename ==
    ASSUME IInv, ReadInv, ~CopyAllowed, Chunks > 0, [Next]_vars, NEW r \in Reqs, PutRename(r)
    PROVE  Map!MapNext
  <1>1. TypeOK /\ UploadInv /\ UploadsProgress /\ WritersApart /\ req[r].pc = "rename"
        /\ CallFits(req[r]) /\ ino' = ino
    BY StepOfCall DEF PutRename, At, IInv, UploadInv
  <1>2. req[r].op = "PUT" /\ Uploading(r)
    BY <1>1 DEF CallFits, DeleteSteps, HeadSteps, GetSteps, Uploading
  <1>3. PICK n \in Paths : n = Path(r)
    BY <1>1, PathTyped
  <1>4. PICK i \in Inodes : i = req[r].wfd
    BY <1>1, <1>2, UploadTyped
  <1>5. ino[i].data = Whole(r)
    <2>1. req[r].off = Chunks /\ ino[i].data = [k \in 1..req[r].off |-> r]
      BY <1>1, <1>4 DEF UploadsProgress, Progress
    <2> QED
      BY <2>1 DEF Whole
  <1>6. node' = [node EXCEPT ![n] = i, ![Temp(r)] = NoEntry]
    BY <1>1, <1>2, <1>3, <1>4 DEF PutRename, WritersApart
  <1>7. Temp(r) \in Temps /\ Temp(r) \notin Paths
    BY <1>1, <1>2, UploadTyped, TempEntry
  <1>8. node'[n] = i
    BY <1>1, <1>6, <1>7 DEF TypeOK, Entries
  <1>9. ObjNow'[n] = r
    <2>1. Value(Whole(r)) = r
      BY ValueOfWhole DEF Payloads
    <2> QED
      BY <1>1, <1>5, <1>8, <2>1 DEF ObjNow, ValueOf
  <1>10. ASSUME NEW p \in Paths, p # n PROVE ObjNow'[p] = ObjNow[p]
    <2>1. node'[p] = node[p]
      BY <1>1, <1>6, <1>7, <1>10 DEF TypeOK, Entries
    <2> QED
      BY <2>1, ObjectKept
  <1>11. ObjNow' = [ObjNow EXCEPT ![n] = r]
    <2>1. ObjNow' = [p \in Paths |-> ObjNow'[p]] /\ ObjNow = [p \in Paths |-> ObjNow[p]]
      BY DEF ObjNow
    <2> QED
      BY <1>9, <1>10, <2>1
  <1>12. Goes(r, "uncache")
    BY <1>1, GotoGoes DEF PutRename
  <1>13. CallNow[r] = Called("pending", "PUT", n, Missing)
    <2>1. PhaseAt(req[r].pc) = "pending" /\ req[r].pc \notin {"idle", "done"}
      BY <1>1 DEF PhaseAt
    <2> QED
      BY <1>2, <1>3, <2>1, ViewNow
  <1>14. Changes(r, Called("applied", "PUT", n, Missing))
    <2>1. PhaseAt("uncache") = "applied"
      BY DEF PhaseAt
    <2>2. View(req[r])' = Called("applied", "PUT", n, Missing)
      BY <1>2, <1>3, <1>12, <2>1, GoesView
    <2> QED
      BY <1>12, <2>2, ViewChanges DEF Goes
  <1>15. Affects(r, "PUT", n)
    BY <1>11 DEF Affects
  <1> QED
    BY <1>13, <1>14, <1>15, AsTake

LEMMA NodeKeepsObjects ==
    ASSUME IInv, ~CopyAllowed, [Next]_vars, UNCHANGED node
    PROVE  ObjNow' = ObjNow
  BY ObjectKept, ObjectsKept

\* The name that is deleted has no object any more, and the others keep theirs.
LEMMA ObjectGone ==
    ASSUME IInv, ~CopyAllowed, [Next]_vars, NEW n \in Paths, node'[n] \notin Inodes,
           \A p \in Paths \ {n} : node'[p] = node[p]
    PROVE  ObjNow' = [ObjNow EXCEPT ![n] = Missing]
  <1>1. ObjNow'[n] = Missing
    BY DEF ObjNow, ValueOf
  <1>2. \A p \in Paths \ {n} : ObjNow'[p] = ObjNow[p]
    BY ObjectKept
  <1>3. ObjNow' = [p \in Paths |-> ObjNow'[p]] /\ ObjNow = [p \in Paths |-> ObjNow[p]]
    BY DEF ObjNow
  <1> QED
    BY <1>1, <1>2, <1>3

LEMMA Unlinked ==
    ASSUME TypeOK, NEW n \in Paths,
           node' = IF CanUnlink(n) THEN [node EXCEPT ![n] = NoEntry] ELSE node
    PROVE  node'[n] \notin Inodes /\ \A p \in Paths \ {n} : node'[p] = node[p]
  BY DistinctAssumption DEF CanUnlink, IsFile, TypeOK, Entries

LEMMA SimulateRemove ==
    ASSUME IInv, ReadInv, ~CopyAllowed, "unlink" \notin Faults, [Next]_vars,
           NEW r \in Reqs, DeleteRemove(r)
    PROVE  Map!MapNext
  <1>1. TypeOK /\ req[r].pc = "remove" /\ CallFits(req[r])
    BY StepOfCall DEF DeleteRemove, At
  <1>2. req[r].op = "DELETE"
    BY <1>1 DEF CallFits, PutSteps, HeadSteps, GetSteps
  <1>3. PICK n \in Paths : n = Path(r)
    BY <1>1, PathTyped
  <1>4. node' = IF CanUnlink(n) THEN [node EXCEPT ![n] = NoEntry] ELSE node
    BY <1>3 DEF DeleteRemove, MayFail
  <1>5. Affects(r, "DELETE", n)
    BY <1>1, <1>4, Unlinked, ObjectGone DEF Affects
  <1>6. CallNow[r] = Called("pending", "DELETE", n, Missing)
    <2>1. PhaseAt(req[r].pc) = "pending" /\ req[r].pc \notin {"idle", "done"}
      BY <1>1 DEF PhaseAt
    <2> QED
      BY <1>2, <1>3, <2>1, ViewNow
  <1>7. ASSUME NEW l \in {"uncache", "prune"}, Goes(r, l) PROVE Map!MapNext
    <2>1. PhaseAt(l) = "applied" /\ l \notin {"idle", "done"}
      BY DEF PhaseAt
    <2>2. View(req[r])' = Called("applied", "DELETE", n, Missing)
      BY <1>2, <1>3, <1>7, <2>1, GoesView
    <2>3. Changes(r, Called("applied", "DELETE", n, Missing))
      BY <1>7, <2>2, ViewChanges DEF Goes
    <2> QED
      BY <1>5, <1>6, <2>3, AsTake
  <1>8. ASSUME Answer(r, "204") PROVE Map!MapNext
    <2>1. Only(r) /\ PhaseAfter("204") = "ok"
      BY <1>1, <1>8, AnswerOnly DEF PhaseAfter
    <2>2. View(req[r])' = Called("ok", "DELETE", n, Missing)
      BY <1>1, <1>2, <1>3, <1>8, <2>1, AnswerView
    <2>3. Changes(r, Called("ok", "DELETE", n, Missing))
      BY <2>1, <2>2, ViewChanges
    <2> QED
      BY <1>5, <1>6, <2>3, AsTake
  <1> QED
    BY <1>1, <1>7, <1>8, GotoGoes, PruneFromGoes DEF DeleteRemove

LEMMA SimulateLateRemove ==
    ASSUME IInv, ReadInv, ~CopyAllowed, [Next]_vars, NEW r \in Reqs, LateRemove(r)
    PROVE  Map!MapNext
  <1>1. TypeOK /\ req[r].pc = "late_remove" /\ CallFits(req[r]) /\ Only(r)
    BY StepOfCall, AnswerOnly DEF LateRemove, At
  <1>2. req[r].op = "DELETE"
    BY <1>1 DEF CallFits, PutSteps, HeadSteps, GetSteps
  <1>3. PICK n \in Paths : n = Path(r)
    BY <1>1, PathTyped
  <1>4. Affects(r, "DELETE", n)
    BY <1>1, <1>3, Unlinked, ObjectGone DEF Affects, LateRemove
  <1>5. CallNow[r] = Called("late", "DELETE", n, Missing)
    <2>1. PhaseAt(req[r].pc) = "late" /\ req[r].pc \notin {"idle", "done"}
      BY <1>1 DEF PhaseAt
    <2> QED
      BY <1>2, <1>3, <2>1, ViewNow
  <1>6. Changes(r, Called("failed", "DELETE", n, Missing))
    <2>1. PhaseAfter("504") = "failed" /\ Answer(r, "504")
      BY DEF PhaseAfter, LateRemove
    <2> QED
      BY <1>1, <1>2, <1>3, <2>1, AnswerView, ViewChanges
  <1> QED
    BY <1>4, <1>5, <1>6, AsTakeLate

\* Pruning removes directories, which are no objects.
LEMMA PruneKeepsObjects ==
    ASSUME IInv, ReadInv, ~CopyAllowed, [Next]_vars, NEW r \in Reqs, Prune(r) \/ LateRmdir(r)
    PROVE  ObjNow' = ObjNow
  <1>1. TypeOK /\ req[r] \in ReqType /\ LocalsSet(req[r])
    BY StepOfCall
  <1>2. PICK d : d = Head(req[r].walk)
    OBVIOUS
  <1>3. UNCHANGED node \/ (IsDir(d) /\ node' = [node EXCEPT ![d] = NoEntry])
    BY <1>2 DEF Prune, LateRmdir, PruneRemoves, CanRmdir
  <1>4. ASSUME NEW p \in Paths
        PROVE  node'[p] = node[p] \/ (node[p] \notin Inodes /\ node'[p] \notin Inodes)
    BY <1>1, <1>3, DistinctAssumption DEF IsDir, TypeOK, Entries
  <1> QED
    BY <1>4, ObjectKept, ObjectsKept

LEMMA SimulateDelete ==
    ASSUME IInv, ReadInv, ~CopyAllowed, [Next]_vars, NEW r \in Reqs,
           DeleteUncache(r) \/ Prune(r) \/ LateRmdir(r)
    PROVE  MapStep
  <1>1. TypeOK /\ req[r].pc \in {"uncache", "prune", "late_rmdir"} /\ req[r].op = "DELETE"
    BY StepOfCall
       DEF DeleteUncache, Prune, LateRmdir, At, CallFits, PutSteps, HeadSteps, GetSteps
  <1>2. ObjNow' = ObjNow
    BY PruneKeepsObjects, NodeKeepsObjects DEF DeleteUncache
  <1>3. CASE LateRmdir(r)
    <2>1. Answer(r, "504") /\ Only(r) /\ req[r].pc = "late_rmdir"
      BY <1>1, <1>3, AnswerOnly DEF LateRmdir, At
    <2>2. PICK n : n = Path(r)
      OBVIOUS
    <2>3. PhaseAt(req[r].pc) = "failed" /\ PhaseAfter("504") = "failed"
      BY <2>1 DEF PhaseAt, PhaseAfter
    <2>4. CallNow[r] = Called("failed", "DELETE", n, Missing)
      BY <1>1, <2>1, <2>2, <2>3, ViewNow
    <2>5. Changes(r, Called("failed", "DELETE", n, Missing))
      BY <1>1, <2>1, <2>2, <2>3, AnswerView, ViewChanges
    <2> QED
      BY <1>2, <2>4, <2>5, ViewKept DEF MapStep
  <1>4. CASE DeleteUncache(r) \/ Prune(r)
    <2>1. req[r].pc \in {"uncache", "prune"}
      BY <1>4 DEF DeleteUncache, Prune, At
    <2>2. ASSUME Answer(r, "204") PROVE MapStep
      BY <1>1, <1>2, <2>1, <2>2, SimulateSucceed DEF PhaseAfter, MapStep
    <2>3. ASSUME Goes(r, "prune") PROVE MapStep
      BY <1>1, <1>2, <2>1, <2>3, PhasesAt, SimulateNothing
    <2> QED
      BY <1>1, <1>4, <2>2, <2>3, PruneFromGoes DEF DeleteUncache, Prune
  <1> QED
    BY <1>3, <1>4

LEMMA SimulateTimeout ==
    ASSUME IInv, ReadInv, ~CopyAllowed, [Next]_vars, NEW r \in Reqs, Timeout(r)
    PROVE  Map!MapNext
  <1>1. TypeOK /\ CallFits(req[r]) /\ ObjNow' = ObjNow
        /\ req[r].pc \in {"stat", "open", "metadata", "remove", "prune"}
    BY StepOfCall, NodeKeepsObjects DEF Timeout, At
  <1>2. ASSUME Answer(r, "504") PROVE Map!MapNext
    BY <1>1, <1>2, SimulateFail DEF PhaseAfter
  <1>3. PICK n : n = Path(r)
    OBVIOUS
  <1>4. ASSUME req[r].pc \in {"remove", "prune"} PROVE req[r].op = "DELETE"
    BY <1>1, <1>4 DEF CallFits, PutSteps, HeadSteps, GetSteps
  <1>5. CASE req[r].pc = "remove" /\ Goes(r, "late_remove")
    <2>1. PhaseAt(req[r].pc) = "pending" /\ PhaseAt("late_remove") = "late"
      BY <1>5 DEF PhaseAt
    <2>2. CallNow[r] = Called("pending", "DELETE", n, Missing)
      BY <1>3, <1>4, <1>5, <2>1, ViewNow
    <2>3. View(req[r])' = Called("late", "DELETE", n, Missing)
      BY <1>3, <1>4, <1>5, <2>1, GoesView
    <2>4. Changes(r, Called("late", "DELETE", n, Missing))
      BY <1>5, <2>3, ViewChanges DEF Goes
    <2> QED
      BY <1>1, <2>2, <2>4, AsTimeOut
  <1>6. CASE req[r].pc = "prune" /\ Goes(r, "late_rmdir")
    <2>1. PhaseAt(req[r].pc) = "applied" /\ PhaseAt("late_rmdir") = "failed"
      BY <1>6 DEF PhaseAt
    <2>2. CallNow[r] = Called("applied", "DELETE", n, Missing)
      BY <1>3, <1>4, <1>6, <2>1, ViewNow
    <2>3. View(req[r])' = Called("failed", "DELETE", n, Missing)
      BY <1>3, <1>4, <1>6, <2>1, GoesView
    <2>4. Changes(r, Called("failed", "DELETE", n, Missing))
      BY <1>6, <2>3, ViewChanges DEF Goes
    <2> QED
      BY <1>1, <2>2, <2>4, AsFail
  <1> QED
    BY <1>2, <1>5, <1>6, TimeoutStep

\* A GET at its steps.
LEMMA GetView ==
    ASSUME NEW r \in Reqs, NEW n, NEW i, n = Path(r), i = req[r].fd, req[r].op = "GET",
           req[r].pc \in {"open", "metadata", "stream"}
    PROVE  CallNow[r] = IF req[r].pc = "open" THEN Called("pending", "GET", n, Missing)
                        ELSE Called("applied", "GET", n, ValueOf(i))
  BY DEF CallNow, View, PhaseOf, PhaseAt, SeenBy, Path, Called

\* A GET takes effect where it opens the file, or finds that there is none.
LEMMA SimulateOpen ==
    ASSUME IInv, ReadInv, ~CopyAllowed, "open" \notin Faults, [Next]_vars,
           NEW r \in Reqs, GetOpen(r)
    PROVE  Map!MapNext
  <1>1. TypeOK /\ req[r] \in ReqType /\ req[r].pc = "open" /\ req[r].op = "GET" /\ Only(r)
        /\ ObjNow' = ObjNow
    BY StepOfCall, GetFine, NodeKeepsObjects
       DEF GetOpen, At, Fine, CallFits, PutSteps, DeleteSteps, HeadSteps
  <1>2. PICK n \in Paths : n = Path(r)
    BY <1>1, PathTyped
  <1>3. PICK i : i = node[n]
    OBVIOUS
  <1>4. CallNow[r] = Called("pending", "GET", n, Missing)
    BY <1>1, <1>2, GetView
  <1>5. ObjNow[n] = ValueOf(i) /\ ObjNow'[n] = ValueOf(i)'
    BY <1>3 DEF ObjNow, GetOpen
  <1>6. Affects(r, "GET", n)
    BY <1>1 DEF Affects
  <1>7. CASE req' = [req EXCEPT ![r].pc = "metadata", ![r].fd = i]
    <2>1. req'[r] = [req[r] EXCEPT !.pc = "metadata", !.fd = i]
      BY <1>1, <1>7 DEF TypeOK, ReqOK
    <2>2. req'[r].pc = "metadata" /\ req'[r].fd = i /\ req'[r].op = "GET"
          /\ PathOf[req'[r].key] = n
      BY <1>1, <1>2, <2>1 DEF ReqType, Path
    <2>3. PICK t : t = ObjNow[n]
      OBVIOUS
    <2>4. View(req[r])' = Called("applied", "GET", n, ValueOf(i)')
      BY <2>2 DEF View, PhaseOf, PhaseAt, SeenBy, Called
    <2>5. View(req[r])' = Called("applied", "GET", n, t)
      BY <1>1, <1>5, <2>3, <2>4
    <2>6. Changes(r, Called("applied", "GET", n, t))
      BY <1>1, <2>5, ViewChanges
    <2> QED
      BY <1>4, <1>6, <2>3, <2>6, AsTake
  <1>8. CASE i = NoEntry /\ Answer(r, "404")
    <2>1. ObjNow[n] = Missing
      BY <1>5, <1>8, DistinctAssumption DEF ValueOf
    <2>2. req'[r] = Answered(req[r], "404")
      BY <1>1, <1>8 DEF Answer, TypeOK, ReqOK
    <2>3. req'[r].pc = "done" /\ req'[r].op = "GET" /\ PathOf[req'[r].key] = n
          /\ req'[r].resp = "404"
      BY <1>1, <1>2, <2>2 DEF Answered, Idle, Path
    <2>4. CASE req'[r].fd = Directory
      <3>1. View(req[r])' = Called("failed", "GET", n, Missing)
        BY <2>3, <2>4 DEF View, PhaseOf, SeenBy, Called
      <3>2. Changes(r, Called("failed", "GET", n, Missing))
        BY <1>1, <3>1, ViewChanges
      <3> QED
        BY <1>1, <1>4, <3>2, AsFail
    <2>5. CASE req'[r].fd # Directory
      <3>1. View(req[r])' = Called("ok", "GET", n, Missing)
        BY <2>3, <2>5 DEF View, PhaseOf, SeenBy, Called
      <3>2. Changes(r, Called("ok", "GET", n, Missing))
        BY <1>1, <3>1, ViewChanges
      <3> QED
        BY <1>4, <1>6, <2>1, <3>2, AsTake
    <2> QED
      BY <2>4, <2>5
  <1> QED
    BY <1>2, <1>3, <1>7, <1>8 DEF GetOpen, MayFail

\* A GET that goes on with the file it has open.
LEMMA SimulateRead ==
    ASSUME IInv, ReadInv, ~CopyAllowed, [Next]_vars, NEW r \in Reqs, Only(r), req[r].op = "GET",
           req[r].pc \in {"metadata", "stream"}, UNCHANGED <<node, ino>>,
           req'[r].pc = "stream", req'[r].op = "GET", req'[r].fd = req[r].fd,
           req'[r].key = req[r].key
    PROVE  MapStep
  <1>1. ObjNow' = ObjNow
    BY NodeKeepsObjects
  <1>2. PICK n : n = Path(r)
    OBVIOUS
  <1>3. PICK i : i = req[r].fd
    OBVIOUS
  <1>4. PICK t : t = ValueOf(i)
    OBVIOUS
  <1>5. ValueOf(i)' = t
    BY <1>4 DEF ValueOf
  <1>6. CallNow[r] = Called("applied", "GET", n, t)
    BY <1>2, <1>3, <1>4, GetView
  <1>7. View(req[r])' = Called("applied", "GET", n, ValueOf(i)')
    BY <1>2, <1>3 DEF View, PhaseOf, PhaseAt, SeenBy, Called, Path
  <1>8. Changes(r, Called("applied", "GET", n, t))
    BY <1>5, <1>7, ViewChanges
  <1> QED
    BY <1>1, <1>6, <1>8, ViewKept DEF MapStep

LEMMA SimulateMetadata ==
    ASSUME IInv, ReadInv, ~CopyAllowed, [Next]_vars, NEW r \in Reqs, GetMetadata(r)
    PROVE  MapStep
  <1>1. TypeOK /\ req[r] \in ReqType /\ req[r].pc = "metadata" /\ req[r].op = "GET" /\ Only(r)
        /\ ObjNow' = ObjNow /\ UNCHANGED <<node, ino>>
    BY StepOfCall, GetFine, NodeKeepsObjects
       DEF GetMetadata, At, Fine, CallFits, PutSteps, DeleteSteps, HeadSteps
  <1>2. PICK s : s = StatOf(req[r].fd)
    OBVIOUS
  <1>3. CASE req' = [req EXCEPT ![r].pc = "stream", ![r].stat = s, ![r].resp = "200"]
    <2>1. req'[r] = [req[r] EXCEPT !.pc = "stream", !.stat = s, !.resp = "200"]
      BY <1>1, <1>3 DEF TypeOK, ReqOK
    <2>2. req'[r].pc = "stream" /\ req'[r].op = "GET" /\ req'[r].fd = req[r].fd
          /\ req'[r].key = req[r].key
      BY <1>1, <2>1 DEF ReqType
    <2> QED
      BY <1>1, <2>2, SimulateRead
  <1>4. CASE Answer(r, "500")
    BY <1>1, <1>4, SimulateFail DEF PhaseAfter, MapStep
  <1> QED
    BY <1>2, <1>3, <1>4 DEF GetMetadata

LEMMA SimulateStream ==
    ASSUME IInv, ReadInv, ~CopyAllowed, [Next]_vars, NEW r \in Reqs, GetStream(r)
    PROVE  MapStep
  <1>1. TypeOK /\ req[r] \in ReqType /\ req[r].pc = "stream" /\ req[r].op = "GET" /\ Only(r)
        /\ ObjNow' = ObjNow /\ UNCHANGED <<node, ino>> /\ ReaderFits(req[r])
        /\ ReaderFits(req[r])'
    BY StepOfCall, GetFine, NodeKeepsObjects
       DEF GetStream, At, Fine, Fits, CallFits, PutSteps, DeleteSteps, HeadSteps
  <1>2. PICK i : i = req[r].fd
    OBVIOUS
  <1>3. PICK x : x = ino[i].data[Len(req[r].got) + 1]
    OBVIOUS
  <1>4. CASE req' = [req EXCEPT ![r].got = Append(@, x)]
    <2>1. PICK g : g = Append(req[r].got, x)
      OBVIOUS
    <2>2. req'[r] = [req[r] EXCEPT !.got = g]
      BY <1>1, <1>4, <2>1 DEF TypeOK, ReqOK
    <2>3. req'[r].pc = "stream" /\ req'[r].op = "GET" /\ req'[r].fd = req[r].fd
          /\ req'[r].key = req[r].key
      BY <1>1, <2>2 DEF ReqType
    <2> QED
      BY <1>1, <2>3, SimulateRead
  <1>5. CASE Answer(r, "200")
    <2>1. PICK n : n = Path(r)
      OBVIOUS
    <2>2. PICK t : t = ValueOf(i)
      OBVIOUS
    <2>3. CallNow[r] = Called("applied", "GET", n, t)
      BY <1>1, <1>2, <2>1, <2>2, GetView
    <2>4. req'[r] = Answered(req[r], "200")
      BY <1>1, <1>5 DEF Answer, TypeOK, ReqOK
    <2>5. req'[r].pc = "done" /\ req'[r].op = "GET" /\ PathOf[req'[r].key] = n
          /\ req'[r].resp = "200" /\ req'[r].fd = i /\ req'[r].stat = req[r].stat
      BY <1>1, <1>2, <2>1, <2>4 DEF Answered, Idle, Path
    <2>6. CASE i = Directory
      <3>1. View(req[r])' = Called("failed", "GET", n, Missing)
        BY <2>5, <2>6 DEF View, PhaseOf, SeenBy, Called
      <3>2. Changes(r, Called("failed", "GET", n, Missing))
        BY <1>1, <3>1, ViewChanges
      <3> QED
        BY <1>1, <2>3, <3>2, AsFail DEF MapStep
    <2>7. CASE i # Directory
      <3>1. Published(i) /\ req[r].stat = StatOf(i)
        BY <1>1, <1>2, <2>7 DEF ReaderFits
      <3>2. PICK w : w = ino[i].by
        OBVIOUS
      <3>3. ino[i].data = Whole(w) /\ i \in Inodes /\ req[r].stat.by = w
        BY <2>7, <3>1, <3>2 DEF Published, StatOf
      <3>4. req'[r].got = Whole(w)
        BY <1>1, <2>5, <2>7, <3>3 DEF ReaderFits
      <3>5. t = Value(Whole(w))
        BY <2>2, <3>3 DEF ValueOf
      <3>6. View(req[r])' = Called("ok", "GET", n, t)
        BY <2>5, <2>7, <3>4, <3>5 DEF View, PhaseOf, SeenBy, Called
      <3>7. Changes(r, Called("ok", "GET", n, t))
        BY <1>1, <3>6, ViewChanges
      <3> QED
        BY <1>1, <2>3, <3>7, AsSucceed DEF MapStep
    <2> QED
      BY <2>6, <2>7
  <1> QED
    BY <1>2, <1>3, <1>4, <1>5 DEF GetStream

LEMMA SimulateAbandon ==
    ASSUME IInv, ReadInv, ~CopyAllowed, [Next]_vars, NEW r \in Reqs, Abandon(r)
    PROVE  Map!MapNext
  <1>1. ObjNow' = ObjNow
    BY NodeKeepsObjects DEF Abandon
  <1> QED
    BY <1>1, SimulateFail DEF Abandon, Active, PhaseAfter

\* When the server dies, all calls under way fail at once.
LEMMA SimulateCrash ==
    ASSUME IInv, ReadInv, ~CopyAllowed, [Next]_vars, Crash
    PROVE  Map!MapNext
  <1> DEFINE some == {r \in Reqs : Active(r) /\ req[r].pc # "late_rmdir"}
  <1>1. ObjNow' = ObjNow
    BY NodeKeepsObjects DEF Crash
  <1>2. ASSUME NEW r \in Reqs, Active(r)
        PROVE  CallNow'[r] = Called("failed", req[r].op, Path(r), Missing)
    <2>1. req'[r] = Answered(req[r], "lost")
      BY <1>2 DEF Crash
    <2>2. req'[r].pc = "done" /\ req'[r].op = req[r].op /\ PathOf[req'[r].key] = Path(r)
          /\ req'[r].resp = "lost"
      BY <2>1 DEF Answered, Idle, Path
    <2> QED
      BY <2>2 DEF CallNow, View, PhaseOf, SeenBy, Called
  <1>3. ASSUME NEW r \in some
        PROVE  /\ CallNow[r].phase \in {"pending", "applied", "late"}
               /\ CallNow'[r] = Map!Failed(r, "failed")
    <2>1. PICK k : k = req[r].op
      OBVIOUS
    <2>2. PICK n : n = Path(r)
      OBVIOUS
    <2>3. PICK t : t = SeenBy(req[r])
      OBVIOUS
    <2>4. PICK p \in {"pending", "applied", "late"} : p = PhaseAt(req[r].pc)
      BY <1>3, PhasesAt
    <2>5. CallNow[r] = Called(p, k, n, t)
      BY <1>3, <2>1, <2>2, <2>3, <2>4 DEF CallNow, View, PhaseOf, Path, Called, Active
    <2>6. CallNow[r].phase = p
      BY <2>5 DEF Called
    <2>7. Recall(CallNow[r], "failed", Missing) = Called("failed", k, n, Missing)
      BY <2>5, Recalled
    <2>8. CallNow'[r] = Recall(CallNow[r], "failed", Missing)
      BY <1>2, <1>3, <2>1, <2>2, <2>7
    <2> QED
      BY <2>6, <2>8 DEF Map!Failed, Recall
  <1>4. ASSUME NEW r \in Reqs \ some PROVE CallNow'[r] = CallNow[r]
    <2>1. CASE Active(r)
      <3>1. req[r].pc = "late_rmdir" /\ CallFits(req[r])
        BY <1>4, <2>1, StepOfCall
      <3>2. req[r].op = "DELETE" /\ PhaseAt(req[r].pc) = "failed"
        BY <3>1 DEF CallFits, PutSteps, HeadSteps, GetSteps, PhaseAt
      <3>3. CallNow[r] = Called("failed", "DELETE", Path(r), Missing)
        BY <3>1, <3>2, ViewNow
      <3> QED
        BY <1>2, <2>1, <3>2, <3>3
    <2>2. CASE ~Active(r)
      BY <2>2, OthersView DEF Crash
    <2> QED
      BY <2>1, <2>2
  <1>5. CallNow' = [r \in Reqs |-> CallNow'[r]]
    BY DEF CallNow
  <1>6. Map!Fail(some)
    <2> HIDE DEF some
    <2> QED
      BY <1>1, <1>3, <1>4, <1>5 DEF Map!Fail
  <1>7. some \in SUBSET Reqs
    OBVIOUS
  <1> QED
    BY <1>6, <1>7 DEF Map!MapNext

LEMMA SimulateInit ==
    ASSUME Init, Chunks > 0
    PROVE  Map!MapInit
  <1>1. ASSUME NEW p \in Paths PROVE ObjNow[p] \in Payloads \cup {Missing}
    <2>1. PICK i : i = node[p]
      OBVIOUS
    <2>2. p \in Entries /\ p \in Inodes /\ p \in Payloads
      BY DEF Entries, Inodes, Payloads
    <2>3. i \in {p, Directory, NoEntry} /\ (i = p => p \in Initial \/ p \notin Inodes)
      BY <2>1, <2>2, DistinctAssumption DEF Init, StorageInit
    <2>4. CASE i = p
      <3>1. ino[p].data = Whole(p)
        BY <2>2, <2>3, <2>4 DEF Init, StorageInit
      <3> QED
        BY <2>1, <2>2, <2>4, <3>1, ValueOfWhole DEF ObjNow, ValueOf
    <2>5. CASE i \in {Directory, NoEntry}
      BY <2>1, <2>5, DistinctAssumption DEF ObjNow, ValueOf
    <2> QED
      BY <2>3, <2>4, <2>5
  <1>2. ObjNow = [p \in Paths |-> ObjNow[p]]
    BY DEF ObjNow
  <1>3. ObjNow \in [Paths -> Payloads \cup {Missing}]
    BY <1>1, <1>2
  <1>4. CallNow = [r \in Reqs |-> [phase |-> "idle"]]
    <2>1. ASSUME NEW r \in Reqs PROVE View(req[r]) = [phase |-> "idle"]
      <3>1. req[r] = Idle
        BY DEF Init
      <3>2. req[r].pc = "idle"
        BY <3>1 DEF Idle
      <3> QED
        BY <3>2 DEF View
    <2> QED
      BY <2>1 DEF CallNow
  <1> QED
    BY <1>3, <1>4 DEF Map!MapInit, Map!Contents, Map!NotCalled

LEMMA SimulateStep ==
    ASSUME IInv, ReadInv, \A c \in Calls : c.op \in {"PUT", "DELETE", "GET"}, Chunks > 0,
           "unlink" \notin Faults, "open" \notin Faults, [Next]_vars
    PROVE  MapStep
  <1>1. ~CopyAllowed
    BY DEF CopyAllowed
  <1>2. ASSUME NEW r \in Reqs, Step(r) PROVE MapStep
    <2>1. CallFits(req[r])
      BY <1>1, StepOfCall
    <2>2. CASE PutRename(r)
      BY <1>1, <2>2, SimulateRename DEF MapStep
    <2>3. CASE /\ ~PutRename(r)
               /\ \/ Mkdir(r) \/ IsDirCheck(r) \/ TakeName(r) \/ PutCreate(r) \/ PutWrite(r)
                  \/ PutFlush(r) \/ PutSync(r) \/ PutFail(r) \/ PutCleanup(r)
                  \/ WriteUncache(r) \/ Restat(r) \/ PutPrime(r)
      <3>1. req[r].op = "PUT" /\ PutMoves(r)
        BY <1>1, <2>3, PutStep
      <3>2. req[r].pc \in PutSteps
        BY <2>3
           DEF Mkdir, IsDirCheck, TakeName, PutCreate, PutWrite, PutFlush, PutSync, PutFail,
               PutCleanup, WriteUncache, Restat, PutPrime, At, PutSteps
      <3>3. ObjNow' = ObjNow
        BY <1>1, <1>2, <2>3, <3>1, StepKeepsObjects
      <3> QED
        BY <1>1, <3>1, <3>2, <3>3, SimulatePut
    <2>4. CASE DeleteRemove(r) \/ LateRemove(r)
      BY <1>1, <2>4, SimulateRemove, SimulateLateRemove DEF MapStep
    <2>5. CASE DeleteUncache(r) \/ Prune(r) \/ LateRmdir(r)
      BY <1>1, <2>5, SimulateDelete
    <2>6. CASE GetOpen(r)
      BY <1>1, <2>6, SimulateOpen DEF MapStep
    <2>7. CASE GetMetadata(r) \/ GetStream(r)
      BY <1>1, <2>7, SimulateMetadata, SimulateStream
    <2>8. ~(HeadLookup(r) \/ HeadStat(r) \/ HeadInsert(r))
      <3>1. req[r].op # "HEAD"
        BY <2>1 DEF CallFits
      <3> QED
        BY <1>1, <3>1, HeadStep
    <2> QED
      BY <1>1, <1>2, <2>2, <2>3, <2>4, <2>5, <2>6, <2>7, <2>8, NoCopySteps DEF Step
  <1>3. ASSUME NEW r \in Reqs, Start(r) PROVE MapStep
    <2>1. UNCHANGED node
      BY <1>3 DEF Start
    <2> QED
      BY <1>1, <1>3, <2>1, NodeKeepsObjects, SimulateStart DEF MapStep
  <1>4. ASSUME NEW r \in Reqs, Timeout(r) \/ Abandon(r) PROVE MapStep
    BY <1>1, <1>4, SimulateTimeout, SimulateAbandon DEF MapStep
  <1>5. CASE UNCHANGED <<node, req>>
    <2>1. ObjNow' = ObjNow
      BY <1>1, <1>5, NodeKeepsObjects
    <2>2. \A q \in Reqs : CallNow'[q] = CallNow[q]
      BY <1>1, <1>5, OthersView
    <2>3. CallNow' = [q \in Reqs |-> CallNow'[q]] /\ CallNow = [q \in Reqs |-> CallNow[q]]
      BY DEF CallNow
    <2> QED
      BY <2>1, <2>2, <2>3 DEF MapStep
  <1>6. CASE Crash
    BY <1>1, <1>6, SimulateCrash DEF MapStep
  <1> QED
    BY <1>2, <1>3, <1>4, <1>5, <1>6 DEF Next, CacheLose, vars

\* Without COPY and HEAD, and where opening and unlinking a file that is there
\* does not fail, every PUT, DELETE and GET takes effect at one instant between
\* its call and its answer, on whole objects: through failed uploads, prunes,
\* timeouts, lost clients and crashes, for any number of requests, keys and paths.
THEOREM HandlersImplementMap ==
    ASSUME PowerLoss => Fsync, \A c \in Calls : c.op \in {"PUT", "DELETE", "GET"}, Chunks > 0,
           "unlink" \notin Faults, "open" \notin Faults
    PROVE  Spec => ImplementsMap
  <1>1. ~CopyAllowed
    BY DEF CopyAllowed
  <1>2. Init => Map!MapInit
    BY SimulateInit
  <1>3. IInv /\ ReadInv /\ [Next]_vars => [Map!MapNext]_(Map!mapVars)
    BY SimulateStep DEF MapStep, Map!mapVars
  <1>4. Spec => []IInv /\ []ReadInv
    BY <1>1, Inductive, ReadersHoldPublished
  <1> QED
    BY <1>2, <1>3, <1>4, PTL DEF Spec, ImplementsMap, Map!MapSpec
=============================================================================
