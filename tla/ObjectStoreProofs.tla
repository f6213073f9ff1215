------------------------- MODULE ObjectStoreProofs -------------------------
(***************************************************************************)
(* Proofs about ObjectStore, for any tree, any number of requests and any  *)
(* set of calls they may make: its types; the tree, which stays closed;    *)
(* and IInv, which is inductive: uploads never meet, whatever else         *)
(* requests do, and nothing unfinished gets the name of an object.         *)
(*                                                                         *)
(* Most steps are mild: they open, write and name no file.  One lemma      *)
(* covers those; opening, writing, syncing, renaming, taking a name and a  *)
(* crash have one each.                                                    *)
(***************************************************************************)
EXTENDS ObjectStoreInvariant, TLAPS, SequenceTheorems

\* A request stays well typed when one local takes a value of its type; a step that
\* sets several is a chain of these.
LEMMA SetPc == ASSUME NEW c \in ReqType, NEW l \in Pcs PROVE [c EXCEPT !.pc = l] \in ReqType
  BY DEF ReqType

LEMMA SetWalk == ASSUME NEW c \in ReqType, NEW w \in Seq(Paths) PROVE [c EXCEPT !.walk = w] \in ReqType
  BY DEF ReqType

LEMMA SetAtt == ASSUME NEW c \in ReqType, NEW a \in {1, 2} PROVE [c EXCEPT !.att = a] \in ReqType
  BY DEF ReqType

LEMMA SetWfd == ASSUME NEW c \in ReqType, NEW i \in Inodes \cup {None} PROVE [c EXCEPT !.wfd = i] \in ReqType
  BY DEF ReqType

LEMMA SetOff == ASSUME NEW c \in ReqType, NEW n \in Nat PROVE [c EXCEPT !.off = n] \in ReqType
  BY DEF ReqType

LEMMA SetStat == ASSUME NEW c \in ReqType, NEW s \in Stats \cup {NoStat} PROVE [c EXCEPT !.stat = s] \in ReqType
  BY DEF ReqType

LEMMA SetResp == ASSUME NEW c \in ReqType, NEW s \in Resps PROVE [c EXCEPT !.resp = s] \in ReqType
  BY DEF ReqType

LEMMA IdleTyped == Idle \in ReqType /\ LocalsSet(Idle)
  <1>1. (CHOOSE k \in Keys : TRUE) \in Keys
    BY CallAssumption
  <1>2. <<>> \in Seq(Paths) /\ <<>> \in Seq(Payloads \cup {Hole})
    OBVIOUS
  <1> QED
    BY <1>1, <1>2 DEF Idle, ReqType, LocalsSet, Pcs, Ops, Resps

LEMMA AnsweredTyped ==
    ASSUME NEW c \in ReqType, NEW status \in Resps
    PROVE  Answered(c, status) \in ReqType /\ LocalsSet(Answered(c, status))
  <1> DEFINE a == Answered(c, status)
  <1>1. a.pc = "done" /\ a.pc \in Pcs
    BY DEF Answered, Idle, Pcs
  <1>2. a \in ReqType
    <2>1. c.op \in Ops /\ c.key \in Keys /\ c.src \in Keys /\ c.got \in Seq(Payloads \cup {Hole})
          /\ c.stat \in Stats \cup {NoStat} /\ c.fd \in Inodes \cup {Directory, None}
      BY DEF ReqType
    <2>2. (IF c.op = "GET" THEN c.fd ELSE None) \in Inodes \cup {Directory, None}
      BY <2>1
    <2> QED
      BY <1>1, <2>1, <2>2, IdleTyped, ZenonT(60) DEF Answered, Idle, ReqType
  <1> QED
    BY <1>1, <1>2 DEF LocalsSet

LEMMA WriteAtTyped ==
    ASSUME NEW S, NEW data \in Seq(S), NEW off \in Nat, NEW piece \in S, Hole \in S
    PROVE  WriteAt(data, off, piece) \in Seq(S)
  <1> DEFINE n == IF off < Len(data) THEN Len(data) ELSE off + 1
  <1>1. n \in Nat
    OBVIOUS
  <1>2. WriteAt(data, off, piece) \in [1..n -> S]
    BY DEF WriteAt
  <1> QED
    BY <1>1, <1>2, SeqDef

LEMMA TypeInit == Init => TypeOK
  <1> SUFFICES ASSUME Init PROVE TypeOK
    OBVIOUS
  <1>1. node \in [Entries -> Inodes \cup {NoEntry, Directory}]
    BY TreeAssumption DEF Init, StorageInit, Entries, Inodes
  <1>2. ino \in [Inodes -> InoType]
    <2>1. ASSUME NEW w \in Payloads PROVE Whole(w) \in Seq(Payloads \cup {Hole})
      BY DataAssumption, SeqDef DEF Whole
    <2> QED
      BY <2>1, TreeAssumption DEF Init, StorageInit, Inodes, Payloads, EmptyFile, InoType
  <1> QED
    BY <1>1, <1>2, IdleTyped DEF Init, TypeOK, ReqOK

-----------------------------------------------------------------------------
(* How an action leaves the locals of its request.                         *)

LEMMA Become ==
    ASSUME ReqOK, NEW r \in Reqs, NEW c \in ReqType, LocalsSet(c), req' = [req EXCEPT ![r] = c]
    PROVE  ReqOK'
  BY DEF ReqOK

LEMMA GotoTyped ==
    ASSUME ReqOK, NEW r \in Reqs, NEW l \in Pcs, LocalsSet([req[r] EXCEPT !.pc = l]), Goto(r, l)
    PROVE  ReqOK'
  <1> DEFINE c == [req[r] EXCEPT !.pc = l]
  <1>1. req[r] \in ReqType
    BY DEF ReqOK
  <1>2. c \in ReqType
    BY <1>1 DEF ReqType
  <1>3. req' = [req EXCEPT ![r] = c]
    BY DEF Goto
  <1> QED
    BY <1>2, <1>3, Become

LEMMA AnswerTyped ==
    ASSUME ReqOK, NEW r \in Reqs, NEW status \in Resps, Answer(r, status)
    PROVE  ReqOK'
  <1>1. req[r] \in ReqType
    BY DEF ReqOK
  <1> QED
    BY <1>1, AnsweredTyped, Become DEF Answer

LEMMA EnsureParentTyped ==
    ASSUME ReqOK, NEW r \in Reqs, NEW attempt \in {1, 2}, EnsureParent(r, attempt),
           req[r].op \in {"PUT", "COPY"},
           req[r].op = "PUT" /\ attempt = 2 => req[r].tmp # None
    PROVE  ReqOK'
  <1> DEFINE w == <<ParentOf[Path(r)]>>
             c == [req[r] EXCEPT !.pc = "mkdir", !.att = attempt, !.walk = w]
  <1>1. req[r] \in ReqType
    BY DEF ReqOK
  <1>2. ParentOf[Path(r)] \in Paths
    BY <1>1, CallAssumption, TreeAssumption DEF Path, ReqType
  <1>3. w \in Seq(Paths) /\ w # <<>>
    BY <1>2
  <1>4. c \in ReqType
    <2>1. [req[r] EXCEPT !.pc = "mkdir"] \in ReqType
      BY <1>1, SetPc DEF Pcs
    <2>2. [req[r] EXCEPT !.pc = "mkdir", !.att = attempt] \in ReqType
      BY <2>1, SetAtt
    <2> QED
      BY <1>3, <2>2, SetWalk
  <1>5. LocalsSet(c)
    BY <1>1, <1>3 DEF LocalsSet, ReqType
  <1>6. req' = [req EXCEPT ![r] = c]
    BY DEF EnsureParent
  <1> QED
    BY <1>4, <1>5, <1>6, Become

LEMMA RetryOrFailTyped ==
    ASSUME ReqOK, NEW r \in Reqs, RetryOrFail(r), req[r].op \in {"PUT", "COPY"},
           req[r].op = "PUT" => req[r].tmp # None
    PROVE  ReqOK'
  BY EnsureParentTyped, AnswerTyped DEF RetryOrFail, Resps

LEMMA MkdirReturnsTyped ==
    ASSUME ReqOK, NEW r \in Reqs, MkdirReturns(r), req[r].pc \in {"mkdir", "mkdown", "isdir"}
    PROVE  ReqOK'
  <1> DEFINE rest == Tail(req[r].walk)
             l == IF rest # <<>> THEN "mkdown" ELSE IF req[r].op = "COPY" THEN "copyopen"
                  ELSE IF req[r].att = 1 THEN "name" ELSE "create"
             c == [req[r] EXCEPT !.walk = rest, !.pc = l]
  <1>1. req[r] \in ReqType /\ LocalsSet(req[r])
    BY DEF ReqOK
  <1>2. rest \in Seq(Paths)
    BY <1>1 DEF ReqType, LocalsSet
  <1>3. l \in Pcs
    BY DEF Pcs
  <1>4. c \in ReqType
    <2>1. [req[r] EXCEPT !.walk = rest] \in ReqType
      BY <1>1, <1>2, SetWalk
    <2> QED
      BY <1>3, <2>1, SetPc
  <1>5. LocalsSet(c)
    BY <1>1 DEF LocalsSet, ReqType
  <1>6. req' = [req EXCEPT ![r] = c]
    BY DEF MkdirReturns
  <1> QED
    BY <1>4, <1>5, <1>6, Become

LEMMA PruneFromTyped ==
    ASSUME ReqOK, NEW r \in Reqs, NEW d \in Paths, PruneFrom(r, d)
    PROVE  ReqOK'
  <1>1. CASE ~(PruneEmptyDirs /\ d # Root)
    BY <1>1, AnswerTyped DEF PruneFrom, Resps
  <1>2. CASE PruneEmptyDirs /\ d # Root
    <2> DEFINE c == [req[r] EXCEPT !.pc = "prune", !.walk = <<d>>]
    <2>1. req[r] \in ReqType
      BY DEF ReqOK
    <2>2. <<d>> \in Seq(Paths) /\ <<d>> # <<>> /\ Head(<<d>>) # Root
      BY <1>2
    <2>3. c \in ReqType
      BY <2>1, <2>2 DEF ReqType, Pcs
    <2>4. LocalsSet(c)
      BY <2>1, <2>2 DEF LocalsSet, ReqType
    <2>5. req' = [req EXCEPT ![r] = c]
      BY <1>2 DEF PruneFrom
    <2> QED
      BY <2>3, <2>4, <2>5, Become
  <1> QED
    BY <1>1, <1>2

LEMMA StatTyped == ASSUME TypeOK, NEW n \in Inodes \cup {Directory} PROVE StatOf(n) \in Stats /\ StatOf(n) # NoStat
  <1>1. CASE n = Directory
    BY <1>1, TreeAssumption, SentinelAssumption DEF StatOf, Stats, Payloads
  <1>2. CASE n # Directory
    <2>1. ino[n].by \in Payloads /\ ino[n].data \in Seq(Payloads \cup {Hole})
      BY <1>2 DEF TypeOK, InoType
    <2> QED
      BY <1>2, <2>1, SentinelAssumption DEF StatOf, Stats
  <1> QED
    BY <1>1, <1>2

LEMMA OpenTruncTyped ==
    ASSUME TypeOK, NEW r \in Reqs, NEW e \in Entries, NEW l \in {"write", "copying"},
           OpenTrunc(r, e, l),
           req[r].tmp # None \/ l = "copying",
           l = "write" => req[r].op = "PUT",
           l = "copying" => req[r].fd \in Inodes /\ req[r].op = "COPY"
    PROVE  /\ ReqOK'
           /\ node' \in [Entries -> Inodes \cup {NoEntry, Directory}]
           /\ ino' \in [Inodes -> InoType]
  <1> DEFINE i == OpenTruncGives(e, NewInode(r))
             c == [req[r] EXCEPT !.pc = l, !.wfd = i, !.off = 0]
  <1>1. ReqOK /\ req[r] \in ReqType /\ LocalsSet(req[r])
    BY DEF TypeOK, ReqOK
  <1>2. i \in Inodes
    <2>1. NewInode(r) \in Reqs \X {1, 2}
      BY <1>1 DEF NewInode, ReqType
    <2> QED
      BY <2>1 DEF OpenTruncGives, IsFile, Inodes
  <1>3. node' \in [Entries -> Inodes \cup {NoEntry, Directory}]
    BY <1>2 DEF OpenTrunc, TypeOK
  <1>4. EmptyFile(r) \in InoType
    BY DEF EmptyFile, Payloads, InoType
  <1>5. ino' \in [Inodes -> InoType]
    BY <1>2, <1>4 DEF OpenTrunc, TypeOK
  <1>6. c \in ReqType
    <2>1. [req[r] EXCEPT !.pc = l] \in ReqType
      BY <1>1, SetPc DEF Pcs
    <2>2. [req[r] EXCEPT !.pc = l, !.wfd = i] \in ReqType
      BY <1>2, <2>1, SetWfd
    <2> QED
      BY <2>2, SetOff
  <1>7. LocalsSet(c)
    BY <1>1, <1>2 DEF ReqType, LocalsSet
  <1>8. req' = [req EXCEPT ![r] = c]
    BY DEF OpenTrunc
  <1> QED
    BY <1>1, <1>3, <1>5, <1>6, <1>7, <1>8, Become

LEMMA WritePieceTyped ==
    ASSUME TypeOK, NEW r \in Reqs, NEW piece \in Payloads \cup {Hole}, WritePiece(r, piece),
           req[r].pc \in {"write", "copying"}
    PROVE  /\ ReqOK'
           /\ ino' \in [Inodes -> InoType]
  <1> DEFINE i == req[r].wfd
             f == [data |-> WriteAt(ino[i].data, req[r].off, piece), by |-> r, synced |-> FALSE]
             c == [req[r] EXCEPT !.off = req[r].off + 1]
  <1>1. ReqOK /\ req[r] \in ReqType /\ LocalsSet(req[r])
    BY DEF TypeOK, ReqOK
  <1>2. i \in Inodes /\ req[r].off \in Nat
    BY <1>1 DEF LocalsSet, ReqType
  <1>3. ino[i].data \in Seq(Payloads \cup {Hole})
    BY <1>2 DEF TypeOK, InoType
  <1>4. f \in InoType
    <2>1. WriteAt(ino[i].data, req[r].off, piece) \in Seq(Payloads \cup {Hole})
      BY <1>2, <1>3, WriteAtTyped
    <2> QED
      BY <2>1 DEF Payloads, InoType
  <1>5. ino' = [ino EXCEPT ![i] = f]
    BY <1>2 DEF WritePiece, TypeOK
  <1>6. c \in ReqType
    BY <1>1, <1>2 DEF ReqType
  <1>7. LocalsSet(c)
    BY <1>1 DEF LocalsSet, ReqType
  <1>8. req' = [req EXCEPT ![r] = c]
    BY DEF WritePiece
  <1>9. ReqOK'
    BY <1>1, <1>6, <1>7, <1>8, Become
  <1> QED
    BY <1>4, <1>5, <1>9 DEF TypeOK

-----------------------------------------------------------------------------
(* Each action keeps the types.                                            *)

LEMMA StartTyped == ASSUME TypeOK, NEW r \in Reqs, Start(r) PROVE TypeOK'
  <1>1. PICK k \in Calls :
            req' = [req EXCEPT ![r] =
               [Idle EXCEPT !.pc = FirstStep(k.op), !.op = k.op, !.key = k.key, !.src = k.src,
                   !.walk = IF k.op = "PUT" THEN <<ParentOf[PathOf[k.key]]>> ELSE <<>>]]
    BY DEF Start
  <1> DEFINE w == IF k.op = "PUT" THEN <<ParentOf[PathOf[k.key]]>> ELSE <<>>
             c == [Idle EXCEPT !.pc = FirstStep(k.op), !.op = k.op, !.key = k.key,
                               !.src = k.src, !.walk = w]
  <1>2. k.op \in Ops /\ k.key \in Keys /\ k.src \in Keys
    BY CallAssumption
  <1>3. ParentOf[PathOf[k.key]] \in Paths
    BY <1>2, CallAssumption, TreeAssumption
  <1>4. w \in Seq(Paths) /\ (k.op = "PUT" => w # <<>>)
    BY <1>3
  <1>5. FirstStep(k.op) \in Pcs /\ FirstStep(k.op) \in {"mkdir", "srcstat", "remove", "lookup", "open"}
        /\ (FirstStep(k.op) = "mkdir" => k.op = "PUT")
        /\ (FirstStep(k.op) = "srcstat" => k.op = "COPY")
    BY <1>2 DEF FirstStep, Ops, Pcs
  <1>6. c \in ReqType
    BY <1>2, <1>4, <1>5, IdleTyped DEF ReqType
  <1>7. c.pc = FirstStep(k.op) /\ c.op = k.op /\ c.walk = w /\ c.att = 1
    BY DEF Idle
  <1>8. LocalsSet(c)
    BY <1>4, <1>5, <1>7 DEF LocalsSet
  <1>9. ReqOK'
    BY <1>1, <1>6, <1>8, Become DEF TypeOK
  <1> QED
    BY <1>9 DEF Start, TypeOK

LEMMA IsDirCheckTyped == ASSUME TypeOK, NEW r \in Reqs, IsDirCheck(r) PROVE TypeOK'
  <1>1. ReqOK'
    BY MkdirReturnsTyped, AnswerTyped DEF IsDirCheck, At, TypeOK, Resps
  <1> QED
    BY <1>1 DEF IsDirCheck, TypeOK

LEMMA MkdirTyped == ASSUME TypeOK, NEW r \in Reqs, Mkdir(r) PROVE TypeOK'
  <1> DEFINE d == Head(req[r].walk)
  <1>1. ReqOK /\ req[r] \in ReqType /\ LocalsSet(req[r]) /\ req[r].pc \in {"mkdir", "mkdown"}
    BY DEF TypeOK, ReqOK, Mkdir
  <1>2. req[r].walk \in Seq(Paths) /\ req[r].walk # <<>> /\ d \in Paths
    BY <1>1 DEF ReqType, LocalsSet
  <1>3. node' \in [Entries -> Inodes \cup {NoEntry, Directory}]
    BY <1>2 DEF Mkdir, TypeOK, Entries
  <1>4. ReqOK'
    <2>1. CASE MkdirReturns(r)
      BY <1>1, <2>1, MkdirReturnsTyped
    <2>2. CASE Goto(r, "isdir")
      <3>1. LocalsSet([req[r] EXCEPT !.pc = "isdir"])
        BY <1>1 DEF LocalsSet, ReqType
      <3> QED
        BY <1>1, <2>2, <3>1, GotoTyped DEF Pcs
    <2>3. CASE /\ MkdirFindsNoParent(d)
               /\ req' = [req EXCEPT ![r].walk = <<ParentOf[d]>> \o @]
      <3> DEFINE w == <<ParentOf[d]>> \o req[r].walk
                 c == [req[r] EXCEPT !.walk = w]
      <3>1. ParentOf[d] \in Paths
        BY <1>2, <2>3, TreeAssumption DEF MkdirFindsNoParent
      <3>2. w \in Seq(Paths) /\ w # <<>>
        BY <1>2, <3>1
      <3>3. c \in ReqType
        BY <1>1, <3>2 DEF ReqType
      <3>4. LocalsSet(c)
        BY <1>1, <3>2 DEF LocalsSet, ReqType
      <3>5. req' = [req EXCEPT ![r] = c]
        BY <2>3
      <3> QED
        BY <1>1, <3>3, <3>4, <3>5, Become
    <2> QED
      BY <2>1, <2>2, <2>3 DEF Mkdir
  <1> QED
    BY <1>3, <1>4 DEF TypeOK, Mkdir

LEMMA TakeNameTyped == ASSUME TypeOK, NEW r \in Reqs, TakeName(r) PROVE TypeOK'
  <1> DEFINE c == [req[r] EXCEPT !.pc = "create", !.tmp = counter]
  <1>1. ReqOK /\ req[r] \in ReqType /\ LocalsSet(req[r])
    BY DEF TypeOK, ReqOK
  <1>2. counter \in TempNums /\ counter \in Nat /\ counter # None
    BY DataAssumption, SentinelAssumption DEF TakeName
  <1>3. c \in ReqType
    BY <1>1, <1>2 DEF ReqType, Pcs
  <1>4. LocalsSet(c)
    BY <1>1, <1>2 DEF LocalsSet, ReqType, TakeName, At
  <1>5. ReqOK'
    BY <1>1, <1>3, <1>4, Become DEF TakeName
  <1> QED
    BY <1>2, <1>5 DEF TakeName, NextTemp, TypeOK

LEMMA TempTyped ==
    ASSUME TypeOK, NEW r \in Reqs, req[r].tmp # None
    PROVE  Temp(r) \in Temps /\ Temp(r) \in Entries
  <1>1. req[r].tmp \in TempNums /\ Path(r) \in Paths \ {Root}
    BY CallAssumption DEF TypeOK, ReqOK, ReqType, Path
  <1> QED
    BY <1>1 DEF Temp, Temps, Entries

LEMMA PutCreateTyped == ASSUME TypeOK, NEW r \in Reqs, PutCreate(r) PROVE TypeOK'
  <1>1. ReqOK /\ LocalsSet(req[r]) /\ At(r, "create")
    BY DEF TypeOK, ReqOK, PutCreate
  <1>2. req[r].op = "PUT" /\ req[r].tmp # None
    BY <1>1 DEF LocalsSet, At
  <1>3. CASE OpenTrunc(r, Temp(r), "write")
    BY <1>2, <1>3, TempTyped, OpenTruncTyped DEF PutCreate, TypeOK
  <1>4. CASE RetryOrFail(r) /\ UNCHANGED <<node, ino>>
    BY <1>1, <1>2, <1>4, RetryOrFailTyped DEF PutCreate, TypeOK
  <1> QED
    BY <1>3, <1>4 DEF PutCreate

LEMMA PutWriteTyped == ASSUME TypeOK, NEW r \in Reqs, PutWrite(r) PROVE TypeOK'
  <1>1. ReqOK' /\ ino' \in [Inodes -> InoType]
    BY WritePieceTyped DEF PutWrite, At, Payloads
  <1> QED
    BY <1>1 DEF PutWrite, TypeOK

LEMMA PutFlushTyped == ASSUME TypeOK, NEW r \in Reqs, PutFlush(r) PROVE TypeOK'
  <1> DEFINE c == [req[r] EXCEPT !.pc = AfterFlush]
  <1>1. ReqOK /\ req[r] \in ReqType /\ LocalsSet(req[r])
    BY DEF TypeOK, ReqOK
  <1>2. req[r].op = "PUT" /\ req[r].tmp # None /\ req[r].wfd \in Inodes
    BY <1>1 DEF PutFlush, At, LocalsSet
  <1>3. AfterFlush \in {"sync", "rename"}
    BY DEF AfterFlush
  <1>4. LocalsSet(c)
    BY <1>1, <1>2, <1>3 DEF LocalsSet, ReqType
  <1>5. ReqOK'
    BY <1>1, <1>3, <1>4, GotoTyped DEF PutFlush, Pcs
  <1> QED
    BY <1>5 DEF PutFlush, TypeOK

LEMMA PutFailTyped == ASSUME TypeOK, NEW r \in Reqs, PutFail(r) PROVE TypeOK'
  <1>1. ReqOK /\ req[r] \in ReqType /\ LocalsSet(req[r])
    BY DEF TypeOK, ReqOK
  <1>2. req[r].op = "PUT" /\ req[r].tmp # None /\ req[r].wfd \in Inodes
    BY <1>1 DEF PutFail, At, LocalsSet
  <1>3. LocalsSet([req[r] EXCEPT !.pc = "cleanup"])
    BY <1>1, <1>2 DEF LocalsSet, ReqType
  <1>4. ReqOK'
    BY <1>1, <1>3, GotoTyped DEF PutFail, Pcs
  <1> QED
    BY <1>4 DEF PutFail, TypeOK

LEMMA PutSyncTyped == ASSUME TypeOK, NEW r \in Reqs, PutSync(r) PROVE TypeOK'
  <1>1. ReqOK /\ req[r] \in ReqType /\ LocalsSet(req[r])
    BY DEF TypeOK, ReqOK
  <1>2. req[r].wfd \in Inodes
    BY <1>1 DEF PutSync, At, LocalsSet
  <1>3. LocalsSet([req[r] EXCEPT !.pc = "rename"])
    BY <1>1 DEF LocalsSet, ReqType, PutSync, At
  <1>4. ReqOK'
    BY <1>1, <1>3, GotoTyped DEF PutSync, Pcs
  <1>5. ino' \in [Inodes -> InoType]
    BY <1>2 DEF PutSync, TypeOK, InoType
  <1> QED
    BY <1>4, <1>5 DEF PutSync, TypeOK

LEMMA PutRenameTyped == ASSUME TypeOK, NEW r \in Reqs, PutRename(r) PROVE TypeOK'
  <1>1. ReqOK /\ req[r] \in ReqType /\ LocalsSet(req[r])
    BY DEF TypeOK, ReqOK
  <1>2. LocalsSet([req[r] EXCEPT !.pc = "uncache"])
    BY <1>1 DEF LocalsSet, ReqType
  <1>3. ReqOK'
    BY <1>1, <1>2, GotoTyped DEF PutRename, Pcs
  <1>4. node' \in [Entries -> Inodes \cup {NoEntry, Directory}]
    BY DEF PutRename, CanRename, IsFile, TypeOK
  <1> QED
    BY <1>3, <1>4 DEF PutRename, TypeOK

LEMMA PutCleanupTyped == ASSUME TypeOK, NEW r \in Reqs, PutCleanup(r) PROVE TypeOK'
  <1>1. ReqOK'
    BY AnswerTyped DEF PutCleanup, TypeOK, Resps
  <1>2. node' \in [Entries -> Inodes \cup {NoEntry, Directory}]
    BY DEF PutCleanup, CleanedUp, TypeOK
  <1> QED
    BY <1>1, <1>2 DEF PutCleanup, TypeOK

LEMMA WriteUncacheTyped == ASSUME TypeOK, NEW r \in Reqs, WriteUncache(r) PROVE TypeOK'
  <1>1. ReqOK /\ req[r] \in ReqType /\ LocalsSet(req[r])
    BY DEF TypeOK, ReqOK
  <1>2. LocalsSet([req[r] EXCEPT !.pc = "restat"])
    BY <1>1 DEF LocalsSet, ReqType
  <1>3. ReqOK'
    BY <1>1, <1>2, GotoTyped DEF WriteUncache, Pcs
  <1> QED
    BY <1>3 DEF WriteUncache, Uncached, TypeOK

\* HEAD and PUT keep a stat of the path for the step that puts it in the cache.
LEMMA KeepStatTyped ==
    ASSUME TypeOK, NEW r \in Reqs, NEW l \in {"prime", "insert"},
           node[Path(r)] \in Inodes \cup {Directory},
           req' = [req EXCEPT ![r].pc = l, ![r].stat = StatOf(node[Path(r)])]
    PROVE  ReqOK'
  <1> DEFINE c == [req[r] EXCEPT !.pc = l, !.stat = StatOf(node[Path(r)])]
  <1>1. ReqOK /\ req[r] \in ReqType /\ LocalsSet(req[r])
    BY DEF TypeOK, ReqOK
  <1>2. StatOf(node[Path(r)]) \in Stats /\ StatOf(node[Path(r)]) # NoStat
    BY StatTyped
  <1>3. c \in ReqType
    BY <1>1, <1>2 DEF ReqType, Pcs
  <1>4. LocalsSet(c)
    BY <1>1, <1>2 DEF LocalsSet, ReqType
  <1> QED
    BY <1>1, <1>3, <1>4, Become

LEMMA PathTyped == ASSUME TypeOK, NEW r \in Reqs PROVE Path(r) \in Paths \ {Root} /\ Path(r) \in Entries
  BY CallAssumption DEF TypeOK, ReqOK, ReqType, Path, Entries

LEMMA RestatTyped == ASSUME TypeOK, NEW r \in Reqs, Restat(r) PROVE TypeOK'
  <1>1. node[Path(r)] # NoEntry => node[Path(r)] \in Inodes \cup {Directory}
    BY PathTyped DEF TypeOK
  <1>2. ReqOK'
    BY <1>1, KeepStatTyped, AnswerTyped DEF Restat, TypeOK, Resps
  <1> QED
    BY <1>2 DEF Restat, TypeOK

LEMMA PutPrimeTyped == ASSUME TypeOK, NEW r \in Reqs, PutPrime(r) PROVE TypeOK'
  <1>1. ReqOK /\ req[r] \in ReqType /\ LocalsSet(req[r])
    BY DEF TypeOK, ReqOK
  <1>2. req[r].stat \in Stats /\ req[r].key \in Keys
    BY <1>1 DEF PutPrime, At, LocalsSet, ReqType
  <1>3. ReqOK'
    BY <1>1, AnswerTyped DEF PutPrime, Resps
  <1> QED
    BY <1>2, <1>3 DEF PutPrime, Inserted, TypeOK

LEMMA HeadInsertTyped == ASSUME TypeOK, NEW r \in Reqs, HeadInsert(r) PROVE TypeOK'
  <1>1. ReqOK /\ req[r] \in ReqType /\ LocalsSet(req[r])
    BY DEF TypeOK, ReqOK
  <1>2. req[r].stat \in Stats /\ req[r].key \in Keys
    BY <1>1 DEF HeadInsert, At, LocalsSet, ReqType
  <1>3. ReqOK'
    BY <1>1, AnswerTyped DEF HeadInsert, Resps
  <1> QED
    BY <1>2, <1>3 DEF HeadInsert, Inserted, TypeOK

LEMMA CopySrcStatTyped == ASSUME TypeOK, NEW r \in Reqs, CopySrcStat(r) PROVE TypeOK'
  <1>1. ReqOK /\ req[r] \in ReqType /\ LocalsSet(req[r])
    BY DEF TypeOK, ReqOK
  <1>2. LocalsSet([req[r] EXCEPT !.pc = "canon"])
    BY <1>1 DEF CopySrcStat, At, LocalsSet, ReqType
  <1>3. ReqOK'
    BY <1>1, <1>2, GotoTyped, AnswerTyped DEF CopySrcStat, Pcs, Resps
  <1> QED
    BY <1>3 DEF CopySrcStat, TypeOK

LEMMA CopyCanonTyped == ASSUME TypeOK, NEW r \in Reqs, CopyCanon(r) PROVE TypeOK'
  <1>1. ReqOK /\ req[r] \in ReqType /\ LocalsSet(req[r])
    BY DEF TypeOK, ReqOK
  <1>2. req[r].op = "COPY"
    BY <1>1 DEF CopyCanon, At, LocalsSet
  <1>3. ReqOK'
    BY <1>1, <1>2, EnsureParentTyped, AnswerTyped DEF CopyCanon, Resps
  <1> QED
    BY <1>3 DEF CopyCanon, TypeOK

LEMMA CopyOpenTyped == ASSUME TypeOK, NEW r \in Reqs, CopyOpen(r) PROVE TypeOK'
  <1> DEFINE c == [req[r] EXCEPT !.pc = "copytrunc", !.fd = node[Source(r)]]
  <1>1. ReqOK /\ req[r] \in ReqType /\ LocalsSet(req[r])
    BY DEF TypeOK, ReqOK
  <1>2. req[r].op = "COPY"
    BY <1>1 DEF CopyOpen, At, LocalsSet
  <1>3. CASE IsFile(Source(r)) /\ req' = [req EXCEPT ![r] = c]
    <2>1. node[Source(r)] \in Inodes
      BY <1>3 DEF IsFile
    <2>2. c \in ReqType
      BY <1>1, <2>1 DEF ReqType, Pcs
    <2>3. LocalsSet(c)
      BY <1>1, <1>2, <2>1 DEF LocalsSet, ReqType
    <2> QED
      BY <1>1, <1>3, <2>2, <2>3, Become DEF CopyOpen, TypeOK
  <1>4. CASE RetryOrFail(r)
    BY <1>1, <1>2, <1>4, RetryOrFailTyped DEF CopyOpen, TypeOK
  <1> QED
    BY <1>3, <1>4 DEF CopyOpen

LEMMA CopyTruncTyped == ASSUME TypeOK, NEW r \in Reqs, CopyTrunc(r) PROVE TypeOK'
  <1>1. ReqOK /\ req[r] \in ReqType /\ LocalsSet(req[r])
    BY DEF TypeOK, ReqOK
  <1>2. req[r].op = "COPY" /\ req[r].fd \in Inodes
    BY <1>1 DEF CopyTrunc, At, LocalsSet
  <1>3. CASE OpenTrunc(r, Path(r), "copying")
    BY <1>2, <1>3, PathTyped, OpenTruncTyped DEF CopyTrunc, TypeOK
  <1>4. CASE RetryOrFail(r) /\ UNCHANGED <<node, ino>>
    BY <1>1, <1>2, <1>4, RetryOrFailTyped DEF CopyTrunc, TypeOK
  <1> QED
    BY <1>3, <1>4 DEF CopyTrunc

LEMMA CopyPieceTyped == ASSUME TypeOK, NEW r \in Reqs, CopyPiece(r) PROVE TypeOK'
  <1> DEFINE from == ino[req[r].fd].data
  <1>1. ReqOK /\ req[r] \in ReqType /\ LocalsSet(req[r])
    BY DEF TypeOK, ReqOK
  <1>2. req[r].op = "COPY" /\ req[r].fd \in Inodes /\ req[r].off \in Nat
    BY <1>1 DEF CopyPiece, At, LocalsSet, ReqType
  <1>3. from \in Seq(Payloads \cup {Hole})
    BY <1>2 DEF TypeOK, InoType
  <1>4. CASE req[r].off < Len(from) /\ WritePiece(r, from[req[r].off + 1])
    <2>1. from[req[r].off + 1] \in Payloads \cup {Hole}
      BY <1>2, <1>3, <1>4
    <2> QED
      BY <1>4, <2>1, WritePieceTyped DEF CopyPiece, At, TypeOK
  <1>5. CASE Goto(r, "uncache") /\ UNCHANGED ino
    <2>1. LocalsSet([req[r] EXCEPT !.pc = "uncache"])
      BY <1>1 DEF LocalsSet, ReqType
    <2> QED
      BY <1>1, <1>5, <2>1, GotoTyped DEF CopyPiece, TypeOK, Pcs
  <1>6. CASE RetryOrFail(r) /\ UNCHANGED ino
    BY <1>1, <1>2, <1>6, RetryOrFailTyped DEF CopyPiece, TypeOK
  <1> QED
    BY <1>4, <1>5, <1>6 DEF CopyPiece

LEMMA DeleteRemoveTyped == ASSUME TypeOK, NEW r \in Reqs, DeleteRemove(r) PROVE TypeOK'
  <1>1. ReqOK /\ req[r] \in ReqType /\ LocalsSet(req[r])
    BY DEF TypeOK, ReqOK
  <1>2. node' \in [Entries -> Inodes \cup {NoEntry, Directory}]
    BY DEF DeleteRemove, TypeOK
  <1>3. LocalsSet([req[r] EXCEPT !.pc = "uncache"])
    BY <1>1 DEF LocalsSet, ReqType
  <1>4. ReqOK'
    BY <1>1, <1>3, GotoTyped, PathTyped, PruneFromTyped DEF DeleteRemove, Pcs
  <1> QED
    BY <1>2, <1>4 DEF DeleteRemove, TypeOK

LEMMA DeleteUncacheTyped == ASSUME TypeOK, NEW r \in Reqs, DeleteUncache(r) PROVE TypeOK'
  <1>1. ParentOf[Path(r)] \in Paths
    BY PathTyped, TreeAssumption
  <1>2. ReqOK'
    BY <1>1, PruneFromTyped DEF DeleteUncache, TypeOK
  <1> QED
    BY <1>2 DEF DeleteUncache, Uncached, TypeOK

LEMMA PruneTyped == ASSUME TypeOK, NEW r \in Reqs, Prune(r) PROVE TypeOK'
  <1> DEFINE d == Head(req[r].walk)
  <1>1. ReqOK /\ req[r] \in ReqType /\ LocalsSet(req[r])
    BY DEF TypeOK, ReqOK
  <1>2. d \in Paths \ {Root}
    BY <1>1 DEF Prune, At, LocalsSet, ReqType
  <1>3. ParentOf[d] \in Paths
    BY <1>2, TreeAssumption
  <1>4. ReqOK'
    BY <1>1, <1>3, PruneFromTyped, AnswerTyped DEF Prune, Resps
  <1>5. node' \in [Entries -> Inodes \cup {NoEntry, Directory}]
    BY DEF Prune, TypeOK
  <1> QED
    BY <1>4, <1>5 DEF Prune, TypeOK

LEMMA HeadLookupTyped == ASSUME TypeOK, NEW r \in Reqs, HeadLookup(r) PROVE TypeOK'
  <1> DEFINE c == [req[r] EXCEPT !.stat = cache[req[r].key]]
  <1>1. ReqOK /\ req[r] \in ReqType /\ LocalsSet(req[r])
    BY DEF TypeOK, ReqOK
  <1>2. c \in ReqType
    BY <1>1 DEF TypeOK, ReqType
  <1>3. CASE req' = [req EXCEPT ![r] = Answered(c, "200")]
    BY <1>1, <1>2, <1>3, AnsweredTyped, Become DEF HeadLookup, TypeOK, Resps
  <1>4. CASE Goto(r, "stat")
    <2>1. LocalsSet([req[r] EXCEPT !.pc = "stat"])
      BY <1>1 DEF LocalsSet, ReqType
    <2> QED
      BY <1>1, <1>4, <2>1, GotoTyped DEF HeadLookup, TypeOK, Pcs
  <1> QED
    BY <1>3, <1>4 DEF HeadLookup

LEMMA HeadStatTyped == ASSUME TypeOK, NEW r \in Reqs, HeadStat(r) PROVE TypeOK'
  <1>1. ReqOK'
    BY KeepStatTyped, AnswerTyped DEF HeadStat, IsFile, TypeOK, Resps
  <1> QED
    BY <1>1 DEF HeadStat, TypeOK

LEMMA GetOpenTyped == ASSUME TypeOK, NEW r \in Reqs, GetOpen(r) PROVE TypeOK'
  <1> DEFINE c == [req[r] EXCEPT !.pc = "metadata", !.fd = node[Path(r)]]
  <1>1. ReqOK /\ req[r] \in ReqType /\ LocalsSet(req[r])
    BY DEF TypeOK, ReqOK
  <1>2. CASE node[Path(r)] # NoEntry /\ req' = [req EXCEPT ![r] = c]
    <2>1. node[Path(r)] \in Inodes \cup {Directory} /\ node[Path(r)] # None
      BY <1>2, PathTyped, SentinelAssumption DEF TypeOK
    <2>2. c \in ReqType
      BY <1>1, <2>1 DEF ReqType, Pcs
    <2>3. LocalsSet(c)
      BY <1>1, <2>1 DEF LocalsSet, ReqType
    <2> QED
      BY <1>1, <1>2, <2>2, <2>3, Become DEF GetOpen, TypeOK
  <1>3. CASE Answer(r, "404")
    BY <1>1, <1>3, AnswerTyped DEF GetOpen, TypeOK, Resps
  <1> QED
    BY <1>2, <1>3 DEF GetOpen

LEMMA GetMetadataTyped == ASSUME TypeOK, NEW r \in Reqs, GetMetadata(r) PROVE TypeOK'
  <1> DEFINE c == [req[r] EXCEPT !.pc = "stream", !.stat = StatOf(req[r].fd), !.resp = "200"]
  <1>1. ReqOK /\ req[r] \in ReqType /\ LocalsSet(req[r])
    BY DEF TypeOK, ReqOK
  <1>2. req[r].fd \in Inodes \cup {Directory} /\ req[r].fd # None
    BY <1>1 DEF GetMetadata, At, LocalsSet, ReqType
  <1>3. CASE req' = [req EXCEPT ![r] = c]
    <2>1. StatOf(req[r].fd) \in Stats /\ StatOf(req[r].fd) # NoStat
      BY <1>2, StatTyped
    <2>2. c \in ReqType
      <3>1. [req[r] EXCEPT !.pc = "stream"] \in ReqType
        BY <1>1, SetPc DEF Pcs
      <3>2. [req[r] EXCEPT !.pc = "stream", !.stat = StatOf(req[r].fd)] \in ReqType
        BY <2>1, <3>1, SetStat
      <3> QED
        BY <3>2, SetResp DEF Resps
    <2>3. LocalsSet(c)
      BY <1>1, <1>2, <2>1 DEF LocalsSet, ReqType
    <2> QED
      BY <1>1, <1>3, <2>2, <2>3, Become DEF GetMetadata, TypeOK
  <1>4. CASE Answer(r, "500")
    BY <1>1, <1>4, AnswerTyped DEF GetMetadata, TypeOK, Resps
  <1> QED
    BY <1>3, <1>4 DEF GetMetadata

LEMMA GetStreamTyped == ASSUME TypeOK, NEW r \in Reqs, GetStream(r) PROVE TypeOK'
  <1> DEFINE data == ino[req[r].fd].data
             n == Len(req[r].got)
             more == req[r].fd # Directory /\ n < req[r].stat.size /\ n < Len(data)
             c == [req[r] EXCEPT !.got = Append(req[r].got, data[n + 1])]
  <1>1. ReqOK /\ req[r] \in ReqType /\ LocalsSet(req[r])
    BY DEF TypeOK, ReqOK
  <1>2. req[r].got \in Seq(Payloads \cup {Hole}) /\ req[r].fd \in Inodes \cup {Directory}
    BY <1>1 DEF GetStream, At, LocalsSet, ReqType
  <1>3. CASE more
    <2>1. data \in Seq(Payloads \cup {Hole})
      BY <1>2, <1>3 DEF TypeOK, InoType
    <2>2. data[n + 1] \in Payloads \cup {Hole}
      BY <1>2, <1>3, <2>1
    <2>3. Append(req[r].got, data[n + 1]) \in Seq(Payloads \cup {Hole})
      BY <1>2, <2>2
    <2>4. c \in ReqType
      BY <1>1, <2>3 DEF ReqType
    <2>5. LocalsSet(c)
      BY <1>1 DEF LocalsSet, ReqType
    <2>6. req' = [req EXCEPT ![r] = c]
      BY <1>3 DEF GetStream
    <2> QED
      BY <1>1, <2>4, <2>5, <2>6, Become DEF GetStream, TypeOK
  <1>4. CASE ~more
    <2>1. Answer(r, "200")
      BY <1>4 DEF GetStream
    <2> QED
      BY <1>1, <2>1, AnswerTyped DEF GetStream, TypeOK, Resps
  <1> QED
    BY <1>3, <1>4

LEMMA TimeoutTyped == ASSUME TypeOK, NEW r \in Reqs, Timeout(r) PROVE TypeOK'
  <1>1. ReqOK /\ req[r] \in ReqType /\ LocalsSet(req[r])
    BY DEF TypeOK, ReqOK
  <1>2. CASE Answer(r, "504")
    BY <1>1, <1>2, AnswerTyped DEF Timeout, TypeOK, Resps
  <1>3. ASSUME NEW l \in {"late_remove", "late_rmdir"},
               req[r].pc = IF l = "late_remove" THEN "remove" ELSE "prune",
               req' = [req EXCEPT ![r].pc = l, ![r].resp = "504"]
        PROVE  TypeOK'
    <2> DEFINE c == [req[r] EXCEPT !.pc = l, !.resp = "504"]
    <2>1. c \in ReqType
      <3>1. [req[r] EXCEPT !.pc = l] \in ReqType
        BY <1>1, SetPc DEF Pcs
      <3> QED
        BY <3>1, SetResp DEF Resps
    <2>2. c.pc = l /\ c.walk = req[r].walk
      BY <1>1 DEF ReqType
    <2>3. l = "late_rmdir" => req[r].walk # <<>> /\ Head(req[r].walk) # Root
      BY <1>1, <1>3 DEF LocalsSet
    <2>4. LocalsSet(c)
      BY <2>2, <2>3 DEF LocalsSet
    <2>5. req' = [req EXCEPT ![r] = c]
      BY <1>3
    <2>6. ReqOK'
      BY <1>1, <2>1, <2>4, <2>5, Become
    <2> QED
      BY <2>6 DEF Timeout, TypeOK
  <1> QED
    BY <1>2, <1>3 DEF Timeout, At

LEMMA AbandonTyped == ASSUME TypeOK, NEW r \in Reqs, Abandon(r) PROVE TypeOK'
  BY AnswerTyped DEF Abandon, TypeOK, Resps

LEMMA LateTyped == ASSUME TypeOK, NEW r \in Reqs, LateRemove(r) \/ LateRmdir(r) PROVE TypeOK'
  <1>1. ReqOK'
    BY AnswerTyped DEF LateRemove, LateRmdir, TypeOK, Resps
  <1>2. node' \in [Entries -> Inodes \cup {NoEntry, Directory}]
    BY DEF LateRemove, LateRmdir, TypeOK
  <1> QED
    BY <1>1, <1>2 DEF LateRemove, LateRmdir, TypeOK

LEMMA CrashTyped == ASSUME TypeOK, Crash PROVE TypeOK'
  <1>1. ReqOK'
    <2>1. \A r \in Reqs : req'[r] \in ReqType /\ LocalsSet(req'[r])
      BY AnsweredTyped DEF Crash, TypeOK, ReqOK, Resps
    <2>2. req' = [r \in Reqs |-> IF Active(r) THEN Answered(req[r], "lost") ELSE req[r]]
      BY DEF Crash
    <2> QED
      BY <2>1, <2>2 DEF ReqOK
  <1>2. ino' \in [Inodes -> InoType]
    <2>1. PICK lost : ino' = [i \in Inodes |-> IF i \in lost THEN [ino[i] EXCEPT !.data = <<>>] ELSE ino[i]]
      BY DEF Crash
    <2>2. ASSUME NEW i \in Inodes
          PROVE  [ino[i] EXCEPT !.data = <<>>] \in InoType
      <3>1. ino[i] \in InoType
        BY DEF TypeOK
      <3>2. <<>> \in Seq(Payloads \cup {Hole})
        OBVIOUS
      <3> QED
        BY <3>1, <3>2 DEF InoType
    <2> QED
      BY <2>1, <2>2 DEF TypeOK
  <1> QED
    BY <1>1, <1>2 DEF Crash, TypeOK

LEMMA TypeStep == TypeOK /\ [Next]_vars => TypeOK'
  <1> SUFFICES ASSUME TypeOK, [Next]_vars PROVE TypeOK'
    OBVIOUS
  <1>1. ASSUME NEW r \in Reqs, Step(r) PROVE TypeOK'
    BY <1>1, MkdirTyped, IsDirCheckTyped, TakeNameTyped, PutCreateTyped, PutWriteTyped,
       PutFlushTyped, PutSyncTyped, PutRenameTyped, PutFailTyped, PutCleanupTyped,
       WriteUncacheTyped, RestatTyped, PutPrimeTyped, CopySrcStatTyped, CopyCanonTyped,
       CopyOpenTyped, CopyTruncTyped, CopyPieceTyped, DeleteRemoveTyped, DeleteUncacheTyped,
       PruneTyped, HeadLookupTyped, HeadStatTyped, HeadInsertTyped, GetOpenTyped,
       GetMetadataTyped, GetStreamTyped, LateTyped DEF Step
  <1>2. ASSUME NEW k \in Keys, CacheLose(k) PROVE TypeOK'
    BY <1>2 DEF CacheLose, TypeOK, ReqOK
  <1>3. CASE UNCHANGED vars
    BY <1>3 DEF vars, TypeOK, ReqOK
  <1> QED
    BY <1>1, <1>2, <1>3, StartTyped, TimeoutTyped, AbandonTyped, CrashTyped DEF Next

\* Every variable keeps its type, and a request has set the locals its next
\* step uses: no handler reaches a file system call without its operands.
THEOREM TypeCorrect == Spec => []TypeOK
  BY TypeInit, TypeStep, PTL DEF Spec

-----------------------------------------------------------------------------
(* The tree stays closed: nothing loses the directory it lies in.          *)

TreeOf(n) ==
    /\ n[Root] = Directory
    /\ \A e \in Entries \ {Root} : n[e] # NoEntry => n[DirOf(e)] = Directory

LEMMA DirOfEntry ==
    ASSUME NEW e \in Entries \ {Root}
    PROVE  DirOf(e) \in Paths /\ DirOf(e) \in Entries /\ DirOf(e) # e
  <1>1. CASE e \in Paths
    BY <1>1, TreeAssumption DEF DirOf, Entries
  <1>2. CASE e \notin Paths
    <2>1. e[1] \in Paths \ {Root}
      BY <1>2 DEF Entries, Temps
    <2> QED
      BY <1>2, <2>1, TreeAssumption DEF DirOf, Entries
  <1> QED
    BY <1>1, <1>2

\* An entry that is no directory can be taken, if it lies in a directory.
LEMMA FillKeepsTree ==
    ASSUME NEW n \in [Entries -> Inodes \cup {NoEntry, Directory}], TreeOf(n),
           NEW e \in Entries \ {Root}, NEW v,
           n[e] # Directory, n[DirOf(e)] = Directory
    PROVE  TreeOf([n EXCEPT ![e] = v])
  BY DirOfEntry, TreeAssumption DEF TreeOf, Entries

\* An entry can be freed, unless it is a directory with something in it.
LEMMA FreeKeepsTree ==
    ASSUME NEW n \in [Entries -> Inodes \cup {NoEntry, Directory}], TreeOf(n),
           NEW e \in Entries \ {Root},
           n[e] = Directory => \A f \in Entries \ {Root} : DirOf(f) = e => n[f] = NoEntry
    PROVE  TreeOf([n EXCEPT ![e] = NoEntry])
  BY DirOfEntry, TreeAssumption DEF TreeOf, Entries

LEMMA TreeInit == Init => TreeClosed
  <1> SUFFICES ASSUME Init PROVE TreeClosed
    OBVIOUS
  <1>1. ASSUME NEW p \in Paths PROVE p \in InitialDirs => node[p] = Directory
    BY TreeAssumption DEF Init, StorageInit, Entries
  <1>2. ASSUME NEW e \in Entries \ {Root}, node[e] # NoEntry PROVE IsDir(DirOf(e))
    <2>1. e \in Initial \cup InitialDirs
      BY <1>2 DEF Init, StorageInit
    <2>2. e \in Paths /\ ParentOf[e] \in InitialDirs
      BY <2>1, TreeAssumption
    <2> QED
      BY <1>1, <2>2, TreeAssumption DEF DirOf, IsDir
  <1> QED
    BY <1>1, <1>2, TreeAssumption DEF TreeClosed, IsDir

LEMMA TempEntry ==
    ASSUME NEW e \in Temps
    PROVE  e \in Entries \ {Root} /\ e \notin Paths
  BY DistinctAssumption, TreeAssumption DEF Entries

LEMMA TreeStep == TypeOK /\ TreeClosed /\ [Next]_vars => TreeClosed'
  <1> SUFFICES ASSUME TypeOK, TreeClosed, [Next]_vars PROVE TreeClosed'
    OBVIOUS
  <1>1. TreeOf(node) /\ node \in [Entries -> Inodes \cup {NoEntry, Directory}]
    BY DEF TreeClosed, TreeOf, IsDir, TypeOK
  <1>2. SUFFICES node' # node => TreeOf(node')
    BY DEF TreeClosed, TreeOf, IsDir
  <1>3. ASSUME NEW r \in Reqs PROVE Path(r) \in Entries \ {Root} /\ Path(r) \in Paths
    BY PathTyped
  <1>4. ASSUME NEW r \in Reqs, Mkdir(r), node' # node PROVE TreeOf(node')
    <2> DEFINE d == Head(req[r].walk)
    <2>1. CanMkdir(d) /\ node' = [node EXCEPT ![d] = Directory]
      BY <1>4 DEF Mkdir
    <2>2. d \in Paths
      <3>1. req[r].walk \in Seq(Paths) /\ req[r].walk # <<>>
        BY <1>4 DEF TypeOK, ReqOK, ReqType, LocalsSet, Mkdir
      <3> QED
        BY <3>1
    <2>3. d \in Entries \ {Root} /\ node[d] # Directory /\ node[DirOf(d)] = Directory
      BY <2>1, <2>2, DistinctAssumption DEF CanMkdir, IsDir, DirOf, Entries
    <2> QED
      BY <1>1, <2>1, <2>3, FillKeepsTree
  <1>5. ASSUME NEW r \in Reqs, NEW e \in Entries, NEW l, OpenTrunc(r, e, l) PROVE TreeOf(node')
    <2>1. e # Root /\ node[e] # Directory /\ node[DirOf(e)] = Directory
      BY <1>1, <1>5 DEF OpenTrunc, CanOpenTrunc, IsDir, TreeOf
    <2> QED
      BY <1>1, <1>5, <2>1, FillKeepsTree DEF OpenTrunc
  <1>6. ASSUME NEW r \in Reqs, PutCreate(r), node' # node PROVE TreeOf(node')
    <2>1. Temp(r) \in Entries
      BY <1>6, TempTyped DEF PutCreate, At, TypeOK, ReqOK, LocalsSet
    <2> QED
      BY <1>5, <1>6, <2>1 DEF PutCreate
  <1>7. ASSUME NEW r \in Reqs, CopyTrunc(r), node' # node PROVE TreeOf(node')
    BY <1>3, <1>5, <1>7 DEF CopyTrunc
  <1>8. ASSUME NEW r \in Reqs, PutRename(r) PROVE TreeOf(node')
    <2> DEFINE n == [node EXCEPT ![Path(r)] = node[Temp(r)]]
    <2>1. Temp(r) \in Temps /\ Temp(r) \in Entries \ {Root} /\ Temp(r) # Path(r)
      BY <1>3, <1>8, TempTyped, TempEntry DEF PutRename, At, TypeOK, ReqOK, LocalsSet
    <2>2. node[Temp(r)] \in Inodes /\ node[Path(r)] # Directory /\ node[DirOf(Path(r))] = Directory
      BY <1>8 DEF PutRename, CanRename, IsFile, IsDir
    <2>3. TreeOf(n) /\ n \in [Entries -> Inodes \cup {NoEntry, Directory}]
      BY <1>1, <1>3, <2>2, FillKeepsTree
    <2>4. n[Temp(r)] # Directory
      BY <1>1, <1>3, <2>1, <2>2, DistinctAssumption
    <2>5. node' = [n EXCEPT ![Temp(r)] = NoEntry]
      BY <1>8 DEF PutRename
    <2> QED
      BY <2>1, <2>3, <2>4, <2>5, FreeKeepsTree
  <1>9. ASSUME NEW r \in Reqs, PutCleanup(r), node' # node PROVE TreeOf(node')
    <2>1. Temp(r) \in Entries \ {Root}
      BY <1>9, TempTyped, TempEntry DEF PutCleanup, At, TypeOK, ReqOK, LocalsSet
    <2>2. node[Temp(r)] # Directory /\ node' = [node EXCEPT ![Temp(r)] = NoEntry]
      BY <1>9, DistinctAssumption DEF PutCleanup, CanUnlink, IsFile, CleanedUp
    <2> QED
      BY <1>1, <2>1, <2>2, FreeKeepsTree
  <1>10. ASSUME NEW r \in Reqs, DeleteRemove(r) \/ LateRemove(r), node' # node PROVE TreeOf(node')
    <2>1. node[Path(r)] # Directory /\ node' = [node EXCEPT ![Path(r)] = NoEntry]
      BY <1>10, DistinctAssumption DEF DeleteRemove, LateRemove, CanUnlink, IsFile
    <2> QED
      BY <1>1, <1>3, <2>1, FreeKeepsTree
  <1>11. ASSUME NEW r \in Reqs, Prune(r) \/ LateRmdir(r), node' # node PROVE TreeOf(node')
    <2> DEFINE d == Head(req[r].walk)
    <2>1. d \in Entries \ {Root}
      <3>1. req[r].walk \in Seq(Paths) /\ req[r].walk # <<>> /\ d # Root
        BY <1>11 DEF TypeOK, ReqOK, ReqType, LocalsSet, Prune, LateRmdir, At
      <3> QED
        BY <3>1 DEF Entries
    <2>2. Empty(d) /\ node' = [node EXCEPT ![d] = NoEntry]
      BY <1>11 DEF Prune, LateRmdir, PruneRemoves, CanRmdir
    <2> QED
      BY <1>1, <2>1, <2>2, FreeKeepsTree DEF Empty
  <1>12. ASSUME NEW r \in Reqs, Step(r), node' # node PROVE TreeOf(node')
    BY <1>4, <1>6, <1>7, <1>8, <1>9, <1>10, <1>11, <1>12
       DEF Step, IsDirCheck, TakeName, PutWrite, PutFlush, PutSync, PutFail, WriteUncache,
           Restat, PutPrime, CopySrcStat, CopyCanon, CopyOpen, CopyPiece, DeleteUncache,
           HeadLookup, HeadStat, HeadInsert, GetOpen, GetMetadata, GetStream
  <1> QED
    BY <1>12 DEF Next, Start, Timeout, Abandon, CacheLose, Crash, vars

\* Whatever requests do at the same time, on any tree: no prune takes the
\* directory of an object, of an upload or of another directory, and the
\* bucket's own directory is never removed.
THEOREM TreeStaysClosed == Spec => []TreeClosed
  <1>1. Init => TypeOK /\ TreeClosed
    BY TypeInit, TreeInit
  <1>2. TypeOK /\ TreeClosed /\ [Next]_vars => (TypeOK /\ TreeClosed)'
    BY TypeStep, TreeStep
  <1> QED
    BY <1>1, <1>2, PTL DEF Spec

-----------------------------------------------------------------------------
(* Mild steps.                                                             *)

\* Locals o become c without a file being opened or written.
Mild(o, c) ==
    /\ c.tmp \in {o.tmp, None}
    /\ c.tmp # None => c.pc # "done"
    /\ c.pc \notin {"idle", "write", "sync", "rename", "copying"}
    /\ c.pc = "cleanup" => /\ o.pc \in {"write", "sync", "rename"}
                           /\ c.op = o.op /\ c.key = o.key /\ c.tmp = o.tmp /\ c.wfd = o.wfd
    /\ o.op = "COPY" => c.op = "COPY"
    /\ c.op = "COPY" => o.op = "COPY" \/ CopyAllowed
    /\ c.pc \in {"remove", "late_remove"} => c.op = "DELETE"
    /\ c.pc \in {"srcstat", "canon"} => c.att = 1
    /\ \A a \in {1, 2} : Ahead(c, a) => Ahead(o, a)

Only(r) == \A q \in Reqs \ {r} : req'[q] = req[q]

MildReq(r) == Only(r) /\ Mild(req[r], req'[r])

\* r takes entry e: a directory made or removed, or an object it is to delete.
Takes(r, e) ==
    /\ e \in Paths
    /\ \/ node[e] \notin Inodes
       \/ e = Path(r) /\ req[r].op = "DELETE" /\ node'[e] = NoEntry

\* No entry comes to link a file, no temporary name is lost to an upload, and
\* only a DELETE takes an object.
MildNode(r) ==
    \A e \in Entries :
        \/ node'[e] = node[e]
        \/ /\ node'[e] \notin Inodes
           /\ \/ Takes(r, e)
              \/ e \in Temps /\ e = Temp(r) /\ node'[e] = NoEntry /\ req'[r].pc = "done"

LEMMA TempsApart ==
    ASSUME TypeOK, NamesTaken, NEW r \in Reqs, NEW q \in Reqs, req[r].tmp # None, Temp(q) = Temp(r)
    PROVE  q = r
  BY DEF NamesTaken, Temp

LEMMA UploadTyped ==
    ASSUME TypeOK, NEW r \in Reqs, Uploading(r)
    PROVE  req[r].tmp # None /\ req[r].wfd \in Inodes /\ Temp(r) \in Temps /\ Temp(r) \in Entries
  <1>1. req[r].tmp # None /\ req[r].wfd \in Inodes
    BY DEF TypeOK, ReqOK, LocalsSet, Uploading
  <1> QED
    BY <1>1, TempTyped

LEMMA MildKeepsUploads ==
    ASSUME UploadInv, TypeOK', NEW r \in Reqs, MildReq(r), MildNode(r), UNCHANGED <<ino, counter>>
    PROVE  UploadInv'
  <1>1. TypeOK /\ StepsFit /\ OneName /\ NamesTaken /\ FreshInodes /\ WritersApart /\ UploadsProgress
    BY DEF UploadInv
  <1>2. ASSUME NEW q \in Reqs, q # r PROVE req'[q] = req[q]
    BY <1>2 DEF MildReq, Only
  <1>3. StepsFit'
    BY <1>1, <1>2 DEF MildReq, Mild, StepsFit, At
  <1>4. OneName'
    BY <1>1 DEF MildNode, OneName
  <1>5. NamesTaken'
    <2>1. ASSUME NEW q \in Reqs, req'[q].tmp # None
          PROVE  req'[q].tmp = req[q].tmp /\ Active(q)'
      BY <1>1, <1>2, <2>1 DEF MildReq, Mild, NamesTaken, Active
    <2> QED
      BY <1>1, <2>1 DEF NamesTaken
  <1>6. FreshInodes'
    <2> SUFFICES ASSUME NEW q \in Reqs, NEW a \in {1, 2}, Ahead(req'[q], a)
                 PROVE  /\ \A e \in Entries : node'[e] # <<q, a>>
                        /\ \A p \in Reqs : req'[p].pc \in Writing => req'[p].wfd # <<q, a>>
      BY DEF FreshInodes
    <2>1. Ahead(req[q], a)
      BY <1>2 DEF MildReq, Mild
    <2>2. <<q, a>> \in Inodes
      BY DEF Inodes
    <2>3. \A e \in Entries : node'[e] # <<q, a>>
      BY <1>1, <2>1, <2>2 DEF MildNode, FreshInodes
    <2>4. ASSUME NEW p \in Reqs, req'[p].pc \in Writing
          PROVE  req[p].pc \in Writing /\ req'[p].wfd = req[p].wfd
      BY <1>2, <2>4 DEF MildReq, Mild, Writing
    <2> QED
      BY <1>1, <2>1, <2>3, <2>4 DEF FreshInodes
  <1>7. WritersApart'
    <2>1. ASSUME NEW q \in Reqs, Uploading(q)' PROVE node'[Temp(q)'] = req'[q].wfd
      <3>1. Uploading(q) /\ req'[q].wfd = req[q].wfd /\ Temp(q)' = Temp(q) /\ (q = r => req'[r].pc # "done")
        BY <1>2, <2>1 DEF MildReq, Mild, Uploading, Temp, Path
      <3>2. Temp(q) \in Entries /\ Temp(q) \notin Paths /\ req[q].tmp # None
        BY <1>1, <3>1, UploadTyped, TempEntry
      <3>3. Temp(q) = Temp(r) => q = r
        BY <1>1, <3>2, TempsApart
      <3>4. node'[Temp(q)] = node[Temp(q)]
        BY <3>1, <3>2, <3>3 DEF MildNode, Takes
      <3> QED
        BY <1>1, <3>1, <3>4 DEF WritersApart
    <2>2. ASSUME NEW q \in Reqs, At(q, "copying")', NEW e \in Temps PROVE node'[e] # req'[q].wfd
      <3>1. At(q, "copying") /\ req'[q].wfd = req[q].wfd
        BY <1>2, <2>2 DEF MildReq, Mild, At
      <3>2. req[q].wfd \in Inodes /\ e \in Entries
        BY <1>1, <3>1 DEF TypeOK, ReqOK, LocalsSet, At, Entries
      <3> QED
        BY <1>1, <3>1, <3>2 DEF WritersApart, MildNode
    <2> QED
      BY <2>1, <2>2 DEF WritersApart
  <1>8. UploadsProgress'
    BY <1>1, <1>2 DEF MildReq, Mild, UploadsProgress, Progress
  <1> QED
    BY <1>3, <1>4, <1>5, <1>6, <1>7, <1>8 DEF UploadInv

LEMMA MildKeepsObjects ==
    ASSUME TypeOK, ObjectsSafe, NEW r \in Reqs, MildReq(r), MildNode(r), UNCHANGED ino
    PROVE  ObjectsSafe'
  <1> SUFFICES ASSUME NEW p \in Paths, node'[p] \in Inodes
               PROVE  \/ ino[node'[p]].by \in Reqs /\ req'[ino[node'[p]].by].op = "COPY"
                      \/ /\ ino[node'[p]].data = Whole(ino[node'[p]].by)
                         /\ PowerLoss => ino[node'[p]].synced
    BY DEF ObjectsSafe, IsFile
  <1>1. node'[p] = node[p]
    BY DEF MildNode, Entries
  <1>2. ASSUME NEW q \in Reqs, req[q].op = "COPY" PROVE req'[q].op = "COPY"
    BY <1>2 DEF MildReq, Mild, Only
  <1> QED
    BY <1>1, <1>2 DEF ObjectsSafe, IsFile

-----------------------------------------------------------------------------
(* The ways an action leaves the locals of its request, but for opening a  *)
(* file, are mild.                                                         *)

LEMMA AnswerMild ==
    ASSUME TypeOK, NEW r \in Reqs, NEW status, Answer(r, status)
    PROVE  MildReq(r) /\ req'[r].pc = "done"
  <1>1. req'[r] = Answered(req[r], status) /\ Only(r)
    BY DEF Answer, Only, TypeOK, ReqOK
  <1>2. req'[r].pc = "done" /\ req'[r].tmp = None /\ req'[r].op = req[r].op
    BY <1>1 DEF Answered, Idle
  <1> QED
    BY <1>1, <1>2 DEF MildReq, Mild, Ahead

LEMMA GotoMild ==
    ASSUME UploadInv, NEW r \in Reqs, NEW l, Active(r), Goto(r, l),
           l \in Pcs \ {"idle", "done", "write", "sync", "rename", "copying"},
           l = "cleanup" => req[r].pc \in {"write", "sync", "rename"},
           l \in BeforeOpen => req[r].pc \in BeforeOpen,
           l \in {"srcstat", "canon"} => req[r].att = 1,
           l \notin {"remove", "late_remove"}
    PROVE  MildReq(r)
  <1>1. req[r] \in ReqType
    BY DEF UploadInv, TypeOK, ReqOK
  <1>2. req'[r] = [req[r] EXCEPT !.pc = l] /\ Only(r)
    BY DEF Goto, Only, UploadInv, TypeOK, ReqOK
  <1> QED
    BY <1>1, <1>2 DEF MildReq, Mild, Ahead, Active, ReqType

LEMMA EnsureParentMild ==
    ASSUME UploadInv, NEW r \in Reqs, NEW attempt \in {1, 2}, Active(r), EnsureParent(r, attempt),
           req[r].att = 1, attempt = 1 => req[r].pc \in BeforeOpen
    PROVE  MildReq(r)
  <1>1. req[r] \in ReqType
    BY DEF UploadInv, TypeOK, ReqOK
  <1>2. Only(r) /\ req'[r] = [req[r] EXCEPT !.pc = "mkdir", !.att = attempt,
                                             !.walk = <<ParentOf[Path(r)]>>]
    BY DEF EnsureParent, Only, UploadInv, TypeOK, ReqOK
  <1>3. req'[r].pc = "mkdir" /\ req'[r].att = attempt /\ req'[r].tmp = req[r].tmp
        /\ req'[r].op = req[r].op
    BY <1>1, <1>2 DEF ReqType
  <1>4. ASSUME NEW a \in {1, 2}, Ahead(req'[r], a) PROVE Ahead(req[r], a)
    BY <1>1, <1>3, <1>4 DEF Ahead, Active, BeforeOpen, ReqType
  <1> QED
    BY <1>2, <1>3, <1>4 DEF MildReq, Mild

LEMMA RetryOrFailMild ==
    ASSUME UploadInv, NEW r \in Reqs, Active(r), RetryOrFail(r)
    PROVE  MildReq(r)
  BY EnsureParentMild, AnswerMild DEF RetryOrFail, UploadInv

LEMMA MkdirReturnsMild ==
    ASSUME UploadInv, NEW r \in Reqs, req[r].pc \in {"mkdir", "mkdown", "isdir"}, MkdirReturns(r)
    PROVE  MildReq(r)
  <1>1. req[r] \in ReqType
    BY DEF UploadInv, TypeOK, ReqOK
  <1>2. PICK l \in {"mkdown", "copyopen", "name", "create"} :
            req' = [req EXCEPT ![r].walk = Tail(req[r].walk), ![r].pc = l]
    BY DEF MkdirReturns
  <1>3. Only(r) /\ req'[r] = [req[r] EXCEPT !.walk = Tail(req[r].walk), !.pc = l]
    BY <1>2 DEF Only, UploadInv, TypeOK, ReqOK
  <1> QED
    BY <1>1, <1>3 DEF MildReq, Mild, Ahead, BeforeOpen, ReqType

LEMMA PruneFromMild ==
    ASSUME UploadInv, NEW r \in Reqs, NEW d, Active(r), PruneFrom(r, d)
    PROVE  MildReq(r)
  <1>1. CASE ~(PruneEmptyDirs /\ d # Root)
    BY <1>1, AnswerMild DEF PruneFrom, UploadInv
  <1>2. CASE PruneEmptyDirs /\ d # Root
    <2>1. req[r] \in ReqType
      BY DEF UploadInv, TypeOK, ReqOK
    <2>2. Only(r) /\ req'[r] = [req[r] EXCEPT !.pc = "prune", !.walk = <<d>>]
      BY <1>2 DEF PruneFrom, Only, UploadInv, TypeOK, ReqOK
    <2> QED
      BY <2>1, <2>2 DEF MildReq, Mild, Ahead, Active, BeforeOpen, ReqType
  <1> QED
    BY <1>1, <1>2

\* A step that sets its position and locals no open file depends on.
LEMMA MovesMild ==
    ASSUME UploadInv, NEW r \in Reqs, NEW l, Active(r), Only(r),
           l \in Pcs \ {"idle", "done", "write", "sync", "rename", "copying", "cleanup"},
           l \notin {"srcstat", "canon"},
           l \in {"remove", "late_remove"} => req[r].op = "DELETE",
           l \in BeforeOpen => req[r].pc \in BeforeOpen,
           req'[r].pc = l, req'[r].op = req[r].op, req'[r].tmp = req[r].tmp,
           req'[r].att = req[r].att
    PROVE  MildReq(r)
  BY DEF MildReq, Mild, Ahead, Active

LEMMA StartMild == ASSUME UploadInv, NEW r \in Reqs, Start(r) PROVE MildReq(r)
  <1>1. PICK k \in Calls :
            req' = [req EXCEPT ![r] =
               [Idle EXCEPT !.pc = FirstStep(k.op), !.op = k.op, !.key = k.key, !.src = k.src,
                   !.walk = IF k.op = "PUT" THEN <<ParentOf[PathOf[k.key]]>> ELSE <<>>]]
    BY DEF Start
  <1>2. /\ FirstStep(k.op) \in {"mkdir", "srcstat", "remove", "lookup", "open"}
        /\ FirstStep(k.op) = "remove" => k.op = "DELETE"
    BY CallAssumption DEF FirstStep, Ops
  <1>3. req[r] = Idle /\ Idle.op = "GET" /\ Idle.att = 1 /\ Idle.pc = "idle"
    BY DEF Start, UploadInv, StepsFit, Idle
  <1>4. Only(r) /\ req'[r].pc = FirstStep(k.op) /\ req'[r].tmp = None /\ req'[r].att = 1
        /\ req'[r].op = k.op
    BY <1>1 DEF Only, UploadInv, TypeOK, ReqOK, Idle
  <1>5. ASSUME NEW a \in {1, 2} PROVE Ahead(req[r], a)
    BY <1>3 DEF Ahead, BeforeOpen
  <1> QED
    BY <1>2, <1>3, <1>4, <1>5 DEF MildReq, Mild, CopyAllowed

-----------------------------------------------------------------------------
(* The mild actions.                                                       *)

Kept(r) == MildReq(r) /\ MildNode(r) /\ UNCHANGED <<ino, counter>>

LEMMA SameNode == ASSUME NEW r \in Reqs, UNCHANGED node PROVE MildNode(r)
  BY DEF MildNode

LEMMA SetNode ==
    ASSUME TypeOK, NEW r \in Reqs, NEW e \in Entries, NEW v \in {NoEntry, Directory},
           UNCHANGED node \/ node' = [node EXCEPT ![e] = v],
           node' # node => \/ Takes(r, e)
                           \/ v = NoEntry /\ e \in Temps /\ e = Temp(r) /\ req'[r].pc = "done"
    PROVE  MildNode(r)
  <1>1. CASE node' # node
    <2>1. node \in [Entries -> Inodes \cup {NoEntry, Directory}]
      BY DEF TypeOK
    <2>2. ASSUME NEW f \in Entries, f # e PROVE node'[f] = node[f]
      BY <1>1, <2>1, <2>2
    <2>3. node'[e] = v /\ v \notin Inodes
      BY <1>1, <2>1, DistinctAssumption
    <2> QED
      BY <1>1, <2>2, <2>3 DEF MildNode
  <1> QED
    BY <1>1, SameNode

LEMMA MkdirMild == ASSUME UploadInv, NEW r \in Reqs, Mkdir(r) PROVE Kept(r)
  <1> DEFINE d == Head(req[r].walk)
  <1>1. TypeOK /\ req[r] \in ReqType /\ req[r].pc \in {"mkdir", "mkdown"} /\ Active(r)
    BY DEF UploadInv, TypeOK, ReqOK, Mkdir, Active
  <1>2. d \in Paths /\ d \in Entries
    <2>1. req[r].walk \in Seq(Paths) /\ req[r].walk # <<>>
      BY <1>1 DEF TypeOK, ReqOK, ReqType, LocalsSet
    <2> QED
      BY <2>1 DEF Entries
  <1>3. MildNode(r)
    <2>1. UNCHANGED node \/ (node[d] = NoEntry /\ node' = [node EXCEPT ![d] = Directory])
      BY DEF Mkdir, CanMkdir
    <2>2. node' # node => Takes(r, d)
      BY <1>2, <2>1, DistinctAssumption DEF Takes
    <2> QED
      BY <1>1, <1>2, <2>1, <2>2, SetNode
  <1>4. CASE MkdirReturns(r)
    BY <1>1, <1>3, <1>4, MkdirReturnsMild DEF Kept, Mkdir
  <1>5. CASE Goto(r, "isdir")
    BY <1>1, <1>3, <1>5, GotoMild DEF Kept, Mkdir, Pcs, BeforeOpen
  <1>6. CASE At(r, "mkdir") /\ req' = [req EXCEPT ![r].walk = <<ParentOf[d]>> \o @]
    <2>1. Only(r) /\ req'[r] = [req[r] EXCEPT !.walk = <<ParentOf[d]>> \o req[r].walk]
      BY <1>1, <1>6 DEF Only, TypeOK, ReqOK
    <2>2. req'[r].pc = "mkdir" /\ req'[r].op = req[r].op /\ req'[r].tmp = req[r].tmp
          /\ req'[r].att = req[r].att
      BY <1>1, <1>6, <2>1 DEF ReqType, At
    <2>3. MildReq(r)
      BY <1>1, <2>1, <2>2, MovesMild DEF Pcs, BeforeOpen
    <2> QED
      BY <1>3, <2>3 DEF Kept, Mkdir
  <1> QED
    BY <1>4, <1>5, <1>6 DEF Mkdir

LEMMA IsDirCheckMild == ASSUME UploadInv, NEW r \in Reqs, IsDirCheck(r) PROVE Kept(r)
  BY MkdirReturnsMild, AnswerMild, SameNode DEF IsDirCheck, At, Kept, UploadInv

LEMMA PutFailMild == ASSUME UploadInv, NEW r \in Reqs, PutFail(r) PROVE Kept(r)
  <1>1. req[r].pc \in {"write", "sync", "rename"}
    BY DEF PutFail, At
  <1> QED
    BY <1>1, GotoMild, SameNode DEF PutFail, Kept, Active, Pcs, BeforeOpen

LEMMA PutCleanupMild == ASSUME UploadInv, NEW r \in Reqs, PutCleanup(r) PROVE Kept(r)
  <1>1. TypeOK /\ Temp(r) \in Entries /\ Temp(r) \in Temps
    BY TempTyped DEF UploadInv, TypeOK, ReqOK, LocalsSet, PutCleanup, At
  <1>2. MildReq(r) /\ req'[r].pc = "done"
    BY <1>1, AnswerMild DEF PutCleanup
  <1>3. MildNode(r)
    <2>1. UNCHANGED node \/ node' = [node EXCEPT ![Temp(r)] = NoEntry]
      BY DEF PutCleanup, CleanedUp
    <2> QED
      BY <1>1, <1>2, <2>1, SetNode
  <1> QED
    BY <1>2, <1>3 DEF PutCleanup, Kept

LEMMA RestatMild == ASSUME UploadInv, NEW r \in Reqs, Restat(r) PROVE Kept(r)
  <1>1. TypeOK /\ req[r] \in ReqType /\ At(r, "restat")
    BY DEF UploadInv, TypeOK, ReqOK, Restat
  <1>2. CASE req' = [req EXCEPT ![r].pc = "prime", ![r].stat = StatOf(node[Path(r)])]
    <2>1. Only(r) /\ req'[r] = [req[r] EXCEPT !.pc = "prime", !.stat = StatOf(node[Path(r)])]
      BY <1>1, <1>2 DEF Only, TypeOK, ReqOK
    <2>2. MildReq(r)
      BY <1>1, <2>1, MovesMild DEF ReqType, Pcs, BeforeOpen, At, Active
    <2> QED
      BY <2>2, SameNode DEF Restat, Kept
  <1>3. CASE \E status \in Resps : Answer(r, status)
    BY <1>1, <1>3, AnswerMild, SameNode DEF Restat, Kept
  <1> QED
    BY <1>2, <1>3 DEF Restat, Resps

LEMMA HeadStatMild == ASSUME UploadInv, NEW r \in Reqs, HeadStat(r) PROVE Kept(r)
  <1>1. TypeOK /\ req[r] \in ReqType /\ At(r, "stat")
    BY DEF UploadInv, TypeOK, ReqOK, HeadStat
  <1>2. CASE req' = [req EXCEPT ![r].pc = "insert", ![r].stat = StatOf(node[Path(r)])]
    <2>1. Only(r) /\ req'[r] = [req[r] EXCEPT !.pc = "insert", !.stat = StatOf(node[Path(r)])]
      BY <1>1, <1>2 DEF Only, TypeOK, ReqOK
    <2>2. MildReq(r)
      BY <1>1, <2>1, MovesMild DEF ReqType, Pcs, BeforeOpen, At, Active
    <2> QED
      BY <2>2, SameNode DEF HeadStat, Kept
  <1> QED
    BY <1>1, <1>2, AnswerMild, SameNode DEF HeadStat, Kept

\* Steps that go on or answer and leave the tree alone.
LEMMA PlainMild ==
    ASSUME UploadInv, NEW r \in Reqs,
           \/ WriteUncache(r) \/ PutPrime(r) \/ CopySrcStat(r) \/ CopyCanon(r)
           \/ DeleteUncache(r) \/ HeadLookup(r) \/ HeadInsert(r)
    PROVE  Kept(r)
  <1>1. TypeOK /\ StepsFit
    BY DEF UploadInv
  <1>2. MildNode(r) /\ UNCHANGED <<ino, counter>>
    BY SameNode DEF WriteUncache, PutPrime, CopySrcStat, CopyCanon, DeleteUncache, HeadLookup,
                    HeadInsert
  <1>3. CASE WriteUncache(r)
    BY <1>2, <1>3, GotoMild DEF WriteUncache, Kept, At, Active, Pcs, BeforeOpen
  <1>4. CASE PutPrime(r) \/ HeadInsert(r)
    BY <1>1, <1>2, <1>4, AnswerMild DEF PutPrime, HeadInsert, Kept
  <1>5. CASE CopySrcStat(r)
    <2>1. req[r].att = 1 /\ Active(r) /\ req[r].pc \in BeforeOpen
      BY <1>1, <1>5 DEF CopySrcStat, At, StepsFit, Active, BeforeOpen
    <2> QED
      BY <1>1, <1>2, <1>5, <2>1, GotoMild, AnswerMild DEF CopySrcStat, Kept, Pcs
  <1>6. CASE CopyCanon(r)
    <2>1. req[r].att = 1 /\ Active(r) /\ req[r].pc \in BeforeOpen
      BY <1>1, <1>6 DEF CopyCanon, At, StepsFit, Active, BeforeOpen
    <2> QED
      BY <1>1, <1>2, <1>6, <2>1, EnsureParentMild, AnswerMild DEF CopyCanon, Kept
  <1>7. CASE DeleteUncache(r)
    BY <1>2, <1>7, PruneFromMild DEF DeleteUncache, Kept, At, Active
  <1>8. CASE HeadLookup(r)
    <2> DEFINE c == [req[r] EXCEPT !.stat = cache[req[r].key]]
    <2>1. CASE req' = [req EXCEPT ![r] = Answered(c, "200")]
      <3>1. Only(r) /\ req'[r] = Answered(c, "200") /\ c.op = req[r].op
        BY <1>1, <2>1 DEF Only, TypeOK, ReqOK, ReqType
      <3>2. req'[r].pc = "done" /\ req'[r].tmp = None /\ req'[r].op = req[r].op
        BY <3>1 DEF Answered, Idle
      <3> QED
        BY <1>2, <3>1, <3>2 DEF Kept, MildReq, Mild, Ahead
    <2>2. CASE Goto(r, "stat")
      BY <1>2, <1>8, <2>2, GotoMild DEF HeadLookup, Kept, At, Active, Pcs, BeforeOpen
    <2> QED
      BY <1>8, <2>1, <2>2 DEF HeadLookup
  <1> QED
    BY <1>3, <1>4, <1>5, <1>6, <1>7, <1>8

LEMMA CopyOpenMild == ASSUME UploadInv, NEW r \in Reqs, CopyOpen(r) PROVE Kept(r)
  <1>1. TypeOK /\ req[r] \in ReqType /\ At(r, "copyopen") /\ Active(r)
    BY DEF UploadInv, TypeOK, ReqOK, CopyOpen, At, Active
  <1>2. CASE req' = [req EXCEPT ![r].pc = "copytrunc", ![r].fd = node[Source(r)]]
    <2>1. Only(r) /\ req'[r] = [req[r] EXCEPT !.pc = "copytrunc", !.fd = node[Source(r)]]
      BY <1>1, <1>2 DEF Only, TypeOK, ReqOK
    <2>2. MildReq(r)
      BY <1>1, <2>1, MovesMild DEF ReqType, Pcs, BeforeOpen, At
    <2> QED
      BY <2>2, SameNode DEF CopyOpen, Kept
  <1> QED
    BY <1>1, <1>2, RetryOrFailMild, SameNode DEF CopyOpen, Kept

LEMMA GetMild ==
    ASSUME UploadInv, NEW r \in Reqs, GetOpen(r) \/ GetMetadata(r) \/ GetStream(r)
    PROVE  Kept(r)
  <1>1. TypeOK /\ req[r] \in ReqType /\ req[r].pc \in {"open", "metadata", "stream"} /\ Active(r)
    BY DEF UploadInv, TypeOK, ReqOK, GetOpen, GetMetadata, GetStream, At, Active
  <1>2. MildNode(r) /\ UNCHANGED <<ino, counter>>
    BY SameNode DEF GetOpen, GetMetadata, GetStream
  <1>3. CASE req' = [req EXCEPT ![r].pc = "metadata", ![r].fd = node[Path(r)]]
    <2>1. Only(r) /\ req'[r] = [req[r] EXCEPT !.pc = "metadata", !.fd = node[Path(r)]]
      BY <1>1, <1>3 DEF Only, TypeOK, ReqOK
    <2> QED
      BY <1>1, <1>2, <2>1, MovesMild DEF ReqType, Pcs, BeforeOpen, Kept
  <1>4. CASE req' = [req EXCEPT ![r].pc = "stream", ![r].stat = StatOf(req[r].fd), ![r].resp = "200"]
    <2>1. Only(r) /\ req'[r] = [req[r] EXCEPT !.pc = "stream", !.stat = StatOf(req[r].fd),
                                              !.resp = "200"]
      BY <1>1, <1>4 DEF Only, TypeOK, ReqOK
    <2>2. req'[r].pc = "stream" /\ req'[r].op = req[r].op /\ req'[r].tmp = req[r].tmp
          /\ req'[r].att = req[r].att
      BY <1>1, <2>1 DEF ReqType
    <2>3. "stream" \in Pcs /\ "stream" \notin BeforeOpen
      BY DEF Pcs, BeforeOpen
    <2>4. MildReq(r)
      BY <1>1, <2>1, <2>2, <2>3, MovesMild
    <2> QED
      BY <1>2, <2>4 DEF Kept
  <1>5. ASSUME NEW x, req' = [req EXCEPT ![r].got = x] PROVE MildReq(r)
    <2>1. Only(r) /\ req'[r] = [req[r] EXCEPT !.got = x]
      BY <1>1, <1>5 DEF Only, TypeOK, ReqOK
    <2> QED
      BY <1>1, <2>1 DEF ReqType, MildReq, Mild, Ahead
  <1>6. CASE At(r, "stream") /\ \E x : req' = [req EXCEPT ![r].got = x]
    BY <1>2, <1>5, <1>6 DEF Kept
  <1>7. CASE \E status \in Resps : Answer(r, status)
    BY <1>1, <1>2, <1>7, AnswerMild DEF Kept
  <1> QED
    BY <1>3, <1>4, <1>6, <1>7 DEF GetOpen, GetMetadata, GetStream, Resps

LEMMA RemovalMild ==
    ASSUME UploadInv, NEW r \in Reqs,
           \/ DeleteRemove(r) \/ Prune(r) \/ LateRemove(r) \/ LateRmdir(r)
    PROVE  Kept(r)
  <1> DEFINE d == Head(req[r].walk)
  <1>1. TypeOK /\ req[r].pc \in {"remove", "prune", "late_remove", "late_rmdir"} /\ Active(r)
    BY DEF UploadInv, DeleteRemove, Prune, LateRemove, LateRmdir, At, Active
  <1>2. Path(r) \in Paths /\ Path(r) \in Entries
    BY <1>1, PathTyped
  <1>3. CASE DeleteRemove(r) \/ LateRemove(r)
    <2>1. UNCHANGED node \/ node' = [node EXCEPT ![Path(r)] = NoEntry]
      BY <1>3 DEF DeleteRemove, LateRemove
    <2>2. MildNode(r)
      <3>1. req[r].op = "DELETE"
        BY <1>3 DEF DeleteRemove, LateRemove, At, UploadInv, StepsFit
      <3>2. node' # node => Takes(r, Path(r))
        BY <1>1, <1>2, <2>1, <3>1 DEF Takes, TypeOK
      <3> QED
        BY <1>1, <1>2, <2>1, <3>2, SetNode
    <2>3. MildReq(r)
      BY <1>1, <1>3, GotoMild, PruneFromMild, AnswerMild
         DEF DeleteRemove, LateRemove, At, Pcs, BeforeOpen
    <2> QED
      BY <1>3, <2>2, <2>3 DEF DeleteRemove, LateRemove, Kept
  <1>4. CASE Prune(r) \/ LateRmdir(r)
    <2>1. d \in Paths
      <3>1. req[r].walk \in Seq(Paths) /\ req[r].walk # <<>>
        BY <1>1, <1>4 DEF TypeOK, ReqOK, ReqType, LocalsSet, Prune, LateRmdir, At
      <3> QED
        BY <3>1
    <2>2. UNCHANGED node \/ (node[d] = Directory /\ node' = [node EXCEPT ![d] = NoEntry])
      BY <1>4 DEF Prune, LateRmdir, PruneRemoves, CanRmdir, IsDir
    <2>3. MildNode(r)
      <3>1. d \in Entries /\ (node' # node => Takes(r, d))
        BY <2>1, <2>2, DistinctAssumption DEF Takes, Entries
      <3> QED
        BY <1>1, <2>2, <3>1, SetNode
    <2>4. MildReq(r)
      BY <1>1, <1>4, PruneFromMild, AnswerMild DEF Prune, LateRmdir
    <2> QED
      BY <1>4, <2>3, <2>4 DEF Prune, LateRmdir, Kept
  <1> QED
    BY <1>3, <1>4

LEMMA AbandonMild == ASSUME UploadInv, NEW r \in Reqs, Abandon(r) PROVE Kept(r)
  BY AnswerMild, SameNode DEF Abandon, Kept, UploadInv

LEMMA TimeoutMild == ASSUME UploadInv, NEW r \in Reqs, Timeout(r) PROVE Kept(r)
  <1>1. TypeOK /\ req[r] \in ReqType
    BY DEF UploadInv, TypeOK, ReqOK
  <1>2. MildNode(r) /\ UNCHANGED <<ino, counter>>
    BY SameNode DEF Timeout
  <1>3. ASSUME NEW l \in {"late_remove", "late_rmdir"},
               req[r].pc = IF l = "late_remove" THEN "remove" ELSE "prune",
               req' = [req EXCEPT ![r].pc = l, ![r].resp = "504"]
        PROVE  MildReq(r)
    <2>1. Only(r) /\ req'[r] = [req[r] EXCEPT !.pc = l, !.resp = "504"]
      BY <1>1, <1>3 DEF Only, TypeOK, ReqOK
    <2>2. req'[r].pc = l /\ req'[r].op = req[r].op /\ req'[r].tmp = req[r].tmp
          /\ req'[r].att = req[r].att
      BY <1>1, <2>1 DEF ReqType
    <2>3. l \in Pcs /\ l \notin BeforeOpen /\ l \notin Writing \cup {"idle", "done", "srcstat", "canon"}
      BY DEF Pcs, BeforeOpen, Writing
    <2>4. Active(r) /\ (l = "late_remove" => req[r].op = "DELETE")
      BY <1>3 DEF Active, UploadInv, StepsFit
    <2> QED
      BY <2>1, <2>2, <2>3, <2>4, MovesMild DEF Writing
  <1>4. MildReq(r)
    BY <1>1, <1>3, AnswerMild DEF Timeout, At
  <1> QED
    BY <1>2, <1>4 DEF Kept

\* The steps that open, write, name or sync a file.
Opens(r) == \/ At(r, "create") /\ OpenTrunc(r, Temp(r), "write")
            \/ At(r, "copytrunc") /\ OpenTrunc(r, Path(r), "copying")

Writes(r) == \/ PutWrite(r)
             \/ At(r, "copying") /\ \E piece : WritePiece(r, piece)

Strong(r) == \/ TakeName(r) \/ PutFlush(r) \/ PutSync(r) \/ PutRename(r)
             \/ Opens(r) /\ UNCHANGED counter
             \/ Writes(r) /\ UNCHANGED <<node, counter>>

LEMMA OtherStepsMild ==
    ASSUME UploadInv, NEW r \in Reqs, Start(r) \/ Step(r) \/ Timeout(r) \/ Abandon(r)
    PROVE  Kept(r) \/ Strong(r)
  <1>1. CASE Start(r)
    BY <1>1, StartMild, SameNode DEF Start, Kept
  <1>2. CASE PutCreate(r)
    BY <1>2, RetryOrFailMild, SameNode DEF PutCreate, Kept, Strong, Opens, At, Active
  <1>3. CASE CopyTrunc(r)
    BY <1>3, RetryOrFailMild, SameNode DEF CopyTrunc, Kept, Strong, Opens, At, Active
  <1>4. CASE CopyPiece(r)
    BY <1>4, RetryOrFailMild, GotoMild, SameNode
       DEF CopyPiece, Kept, Strong, Writes, At, Active, Pcs, BeforeOpen
  <1>5. CASE TakeName(r) \/ PutFlush(r) \/ PutSync(r) \/ PutRename(r) \/ PutWrite(r)
    BY <1>5 DEF Strong, Writes, PutWrite
  <1> QED
    BY <1>1, <1>2, <1>3, <1>4, <1>5, MkdirMild, IsDirCheckMild, PutFailMild, PutCleanupMild,
       RestatMild, PlainMild, CopyOpenMild, RemovalMild, HeadStatMild, GetMild, TimeoutMild, AbandonMild
       DEF Step

-----------------------------------------------------------------------------
(* Taking a name.                                                          *)

LEMMA TakeNameKeeps ==
    ASSUME UploadInv, TypeOK', NEW r \in Reqs, TakeName(r)
    PROVE  UploadInv' /\ (ObjectsSafe => ObjectsSafe')
  <1>1. TypeOK /\ StepsFit /\ OneName /\ NamesTaken /\ FreshInodes /\ WritersApart /\ UploadsProgress
    BY DEF UploadInv
  <1>2. req[r] \in ReqType /\ At(r, "name") /\ counter \in Nat /\ counter' = counter + 1
        /\ UNCHANGED <<node, ino>>
    BY <1>1 DEF TypeOK, ReqOK, TakeName, NextTemp
  <1>3. req'[r] = [req[r] EXCEPT !.pc = "create", !.tmp = counter] /\ Only(r)
    BY <1>1 DEF TakeName, Only, TypeOK, ReqOK
  <1>4. req'[r].pc = "create" /\ req'[r].tmp = counter /\ req'[r].att = req[r].att
        /\ req'[r].op = req[r].op
    BY <1>2, <1>3 DEF ReqType
  <1>5. ASSUME NEW q \in Reqs, q # r PROVE req'[q] = req[q]
    BY <1>3, <1>5 DEF Only
  <1>6. StepsFit'
    BY <1>1, <1>4, <1>5 DEF StepsFit, At
  <1>7. NamesTaken'
    <2>1. ASSUME NEW q \in Reqs, req'[q].tmp # None
          PROVE  req'[q].tmp < counter' /\ Active(q)' /\ (q # r => req'[q].tmp < counter)
      <3>1. CASE q = r
        BY <1>2, <1>4, <3>1 DEF Active
      <3>2. CASE q # r
        <4>1. req[q].tmp \in Nat
          BY <1>1, <1>5, <2>1, <3>2, DataAssumption DEF TypeOK, ReqOK, ReqType
        <4> QED
          BY <1>1, <1>2, <1>5, <2>1, <3>2, <4>1 DEF NamesTaken, Active
      <3> QED
        BY <3>1, <3>2
    <2>2. ASSUME NEW q \in Reqs, NEW p \in Reqs, req'[q].tmp # None, req'[q].tmp = req'[p].tmp
          PROVE  q = p
      <3>1. CASE q # r /\ p # r
        BY <1>1, <1>5, <2>2, <3>1 DEF NamesTaken
      <3>2. CASE q = r \/ p = r
        BY <1>2, <1>4, <2>1, <2>2, <3>2
      <3> QED
        BY <3>1, <3>2
    <2> QED
      BY <2>1, <2>2 DEF NamesTaken
  <1>8. FreshInodes'
    <2>1. ASSUME NEW q \in Reqs, NEW a \in {1, 2}, Ahead(req'[q], a) PROVE Ahead(req[q], a)
      BY <1>2, <1>4, <1>5, <2>1 DEF Ahead, BeforeOpen, At
    <2>2. ASSUME NEW q \in Reqs, req'[q].pc \in Writing PROVE q # r
      BY <1>4, <2>2 DEF Writing
    <2> QED
      BY <1>1, <1>2, <1>5, <2>1, <2>2 DEF FreshInodes
  <1>9. WritersApart' /\ UploadsProgress'
    <2>1. ASSUME NEW q \in Reqs, req'[q].pc \in Writing PROVE q # r /\ req'[q] = req[q]
      BY <1>4, <1>5, <2>1 DEF Writing
    <2>2. WritersApart'
      BY <1>1, <1>2, <2>1 DEF WritersApart, Uploading, Writing, At, Temp, Path
    <2>3. UploadsProgress'
      BY <1>1, <1>2, <2>1 DEF UploadsProgress, Progress, Writing
    <2> QED
      BY <2>2, <2>3
  <1>10. OneName'
    BY <1>1, <1>2 DEF OneName
  <1>11. ObjectsSafe => ObjectsSafe'
    <2>1. ASSUME NEW q \in Reqs PROVE req'[q].op = req[q].op
      BY <1>4, <1>5
    <2> QED
      BY <1>2, <2>1 DEF ObjectsSafe, IsFile
  <1> QED
    BY <1>6, <1>7, <1>8, <1>9, <1>10, <1>11 DEF UploadInv

-----------------------------------------------------------------------------
(* Opening a file to write.                                                *)

\* What the open creates or truncates is known under the name opened only, and
\* no other upload writes it.
LEMMA OpenedAlone ==
    ASSUME UploadInv, NEW r \in Reqs, NEW e \in Entries, req[r].pc \in BeforeOpen, Active(r)
    PROVE  LET i == OpenTruncGives(e, NewInode(r)) IN
           /\ i \in Inodes
           /\ \A f \in Entries : node[f] = i => f = e
           /\ \A q \in Reqs : Uploading(q) /\ Temp(q) # e => req[q].wfd # i
           /\ e \in Temps => \A q \in Reqs : At(q, "copying") => req[q].wfd # i
           /\ \A q \in Reqs, a \in {1, 2} : Ahead(req[q], a) /\ <<q, a>> # NewInode(r) => <<q, a>> # i
  <1> DEFINE i == OpenTruncGives(e, NewInode(r))
  <1>1. TypeOK /\ OneName /\ FreshInodes /\ WritersApart
    BY DEF UploadInv
  <1>2. req[r].att \in {1, 2} /\ Ahead(req[r], req[r].att)
    BY <1>1 DEF TypeOK, ReqOK, ReqType, Ahead, Active
  <1>3. NewInode(r) \in Inodes
    BY <1>2 DEF NewInode, Inodes
  <1>4. CASE IsFile(e)
    <2>1. i = node[e] /\ i \in Inodes
      BY <1>4 DEF OpenTruncGives, IsFile
    <2>2. \A f \in Entries : node[f] = i => f = e
      BY <1>1, <2>1 DEF OneName
    <2>3. ASSUME NEW q \in Reqs, Uploading(q), Temp(q) # e PROVE req[q].wfd # i
      BY <1>1, <2>2, <2>3, UploadTyped DEF WritersApart
    <2>4. \A q \in Reqs, a \in {1, 2} : Ahead(req[q], a) => <<q, a>> # i
      BY <1>1, <2>1 DEF FreshInodes
    <2> QED
      BY <1>1, <2>1, <2>2, <2>3, <2>4 DEF WritersApart
  <1>5. CASE ~IsFile(e)
    <2>1. i = NewInode(r) /\ i = <<r, req[r].att>>
      BY <1>5 DEF OpenTruncGives, NewInode
    <2>2. \A f \in Entries : node[f] # i
      BY <1>1, <1>2, <2>1 DEF FreshInodes
    <2>3. \A q \in Reqs : req[q].pc \in Writing => req[q].wfd # i
      BY <1>1, <1>2, <2>1 DEF FreshInodes
    <2> QED
      BY <1>3, <2>1, <2>2, <2>3 DEF Writing, Uploading, At
  <1> QED
    BY <1>4, <1>5

LEMMA OpensKeeps ==
    ASSUME UploadInv, TypeOK', NEW r \in Reqs, Opens(r), UNCHANGED counter
    PROVE  UploadInv' /\ (ObjectsSafe => ObjectsSafe')
  <1>1. TypeOK /\ StepsFit /\ OneName /\ NamesTaken /\ FreshInodes /\ WritersApart /\ UploadsProgress
    BY DEF UploadInv
  <1>2. PICK e \in Entries, l \in {"write", "copying"} :
            /\ OpenTrunc(r, e, l)
            /\ l = "write" => At(r, "create") /\ e = Temp(r) /\ e \in Temps
            /\ l = "copying" => At(r, "copytrunc") /\ e = Path(r) /\ e \in Paths
    <2>1. At(r, "create") => Temp(r) \in Temps /\ Temp(r) \in Entries
      BY <1>1, TempTyped DEF TypeOK, ReqOK, LocalsSet, At
    <2>2. Path(r) \in Paths /\ Path(r) \in Entries
      BY <1>1, PathTyped
    <2> QED
      BY <2>1, <2>2 DEF Opens
  <1> DEFINE i == OpenTruncGives(e, NewInode(r))
  <1>3. req[r].pc \in BeforeOpen /\ Active(r) /\ req[r] \in ReqType /\ LocalsSet(req[r])
    BY <1>1, <1>2 DEF At, BeforeOpen, Active, TypeOK, ReqOK
  <1>4. /\ i \in Inodes
        /\ \A f \in Entries : node[f] = i => f = e
        /\ \A q \in Reqs : Uploading(q) /\ Temp(q) # e => req[q].wfd # i
        /\ e \in Temps => \A q \in Reqs : At(q, "copying") => req[q].wfd # i
        /\ \A q \in Reqs, a \in {1, 2} : Ahead(req[q], a) /\ <<q, a>> # NewInode(r) => <<q, a>> # i
    BY <1>2, <1>3, OpenedAlone
  <1>5. /\ node' = [node EXCEPT ![e] = i]
        /\ ino' = [ino EXCEPT ![i] = EmptyFile(r)]
        /\ req' = [req EXCEPT ![r].pc = l, ![r].wfd = i, ![r].off = 0]
    BY <1>2 DEF OpenTrunc
  <1>6. /\ node'[e] = i /\ \A f \in Entries : f # e => node'[f] = node[f]
        /\ ino'[i] = EmptyFile(r) /\ \A j \in Inodes : j # i => ino'[j] = ino[j]
    BY <1>1, <1>4, <1>5 DEF TypeOK
  <1>7. /\ \A q \in Reqs : q # r => req'[q] = req[q]
        /\ req'[r] = [req[r] EXCEPT !.pc = l, !.wfd = i, !.off = 0]
    BY <1>1, <1>5 DEF TypeOK, ReqOK
  <1>8. /\ req'[r].pc = l /\ req'[r].wfd = i /\ req'[r].off = 0
        /\ req'[r].tmp = req[r].tmp /\ req'[r].op = req[r].op /\ req'[r].key = req[r].key
        /\ req'[r].att = req[r].att
    BY <1>3, <1>7 DEF ReqType
  <1>9. ASSUME NEW q \in Reqs PROVE Temp(q)' = Temp(q) /\ req'[q].op = req[q].op /\ req'[q].tmp = req[q].tmp
    BY <1>7, <1>8 DEF Temp, Path
  <1>10. StepsFit' /\ NamesTaken'
    <2>1. StepsFit'
      <3>1. ASSUME NEW q \in Reqs, q # r PROVE req'[q] = req[q]
        BY <1>7, <3>1
      <3>2. req'[r].pc \in {"write", "copying"} /\ req'[r].op = req[r].op
        BY <1>2, <1>8
      <3> QED
        BY <1>1, <3>1, <3>2 DEF StepsFit, At
    <2>2. ASSUME NEW q \in Reqs, Active(q) PROVE Active(q)'
      BY <1>2, <1>7, <1>8, <2>2 DEF Active
    <2> QED
      BY <1>1, <1>9, <2>1, <2>2 DEF NamesTaken
  <1>11. OneName'
    BY <1>1, <1>4, <1>6 DEF OneName
  <1>12. FreshInodes'
    <2> SUFFICES ASSUME NEW q \in Reqs, NEW a \in {1, 2}, Ahead(req'[q], a)
                 PROVE  /\ \A f \in Entries : node'[f] # <<q, a>>
                        /\ \A p \in Reqs : req'[p].pc \in Writing => req'[p].wfd # <<q, a>>
      BY DEF FreshInodes
    <2>1. Ahead(req[q], a) /\ (q = r => a # req[r].att)
      <3>1. CASE q = r
        <4>1. req'[r].pc \notin BeforeOpen /\ req[r].pc # "done"
          BY <1>2, <1>3, <1>8 DEF BeforeOpen, Active
        <4>2. a > req[r].att
          BY <1>8, <3>1, <4>1 DEF Ahead
        <4>3. req[r].att \in {1, 2}
          BY <1>3 DEF ReqType
        <4> QED
          BY <3>1, <4>1, <4>2, <4>3 DEF Ahead
      <3>2. CASE q # r
        BY <1>7, <3>2
      <3> QED
        BY <3>1, <3>2
    <2>2. <<q, a>> # NewInode(r)
      BY <2>1 DEF NewInode
    <2>3. <<q, a>> # i
      BY <1>4, <2>1, <2>2
    <2>4. ASSUME NEW p \in Reqs, req'[p].pc \in Writing PROVE req'[p].wfd # <<q, a>>
      <3>1. CASE p = r
        BY <1>8, <2>3, <3>1
      <3>2. CASE p # r
        <4>1. req[p].pc \in Writing /\ req'[p].wfd = req[p].wfd
          BY <1>7, <2>4, <3>2
        <4> QED
          BY <1>1, <2>1, <4>1 DEF FreshInodes
      <3> QED
        BY <3>1, <3>2
    <2> QED
      BY <1>1, <1>6, <2>1, <2>3, <2>4 DEF FreshInodes
  <1>13. WritersApart'
    <2>1. ASSUME NEW q \in Reqs, Uploading(q)' PROVE node'[Temp(q)'] = req'[q].wfd
      <3>1. CASE q = r
        BY <1>2, <1>6, <1>8, <1>9, <2>1, <3>1 DEF Uploading
      <3>2. CASE q # r
        <4>1. Uploading(q) /\ req'[q].wfd = req[q].wfd
          BY <1>7, <2>1, <3>2 DEF Uploading
        <4>2. Temp(q) \in Entries /\ Temp(q) \notin Paths /\ req[q].tmp # None
          BY <1>1, <4>1, UploadTyped, TempEntry
        <4>3. Temp(q) # e
          BY <1>1, <1>2, <3>2, <4>2, TempsApart
        <4> QED
          BY <1>1, <1>6, <1>9, <4>1, <4>2, <4>3 DEF WritersApart
      <3> QED
        BY <3>1, <3>2
    <2>2. ASSUME NEW q \in Reqs, At(q, "copying")', NEW f \in Temps PROVE node'[f] # req'[q].wfd
      <3>1. f \in Entries /\ f \notin Paths
        BY TempEntry
      <3>2. CASE q = r
        <4>1. l = "copying" /\ f # e
          BY <1>2, <1>8, <2>2, <3>1, <3>2 DEF At
        <4> QED
          BY <1>4, <1>6, <1>8, <3>1, <3>2, <4>1
      <3>3. CASE q # r
        BY <1>1, <1>4, <1>6, <1>7, <2>2, <3>1, <3>3 DEF WritersApart, At
      <3> QED
        BY <3>2, <3>3
    <2> QED
      BY <2>1, <2>2 DEF WritersApart
  <1>14. UploadsProgress'
    <2> SUFFICES ASSUME NEW q \in Reqs, req'[q].pc \in {"write", "sync", "rename"}
                 PROVE  LET f == ino'[req'[q].wfd] IN
                        /\ req'[q].off <= Chunks
                        /\ f.by = q
                        /\ f.data = [k \in 1..req'[q].off |-> q]
                        /\ req'[q].pc # "write" => req'[q].off = Chunks
                        /\ req'[q].pc = "rename" /\ Fsync => f.synced
      BY DEF UploadsProgress, Progress
    <2>1. CASE q = r
      <3>1. ino'[req'[q].wfd] = EmptyFile(r) /\ req'[q].pc = "write" /\ req'[q].off = 0
        BY <1>6, <1>8, <2>1
      <3>2. EmptyFile(r).by = r /\ EmptyFile(r).data = <<>>
        BY DEF EmptyFile
      <3>3. [k \in 1..0 |-> r] = <<>>
        OBVIOUS
      <3> QED
        BY <2>1, <3>1, <3>2, <3>3, DataAssumption
    <2>2. CASE q # r
      <3>1. req'[q] = req[q] /\ Uploading(q)
        BY <1>1, <1>7, <2>2 DEF Uploading, TypeOK, ReqOK, LocalsSet
      <3>2. Temp(q) \notin Paths /\ req[q].tmp # None /\ req[q].wfd \in Inodes
        BY <1>1, <3>1, UploadTyped, TempEntry
      <3>3. Temp(q) # e
        BY <1>1, <1>2, <2>2, <3>2, TempsApart
      <3>4. ino'[req[q].wfd] = ino[req[q].wfd]
        BY <1>4, <1>6, <3>1, <3>2, <3>3
      <3> QED
        BY <1>1, <3>1, <3>4 DEF UploadsProgress, Progress
    <2> QED
      BY <2>1, <2>2
  <1>15. ASSUME ObjectsSafe PROVE ObjectsSafe'
    <2> SUFFICES ASSUME NEW p \in Paths, node'[p] \in Inodes
                 PROVE  \/ ino'[node'[p]].by \in Reqs /\ req'[ino'[node'[p]].by].op = "COPY"
                        \/ /\ ino'[node'[p]].data = Whole(ino'[node'[p]].by)
                           /\ PowerLoss => ino'[node'[p]].synced
      BY DEF ObjectsSafe, IsFile
    <2>1. p \in Entries
      BY DEF Entries
    <2>2. CASE p = e
      <3>1. req'[r].op = "COPY"
        BY <1>2, <1>3, <1>9, <2>2, TempEntry DEF LocalsSet, At
      <3>2. ino'[node'[p]].by = r
        BY <1>6, <2>2 DEF EmptyFile
      <3> QED
        BY <3>1, <3>2
    <2>3. CASE p # e
      <3>1. node'[p] = node[p] /\ node[p] # i /\ ino'[node[p]] = ino[node[p]]
        BY <1>4, <1>6, <2>1, <2>3
      <3> QED
        BY <1>9, <1>15, <3>1 DEF ObjectsSafe, IsFile
    <2> QED
      BY <2>2, <2>3
  <1> QED
    BY <1>10, <1>11, <1>12, <1>13, <1>14, <1>15 DEF UploadInv

-----------------------------------------------------------------------------
(* Writing, flushing and syncing an open file.                             *)

\* A writer goes on with the file it has open; the tree stays as it is.
GoesOn(r) ==
    /\ Only(r) /\ UNCHANGED <<node, counter>>
    /\ req[r].pc \in Writing /\ req'[r].pc \in Writing
    /\ req[r].pc = "copying" <=> req'[r].pc = "copying"
    /\ req'[r].op = req[r].op /\ req'[r].key = req[r].key /\ req'[r].tmp = req[r].tmp
    /\ req'[r].wfd = req[r].wfd /\ req'[r].att = req[r].att

LEMMA GoesOnKeeps ==
    ASSUME UploadInv, NEW r \in Reqs, GoesOn(r)
    PROVE  StepsFit' /\ OneName' /\ NamesTaken' /\ FreshInodes' /\ WritersApart'
  <1>1. TypeOK /\ StepsFit /\ OneName /\ NamesTaken /\ FreshInodes /\ WritersApart
    BY DEF UploadInv
  <1>2. ASSUME NEW q \in Reqs, q # r PROVE req'[q] = req[q]
    BY <1>2 DEF GoesOn, Only
  <1>3. UNCHANGED <<node, counter>>
    BY DEF GoesOn
  <1>4. StepsFit'
    BY <1>1, <1>2 DEF GoesOn, Writing, StepsFit, At
  <1>5. NamesTaken'
    <2>1. ASSUME NEW q \in Reqs
          PROVE  req'[q].tmp = req[q].tmp /\ (Active(q) => Active(q)')
      BY <1>2 DEF GoesOn, Writing, Active
    <2> QED
      BY <1>1, <1>3, <2>1 DEF NamesTaken
  <1>6. FreshInodes'
    <2>1. ASSUME NEW q \in Reqs, NEW a \in {1, 2}, Ahead(req'[q], a) PROVE Ahead(req[q], a)
      <3>1. CASE q = r
        BY <2>1, <3>1 DEF GoesOn, Writing, BeforeOpen, Ahead
      <3>2. CASE q # r
        BY <1>2, <2>1, <3>2
      <3> QED
        BY <3>1, <3>2
    <2>2. ASSUME NEW q \in Reqs, req'[q].pc \in Writing
          PROVE  req[q].pc \in Writing /\ req'[q].wfd = req[q].wfd
      BY <1>2, <2>2 DEF GoesOn
    <2> QED
      BY <1>1, <1>3, <2>1, <2>2 DEF FreshInodes
  <1>7. WritersApart'
    <2>1. ASSUME NEW q \in Reqs, Uploading(q)'
          PROVE  Uploading(q) /\ Temp(q)' = Temp(q) /\ req'[q].wfd = req[q].wfd
      BY <1>2, <2>1 DEF GoesOn, Writing, Uploading, Temp, Path
    <2>2. ASSUME NEW q \in Reqs, At(q, "copying")'
          PROVE  At(q, "copying") /\ req'[q].wfd = req[q].wfd
      BY <1>2, <2>2 DEF GoesOn, At
    <2> QED
      BY <1>1, <1>3, <2>1, <2>2 DEF WritersApart
  <1> QED
    BY <1>1, <1>3, <1>4, <1>5, <1>6, <1>7 DEF OneName

\* The file a request writes is written by no other upload, and only a copy
\* writes a file that has the name of an object.
LEMMA WrittenAlone ==
    ASSUME UploadInv, NEW r \in Reqs, req[r].pc \in Writing
    PROVE  /\ req[r].wfd \in Inodes
           /\ \A q \in Reqs \ {r} : Uploading(q) => req[q].wfd # req[r].wfd
           /\ Uploading(r) => \A p \in Paths : node[p] # req[r].wfd
  <1>1. TypeOK /\ OneName /\ NamesTaken /\ WritersApart
    BY DEF UploadInv
  <1>2. req[r].wfd \in Inodes /\ (Uploading(r) \/ At(r, "copying"))
    BY <1>1 DEF TypeOK, ReqOK, LocalsSet, Writing, Uploading, At
  <1>3. ASSUME NEW q \in Reqs \ {r}, Uploading(q) PROVE req[q].wfd # req[r].wfd
    <2>1. Temp(q) \in Temps /\ Temp(q) \in Entries /\ req[q].tmp # None /\ node[Temp(q)] = req[q].wfd
      BY <1>1, <1>3, UploadTyped DEF WritersApart
    <2>2. CASE Uploading(r)
      <3>1. Temp(r) \in Entries /\ node[Temp(r)] = req[r].wfd
        BY <1>1, <2>2, UploadTyped DEF WritersApart
      <3>2. Temp(q) # Temp(r)
        BY <1>1, <2>1, TempsApart
      <3> QED
        BY <1>1, <1>2, <2>1, <3>1, <3>2 DEF OneName
    <2>3. CASE At(r, "copying")
      BY <1>1, <2>1, <2>3 DEF WritersApart
    <2> QED
      BY <1>2, <2>2, <2>3
  <1>4. ASSUME Uploading(r), NEW p \in Paths PROVE node[p] # req[r].wfd
    <2>1. Temp(r) \in Entries /\ Temp(r) # p /\ node[Temp(r)] = req[r].wfd
      BY <1>1, <1>4, UploadTyped, TempEntry DEF WritersApart
    <2>2. p \in Entries
      BY DEF Entries
    <2> QED
      BY <1>1, <1>2, <2>1, <2>2 DEF OneName
  <1> QED
    BY <1>2, <1>3, <1>4

\* Writing at the end of an upload's data leaves it one piece longer.
LEMMA WriteAtEnd ==
    ASSUME NEW w, NEW n \in Nat
    PROVE  WriteAt([k \in 1..n |-> w], n, w) = [k \in 1..(n + 1) |-> w]
  <1> DEFINE d == [k \in 1..n |-> w]
  <1>1. Len(d) = n
    <2>1. d \in Seq({w})
      BY SeqDef
    <2>2. DOMAIN d = 1..n
      OBVIOUS
    <2> QED
      BY <2>1, <2>2, LenProperties
  <1>2. WriteAt(d, n, w) = [k \in 1..(n + 1) |-> IF k = n + 1 THEN w ELSE IF k <= n THEN d[k] ELSE Hole]
    BY <1>1 DEF WriteAt
  <1>3. ASSUME NEW k \in 1..(n + 1)
        PROVE  (IF k = n + 1 THEN w ELSE IF k <= n THEN d[k] ELSE Hole) = w
    OBVIOUS
  <1> QED
    BY <1>2, <1>3

\* Whatever a request does to the file it writes, the other uploads' are as they were.
LEMMA OthersProgress ==
    ASSUME UploadInv, NEW r \in Reqs, req[r].pc \in Writing, Only(r),
           \A j \in Inodes : j # req[r].wfd => ino'[j] = ino[j],
           NEW q \in Reqs, q # r
    PROVE  Progress(q)'
  <1>1. TypeOK /\ Progress(q) /\ req'[q] = req[q]
    BY DEF UploadInv, UploadsProgress, Only
  <1>2. CASE req[q].pc \in {"write", "sync", "rename"}
    <2>1. Uploading(q)
      BY <1>1, <1>2 DEF Uploading, TypeOK, ReqOK, LocalsSet
    <2>2. req[q].wfd \in Inodes /\ req[q].wfd # req[r].wfd
      BY <1>1, <2>1, UploadTyped, WrittenAlone
    <2> QED
      BY <1>1, <2>2 DEF Progress
  <1> QED
    BY <1>1, <1>2 DEF Progress

LEMMA WritesKeeps ==
    ASSUME UploadInv, TypeOK', NEW r \in Reqs, Writes(r), UNCHANGED <<node, counter>>
    PROVE  UploadInv' /\ (ObjectsSafe => ObjectsSafe')
  <1>1. TypeOK /\ UploadsProgress /\ req[r] \in ReqType /\ LocalsSet(req[r])
    BY DEF UploadInv, TypeOK, ReqOK
  <1>2. PICK piece : /\ WritePiece(r, piece)
                     /\ \/ At(r, "write") /\ piece = r /\ req[r].off < Chunks
                        \/ At(r, "copying")
    BY DEF Writes, PutWrite
  <1> DEFINE i == req[r].wfd
             f == [data |-> WriteAt(ino[i].data, req[r].off, piece), by |-> r, synced |-> FALSE]
  <1>3. req[r].pc \in Writing /\ i \in Inodes
    BY <1>1, <1>2 DEF At, Writing, LocalsSet
  <1>4. ino'[i] = f /\ \A j \in Inodes : j # i => ino'[j] = ino[j]
    BY <1>1, <1>2, <1>3 DEF WritePiece, TypeOK
  <1>5. Only(r) /\ req'[r] = [req[r] EXCEPT !.off = req[r].off + 1]
    BY <1>1, <1>2 DEF WritePiece, Only, TypeOK, ReqOK
  <1>6. /\ req'[r].off = req[r].off + 1 /\ req'[r].pc = req[r].pc /\ req'[r].op = req[r].op
        /\ req'[r].key = req[r].key /\ req'[r].tmp = req[r].tmp /\ req'[r].wfd = i
        /\ req'[r].att = req[r].att
    BY <1>1, <1>5 DEF ReqType
  <1>7. GoesOn(r)
    BY <1>3, <1>5, <1>6 DEF GoesOn
  <1>8. UploadsProgress'
    <2>1. ASSUME At(r, "write") PROVE Progress(r)'
      <3>1. piece = r /\ req[r].off < Chunks /\ req[r].off \in Nat
        BY <1>1, <1>2, <2>1 DEF At, ReqType
      <3>2. ino[i].data = [k \in 1..req[r].off |-> r]
        BY <1>1, <2>1 DEF UploadsProgress, Progress, At
      <3>3. f.data = [k \in 1..(req[r].off + 1) |-> r]
        BY <3>1, <3>2, WriteAtEnd
      <3> QED
        BY <1>4, <1>6, <2>1, <3>1, <3>3, DataAssumption DEF Progress, At
    <2>2. ASSUME At(r, "copying") PROVE Progress(r)'
      BY <1>6, <2>2 DEF Progress, At
    <2>3. ASSUME NEW q \in Reqs, q # r PROVE Progress(q)'
      BY <1>3, <1>4, <1>5, <2>3, OthersProgress
    <2> QED
      BY <1>2, <2>1, <2>2, <2>3 DEF UploadsProgress
  <1>9. ASSUME ObjectsSafe PROVE ObjectsSafe'
    <2> SUFFICES ASSUME NEW p \in Paths, node[p] \in Inodes
                 PROVE  \/ ino'[node[p]].by \in Reqs /\ req'[ino'[node[p]].by].op = "COPY"
                        \/ /\ ino'[node[p]].data = Whole(ino'[node[p]].by)
                           /\ PowerLoss => ino'[node[p]].synced
      BY DEF ObjectsSafe, IsFile
    <2>1. ASSUME NEW q \in Reqs PROVE req'[q].op = req[q].op
      BY <1>5, <1>6 DEF Only
    <2>2. CASE node[p] = i
      <3>1. req[r].op = "COPY"
        BY <1>1, <1>2, <1>3, <2>2, WrittenAlone DEF Uploading, LocalsSet, At
      <3> QED
        BY <1>4, <2>1, <2>2, <3>1
    <2>3. CASE node[p] # i
      BY <1>4, <1>9, <2>1, <2>3 DEF ObjectsSafe, IsFile
    <2> QED
      BY <2>2, <2>3
  <1> QED
    BY <1>7, <1>8, <1>9, GoesOnKeeps DEF UploadInv

LEMMA PutFlushKeeps ==
    ASSUME UploadInv, TypeOK', NEW r \in Reqs, PutFlush(r)
    PROVE  UploadInv' /\ (ObjectsSafe => ObjectsSafe')
  <1>1. TypeOK /\ UploadsProgress /\ req[r] \in ReqType
    BY DEF UploadInv, TypeOK, ReqOK
  <1>2. At(r, "write") /\ req[r].off = Chunks /\ UNCHANGED <<node, ino, counter>>
    BY DEF PutFlush
  <1>3. Only(r) /\ req'[r] = [req[r] EXCEPT !.pc = AfterFlush]
    BY <1>1 DEF PutFlush, Goto, Only, TypeOK, ReqOK
  <1>4. /\ req'[r].pc = AfterFlush /\ req'[r].op = req[r].op /\ req'[r].key = req[r].key
        /\ req'[r].tmp = req[r].tmp /\ req'[r].wfd = req[r].wfd /\ req'[r].att = req[r].att
        /\ req'[r].off = req[r].off
    BY <1>1, <1>3 DEF ReqType
  <1>5. AfterFlush \in {"sync", "rename"} /\ (AfterFlush = "rename" => ~Fsync)
    BY DEF AfterFlush
  <1>6. GoesOn(r)
    BY <1>2, <1>3, <1>4, <1>5 DEF GoesOn, Writing, At
  <1>7. UploadsProgress'
    <2>1. Progress(r)'
      BY <1>1, <1>2, <1>4, <1>5 DEF UploadsProgress, Progress, At
    <2>2. ASSUME NEW q \in Reqs, q # r PROVE Progress(q)'
      BY <1>1, <1>2, <1>3, <2>2 DEF UploadsProgress, Progress, Only
    <2> QED
      BY <2>1, <2>2 DEF UploadsProgress
  <1>8. ASSUME NEW q \in Reqs PROVE req'[q].op = req[q].op
    BY <1>3, <1>4 DEF Only
  <1> QED
    BY <1>2, <1>6, <1>7, <1>8, GoesOnKeeps DEF UploadInv, ObjectsSafe, IsFile

LEMMA PutSyncKeeps ==
    ASSUME UploadInv, TypeOK', NEW r \in Reqs, PutSync(r)
    PROVE  UploadInv' /\ (ObjectsSafe => ObjectsSafe')
  <1> DEFINE i == req[r].wfd
  <1>1. TypeOK /\ UploadsProgress /\ req[r] \in ReqType /\ LocalsSet(req[r])
    BY DEF UploadInv, TypeOK, ReqOK
  <1>2. At(r, "sync") /\ UNCHANGED <<node, counter>> /\ req[r].pc \in Writing /\ i \in Inodes
    BY <1>1 DEF PutSync, At, Writing, LocalsSet
  <1>3. Only(r) /\ req'[r] = [req[r] EXCEPT !.pc = "rename"]
    BY <1>1 DEF PutSync, Goto, Only, TypeOK, ReqOK
  <1>4. /\ req'[r].pc = "rename" /\ req'[r].op = req[r].op /\ req'[r].key = req[r].key
        /\ req'[r].tmp = req[r].tmp /\ req'[r].wfd = req[r].wfd /\ req'[r].att = req[r].att
        /\ req'[r].off = req[r].off
    BY <1>1, <1>3 DEF ReqType
  <1>5. /\ \A j \in Inodes : j # i => ino'[j] = ino[j]
        /\ ino'[i].data = ino[i].data /\ ino'[i].by = ino[i].by /\ ino'[i].synced
    BY <1>1, <1>2 DEF PutSync, TypeOK, InoType
  <1>6. GoesOn(r)
    BY <1>2, <1>3, <1>4 DEF GoesOn, Writing, At
  <1>7. UploadsProgress'
    <2>1. Progress(r)'
      BY <1>1, <1>2, <1>4, <1>5 DEF UploadsProgress, Progress, At
    <2>2. ASSUME NEW q \in Reqs, q # r PROVE Progress(q)'
      BY <1>2, <1>3, <1>5, <2>2, OthersProgress
    <2> QED
      BY <2>1, <2>2 DEF UploadsProgress
  <1>8. ASSUME ObjectsSafe PROVE ObjectsSafe'
    <2>1. ASSUME NEW q \in Reqs PROVE req'[q].op = req[q].op
      BY <1>3, <1>4 DEF Only
    <2>2. ASSUME NEW j \in Inodes
          PROVE  ino'[j].data = ino[j].data /\ ino'[j].by = ino[j].by /\ (ino[j].synced => ino'[j].synced)
      BY <1>5
    <2> QED
      BY <1>2, <1>8, <2>1, <2>2 DEF ObjectsSafe, IsFile
  <1> QED
    BY <1>6, <1>7, <1>8, GoesOnKeeps DEF UploadInv

-----------------------------------------------------------------------------
(* The rename, which gives what was uploaded the name of an object.        *)

LEMMA PutRenameKeeps ==
    ASSUME UploadInv, TypeOK', NEW r \in Reqs, PutRename(r)
    PROVE  UploadInv' /\ ((PowerLoss => Fsync) /\ ObjectsSafe => ObjectsSafe')
  <1>1. TypeOK /\ StepsFit /\ OneName /\ NamesTaken /\ FreshInodes /\ WritersApart /\ UploadsProgress
    BY DEF UploadInv
  <1>2. req[r] \in ReqType /\ At(r, "rename") /\ Uploading(r) /\ UNCHANGED <<ino, counter>>
    BY <1>1 DEF PutRename, TypeOK, ReqOK, LocalsSet, At, Uploading
  <1> DEFINE t == Temp(r)
             p == Path(r)
             i == req[r].wfd
  <1>3. /\ req[r].tmp # None /\ i \in Inodes /\ t \in Entries /\ t \notin Paths /\ t # p
        /\ node[t] = i /\ p \in Paths /\ p \in Entries
    BY <1>1, <1>2, UploadTyped, TempEntry, PathTyped DEF WritersApart
  <1>4. /\ node'[t] = NoEntry /\ node'[p] = i
        /\ \A e \in Entries : e # t /\ e # p => node'[e] = node[e]
    BY <1>1, <1>3 DEF PutRename, TypeOK
  <1>5. NoEntry \notin Inodes
    BY DistinctAssumption
  <1>6. Only(r) /\ req'[r] = [req[r] EXCEPT !.pc = "uncache"]
    BY <1>1 DEF PutRename, Goto, Only, TypeOK, ReqOK
  <1>7. req'[r].pc = "uncache" /\ req'[r].tmp = req[r].tmp /\ req'[r].att = req[r].att
        /\ req'[r].op = req[r].op
    BY <1>2, <1>6 DEF ReqType
  <1>8. ASSUME NEW q \in Reqs, q # r PROVE req'[q] = req[q]
    BY <1>6, <1>8 DEF Only
  <1>9. StepsFit'
    BY <1>1, <1>7, <1>8 DEF StepsFit, At
  <1>10. NamesTaken'
    <2>1. ASSUME NEW q \in Reqs PROVE req'[q].tmp = req[q].tmp /\ (Active(q) => Active(q)')
      BY <1>7, <1>8 DEF Active
    <2> QED
      BY <1>1, <1>2, <2>1 DEF NamesTaken
  <1>11. OneName'
    <2> SUFFICES ASSUME NEW e \in Entries, NEW f \in Entries, node'[e] \in Inodes, node'[e] = node'[f]
                 PROVE  e = f
      BY DEF OneName
    <2>1. e # t /\ f # t
      BY <1>4, <1>5
    <2>2. ASSUME NEW g \in Entries, g # t, g # p PROVE node[g] # i
      BY <1>1, <1>3, <2>2 DEF OneName
    <2> QED
      BY <1>1, <1>3, <1>4, <2>1, <2>2 DEF OneName
  <1>12. FreshInodes'
    <2> SUFFICES ASSUME NEW q \in Reqs, NEW a \in {1, 2}, Ahead(req'[q], a)
                 PROVE  /\ \A e \in Entries : node'[e] # <<q, a>>
                        /\ \A w \in Reqs : req'[w].pc \in Writing => req'[w].wfd # <<q, a>>
      BY DEF FreshInodes
    <2>1. Ahead(req[q], a)
      <3>1. CASE q = r
        BY <1>2, <1>7, <3>1 DEF Ahead, BeforeOpen, At
      <3>2. CASE q # r
        BY <1>8, <3>2
      <3> QED
        BY <3>1, <3>2
    <2>2. <<q, a>> \in Inodes /\ <<q, a>> # i
      BY <1>1, <1>3, <2>1 DEF Inodes, FreshInodes
    <2>3. \A e \in Entries : node'[e] # <<q, a>>
      BY <1>1, <1>4, <1>5, <2>1, <2>2 DEF FreshInodes
    <2>4. ASSUME NEW w \in Reqs, req'[w].pc \in Writing PROVE req'[w] = req[w]
      BY <1>7, <1>8, <2>4 DEF Writing
    <2> QED
      BY <1>1, <2>1, <2>3, <2>4 DEF FreshInodes
  <1>13. WritersApart' /\ UploadsProgress'
    <2>1. ASSUME NEW q \in Reqs, req'[q].pc \in Writing PROVE q # r /\ req'[q] = req[q]
      BY <1>7, <1>8, <2>1 DEF Writing
    <2>2. ASSUME NEW q \in Reqs, Uploading(q)' PROVE node'[Temp(q)'] = req'[q].wfd
      <3>1. q # r /\ req'[q] = req[q] /\ Uploading(q) /\ Temp(q)' = Temp(q)
        BY <2>1, <2>2 DEF Uploading, Writing, Temp, Path
      <3>2. Temp(q) \in Entries /\ Temp(q) \notin Paths /\ req[q].tmp # None
        BY <1>1, <3>1, UploadTyped, TempEntry
      <3>3. Temp(q) # t
        BY <1>1, <1>3, <3>1, <3>2, TempsApart
      <3> QED
        BY <1>1, <1>3, <1>4, <3>1, <3>2, <3>3 DEF WritersApart
    <2>3. ASSUME NEW q \in Reqs, At(q, "copying")', NEW e \in Temps PROVE node'[e] # req'[q].wfd
      <3>1. req'[q] = req[q] /\ At(q, "copying")
        BY <2>1, <2>3 DEF At, Writing
      <3>2. req[q].wfd \in Inodes /\ e \in Entries /\ e # p
        BY <1>1, <1>3, <3>1, TempEntry DEF TypeOK, ReqOK, LocalsSet, At
      <3> QED
        BY <1>1, <1>4, <1>5, <3>1, <3>2 DEF WritersApart
    <2>4. UploadsProgress'
      BY <1>1, <1>2, <2>1 DEF UploadsProgress, Progress, Writing
    <2> QED
      BY <2>2, <2>3, <2>4 DEF WritersApart
  <1>14. ASSUME PowerLoss => Fsync, ObjectsSafe PROVE ObjectsSafe'
    <2> SUFFICES ASSUME NEW x \in Paths, node'[x] \in Inodes
                 PROVE  \/ ino[node'[x]].by \in Reqs /\ req'[ino[node'[x]].by].op = "COPY"
                        \/ /\ ino[node'[x]].data = Whole(ino[node'[x]].by)
                           /\ PowerLoss => ino[node'[x]].synced
      BY <1>2 DEF ObjectsSafe, IsFile
    <2>1. CASE x = p
      <3>1. Progress(r) /\ req[r].pc = "rename"
        BY <1>1, <1>2 DEF UploadsProgress, At
      <3>2. req[r].off = Chunks
        BY <3>1 DEF Progress
      <3>3. ino[i].by = r /\ ino[i].data = [k \in 1..req[r].off |-> r] /\ (Fsync => ino[i].synced)
        BY <3>1 DEF Progress
      <3>4. ino[i].data = Whole(r)
        BY <3>2, <3>3 DEF Whole
      <3> QED
        BY <1>4, <1>14, <2>1, <3>3, <3>4
    <2>2. CASE x # p
      <3>1. node'[x] = node[x]
        BY <1>3, <1>4, <2>2 DEF Entries
      <3>2. ASSUME NEW q \in Reqs PROVE req'[q].op = req[q].op
        BY <1>7, <1>8
      <3> QED
        BY <1>14, <3>1, <3>2 DEF ObjectsSafe, IsFile
    <2> QED
      BY <2>1, <2>2
  <1> QED
    BY <1>9, <1>10, <1>11, <1>12, <1>13, <1>14 DEF UploadInv

-----------------------------------------------------------------------------
(* A crash, after which the counter starts again.                          *)

LEMMA CrashKeeps ==
    ASSUME UploadInv, TypeOK', Crash
    PROVE  UploadInv' /\ (ObjectsSafe => ObjectsSafe')
  <1>1. TypeOK /\ StepsFit /\ OneName /\ NamesTaken /\ FreshInodes
    BY DEF UploadInv
  <1>2. UNCHANGED node
    BY DEF Crash
  <1>3. ASSUME NEW q \in Reqs
        PROVE  /\ req'[q].op = req[q].op /\ req'[q].tmp = None /\ req'[q].pc \in {"idle", "done"}
               /\ req'[q].pc = "idle" => req'[q] = req[q] /\ req[q] = Idle
    <2>1. req'[q] = IF Active(q) THEN Answered(req[q], "lost") ELSE req[q]
      BY DEF Crash
    <2>2. CASE Active(q)
      BY <2>1, <2>2 DEF Answered, Idle
    <2>3. CASE ~Active(q)
      BY <1>1, <2>1, <2>3 DEF Active, NamesTaken, StepsFit, At
    <2> QED
      BY <2>2, <2>3
  <1>4. StepsFit' /\ OneName' /\ NamesTaken'
    BY <1>1, <1>2, <1>3 DEF StepsFit, OneName, NamesTaken, At
  <1>5. FreshInodes'
    <2>1. ASSUME NEW q \in Reqs, NEW a \in {1, 2}, Ahead(req'[q], a) PROVE Ahead(req[q], a)
      BY <1>3, <2>1 DEF Ahead
    <2>2. ASSUME NEW q \in Reqs PROVE req'[q].pc \notin Writing
      BY <1>3 DEF Writing
    <2> QED
      BY <1>1, <1>2, <2>1, <2>2 DEF FreshInodes
  <1>6. WritersApart' /\ UploadsProgress'
    BY <1>3 DEF WritersApart, UploadsProgress, Progress, Uploading, At
  <1>7. ASSUME ObjectsSafe PROVE ObjectsSafe'
    <2>1. PICK lost \in SUBSET (IF PowerLoss THEN Unsynced ELSE {}) :
              ino' = [i \in Inodes |-> IF i \in lost THEN [ino[i] EXCEPT !.data = <<>>] ELSE ino[i]]
      BY DEF Crash
    <2> SUFFICES ASSUME NEW p \in Paths, node[p] \in Inodes
                 PROVE  \/ ino'[node[p]].by \in Reqs /\ req'[ino'[node[p]].by].op = "COPY"
                        \/ /\ ino'[node[p]].data = Whole(ino'[node[p]].by)
                           /\ PowerLoss => ino'[node[p]].synced
      BY <1>2 DEF ObjectsSafe, IsFile
    <2>2. ino'[node[p]].by = ino[node[p]].by
      BY <1>1, <2>1 DEF TypeOK, InoType
    <2>3. CASE ino[node[p]].by \in Reqs /\ req[ino[node[p]].by].op = "COPY"
      BY <1>3, <2>2, <2>3
    <2>4. CASE ino[node[p]].data = Whole(ino[node[p]].by) /\ (PowerLoss => ino[node[p]].synced)
      <3>1. node[p] \notin lost
        BY <2>1, <2>4 DEF Unsynced
      <3>2. ino'[node[p]] = ino[node[p]]
        BY <2>1, <3>1
      <3> QED
        BY <2>4, <3>2
    <2> QED
      BY <1>7, <2>3, <2>4 DEF ObjectsSafe, IsFile
  <1> QED
    BY <1>4, <1>5, <1>6, <1>7 DEF UploadInv

-----------------------------------------------------------------------------
(* The invariants.                                                         *)

LEMMA UploadInit == Init => UploadInv /\ ObjectsSafe
  <1> SUFFICES ASSUME Init PROVE UploadInv /\ ObjectsSafe
    OBVIOUS
  <1>1. TypeOK
    BY TypeInit
  <1>2. \A r \in Reqs : req[r] = Idle
    BY DEF Init
  <1>3. Idle.pc = "idle" /\ Idle.tmp = None /\ Idle.op = "GET"
    BY DEF Idle
  <1>4. ASSUME NEW e \in Entries, node[e] \in Inodes PROVE node[e] = e /\ e \in Initial
    BY <1>4, DistinctAssumption DEF Init, StorageInit
  <1>5. StepsFit /\ NamesTaken /\ WritersApart /\ UploadsProgress
    BY <1>2, <1>3 DEF StepsFit, NamesTaken, WritersApart, UploadsProgress, Progress, Uploading, At
  <1>6. OneName
    BY <1>4 DEF OneName
  <1>7. FreshInodes
    <2>1. ASSUME NEW r \in Reqs, NEW a \in {1, 2}, NEW e \in Entries PROVE node[e] # <<r, a>>
      <3>1. <<r, a>> \in Inodes /\ <<r, a>> \notin Paths
        BY DistinctAssumption DEF Inodes
      <3> QED
        BY <1>4, <3>1, TreeAssumption
    <2> QED
      BY <1>2, <1>3, <2>1 DEF FreshInodes, Writing
  <1>8. ObjectsSafe
    <2> SUFFICES ASSUME NEW p \in Paths, node[p] \in Inodes
                 PROVE  ino[node[p]].data = Whole(ino[node[p]].by) /\ ino[node[p]].synced
      BY DEF ObjectsSafe, IsFile
    <2>1. node[p] = p /\ p \in Initial /\ p \in Inodes
      BY <1>4 DEF Entries, Inodes
    <2>2. ino[p] = [data |-> Whole(p), by |-> p, synced |-> TRUE]
      BY <2>1 DEF Init, StorageInit
    <2> QED
      BY <2>1, <2>2
  <1> QED
    BY <1>1, <1>5, <1>6, <1>7, <1>8 DEF UploadInv

LEMMA UploadStep ==
    ASSUME UploadInv, [Next]_vars
    PROVE  UploadInv' /\ ((PowerLoss => Fsync) /\ ObjectsSafe => ObjectsSafe')
  <1>1. TypeOK /\ TypeOK'
    BY TypeStep DEF UploadInv
  <1>2. ASSUME NEW r \in Reqs, Kept(r)
        PROVE  UploadInv' /\ (ObjectsSafe => ObjectsSafe')
    BY <1>1, <1>2, MildKeepsUploads, MildKeepsObjects DEF Kept
  <1>3. ASSUME NEW r \in Reqs, Strong(r)
        PROVE  UploadInv' /\ ((PowerLoss => Fsync) /\ ObjectsSafe => ObjectsSafe')
    BY <1>1, <1>3, TakeNameKeeps, OpensKeeps, WritesKeeps, PutFlushKeeps, PutSyncKeeps,
       PutRenameKeeps DEF Strong
  <1>4. CASE UNCHANGED <<node, ino, counter, req>>
    BY <1>1, <1>4
       DEF UploadInv, StepsFit, OneName, NamesTaken, FreshInodes, WritersApart, UploadsProgress,
           Progress, ObjectsSafe, IsFile, At, Active, Uploading, Temp, Path
  <1> QED
    BY <1>1, <1>2, <1>3, <1>4, OtherStepsMild, CrashKeeps DEF Next, CacheLose, vars

LEMMA PrivateLemma == UploadInv => UploadsPrivate
  <1> SUFFICES ASSUME UploadInv, NEW r \in Reqs, Uploading(r), NEW e \in Entries
               PROVE  node[e] = req[r].wfd <=> e = Temp(r)
    BY DEF UploadsPrivate
  <1>1. Temp(r) \in Entries /\ req[r].wfd \in Inodes /\ node[Temp(r)] = req[r].wfd
    BY UploadTyped DEF UploadInv, WritersApart
  <1> QED
    BY <1>1 DEF UploadInv, OneName

\* Any number of uploads to the same keys, with retries, timeouts, prunes, copies
\* and crashes after which temporary names are used again: each writes a file of
\* its own that no reader can open before it is renamed.
THEOREM UploadsStayPrivate == Spec => []UploadsPrivate
  <1>1. Init => UploadInv
    BY UploadInit
  <1>2. UploadInv /\ [Next]_vars => UploadInv'
    BY UploadStep
  <1> QED
    BY <1>1, <1>2, PrivateLemma, PTL DEF Spec

\* IInv is an invariant of every instance where power failures come only with
\* config.fsync: it is inductive as it stands.
THEOREM Inductive ==
    ASSUME PowerLoss => Fsync
    PROVE  Spec => []IInv
  <1>1. Init => IInv
    BY UploadInit DEF IInv
  <1>2. IInv /\ [Next]_vars => IInv'
    BY UploadStep DEF IInv
  <1> QED
    BY <1>1, <1>2, PTL DEF Spec

\* An object that no COPY wrote is the whole of one upload, whatever failed,
\* whoever else was writing it, and after any crash.
THEOREM ObjectsStayWhole ==
    ASSUME PowerLoss => Fsync
    PROVE  Spec => []ObjectsWhole
  <1>1. IInv => ObjectsWhole
    BY DEF IInv, ObjectsSafe, ObjectsWhole
  <1> QED
    BY <1>1, Inductive, PTL

-----------------------------------------------------------------------------
(* What becomes of temporary files.                                        *)

LEMMA StepOnly ==
    ASSUME UploadInv, NEW r \in Reqs, Kept(r) \/ Strong(r)
    PROVE  Only(r)
  <1>1. req \in [Reqs -> ReqType]
    BY DEF UploadInv, TypeOK, ReqOK
  <1>2. CASE Opens(r) \/ Writes(r)
    BY <1>1, <1>2 DEF Opens, OpenTrunc, Writes, PutWrite, WritePiece, Only
  <1>3. CASE TakeName(r) \/ PutFlush(r) \/ PutSync(r) \/ PutRename(r)
    BY <1>1, <1>3 DEF TakeName, PutFlush, PutSync, PutRename, Goto, Only
  <1> QED
    BY <1>2, <1>3 DEF Kept, MildReq, Strong

\* A temporary file comes from the upload that opens it.
LEMMA TempsOpened ==
    ASSUME UploadInv, NEW r \in Reqs, Kept(r) \/ Strong(r),
           NEW e \in Temps, node[e] = NoEntry, node'[e] # NoEntry
    PROVE  Uploading(r)' /\ Temp(r)' = e
  <1>1. TypeOK /\ req[r] \in ReqType /\ LocalsSet(req[r]) /\ e \in Entries /\ e \notin Paths
    BY TempEntry DEF UploadInv, TypeOK, ReqOK, Entries
  <1>2. ~Kept(r)
    BY <1>1 DEF Kept, MildNode, Takes
  <1>3. CASE UNCHANGED node
    BY <1>3
  <1>4. CASE PutRename(r)
    <2>1. Path(r) \in Paths
      BY <1>1, PathTyped
    <2> QED
      BY <1>1, <1>4, <2>1 DEF PutRename, TypeOK
  <1>5. CASE Opens(r)
    <2>1. CASE At(r, "copytrunc") /\ OpenTrunc(r, Path(r), "copying")
      BY <1>1, <2>1, PathTyped DEF OpenTrunc, TypeOK
    <2>2. CASE At(r, "create") /\ OpenTrunc(r, Temp(r), "write")
      <3> DEFINE i == OpenTruncGives(Temp(r), NewInode(r))
      <3>1. e = Temp(r)
        BY <1>1, <2>2 DEF OpenTrunc, TypeOK
      <3>2. req'[r] = [req[r] EXCEPT !.pc = "write", !.wfd = i, !.off = 0]
        BY <1>1, <2>2 DEF OpenTrunc, TypeOK, ReqOK
      <3>3. /\ req'[r].pc = "write" /\ req'[r].op = req[r].op
            /\ req'[r].key = req[r].key /\ req'[r].tmp = req[r].tmp
        BY <1>1, <3>2 DEF ReqType
      <3>4. req[r].op = "PUT"
        BY <1>1, <2>2 DEF LocalsSet, At
      <3> QED
        BY <3>1, <3>3, <3>4 DEF Uploading, Temp, Path
    <2> QED
      BY <1>5, <2>1, <2>2 DEF Opens
  <1> QED
    BY <1>2, <1>3, <1>4, <1>5 DEF Strong, TakeName, PutFlush, PutSync

\* An upload that no client gives up on goes on, or its temporary name is free.
LEMMA UploadGoesOn ==
    ASSUME UploadInv, ~Disconnects, ~MayFail("unlink"), NEW r \in Reqs, Uploading(r),
           Start(r) \/ Step(r) \/ Timeout(r) \/ Abandon(r)
    PROVE  (Uploading(r)' /\ Temp(r)' = Temp(r)) \/ node'[Temp(r)] = NoEntry
  <1>1. TypeOK /\ req[r] \in ReqType /\ req \in [Reqs -> ReqType]
    BY DEF UploadInv, TypeOK, ReqOK
  <1>2. node[Temp(r)] = req[r].wfd /\ req[r].wfd \in Inodes /\ Temp(r) \in Entries
    BY <1>1, UploadTyped DEF UploadInv, WritersApart
  <1>3. req[r].op = "PUT" /\ req[r].pc \in {"write", "sync", "rename", "cleanup"}
    BY DEF Uploading
  <1>4. \/ PutWrite(r) \/ PutFlush(r) \/ PutSync(r) \/ PutFail(r)
        \/ PutRename(r) \/ PutCleanup(r)
    BY <1>3 DEF Start, Step, Timeout, Timed, Abandon, At, Mkdir, IsDirCheck, TakeName, PutCreate,
                WriteUncache, Restat, PutPrime, CopySrcStat, CopyCanon, CopyOpen, CopyTrunc,
                CopyPiece, DeleteRemove, DeleteUncache, Prune, HeadLookup, HeadStat, HeadInsert,
                GetOpen, GetMetadata, GetStream, LateRemove, LateRmdir
  <1>5. CASE PutWrite(r)
    <2>1. req'[r] = [req[r] EXCEPT !.off = req[r].off + 1]
      BY <1>1, <1>5 DEF PutWrite, WritePiece
    <2> QED
      BY <1>1, <1>3, <2>1 DEF ReqType, Uploading, Temp, Path
  <1>6. CASE PutFlush(r) \/ PutSync(r) \/ PutFail(r)
    <2>1. PICK l \in {"sync", "rename", "cleanup"} : req'[r] = [req[r] EXCEPT !.pc = l]
      BY <1>1, <1>6 DEF PutFlush, AfterFlush, PutSync, PutFail, Goto
    <2> QED
      BY <1>1, <1>3, <2>1 DEF ReqType, Uploading, Temp, Path
  <1>7. CASE PutRename(r) \/ PutCleanup(r)
    <2>1. CanUnlink(Temp(r))
      BY <1>2 DEF CanUnlink, IsFile
    <2> QED
      BY <1>1, <1>2, <1>7, <2>1 DEF PutRename, PutCleanup, CleanedUp, TypeOK
  <1> QED
    BY <1>4, <1>5, <1>6, <1>7

LEMMA OnlyACrashCounts == [Next]_vars /\ ~Crash => UNCHANGED crashes
  <1>1. ASSUME NEW r \in Reqs, Step(r) PROVE UNCHANGED crashes
    BY <1>1 DEF Step, Mkdir, IsDirCheck, TakeName, PutCreate, PutWrite, PutFlush, PutSync, PutRename,
                PutFail, PutCleanup, WriteUncache, Restat, PutPrime, CopySrcStat, CopyCanon,
                CopyOpen, CopyTrunc, CopyPiece, DeleteRemove, DeleteUncache, Prune, HeadLookup,
                HeadStat, HeadInsert, GetOpen, GetMetadata, GetStream, LateRemove, LateRmdir
  <1> QED
    BY <1>1 DEF Next, Start, Timeout, Abandon, CacheLose, vars

LEMMA TempsStep ==
    ASSUME UploadInv, TempsOwned, ~Disconnects, ~MayFail("unlink"), [Next]_vars
    PROVE  TempsOwned'
  <1>1. TypeOK
    BY DEF UploadInv
  <1> SUFFICES ASSUME crashes' = 0, NEW e \in Temps, node'[e] # NoEntry
               PROVE  \E q \in Reqs : Uploading(q)' /\ Temp(q)' = e
    BY DEF TempsOwned
  <1>2. crashes = 0 /\ ~Crash
    <2>1. ~Crash
      BY <1>1 DEF TypeOK, Crash
    <2> QED
      BY <2>1, OnlyACrashCounts
  <1>3. CASE UNCHANGED <<node, req>>
    <2>1. PICK q \in Reqs : Uploading(q) /\ Temp(q) = e
      BY <1>2, <1>3 DEF TempsOwned
    <2> QED
      BY <1>3, <2>1 DEF Uploading, Temp, Path
  <1>4. ASSUME NEW r \in Reqs, Start(r) \/ Step(r) \/ Timeout(r) \/ Abandon(r)
        PROVE  \E q \in Reqs : Uploading(q)' /\ Temp(q)' = e
    <2>1. Kept(r) \/ Strong(r)
      BY <1>4, OtherStepsMild
    <2>2. CASE node[e] = NoEntry
      BY <2>1, <2>2, TempsOpened
    <2>3. CASE node[e] # NoEntry
      <3>1. PICK q \in Reqs : Uploading(q) /\ Temp(q) = e
        BY <1>2, <2>3 DEF TempsOwned
      <3>2. CASE q = r
        BY <1>4, <3>1, <3>2, UploadGoesOn
      <3>3. CASE q # r
        <4>1. req'[q] = req[q]
          BY <2>1, <3>3, StepOnly DEF Only
        <4> QED
          BY <3>1, <4>1 DEF Uploading, Temp, Path
      <3> QED
        BY <3>2, <3>3
    <2> QED
      BY <2>2, <2>3
  <1> QED
    BY <1>2, <1>3, <1>4 DEF Next, CacheLose, vars

\* Once no request is under way no temporary file is left, whether uploads went
\* through, failed, were retried or met: as long as the server did not crash, no
\* client took its handler with it and no remove_file failed.
THEOREM UploadsTidyUp ==
    ASSUME ~Disconnects, ~MayFail("unlink")
    PROVE  Spec => []NoOrphanTemps
  <1>1. Init => UploadInv /\ TempsOwned
    <2>1. ASSUME Init, NEW e \in Temps PROVE node[e] = NoEntry
      <3>1. e \in Entries /\ e \notin Paths
        BY TempEntry DEF Entries
      <3> QED
        BY <2>1, <3>1, TreeAssumption DEF Init, StorageInit
    <2> QED
      BY <2>1, UploadInit DEF TempsOwned
  <1>2. UploadInv /\ TempsOwned /\ [Next]_vars => UploadInv' /\ TempsOwned'
    BY UploadStep, TempsStep
  <1>3. TempsOwned => NoOrphanTemps
    BY DEF TempsOwned, NoOrphanTemps, Quiet, Active, Uploading
  <1> QED
    BY <1>1, <1>2, <1>3, PTL DEF Spec

-----------------------------------------------------------------------------
(* What one step does to an object.                                        *)

LEMMA KeptReplaces ==
    ASSUME TypeOK, NEW r \in Reqs, Kept(r), NEW p \in Paths, IsFile(p)
    PROVE  LeftOrReplaced(p)
  <1>1. UNCHANGED ino /\ p \in Entries /\ node[p] \in Inodes
    BY DEF Kept, IsFile, Entries
  <1>2. CASE node'[p] = node[p]
    BY <1>1, <1>2 DEF LeftOrReplaced
  <1>3. CASE node'[p] # node[p]
    <2>1. Takes(r, p)
      BY <1>1, <1>3, TempEntry DEF Kept, MildNode
    <2> QED
      BY <1>1, <2>1 DEF Takes, LeftOrReplaced
  <1> QED
    BY <1>2, <1>3

LEMMA WritesReplace ==
    ASSUME UploadInv, ~CopyAllowed, NEW r \in Reqs,
           (Writes(r) /\ UNCHANGED node) \/ PutSync(r),
           NEW p \in Paths, IsFile(p)
    PROVE  LeftOrReplaced(p)
  <1>1. TypeOK /\ LocalsSet(req[r]) /\ req[r].op # "COPY"
    BY DEF UploadInv, TypeOK, ReqOK, StepsFit
  <1>2. Uploading(r) /\ req[r].pc \in Writing /\ UNCHANGED node
    BY <1>1 DEF Writes, PutWrite, PutSync, At, LocalsSet, Uploading, Writing
  <1>3. node[p] # req[r].wfd /\ node[p] \in Inodes
    BY <1>2, WrittenAlone DEF IsFile
  <1>4. ino'[node[p]] = ino[node[p]]
    BY <1>1, <1>3 DEF Writes, PutWrite, PutSync, WritePiece, TypeOK
  <1> QED
    BY <1>2, <1>4 DEF LeftOrReplaced

LEMMA OpensReplace ==
    ASSUME UploadInv, ~CopyAllowed, NEW r \in Reqs, Opens(r), NEW p \in Paths, IsFile(p)
    PROVE  LeftOrReplaced(p)
  <1> DEFINE i == OpenTruncGives(Temp(r), NewInode(r))
  <1>1. TypeOK /\ LocalsSet(req[r]) /\ req[r].op # "COPY"
    BY DEF UploadInv, TypeOK, ReqOK, StepsFit
  <1>2. At(r, "create") /\ OpenTrunc(r, Temp(r), "write")
    BY <1>1 DEF Opens, At, LocalsSet
  <1>3. Temp(r) \in Temps /\ Temp(r) \in Entries /\ Temp(r) # p /\ p \in Entries
    BY <1>1, <1>2, TempTyped, TempEntry DEF At, LocalsSet, Entries
  <1>4. i \in Inodes /\ node[p] # i
    <2>1. req[r].pc \in BeforeOpen /\ Active(r)
      BY <1>2 DEF At, BeforeOpen, Active
    <2> QED
      BY <1>3, <2>1, OpenedAlone
  <1>5. node' = [node EXCEPT ![Temp(r)] = i] /\ ino' = [ino EXCEPT ![i] = EmptyFile(r)]
    BY <1>2 DEF OpenTrunc
  <1>6. node'[p] = node[p] /\ ino'[node[p]] = ino[node[p]]
    BY <1>1, <1>3, <1>4, <1>5 DEF TypeOK, IsFile
  <1> QED
    BY <1>6 DEF LeftOrReplaced

LEMMA PutRenameReplaces ==
    ASSUME UploadInv, NEW r \in Reqs, PutRename(r), NEW p \in Paths, IsFile(p)
    PROVE  LeftOrReplaced(p)
  <1>1. TypeOK /\ WritersApart /\ UploadsProgress /\ At(r, "rename") /\ Uploading(r) /\ UNCHANGED ino
    BY DEF UploadInv, PutRename, TypeOK, ReqOK, LocalsSet, At, Uploading
  <1>2. /\ Temp(r) \in Entries /\ Temp(r) \notin Paths /\ req[r].wfd \in Inodes
        /\ node[Temp(r)] = req[r].wfd /\ Path(r) \in Entries /\ Path(r) \in Paths
    BY <1>1, UploadTyped, TempEntry, PathTyped DEF WritersApart
  <1>3. node' = [node EXCEPT ![Path(r)] = req[r].wfd, ![Temp(r)] = NoEntry]
    BY <1>2 DEF PutRename
  <1>4. CASE p # Path(r)
    <2>1. node'[p] = node[p]
      BY <1>1, <1>2, <1>3, <1>4 DEF TypeOK, Entries
    <2> QED
      BY <1>1, <2>1 DEF LeftOrReplaced
  <1>5. CASE p = Path(r)
    <2>1. node'[p] = req[r].wfd
      BY <1>1, <1>2, <1>3, <1>5 DEF TypeOK
    <2>2. ino[req[r].wfd].data = Whole(r) /\ req[r].op = "PUT"
      <3>1. Progress(r) /\ req[r].pc = "rename" /\ req[r].op = "PUT"
        BY <1>1 DEF UploadsProgress, At, Uploading
      <3>2. req[r].off = Chunks /\ ino[req[r].wfd].data = [k \in 1..req[r].off |-> r]
        BY <3>1 DEF Progress
      <3> QED
        BY <3>1, <3>2 DEF Whole
    <2> QED
      BY <1>1, <1>2, <1>5, <2>1, <2>2 DEF LeftOrReplaced
  <1> QED
    BY <1>4, <1>5

LEMMA CrashReplaces ==
    ASSUME UploadInv, ObjectsSafe, ~CopyAllowed, Crash, NEW p \in Paths, IsFile(p)
    PROVE  LeftOrReplaced(p)
  <1>1. PICK lost \in SUBSET (IF PowerLoss THEN Unsynced ELSE {}) :
            ino' = [i \in Inodes |-> IF i \in lost THEN [ino[i] EXCEPT !.data = <<>>] ELSE ino[i]]
    BY DEF Crash
  <1>2. PowerLoss => ino[node[p]].synced
    BY DEF ObjectsSafe, UploadInv, StepsFit
  <1>3. node[p] \notin lost /\ node[p] \in Inodes
    BY <1>1, <1>2 DEF Unsynced, IsFile
  <1> QED
    BY <1>1, <1>3 DEF Crash, LeftOrReplaced

LEMMA ReplacesStep ==
    ASSUME UploadInv, ObjectsSafe, ~CopyAllowed, [Next]_vars, NEW p \in Paths, IsFile(p)
    PROVE  LeftOrReplaced(p)
  <1>1. TypeOK
    BY DEF UploadInv
  <1>2. ASSUME NEW r \in Reqs, Strong(r) PROVE LeftOrReplaced(p)
    <2>1. CASE TakeName(r) \/ PutFlush(r)
      BY <2>1 DEF TakeName, PutFlush, LeftOrReplaced
    <2> QED
      BY <1>2, <2>1, WritesReplace, OpensReplace, PutRenameReplaces DEF Strong
  <1>3. CASE UNCHANGED <<node, ino>>
    BY <1>3 DEF LeftOrReplaced
  <1> QED
    BY <1>1, <1>2, <1>3, OtherStepsMild, KeptReplaces, CrashReplaces DEF Next, CacheLose, vars

\* Where clients do not COPY, no step of any handler, timeout or crash changes an
\* object but to remove it for a DELETE of it or to put a whole upload in its place.
THEOREM UploadsReplaceWhole ==
    ASSUME PowerLoss => Fsync, ~CopyAllowed
    PROVE  Spec => ObjectsReplacedWhole
  <1>1. IInv /\ [Next]_vars => [\A p \in Paths : IsFile(p) => LeftOrReplaced(p)]_vars
    BY ReplacesStep DEF IInv
  <1> QED
    BY <1>1, Inductive, PTL DEF Spec, ObjectsReplacedWhole
=============================================================================
