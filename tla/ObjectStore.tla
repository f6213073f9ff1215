---------------------------- MODULE ObjectStore ----------------------------
(***************************************************************************)
(* The object handlers of FerroS3 (src/handlers/object.rs): PUT, PUT with  *)
(* x-amz-copy-source, DELETE, HEAD and GET of objects, over the file       *)
(* system of Storage and the process-wide stat cache, under the request    *)
(* timeout of src/lib.rs.                                                  *)
(*                                                                         *)
(* Every await of a handler on the file system, and every access to the    *)
(* shared cache or counter, is one atomic step; requests interleave        *)
(* between them.  A request runs once; Reqs bounds how many there are.     *)
(***************************************************************************)
EXTENDS Storage

CONSTANTS
    Keys,           \* the bucket/key strings of clients, which name cache entries
    PathOf,         \* the path safe_join gives a key
    Calls,          \* the calls a request may make
    PruneEmptyDirs, \* config.prune_empty_dirs
    RequestTimeout, \* config.request_timeout_secs # 0
    Fsync,          \* config.fsync
    Faults,         \* the file system calls that may fail with an I/O error
    Crashes,        \* how often the server may crash and start again
    PowerLoss,      \* whether a crash may lose what was not synced
    Serialised,     \* whether clients keep requests on one object apart
    Disconnects,    \* whether a client that goes away takes its handler with it
    NoStat,         \* no cache entry
    None            \* no handle, no temporary file

Ops == {"PUT", "COPY", "DELETE", "HEAD", "GET"}

ASSUME CallAssumption ==
    /\ Keys # {} /\ PathOf \in [Keys -> Paths \ {Root}]
    /\ Calls \subseteq [op : Ops, key : Keys, src : Keys]
    /\ {PruneEmptyDirs, RequestTimeout, Fsync, PowerLoss, Serialised, Disconnects} \subseteq BOOLEAN
    /\ Crashes \in Nat

ASSUME SentinelAssumption ==
    /\ None \notin Inodes \cup {Directory} \cup Nat
    /\ NoStat \notin [by : Payloads, size : Nat]

VARIABLES
    cache,      \* AppState.cache: the stat kept for each key, or NoStat
    counter,    \* COUNTER of temp_path_for
    req,        \* where each request is, and its local variables
    crashes     \* how often the server has crashed

vars == <<node, ino, cache, counter, req, crashes>>

\* The locals of a request: the call; the attempt (1, or 2 once a write was
\* retried); the directories still to make or the one to prune; the number of
\* the temporary name; the file read and the file written; how much is written;
\* what GET has streamed; the last stat; and the status answered.
Idle == [pc |-> "idle", op |-> "GET", key |-> CHOOSE k \in Keys : TRUE,
         src |-> CHOOSE k \in Keys : TRUE, att |-> 1, walk |-> <<>>, tmp |-> None,
         fd |-> None, wfd |-> None, off |-> 0, got |-> <<>>, stat |-> NoStat,
         resp |-> "none"]

Init ==
    /\ StorageInit
    /\ cache = [k \in Keys |-> NoStat]
    /\ counter = 0
    /\ req = [r \in Reqs |-> Idle]
    /\ crashes = 0

-----------------------------------------------------------------------------

At(r, l) == req[r].pc = l

Path(r) == PathOf[req[r].key]

Source(r) == PathOf[req[r].src]

\* Mutant: the upload is written to the object itself.
InPlace(r) == Path(r)

Temp(r) == <<Path(r), req[r].tmp>>

NewInode(r) == <<r, req[r].att>>

Active(r) == req[r].pc \notin {"idle", "done"}

MayFail(call) == call \in Faults

Goto(r, l) == req' = [req EXCEPT ![r].pc = l]

Answered(c, status) ==
    [Idle EXCEPT !.pc = "done", !.op = c.op, !.key = c.key, !.src = c.src,
                 !.fd = IF c.op = "GET" THEN c.fd ELSE None,
                 !.got = c.got, !.stat = c.stat, !.resp = status]

Answer(r, status) == req' = [req EXCEPT ![r] = Answered(@, status)]

\* create_dir_all starts at the parent of the destination.
EnsureParent(r, attempt) ==
    req' = [req EXCEPT ![r].pc = "mkdir", ![r].att = attempt,
                       ![r].walk = <<ParentOf[Path(r)]>>]

\* Mutant: the retry is not counted.
RetryForever(r) == EnsureParent(r, 2)

\* A write that failed on its first attempt makes the directory again.
RetryOrFail(r) ==
    IF req[r].att = 1 THEN EnsureParent(r, 2) ELSE Answer(r, "500")

-----------------------------------------------------------------------------
(* The stat cache, keyed by the client's spelling of the key.              *)

Inserted(k, s) == [cache EXCEPT ![k] = s]

\* Mutant: the entry stays.
StillCached(k) == cache

Uncached(k) == [cache EXCEPT ![k] = NoStat]

\* An entry goes when it is older than stat_cache_ttl_secs or evicted.
CacheLose(k) ==
    /\ cache[k] # NoStat
    /\ cache' = [cache EXCEPT ![k] = NoStat]
    /\ UNCHANGED <<node, ino, counter, req, crashes>>

-----------------------------------------------------------------------------
(* A request arrives.                                                      *)

FirstStep(op) ==
    CASE op = "PUT" -> "mkdir" [] op = "COPY" -> "srcstat" [] op = "DELETE" -> "remove"
      [] op = "HEAD" -> "lookup" [] op = "GET" -> "open"

\* The paths a call is about.
Touches(c) == {PathOf[c.key]} \cup (IF c.op = "COPY" THEN {PathOf[c.src]} ELSE {})

Start(r) ==
    /\ At(r, "idle")
    /\ \E c \in Calls :
        /\ Serialised =>
               \A q \in Reqs : Active(q) => Touches(c) \cap Touches(req[q]) = {}
        /\ req' = [req EXCEPT ![r] =
               [Idle EXCEPT !.pc = FirstStep(c.op), !.op = c.op, !.key = c.key, !.src = c.src,
                   !.walk = IF c.op = "PUT" THEN <<ParentOf[PathOf[c.key]]>> ELSE <<>>]]
    /\ UNCHANGED <<node, ino, cache, counter, crashes>>

-----------------------------------------------------------------------------
(* ensure_parent_dir: create_dir_all makes a missing directory above first *)
(* and then tries again; walk is its recursion, the innermost call first.  *)

MkdirReturns(r) ==
    LET rest == Tail(req[r].walk)
    IN  req' = [req EXCEPT
            ![r].walk = rest,
            ![r].pc = IF rest # <<>> THEN "mkdown"
                      ELSE IF req[r].op = "COPY" THEN "copyopen"
                      ELSE IF req[r].att = 1 THEN "name" ELSE "create"]

Mkdir(r) ==
    LET d == Head(req[r].walk) IN
    /\ req[r].pc \in {"mkdir", "mkdown"}
    /\ \/ /\ CanMkdir(d)
          /\ node' = [node EXCEPT ![d] = Directory]
          /\ MkdirReturns(r)
       \/ /\ At(r, "mkdir") /\ MkdirFindsNoParent(d)
          /\ req' = [req EXCEPT ![r].walk = <<ParentOf[d]>> \o @]
          /\ UNCHANGED node
       \/ /\ \/ ~CanMkdir(d) /\ ~(At(r, "mkdir") /\ MkdirFindsNoParent(d))
             \/ MayFail("mkdir")
          /\ Goto(r, "isdir")
          /\ UNCHANGED node
    /\ UNCHANGED <<ino, cache, counter, crashes>>

\* A mkdir that failed for another reason is fine if the directory is there.
IsDirCheck(r) ==
    /\ At(r, "isdir")
    /\ IF IsDir(Head(req[r].walk)) THEN MkdirReturns(r) ELSE Answer(r, "500")
    /\ UNCHANGED <<node, ino, cache, counter, crashes>>

-----------------------------------------------------------------------------
(* put_object.                                                             *)

\* Mutant: the counter is read and not advanced.
SameTemp(n) == n

\* What COUNTER.fetch_add leaves behind.
NextTemp(n) == n + 1

TakeName(r) ==
    /\ At(r, "name")
    /\ counter \in TempNums
    /\ counter' = NextTemp(counter)
    /\ req' = [req EXCEPT ![r].pc = "create", ![r].tmp = counter]
    /\ UNCHANGED <<node, ino, cache, crashes>>

\* File::create, by PUT of its temporary file and by COPY of the destination.
OpenTrunc(r, e, next) ==
    LET i == OpenTruncGives(e, NewInode(r)) IN
    /\ CanOpenTrunc(e)
    /\ node' = [node EXCEPT ![e] = i]
    /\ ino' = [ino EXCEPT ![i] = EmptyFile(r)]
    /\ req' = [req EXCEPT ![r].pc = next, ![r].wfd = i, ![r].off = 0]

PutCreate(r) ==
    /\ At(r, "create")
    /\ \/ OpenTrunc(r, Temp(r), "write")
       \/ /\ ~CanOpenTrunc(Temp(r)) \/ MayFail("create")
          /\ RetryOrFail(r)
          /\ UNCHANGED <<node, ino>>
    /\ UNCHANGED <<cache, counter, crashes>>

WritePiece(r, piece) ==
    /\ ino' = [ino EXCEPT ![req[r].wfd] =
                  [data |-> WriteAt(@.data, req[r].off, piece), by |-> r, synced |-> FALSE]]
    /\ req' = [req EXCEPT ![r].off = @ + 1]

PutWrite(r) ==
    /\ At(r, "write") /\ req[r].off < Chunks
    /\ WritePiece(r, r)
    /\ UNCHANGED <<node, cache, counter, crashes>>

\* Mutant: fsync is never asked for.
NeverSynced == "rename"

AfterFlush == IF Fsync THEN "sync" ELSE "rename"

\* The body has ended and what is buffered is flushed.
PutFlush(r) ==
    /\ At(r, "write") /\ req[r].off = Chunks
    /\ Goto(r, AfterFlush)
    /\ UNCHANGED <<node, ino, cache, counter, crashes>>

PutSync(r) ==
    /\ At(r, "sync")
    /\ ino' = [ino EXCEPT ![req[r].wfd].synced = TRUE]
    /\ Goto(r, "rename")
    /\ UNCHANGED <<node, cache, counter, crashes>>

PutRename(r) ==
    /\ At(r, "rename") /\ CanRename(Temp(r), Path(r))
    /\ node' = [node EXCEPT ![Path(r)] = node[Temp(r)], ![Temp(r)] = NoEntry]
    /\ Goto(r, "uncache")
    /\ UNCHANGED <<ino, cache, counter, crashes>>

\* The body breaks off, a write, the flush or the sync fails, or the rename does.
PutFail(r) ==
    /\ \/ req[r].pc \in {"write", "sync"} /\ MayFail(req[r].pc)
       \/ At(r, "rename") /\ (MayFail("rename") \/ ~CanRename(Temp(r), Path(r)))
    /\ Goto(r, "cleanup")
    /\ UNCHANGED <<node, ino, cache, counter, crashes>>

\* Mutants: a failed upload removes the object, or leaves its temporary file.
CleansTarget(e) == [node EXCEPT ![e[1]] = NoEntry]

LeavesTemp(e) == node

\* remove_file(&temp_path), whose own failure is ignored.
CleanedUp(e) == [node EXCEPT ![e] = NoEntry]

PutCleanup(r) ==
    /\ At(r, "cleanup")
    /\ \/ CanUnlink(Temp(r)) /\ node' = CleanedUp(Temp(r))
       \/ (~CanUnlink(Temp(r)) \/ MayFail("unlink")) /\ UNCHANGED node
    /\ Answer(r, "500")
    /\ UNCHANGED <<ino, cache, counter, crashes>>

-----------------------------------------------------------------------------
(* What PUT and COPY do once the object is in place.                       *)

WriteUncache(r) ==
    /\ At(r, "uncache") /\ req[r].op # "DELETE"
    /\ cache' = Uncached(req[r].key)
    /\ Goto(r, "restat")
    /\ UNCHANGED <<node, ino, counter, crashes>>

\* The ETag answered is that of the path now.  Only PUT keeps it in the cache.
Restat(r) ==
    /\ At(r, "restat")
    /\ \/ /\ node[Path(r)] # NoEntry
          /\ IF req[r].op = "PUT"
             THEN req' = [req EXCEPT ![r].pc = "prime", ![r].stat = StatOf(node[Path(r)])]
             ELSE Answer(r, "200")
       \/ /\ node[Path(r)] = NoEntry \/ MayFail("stat")
          /\ Answer(r, "500")
    /\ UNCHANGED <<node, ino, cache, counter, crashes>>

PutPrime(r) ==
    /\ At(r, "prime")
    /\ cache' = Inserted(req[r].key, req[r].stat)
    /\ Answer(r, "200")
    /\ UNCHANGED <<node, ino, counter, crashes>>

-----------------------------------------------------------------------------
(* copy_object.                                                            *)

CopySrcStat(r) ==
    /\ At(r, "srcstat")
    /\ \/ IsFile(Source(r)) /\ Goto(r, "canon")
       \/ (~IsFile(Source(r)) \/ MayFail("stat")) /\ Answer(r, "404")
    /\ UNCHANGED <<node, ino, cache, counter, crashes>>

\* Mutant: the check is missing.
NoSelfCheck(c) == FALSE

\* Both paths exist and canonicalize to the same one.
IsSelfCopy(c) == PathOf[c.src] = PathOf[c.key] /\ node[PathOf[c.key]] # NoEntry

CopyCanon(r) ==
    /\ At(r, "canon")
    /\ IF IsSelfCopy(req[r]) THEN Answer(r, "400") ELSE EnsureParent(r, 1)
    /\ UNCHANGED <<node, ino, cache, counter, crashes>>

\* fs::copy opens the source, truncates the destination in place, and copies
\* until it reaches the end of the source.
CopyOpen(r) ==
    /\ At(r, "copyopen")
    /\ \/ /\ IsFile(Source(r))
          /\ req' = [req EXCEPT ![r].pc = "copytrunc", ![r].fd = node[Source(r)]]
       \/ (~IsFile(Source(r)) \/ MayFail("copy")) /\ RetryOrFail(r)
    /\ UNCHANGED <<node, ino, cache, counter, crashes>>

CopyTrunc(r) ==
    /\ At(r, "copytrunc")
    /\ \/ OpenTrunc(r, Path(r), "copying")
       \/ ~CanOpenTrunc(Path(r)) /\ RetryOrFail(r) /\ UNCHANGED <<node, ino>>
    /\ UNCHANGED <<cache, counter, crashes>>

CopyPiece(r) ==
    LET from == ino[req[r].fd].data IN
    /\ At(r, "copying")
    /\ \/ req[r].off < Len(from) /\ WritePiece(r, from[req[r].off + 1])
       \/ req[r].off >= Len(from) /\ Goto(r, "uncache") /\ UNCHANGED ino
       \/ MayFail("copy") /\ RetryOrFail(r) /\ UNCHANGED ino
    /\ UNCHANGED <<node, cache, counter, crashes>>

-----------------------------------------------------------------------------
(* delete_object.                                                          *)

\* Mutants: the walk ends one directory early, or goes on into the bucket's own.
PruneStopsEarly(r, d) ==
    IF PruneEmptyDirs /\ d # Root /\ ParentOf[d] # Root
    THEN req' = [req EXCEPT ![r].pc = "prune", ![r].walk = <<d>>]
    ELSE Answer(r, "204")

PrunesRoot(r, d) ==
    IF PruneEmptyDirs
    THEN req' = [req EXCEPT ![r].pc = "prune", ![r].walk = <<d>>]
    ELSE Answer(r, "204")

\* prune_empty_dirs has reached directory d.
PruneFrom(r, d) ==
    IF PruneEmptyDirs /\ d # Root
    THEN req' = [req EXCEPT ![r].pc = "prune", ![r].walk = <<d>>]
    ELSE Answer(r, "204")

\* A key that could not be removed may name a directory: pruning starts there.
DeleteRemove(r) ==
    /\ At(r, "remove")
    /\ \/ /\ CanUnlink(Path(r))
          /\ node' = [node EXCEPT ![Path(r)] = NoEntry]
          /\ Goto(r, "uncache")
       \/ /\ ~CanUnlink(Path(r)) \/ MayFail("unlink")
          /\ PruneFrom(r, Path(r))
          /\ UNCHANGED node
    /\ UNCHANGED <<ino, cache, counter, crashes>>

DeleteUncache(r) ==
    /\ At(r, "uncache") /\ req[r].op = "DELETE"
    /\ cache' = Uncached(req[r].key)
    /\ PruneFrom(r, ParentOf[Path(r)])
    /\ UNCHANGED <<node, ino, counter, crashes>>

\* Mutant: the directory goes whatever it holds.
RemovesAll(d) == IsDir(d)

\* remove_dir, never remove_dir_all.
PruneRemoves(d) == CanRmdir(d)

Prune(r) ==
    LET d == Head(req[r].walk) IN
    /\ At(r, "prune")
    /\ \/ /\ PruneRemoves(d)
          /\ node' = [node EXCEPT ![d] = NoEntry]
          /\ PruneFrom(r, ParentOf[d])
       \/ /\ ~PruneRemoves(d) \/ MayFail("rmdir")
          /\ Answer(r, "204")
          /\ UNCHANGED node
    /\ UNCHANGED <<ino, cache, counter, crashes>>

-----------------------------------------------------------------------------
(* head_object.                                                            *)

HeadLookup(r) ==
    /\ At(r, "lookup")
    /\ IF cache[req[r].key] # NoStat
       THEN req' = [req EXCEPT ![r] = Answered([@ EXCEPT !.stat = cache[req[r].key]], "200")]
       ELSE Goto(r, "stat")
    /\ UNCHANGED <<node, ino, cache, counter, crashes>>

HeadStat(r) ==
    /\ At(r, "stat")
    /\ \/ /\ IsFile(Path(r))
          /\ req' = [req EXCEPT ![r].pc = "insert", ![r].stat = StatOf(node[Path(r)])]
       \/ (~IsFile(Path(r)) \/ MayFail("stat")) /\ Answer(r, "404")
    /\ UNCHANGED <<node, ino, cache, counter, crashes>>

HeadInsert(r) ==
    /\ At(r, "insert")
    /\ cache' = Inserted(req[r].key, req[r].stat)
    /\ Answer(r, "200")
    /\ UNCHANGED <<node, ino, counter, crashes>>

-----------------------------------------------------------------------------
(* get_object.  A directory opens like a file; only reading from it fails. *)

GetOpen(r) ==
    /\ At(r, "open")
    /\ \/ /\ node[Path(r)] # NoEntry
          /\ req' = [req EXCEPT ![r].pc = "metadata", ![r].fd = node[Path(r)]]
       \/ (node[Path(r)] = NoEntry \/ MayFail("open")) /\ Answer(r, "404")
    /\ UNCHANGED <<node, ino, cache, counter, crashes>>

\* The response head carries the size and the ETag of this moment.
GetMetadata(r) ==
    /\ At(r, "metadata")
    /\ \/ req' = [req EXCEPT ![r].pc = "stream", ![r].stat = StatOf(req[r].fd),
                             ![r].resp = "200"]
       \/ MayFail("stat") /\ Answer(r, "500")
    /\ UNCHANGED <<node, ino, cache, counter, crashes>>

\* The body ends after the announced length, or where the file ends or breaks.
GetStream(r) ==
    LET n == Len(req[r].got)
        more == /\ req[r].fd # Directory
                /\ n < req[r].stat.size
                /\ n < Len(ino[req[r].fd].data)
    IN  /\ At(r, "stream")
        /\ IF more
           THEN req' = [req EXCEPT ![r].got = Append(@, ino[req[r].fd].data[n + 1])]
           ELSE Answer(r, "200")
        /\ UNCHANGED <<node, ino, cache, counter, crashes>>

-----------------------------------------------------------------------------
(* timeout_middleware: the handler is dropped at the await it is in.  The  *)
(* call it awaits still happens, at any later time, with nobody to go on.  *)

\* Mutant: DELETE is exempt like PUT.
TimedReads == {"HEAD", "GET"}

Timed == {"HEAD", "GET", "DELETE"}

Timeout(r) ==
    /\ RequestTimeout /\ req[r].op \in Timed
    /\ \/ /\ req[r].pc \in {"stat", "open", "metadata"}
          /\ Answer(r, "504")
       \/ /\ At(r, "remove")
          /\ req' = [req EXCEPT ![r].pc = "late_remove", ![r].resp = "504"]
       \/ /\ At(r, "prune")
          /\ req' = [req EXCEPT ![r].pc = "late_rmdir", ![r].resp = "504"]
    /\ UNCHANGED <<node, ino, cache, counter, crashes>>

LateRemove(r) ==
    /\ At(r, "late_remove")
    /\ node' = IF CanUnlink(Path(r)) THEN [node EXCEPT ![Path(r)] = NoEntry] ELSE node
    /\ Answer(r, "504")
    /\ UNCHANGED <<ino, cache, counter, crashes>>

LateRmdir(r) ==
    LET d == Head(req[r].walk) IN
    /\ At(r, "late_rmdir")
    /\ node' = IF PruneRemoves(d) THEN [node EXCEPT ![d] = NoEntry] ELSE node
    /\ Answer(r, "504")
    /\ UNCHANGED <<ino, cache, counter, crashes>>

-----------------------------------------------------------------------------
(* The client closes its connection: hyper, under axum::serve, drops the   *)
(* handler at the await it is in.  A call in flight still happens, which   *)
(* is as if the client had left right after it.                            *)

Abandon(r) ==
    /\ Disconnects /\ Active(r)
    /\ req[r].pc \notin {"late_remove", "late_rmdir"}
    /\ Answer(r, "lost")
    /\ UNCHANGED <<node, ino, cache, counter, crashes>>

-----------------------------------------------------------------------------
(* The server dies and is started again.  Only the storage survives, and a *)
(* power failure empties files that were not synced.                       *)

Unsynced == {i \in Inodes : ~ino[i].synced /\ ino[i].data # <<>>}

Crash ==
    /\ crashes < Crashes
    /\ crashes' = crashes + 1
    /\ req' = [r \in Reqs |-> IF Active(r) THEN Answered(req[r], "lost") ELSE req[r]]
    /\ cache' = [k \in Keys |-> NoStat]
    /\ counter' = 0
    /\ \E lost \in SUBSET (IF PowerLoss THEN Unsynced ELSE {}) :
           ino' = [i \in Inodes |-> IF i \in lost THEN [ino[i] EXCEPT !.data = <<>>] ELSE ino[i]]
    /\ UNCHANGED node

-----------------------------------------------------------------------------

Step(r) ==
    \/ Mkdir(r) \/ IsDirCheck(r)
    \/ TakeName(r) \/ PutCreate(r) \/ PutWrite(r) \/ PutFlush(r) \/ PutSync(r)
    \/ PutRename(r) \/ PutFail(r) \/ PutCleanup(r)
    \/ WriteUncache(r) \/ Restat(r) \/ PutPrime(r)
    \/ CopySrcStat(r) \/ CopyCanon(r) \/ CopyOpen(r) \/ CopyTrunc(r) \/ CopyPiece(r)
    \/ DeleteRemove(r) \/ DeleteUncache(r) \/ Prune(r)
    \/ HeadLookup(r) \/ HeadStat(r) \/ HeadInsert(r)
    \/ GetOpen(r) \/ GetMetadata(r) \/ GetStream(r)
    \/ LateRemove(r) \/ LateRmdir(r)

Next ==
    \/ \E r \in Reqs : Start(r) \/ Step(r) \/ Timeout(r) \/ Abandon(r)
    \/ \E k \in Keys : CacheLose(k)
    \/ Crash

Spec == Init /\ [][Next]_vars

\* Storage that answers and clients that send their bodies: every request that
\* was started keeps taking steps.  tokio polls every task that is ready.
StorageAnswers == \A r \in Reqs : WF_vars(Step(r))

\* Storage that may hang: only the timer and the steps that do not wait for the
\* file system are sure to be taken.
HungSpec ==
    /\ Spec
    /\ \A r \in Reqs :
        /\ WF_vars(Timeout(r))
        /\ WF_vars(HeadLookup(r)) /\ WF_vars(HeadInsert(r)) /\ WF_vars(DeleteUncache(r))
=============================================================================
