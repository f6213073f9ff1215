----------------------- MODULE ObjectStoreProperties -----------------------
(***************************************************************************)
(* What must be true of the object handlers of ObjectStore.                *)
(***************************************************************************)
EXTENDS ObjectStore

\* No request is under way; what a timeout left behind has happened too.
Quiet == \A r \in Reqs : ~Active(r)

\* A PUT that has opened its temporary file and not yet renamed or removed it.
Uploading(r) == req[r].op = "PUT" /\ req[r].pc \in {"write", "sync", "rename", "cleanup"}

-----------------------------------------------------------------------------

Pcs == {"idle", "done", "mkdir", "mkdown", "isdir", "name", "create", "write", "sync",
        "rename", "cleanup", "uncache", "restat", "prime", "srcstat", "canon", "copyopen",
        "copytrunc", "copying", "remove", "prune", "lookup", "stat", "insert", "open",
        "metadata", "stream", "late_remove", "late_rmdir"}

Resps == {"none", "200", "204", "400", "404", "500", "504", "lost"}

Stats == [by : Payloads, size : Nat]

InoType == [data : Seq(Payloads \cup {Hole}), by : Payloads, synced : BOOLEAN]

ReqType ==
    [pc : Pcs, op : Ops, key : Keys, src : Keys, att : {1, 2}, walk : Seq(Paths),
     tmp : TempNums \cup {None}, fd : Inodes \cup {Directory, None}, wfd : Inodes \cup {None},
     off : Nat, got : Seq(Payloads \cup {Hole}), stat : Stats \cup {NoStat}, resp : Resps]

\* The locals a request has set at the steps that use them.
LocalsSet(c) ==
    /\ c.pc \in {"mkdir", "mkdown", "isdir"} => c.walk # <<>> /\ c.op \in {"PUT", "COPY"}
    /\ c.pc \in {"mkdir", "mkdown", "isdir"} /\ c.op = "PUT" /\ c.att = 2 => c.tmp # None
    /\ c.pc \in {"prune", "late_rmdir"} => c.walk # <<>> /\ Head(c.walk) # Root
    /\ c.pc \in {"name", "create", "write", "sync", "rename", "cleanup"} => c.op = "PUT"
    /\ c.pc \in {"create", "write", "sync", "rename", "cleanup"} => c.tmp # None
    /\ c.pc \in {"write", "sync", "rename", "cleanup", "copying"} => c.wfd \in Inodes
    /\ c.pc \in {"copytrunc", "copying"} => c.fd \in Inodes /\ c.op = "COPY"
    /\ c.pc \in {"srcstat", "canon", "copyopen"} => c.op = "COPY"
    /\ c.pc \in {"metadata", "stream"} => c.fd # None
    /\ c.pc \in {"prime", "insert", "stream"} => c.stat # NoStat

ReqOK ==
    /\ req \in [Reqs -> ReqType]
    /\ \A r \in Reqs : LocalsSet(req[r])

\* The types of the variables, and which locals a request has set at a step.
TypeOK ==
    /\ node \in [Entries -> Inodes \cup {NoEntry, Directory}]
    /\ ino \in [Inodes -> InoType]
    /\ cache \in [Keys -> Stats \cup {NoStat}]
    /\ counter \in Nat
    /\ crashes \in Nat
    /\ ReqOK

-----------------------------------------------------------------------------
(* Safety of the storage tree and of the objects in it.                    *)

\* Everything in the tree lies in a directory that is there, and the bucket's
\* directory never goes: no interleaving of the prune of a DELETE with the
\* create_dir_all, create and rename of a PUT loses an object or an upload.
TreeClosed ==
    /\ IsDir(Root)
    /\ \A e \in Entries \ {Root} : node[e] # NoEntry => IsDir(DirOf(e))

\* While a PUT writes, its temporary name links the file it writes, and nothing
\* else does: two uploads never share a file, and no reader sees a part of one.
UploadsPrivate ==
    \A r \in Reqs : Uploading(r) =>
        \A e \in Entries : node[e] = req[r].wfd <=> e = Temp(r)

\* An object is the whole of one upload, whatever failed or crashed, unless it
\* was written by a COPY, which truncates and fills its destination in place.
ObjectsWhole ==
    \A p \in Paths : IsFile(p) =>
        LET w == ino[node[p]].by
        IN  (w \in Reqs /\ req[w].op = "COPY") \/ ino[node[p]].data = Whole(w)

\* This step leaves the object at p alone, removes it on behalf of a DELETE that
\* names it, or replaces it by the whole upload of a PUT that names it.
LeftOrReplaced(p) ==
    \/ node'[p] = node[p] /\ ino'[node[p]] = ino[node[p]]
    \/ \E r \in Reqs : /\ Path(r) = p
                       /\ \/ req[r].op = "DELETE" /\ node'[p] = NoEntry
                          \/ /\ req[r].op = "PUT" /\ node'[p] \in Inodes
                             /\ ino'[node'[p]].data = Whole(r)

\* The comment in put_object: an aborted or failed PUT never truncates or
\* partially overwrites existing data.  An object is replaced only by the whole
\* upload of a PUT that names it, removed only by a DELETE that names it, and
\* never changed in place (unless by a COPY, or where a power failure reaches
\* data that was not synced).
ObjectsReplacedWhole == [][\A p \in Paths : IsFile(p) => LeftOrReplaced(p)]_vars

\* What a GET streams is one upload: the one its ETag and Content-Length
\* announced, even if the object is replaced or deleted while it streams.
GetConsistent ==
    \A r \in Reqs : req[r].op = "GET" /\ req[r].resp = "200" /\ req[r].fd # Directory =>
        LET announced == Whole(req[r].stat.by) IN
        /\ req[r].stat.size = Len(announced)
        /\ req[r].got = SubSeq(announced, 1, Len(req[r].got))
        /\ At(r, "done") => req[r].got = announced

\* README.md: deleting a folder leaves no skeleton behind.  When no request
\* failed or was cut off, every directory left has something in it.
NoSkeleton ==
    (/\ Quiet /\ PruneEmptyDirs
     /\ \A r \in Reqs : req[r].resp \notin {"500", "504", "lost"})
    => \A d \in Paths \ {Root} : IsDir(d) => ~Empty(d)

\* tests/filesystem_operations.rs: an upload leaves no temporary file behind,
\* whether it succeeds or fails (a crash may).
NoOrphanTemps == Quiet /\ crashes = 0 => \A e \in Temps : node[e] = NoEntry

\* COPY leaves a whole copy, if clients keep requests on one object apart.
CopiesWholeWhenQuiet ==
    Quiet => \A p \in Paths : IsFile(p) => \E w \in Payloads : ino[node[p]].data = Whole(w)

-----------------------------------------------------------------------------
(* The stat cache.                                                         *)

\* config.rs: writes and deletes through FerroS3 invalidate immediately.  With
\* nothing under way, a HEAD served from the cache says what a stat would say.
CoherentWhenQuiet ==
    Quiet => \A k \in Keys : cache[k] # NoStat =>
                 /\ IsFile(PathOf[k])
                 /\ cache[k] = StatOf(node[PathOf[k]])

-----------------------------------------------------------------------------
(* What clients are answered.                                              *)

\* create_retrying_on_pruned_dir: an upload does not fail because the prune of
\* a DELETE of another object took its directory away (no I/O error happens).
PruneFailsNoPut == \A r \in Reqs : req[r].op = "PUT" => req[r].resp # "500"

\* Every request that was started comes to its end if storage answers:
\* create_dir_all, its retry and the prune do not chase each other.
RequestsEnd == StorageAnswers => \A r \in Reqs : Active(r) ~> At(r, "done")

\* lib.rs: storage that may hang for ever fails a HEAD, GET or DELETE instead of holding
\* the connection open forever.
HungStorageAnswered ==
    \A r \in Reqs : (Active(r) /\ req[r].op \in {"HEAD", "GET", "DELETE"}) ~> req[r].resp # "none"
=============================================================================
