------------------------ MODULE ObjectStoreInvariant ------------------------
(***************************************************************************)
(* The inductive invariants: IInv behind UploadsPrivate and ObjectsWhole,  *)
(* with TempsOwned behind NoOrphanTemps; ReadInv behind GetConsistent and  *)
(* the refinement of ObjectMap; TurnsInv with CacheRight behind            *)
(* CoherentWhenQuiet, and with CopiesInv behind CopiesWholeWhenQuiet; and  *)
(* SkeletonInv behind NoSkeleton.                                          *)
(***************************************************************************)
EXTENDS ObjectStoreProperties

\* Whether a client may ask for a COPY at all.
CopyAllowed == \E c \in Calls : c.op = "COPY"

\* Each step is of the call and the attempt it can be of: a request that has not
\* begun has its locals unset, a copy that has not opened anything is in its
\* first attempt, only a DELETE removes an object, and a COPY was called for.
StepsFit ==
    \A r \in Reqs : /\ At(r, "idle") => req[r] = Idle
                    /\ req[r].pc \in {"srcstat", "canon"} => req[r].att = 1
                    /\ req[r].pc \in {"remove", "late_remove"} => req[r].op = "DELETE"
                    /\ req[r].op = "COPY" => CopyAllowed

\* No file has two names.
OneName ==
    \A e, f \in Entries : node[e] \in Inodes /\ node[e] = node[f] => e = f

\* Numbers of temporary names are below the counter, and no two requests that
\* are under way have the same.
NamesTaken ==
    /\ \A r \in Reqs : req[r].tmp # None => req[r].tmp < counter /\ Active(r)
    /\ \A r, q \in Reqs : req[r].tmp # None /\ req[r].tmp = req[q].tmp => r = q

\* The steps of an attempt before it opens the file it writes.
BeforeOpen == {"idle", "mkdir", "mkdown", "isdir", "name", "create", "srcstat", "canon",
               "copyopen", "copytrunc"}

\* The steps at which a request has a file open to write.
Writing == {"write", "sync", "rename", "cleanup", "copying"}

\* Attempt a of the request with locals c has not opened its file yet.
Ahead(c, a) == c.pc # "done" /\ (a > c.att \/ (a = c.att /\ c.pc \in BeforeOpen))

\* Such an attempt finds the inode it would create linked and open nowhere.
FreshInodes ==
    \A r \in Reqs, a \in {1, 2} : Ahead(req[r], a) =>
        /\ \A e \in Entries : node[e] # <<r, a>>
        /\ \A q \in Reqs : req[q].pc \in Writing => req[q].wfd # <<r, a>>

\* An upload writes the file its temporary name links; a copy never does.
WritersApart ==
    /\ \A r \in Reqs : Uploading(r) => node[Temp(r)] = req[r].wfd
    /\ \A r \in Reqs : At(r, "copying") => \A e \in Temps : node[e] # req[r].wfd

\* What an upload has written so far, and that it is on disk when it must be.
Progress(r) ==
    req[r].pc \in {"write", "sync", "rename"} =>
        LET f == ino[req[r].wfd] IN
        /\ req[r].off <= Chunks
        /\ f.by = r
        /\ f.data = [k \in 1..req[r].off |-> r]
        /\ req[r].pc # "write" => req[r].off = Chunks
        /\ req[r].pc = "rename" /\ Fsync => f.synced

UploadsProgress == \A r \in Reqs : Progress(r)

UploadInv ==
    /\ TypeOK /\ StepsFit /\ OneName /\ NamesTaken /\ FreshInodes
    /\ WritersApart /\ UploadsProgress

\* An object not written by a COPY is whole, and survives a power failure.
ObjectsSafe ==
    \A p \in Paths : IsFile(p) =>
        LET f == ino[node[p]]
        IN  \/ f.by \in Reqs /\ req[f.by].op = "COPY"
            \/ f.data = Whole(f.by) /\ (PowerLoss => f.synced)

\* What TLC checks and the proofs show to be inductive: uploads do not meet,
\* in names, in files or in content, and nothing unfinished gets a good name.
IInv == UploadInv /\ ObjectsSafe

\* A temporary file is that of an upload that is under way.
TempsOwned ==
    crashes = 0 =>
        \A e \in Temps : node[e] # NoEntry => \E r \in Reqs : Uploading(r) /\ Temp(r) = e

-----------------------------------------------------------------------------
(* What readers rest on where clients do not COPY.                         *)

PutSteps == {"mkdir", "mkdown", "isdir", "name", "create", "write", "sync", "rename",
             "cleanup", "uncache", "restat", "prime"}

DeleteSteps == {"remove", "uncache", "prune", "late_remove", "late_rmdir"}

HeadSteps == {"lookup", "stat", "insert"}

GetSteps == {"open", "metadata", "stream"}

\* A request with locals c is at a step of its call, and has answered 200 only if
\* it streams or is done.
CallFits(c) ==
    /\ \/ c.pc \in {"idle", "done"}
       \/ c.op = "PUT" /\ c.pc \in PutSteps
       \/ c.op = "DELETE" /\ c.pc \in DeleteSteps
       \/ c.op = "HEAD" /\ c.pc \in HeadSteps
       \/ c.op = "GET" /\ c.pc \in GetSteps
    /\ c.op = "HEAD" => \E call \in Calls : call.op = "HEAD"
    /\ c.resp = "200" => c.pc \in {"stream", "done"}

\* A file that stays as it is: the whole of an upload, on disk if it must be,
\* that has no temporary name and that no upload writes or is going to create.
Published(i) ==
    /\ i \in Inodes
    /\ ino[i].data = Whole(ino[i].by) /\ (PowerLoss => ino[i].synced)
    /\ \A e \in Temps : node[e] # i
    /\ \A q \in Reqs : /\ req[q].pc \in Writing => req[q].wfd # i
                       /\ \A a \in {1, 2} : Ahead(req[q], a) => <<q, a>> # i

\* What a GET holds open is published; it announced that file, has streamed a
\* part of it, and is done when it has streamed it all.
ReaderFits(c) ==
    /\ c.pc \in {"open", "metadata"} => c.got = <<>>
    /\ c.pc \in {"metadata", "stream"} /\ c.fd # Directory => Published(c.fd)
    /\ c.pc = "stream" /\ c.fd # Directory =>
           /\ c.stat = StatOf(c.fd) /\ Len(c.got) <= Chunks
           /\ c.got = [k \in 1..Len(c.got) |-> c.stat.by]
    /\ c.pc = "done" /\ c.op = "GET" /\ c.resp = "200" /\ c.fd # Directory =>
           c.stat.size = Chunks /\ c.got = Whole(c.stat.by)

ReadInv == \A r \in Reqs : CallFits(req[r]) /\ ReaderFits(req[r])

-----------------------------------------------------------------------------
(* What clients that take turns on an object rest on.                      *)

\* Requests under way are about objects of their own.
TurnsTaken ==
    \A r, q \in Reqs : Active(r) /\ Active(q) /\ r # q =>
        Touches(req[r]) \cap Touches(req[q]) = {}

\* The object has changed, or is changing, and the entry of its key is still there.
Dirty(r) == req[r].pc \in {"uncache", "copying"}

EntryRight(k) == IsFile(PathOf[k]) /\ cache[k] = StatOf(node[PathOf[k]])

CacheRight ==
    \A k \in Keys : cache[k] # NoStat => EntryRight(k) \/ \E r \in Reqs : req[r].key = k /\ Dirty(r)

\* The stat a request is to keep is still that of its object.
StatHeld(r) ==
    /\ \/ req[r].op = "PUT" /\ req[r].pc \in {"uncache", "restat"}
       \/ req[r].pc \in {"prime", "insert"}
       => IsFile(Path(r))
    /\ req[r].pc \in {"prime", "insert"} => req[r].stat = StatOf(node[Path(r)])

\* A COPY has its source and its destination open, and they are two files.
CopyHeld(r) ==
    /\ At(r, "canon") => IsFile(Source(r))
    /\ req[r].op = "COPY" /\ Active(r) /\ req[r].pc \notin {"srcstat", "canon"} => Source(r) # Path(r)
    /\ req[r].pc \in {"copytrunc", "copying"} => node[Source(r)] = req[r].fd
    /\ At(r, "copying") => node[Path(r)] = req[r].wfd

\* What it has copied so far.
CopyProgress(r) ==
    At(r, "copying") =>
        LET from == ino[req[r].fd].data IN
        /\ req[r].off <= Len(from)
        /\ ino[req[r].wfd].data = [k \in 1..req[r].off |-> from[k]]

TurnsInv ==
    /\ TurnsTaken
    /\ \A r \in Reqs : StatHeld(r) /\ CopyHeld(r)

\* An object is whole but for one that a COPY is filling.
CopiesInv ==
    /\ \A r \in Reqs : CopyProgress(r)
    /\ \A p \in Paths : IsFile(p) =>
           \/ \E w \in Payloads : ino[node[p]].data = Whole(w)
           \/ \E r \in Reqs : At(r, "copying") /\ Path(r) = p

-----------------------------------------------------------------------------
(* Who sees to a directory that is empty.                                  *)

Failed(r) == req[r].resp \in {"500", "504", "lost"}

\* The directories a request makes are one below the other, down to its object's.
WalkFits(c) ==
    c.pc \in {"mkdir", "mkdown", "isdir"} =>
        /\ c.walk[Len(c.walk)] = ParentOf[PathOf[c.key]]
        /\ \A i \in 1..(Len(c.walk) - 1) :
               c.walk[i + 1] # Root /\ ParentOf[c.walk[i + 1]] = c.walk[i]

\* d is the directory that a request with walk w makes or makes the next one in.
MakesIn(w, d) == Head(w) # Root /\ d = ParentOf[Head(w)]

\* A PUT or COPY is going to make something in d, or to fail.
Fills(r, d) ==
    \/ At(r, "mkdir") /\ d = Head(req[r].walk)
    \/ At(r, "mkdown") /\ MakesIn(req[r].walk, d)
    \/ At(r, "isdir") /\ (d = Head(req[r].walk) \/ MakesIn(req[r].walk, d))
    \/ req[r].pc \in {"name", "create", "copyopen", "copytrunc"} /\ d = ParentOf[Path(r)]

\* A DELETE is going to prune from d up.
Prunes(r, d) ==
    \/ At(r, "uncache") /\ req[r].op = "DELETE" /\ d = ParentOf[Path(r)]
    \/ At(r, "prune") /\ d = Head(req[r].walk)

SeenTo(d) == \E r \in Reqs : Failed(r) \/ Fills(r, d) \/ Prunes(r, d)

SkeletonInv ==
    /\ \A r \in Reqs : /\ WalkFits(req[r])
                       /\ Failed(r) => req[r].pc \in {"done", "late_remove", "late_rmdir"}
    /\ PruneEmptyDirs => \A d \in Paths \ {Root} : IsDir(d) /\ Empty(d) => SeenTo(d)
=============================================================================
