------------------------------ MODULE Storage ------------------------------
(***************************************************************************)
(* The storage directory of one FerroS3 bucket, as the file system calls   *)
(* of src/handlers/object.rs see it.  The file system is not FerroS3 code: *)
(* this module says only what each call needs and what it does.            *)
(*                                                                         *)
(* A directory entry is either a path a client can name or the temporary   *)
(* file of an upload.  It is free, a directory, or a link to an inode; an  *)
(* inode keeps its content whatever happens to the links to it, which is   *)
(* why a reader or a writer that holds it open is not disturbed by an      *)
(* unlink or a rename.                                                     *)
(***************************************************************************)
EXTENDS Naturals, Sequences

CONSTANTS
    Paths,      \* the paths of the tree, directories and objects alike
    Root,       \* the bucket's storage directory
    ParentOf,   \* the directory a path other than Root lies in
    Initial,    \* the paths that hold an object when the server first starts
    InitialDirs,\* the directories there are when the server first starts
    Reqs,       \* the requests, each of which writes at most two new inodes
    Chunks,     \* how many pieces the content of an object is written in
    TempNums,   \* the numbers a temporary name can carry (bounds the counter)
    NoEntry,    \* the state of a free entry
    Directory,  \* the state of an entry that is a directory
    Hole        \* what a write beyond the end of a file leaves before it

Temps == (Paths \ {Root}) \X TempNums

Entries == Paths \cup Temps

\* A file opened with O_CREAT needs an inode only if the entry is free: the
\* inode a request creates carries the request and the attempt it made it in.
Inodes == Paths \cup (Reqs \X {1, 2})

Payloads == Paths \cup Reqs

ASSUME TreeAssumption ==
    /\ Root \in Paths
    /\ ParentOf \in [Paths \ {Root} -> Paths]
    /\ \A p \in Paths \ {Root} : ParentOf[p] # p
    /\ Initial \subseteq Paths \ InitialDirs
    /\ Root \in InitialDirs /\ InitialDirs \subseteq Paths
    /\ \A p \in (Initial \cup InitialDirs) \ {Root} : ParentOf[p] \in InitialDirs

ASSUME DataAssumption ==
    /\ Chunks \in Nat
    /\ TempNums \subseteq Nat

ASSUME DistinctAssumption ==
    /\ Paths \cap Temps = {}
    /\ Paths \cap (Reqs \X {1, 2}) = {}
    /\ Paths \cap Reqs = {}
    /\ NoEntry \notin Inodes /\ Directory \notin Inodes /\ NoEntry # Directory
    /\ Hole \notin Payloads

VARIABLES
    node,   \* what each directory entry is
    ino     \* the content of each inode, its last writer, and whether it is on disk

-----------------------------------------------------------------------------

DirOf(e) == IF e \in Paths THEN ParentOf[e] ELSE ParentOf[e[1]]

\* The directories above a path.
Above[p \in Paths] ==
    IF p = Root THEN {} ELSE {ParentOf[p]} \cup Above[ParentOf[p]]

IsFile(e) == node[e] \in Inodes

IsDir(e) == node[e] = Directory

\* No entry but Root itself lies directly in directory d.
Empty(d) == \A e \in Entries \ {Root} : DirOf(e) = d => node[e] = NoEntry

CanMkdir(d) == d # Root /\ node[d] = NoEntry /\ IsDir(ParentOf[d])

\* mkdir(2) answers ENOENT: a directory above is missing and none is a file.
MkdirFindsNoParent(d) ==
    /\ d # Root
    /\ node[ParentOf[d]] = NoEntry
    /\ \A a \in Above[d] : ~IsFile(a)

\* rmdir(2), the only way FerroS3 removes a directory.
CanRmdir(d) == IsDir(d) /\ Empty(d)

\* open(2) with O_CREAT and O_TRUNC: the inode found, or a new one.
CanOpenTrunc(e) == ~IsDir(e) /\ IsDir(DirOf(e))

OpenTruncGives(e, new) == IF IsFile(e) THEN node[e] ELSE new

CanUnlink(e) == IsFile(e)

CanRename(from, to) == IsFile(from) /\ ~IsDir(to) /\ IsDir(DirOf(to))

-----------------------------------------------------------------------------

\* A whole payload: Chunks pieces, each labelled with the payload it is of.
Whole(w) == [k \in 1..Chunks |-> w]

EmptyFile(w) == [data |-> <<>>, by |-> w, synced |-> FALSE]

\* pwrite(2) of one piece at offset off.
WriteAt(data, off, piece) ==
    [k \in 1..(IF off < Len(data) THEN Len(data) ELSE off + 1) |->
        IF k = off + 1 THEN piece
        ELSE IF k <= Len(data) THEN data[k] ELSE Hole]

\* What a stat tells of a file or a directory.  The modification time is the
\* identity of the last writer; with the size it makes the ETag.
StatOf(n) == IF n = Directory THEN [by |-> Root, size |-> 0]
             ELSE [by |-> ino[n].by, size |-> Len(ino[n].data)]

StorageInit ==
    /\ node = [e \in Entries |->
                  IF e \in Initial THEN e
                  ELSE IF e \in InitialDirs THEN Directory ELSE NoEntry]
    /\ ino = [i \in Inodes |->
                  IF i \in Initial
                  THEN [data |-> Whole(i), by |-> i, synced |-> TRUE]
                  ELSE EmptyFile(IF i \in Paths THEN i ELSE i[1])]
=============================================================================
