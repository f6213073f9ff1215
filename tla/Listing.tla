------------------------------ MODULE Listing ------------------------------
(***************************************************************************)
(* Listing of FerroS3 (src/handlers/list.rs): a client pages through a     *)
(* bucket with the token each page returns, while objects come and go.     *)
(* One page is the depth-first walk of collect_entries, which reads a      *)
(* directory, probes one, or stats a file at each step.                    *)
(*                                                                         *)
(* A key is a sequence of bytes, because the walk lives from their order.  *)
(* A directory is named by the key prefix of what is below it, so it ends  *)
(* in a slash, and the bucket's own directory is the empty sequence.       *)
(***************************************************************************)
EXTENDS Naturals, Sequences, FiniteSets, SequencesExt

CONSTANTS
    Slash,          \* the byte of '/'
    Objects,        \* the keys clients write and delete
    Temps,          \* the names of the temporary files of the PUTs of each key
    Trees,          \* the sets of files a bucket may hold at first
    Vacant,         \* the empty directories it may hold at first
    Queries,        \* what a client may ask for
    Writes,         \* how many writes and deletes happen meanwhile
    NoKey           \* no delimiter, no start key, no settled group

\* No component is empty: neither the first byte nor one behind a slash is one.
PlainPath(k) == \A i \in 1..Len(k) : k[i] = Slash => i > 1 /\ k[i - 1] # Slash

\* What a file of a bucket may be called.
Names == Objects \cup UNION {Temps[k] : k \in Objects}

ASSUME KeyAssumption ==
    /\ Slash \in Nat
    /\ \A k \in Names : k \in Seq(Nat) /\ k # <<>> /\ Last(k) # Slash /\ PlainPath(k)
    /\ Writes \in Nat
    /\ NoKey \notin Seq(Nat)

ASSUME TreeAssumption ==
    /\ Trees \subseteq SUBSET Names
    /\ \A t \in Trees : IsFiniteSet(t)
    /\ IsFiniteSet(Vacant)
    /\ \A d \in Vacant : d \in Seq(Nat) /\ d # <<>> /\ Last(d) = Slash

ASSUME QueryAssumption ==
    Queries \subseteq [prefix : Seq(Nat), delimiter : Seq(Nat) \cup {NoKey},
                      maxKeys : Nat, marker : Seq(Nat) \cup {NoKey}]

VARIABLES
    files,      \* the files there are, by their keys: objects and temporary files
    dirs,       \* the directories there are, but for the bucket's own
    writes,     \* how many writes and deletes have happened
    query,      \* prefix, delimiter, max_keys and marker of the request
    token,      \* start_after of the page under way
    pc,         \* where the client and the walk are
    walk,       \* the locals of collect_entries
    listed,     \* the items of the pages so far
    stable,     \* the files that have been there since the listing began
    ever,       \* the files that have been there at some time since
    still       \* nothing has changed since the page began

tree == <<files, dirs, writes>>

history == <<stable, ever, still>>

vars == <<tree, query, token, pc, walk, listed, history>>

-----------------------------------------------------------------------------
(* Keys, as byte strings and as paths.                                     *)

Less(s, t) ==
    \/ IsStrictPrefix(s, t)
    \/ \E i \in 1..Len(s) :
           /\ i <= Len(t) /\ s[i] < t[i]
           /\ \A j \in 1..(i - 1) : s[j] = t[j]

\* The elements of a set in order: the n-th is the one that n - 1 come before.
Sorted(S, before(_, _)) ==
    [n \in 1..Cardinality(S) |->
        CHOOSE e \in S : Cardinality({f \in S : before(f, e)}) = n - 1]

\* The directories above a key or a directory, nearest last.
Ancestors(k) == {SubSeq(k, 1, i) : i \in {j \in 1..(Len(k) - 1) : k[j] = Slash}}

\* temp_path_for: a temporary file is in the directory of its object, and no client
\* writes an object of such a name.
ASSUME TempAssumption ==
    \A k \in Objects : \A t \in Temps[k] : t \notin Objects /\ Ancestors(t) = Ancestors(k)

Parent(k) == CHOOSE d \in Ancestors(k) \cup {<<>>} : \A e \in Ancestors(k) : IsPrefix(e, d)

Named(d) == Front(d)

IsTree(fs, ds) == /\ \A k \in fs : Append(k, Slash) \notin ds /\ Ancestors(k) \subseteq ds
                  /\ \A d \in ds : Named(d) \notin fs /\ Ancestors(d) \subseteq ds

\* The key up to and with the first delimiter behind the prefix, if it has one.
Grouped(k) ==
    LET at(d) == {i \in (Len(query.prefix) + 1)..(Len(k) - Len(d) + 1) :
                      SubSeq(k, i, i + Len(d) - 1) = d}
    IN  IF query.delimiter = NoKey \/ at(query.delimiter) = {} THEN NoKey
        ELSE LET first == CHOOSE i \in at(query.delimiter) :
                              \A j \in at(query.delimiter) : i <= j
             IN  SubSeq(k, 1, first + Len(query.delimiter) - 1)

\* What a key with the prefix is listed as.
ItemOf(k) == IF Grouped(k) = NoKey THEN k ELSE Grouped(k)

Behind(start, name) == start # NoKey => Less(start, name)

-----------------------------------------------------------------------------
(* The page S3 defines, computed the slow way, as reference_page does.     *)

ReferenceItems(fs) ==
    Sorted({i \in {ItemOf(k) : k \in {f \in fs : IsPrefix(query.prefix, f)}} :
                      Behind(token, i)}, Less)

Ranged(s) == {s[i] : i \in 1..Len(s)}

UpTo(n, s) == SubSeq(s, 1, IF n < Len(s) THEN n ELSE Len(s))

-----------------------------------------------------------------------------
(* The decisions of the walk.                                              *)

\* Mutant: one item less is collected, so a full page never looks truncated.
ExactLimit == query.maxKeys

Limit == query.maxKeys + 1

\* Empty and repeated separators fall away.
Normalised(s) ==
    LET upTo[n \in 0..Len(s)] ==
            IF n = 0 THEN <<>>
            ELSE IF s[n] = Slash /\ (n = 1 \/ s[n - 1] = Slash) THEN upTo[n - 1]
            ELSE Append(upTo[n - 1], s[n])
    IN  upTo[Len(s)]

SearchRoot ==
    LET cut == {0} \cup {i \in 1..Len(query.prefix) : query.prefix[i] = Slash}
        last == CHOOSE i \in cut : \A j \in cut : j <= i
    IN  Normalised(SubSeq(query.prefix, 1, last))

\* Mutant: entries sort by their names, a directory without its slash.
NameOrder(k, l) ==
    LET name(e) == IF Last(e) = Slash THEN Front(e) ELSE e IN Less(name(k), name(l))

EntryOrder(k, l) == Less(k, l)

ReadChildren(d) ==
    IF d # <<>> /\ d \notin dirs THEN <<>>
    ELSE Sorted({e \in files \cup dirs : Parent(e) = d}, EntryOrder)

IsSubtree(e) == Last(e) = Slash

Settled(e) == walk.settled # NoKey /\ IsPrefix(walk.settled, e)

MayFollow(d, start) == start # NoKey => Less(start, d) \/ IsPrefix(d, start)

MayContain(d) ==
    /\ IsPrefix(query.prefix, d) \/ IsPrefix(d, query.prefix)
    /\ MayFollow(d, token)

\* The prefix may end right before the slash; then the directory is entered.
Collapses(d) ==
    /\ query.delimiter = <<Slash>> /\ IsPrefix(query.prefix, d)
    /\ Len(d) > Len(query.prefix) + 1 /\ Grouped(d) = d

\* Mutant: a directory is believed to hold something.
AnyDirectory(d) == TRUE

\* A directory that has become a file meanwhile counts as holding one.
HasFile(d) == Named(d) \in files \/ \E f \in files : IsPrefix(d, f)

\* Mutant: the start key is listed again.
Inclusive(start, name) == start # NoKey => ~Less(name, start)

AfterStart(start, name) == Behind(start, name)

-----------------------------------------------------------------------------
(* One page: list_objects and collect_entries.                             *)

NoWalk == [stack |-> <<>>, settled |-> NoKey, seen |-> {}, items |-> <<>>]

Init ==
    /\ files \in Trees
    /\ \E vacant \in SUBSET Vacant :
           dirs = vacant \cup UNION {Ancestors(e) : e \in files \cup vacant}
    /\ IsTree(files, dirs)
    /\ writes = 0
    /\ query \in Queries
    /\ token = query.marker
    /\ pc = "request" /\ walk = NoWalk /\ listed = {}
    /\ stable = files /\ ever = files /\ still = TRUE

OpenRoot ==
    /\ pc = "request"
    /\ walk' = [NoWalk EXCEPT !.stack = <<ReadChildren(SearchRoot)>>]
    /\ pc' = "walk" /\ still' = TRUE
    /\ UNCHANGED <<tree, query, token, listed, stable, ever>>

Walking == pc = "walk" /\ walk.stack # <<>> /\ Len(walk.items) < Limit

AtEntry == Walking /\ Last(walk.stack) # <<>>

Entry == Head(Last(walk.stack))

\* The stack once the entry is taken.
Taken == Append(Front(walk.stack), Tail(Last(walk.stack)))

Continue(w) ==
    /\ walk' = w
    /\ UNCHANGED <<tree, query, token, pc, listed, history>>

LeaveDirectory ==
    /\ Walking /\ Last(walk.stack) = <<>>
    /\ Continue([walk EXCEPT !.stack = Front(@)])

SkipEntry ==
    /\ AtEntry
    /\ \/ Settled(Entry)
       \/ IsSubtree(Entry) /\ ~MayContain(Entry)
       \/ ~IsSubtree(Entry) /\ ~IsPrefix(query.prefix, Entry)
    /\ Continue([walk EXCEPT !.stack = Taken])

CollapseDirectory ==
    /\ AtEntry /\ IsSubtree(Entry) /\ ~Settled(Entry) /\ MayContain(Entry)
    /\ Collapses(Entry)
    /\ IF AfterStart(token, Entry) /\ Entry \notin walk.seen /\ HasFile(Entry)
       THEN Continue([walk EXCEPT !.stack = Taken, !.seen = @ \cup {Entry},
                                  !.items = Append(@, Entry)])
       ELSE Continue([walk EXCEPT !.stack = Taken])

EnterDirectory ==
    /\ AtEntry /\ IsSubtree(Entry) /\ ~Settled(Entry) /\ MayContain(Entry)
    /\ ~Collapses(Entry)
    /\ Continue([walk EXCEPT !.stack = Append(Taken, ReadChildren(Entry))])

\* Mutant: the directory is left at every group.
AlwaysLeft(g, k) == TRUE

\* The rest of the directory is in the group too.
GroupCovers(g, k) == IsPrefix(g, Parent(k))

GroupFile ==
    LET g == Grouped(Entry) IN
    /\ AtEntry /\ ~IsSubtree(Entry) /\ ~Settled(Entry) /\ IsPrefix(query.prefix, Entry)
    /\ g # NoKey
    /\ Continue([walk EXCEPT
           !.stack = IF GroupCovers(g, Entry) THEN Front(@) ELSE Taken,
           !.settled = g, !.seen = @ \cup {g},
           !.items = IF AfterStart(token, g) /\ g \notin walk.seen THEN Append(@, g) ELSE @])

\* The file may have vanished, or have become a directory, since it was read.
ListFile ==
    /\ AtEntry /\ ~IsSubtree(Entry) /\ ~Settled(Entry) /\ IsPrefix(query.prefix, Entry)
    /\ Grouped(Entry) = NoKey
    /\ IF AfterStart(token, Entry) /\ (Entry \in files \/ Append(Entry, Slash) \in dirs)
       THEN Continue([walk EXCEPT !.stack = Taken, !.items = Append(@, Entry)])
       ELSE Continue([walk EXCEPT !.stack = Taken])

WalkEnds ==
    /\ pc = "walk" /\ ~Walking
    /\ pc' = "page"
    /\ UNCHANGED <<tree, query, token, walk, listed, history>>

Page == UpTo(query.maxKeys, walk.items)

Truncated == Len(walk.items) > query.maxKeys

\* The client keeps the page and asks for the next with the token it got.
TakePage ==
    /\ pc = "page"
    /\ listed' = listed \cup Ranged(Page)
    /\ IF Truncated /\ Page # <<>>
       THEN pc' = "request" /\ token' = Last(Page)
       ELSE pc' = "end" /\ UNCHANGED token
    /\ walk' = NoWalk
    /\ UNCHANGED <<tree, query, history>>

List ==
    \/ OpenRoot \/ LeaveDirectory \/ SkipEntry \/ CollapseDirectory \/ EnterDirectory
    \/ GroupFile \/ ListFile \/ WalkEnds \/ TakePage

-----------------------------------------------------------------------------
(* Other clients: the effects of object.rs on the tree.                    *)

Meanwhile ==
    /\ pc # "end" /\ still' = FALSE
    /\ UNCHANGED <<query, token, pc, walk, listed>>

\* A file is created in a directory that is made for it; nothing of another kind is in
\* the way.
CreateFile(f) ==
    /\ f \notin files /\ IsTree(files \cup {f}, dirs \cup Ancestors(f))
    /\ files' = files \cup {f} /\ dirs' = dirs \cup Ancestors(f)
    /\ ever' = ever \cup {f} /\ UNCHANGED stable

RemoveFile(f) == files' = files \ {f} /\ stable' = stable \ {f} /\ UNCHANGED <<dirs, ever>>

\* The temporary file is in the bucket, under a key like any other, until the rename, or
\* for good if the upload dies with its client or with the process.
BeginPut(k, t) ==
    /\ writes < Writes /\ writes' = writes + 1
    /\ t \in Temps[k] /\ CreateFile(t)
    /\ Meanwhile

FinishPut(k, t) ==
    /\ t \in Temps[k] \cap files /\ Append(k, Slash) \notin dirs
    /\ files' = (files \ {t}) \cup {k}
    /\ stable' = stable \ {t} /\ ever' = ever \cup {k}
    /\ UNCHANGED <<dirs, writes>>
    /\ Meanwhile

FailPut(k, t) ==
    /\ t \in Temps[k] \cap files /\ RemoveFile(t)
    /\ UNCHANGED writes
    /\ Meanwhile

\* A copy writes in place.
CopyObject(k) ==
    /\ writes < Writes /\ writes' = writes + 1
    /\ CreateFile(k)
    /\ Meanwhile

DeleteObject(k) ==
    /\ writes < Writes /\ writes' = writes + 1
    /\ k \in files /\ RemoveFile(k)
    /\ Meanwhile

PruneDirectory(d) ==
    /\ d \in dirs /\ \A e \in files \cup dirs : Parent(e) # d
    /\ dirs' = dirs \ {d}
    /\ UNCHANGED <<files, writes, stable, ever>>
    /\ Meanwhile

Next ==
    \/ List
    \/ \E k \in Objects :
           \/ CopyObject(k) \/ DeleteObject(k)
           \/ \E t \in Temps[k] : BeginPut(k, t) \/ FinishPut(k, t) \/ FailPut(k, t)
    \/ \E d \in dirs : PruneDirectory(d)

Spec == Init /\ [][Next]_vars

\* The walk runs on its thread and the client asks on.
FairSpec == Spec /\ WF_vars(List)

-----------------------------------------------------------------------------
(* What a listing must be.                                                 *)

\* The walk, with all it skips, returns the page S3 defines for the tree, and
\* says it is truncated exactly when there is more.
PageMatches ==
    pc = "page" /\ still =>
        /\ Page = UpTo(query.maxKeys, ReferenceItems(files))
        /\ Truncated <=> Len(ReferenceItems(files)) > query.maxKeys

\* However the bucket changes, the pages go up without a repetition.
PagesAscend ==
    pc = "page" =>
        /\ \A i \in 1..(Len(Page) - 1) : Less(Page[i], Page[i + 1])
        /\ \A i \in listed, j \in Ranged(Page) : Less(i, j)

\* What is there all the time is listed, alone or in its group.
NothingMissed ==
    pc = "end" => \A k \in stable :
        IsPrefix(query.prefix, k) /\ Behind(query.marker, ItemOf(k))
        => ItemOf(k) \in listed

\* Nothing is listed that was never there: every item is a file's, an object or the
\* temporary file of a PUT, or a group that one of them is in (or whose directory has
\* become a file); no vacant directory is shown.
NothingInvented ==
    \A i \in listed :
        (\E k \in ever : ItemOf(k) = i) \/ (IsSubtree(i) /\ Named(i) \in ever)

\* A client that follows the tokens reaches the last page.
ListingEnds == <>(pc = "end")
=============================================================================
