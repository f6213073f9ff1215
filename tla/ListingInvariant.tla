-------------------------- MODULE ListingInvariant --------------------------
(***************************************************************************)
(* The inductive invariants of Listing: what the entries that the walk has *)
(* still to take are, how they lie to each other and to the items so far,  *)
(* and which keys they stand for.                                          *)
(***************************************************************************)
EXTENDS Listing

Key == Seq(Nat)

Places == {"request", "walk", "page", "end"}

Walks ==
    [stack : Seq(Seq(Key)), settled : Key \cup {NoKey}, seen : SUBSET Key, items : Seq(Key)]

\* The variables have their types.
TypeOK ==
    /\ files \in SUBSET Names /\ dirs \in SUBSET Key
    /\ query \in Queries
    /\ token \in Key \cup {NoKey}
    /\ pc \in Places
    /\ walk \in Walks
    /\ listed \in SUBSET Key
    /\ ever \in SUBSET Names /\ still \in BOOLEAN

\* The tree is one, and the histories go with it.
TreeInv ==
    /\ IsFiniteSet(files) /\ IsFiniteSet(dirs)
    /\ IsTree(files, dirs)
    /\ \A d \in dirs : d # <<>> /\ IsSubtree(d)
    /\ stable \subseteq files /\ files \subseteq ever

-----------------------------------------------------------------------------
(* What the walk has still to take.                                        *)

Entries(st) == UNION {Ranged(st[l]) : l \in 1..Len(st)}

\* What is left was read in the bucket, and is still there if nothing has changed.
EntriesRight(w) ==
    /\ Len(w.items) <= Limit
    /\ \A e \in Entries(w.stack) :
           /\ e # <<>>
           /\ ~IsSubtree(e) => e \in ever
           /\ still => e \in files \cup dirs

\* All that e stands for is before all that f stands for.
Ahead(e, f) == Less(e, f) /\ (IsSubtree(e) => ~IsPrefix(e, f))

\* A directory's entries go up, and all below an entry is before the next one.
Ordered(st) ==
    \A l, m \in 1..Len(st) : \A i \in 1..Len(st[l]), j \in 1..Len(st[m]) :
        m < l \/ (m = l /\ i < j) => Ahead(st[l][i], st[m][j])

OneParent(st) ==
    \A l \in 1..Len(st) : \A i, j \in 1..Len(st[l]) : Parent(st[l][i]) = Parent(st[l][j])

Ascending(s) == \A i, j \in 1..Len(s) : i < j => Less(s[i], s[j])

-----------------------------------------------------------------------------
(* What the items are.                                                     *)

Shown(i) == (\E k \in ever : ItemOf(k) = i) \/ (IsSubtree(i) /\ Named(i) \in ever)

ShownRight(w) == \A i \in Ranged(w.items) : Shown(i)

\* The items go up, and all that is left goes on behind them.
OrderRight(w) ==
    /\ Ordered(w.stack) /\ Ascending(w.items)
    /\ \A i \in Ranged(w.items) :
           /\ ItemOf(i) = i /\ Behind(token, i)
           /\ Grouped(i) # NoKey => i \in w.seen
           /\ \A e \in Entries(w.stack) : Less(i, e)

\* A group is listed, or the pages before had it.
SeenRight(w) ==
    /\ OneParent(w.stack)
    /\ w.settled # NoKey => w.settled \in w.seen
    /\ \A g \in w.seen : Grouped(g) = g /\ (g \in Ranged(w.items) \/ ~Behind(token, g))

\* As long as nothing changes, every item is that of a key there is.
FoundRight(w) ==
    still => \A i \in Ranged(w.items) :
        \E k \in files : IsPrefix(query.prefix, k) /\ ItemOf(k) = i

-----------------------------------------------------------------------------
(* What the walk owes.                                                     *)

\* The keys that the page under way has to do justice to.
Sure == IF still THEN files ELSE stable

Wanted(k) == IsPrefix(query.prefix, k) /\ Behind(token, ItemOf(k))

StandsFor(e, k) == e = k \/ (IsSubtree(e) /\ IsPrefix(e, k))

\* A key is listed or still to come,
ToCome(w) ==
    \A k \in Sure : Wanted(k) =>
        ItemOf(k) \in Ranged(w.items) \/ \E e \in Entries(w.stack) : StandsFor(e, k)

\* or lies behind a page that is full.
Complete(w) ==
    \A k \in Sure : Wanted(k) =>
        \/ ItemOf(k) \in Ranged(w.items)
        \/ Len(w.items) = Limit /\ \A i \in Ranged(w.items) : Less(i, ItemOf(k))

OwedInv == (pc = "walk" => ToCome(walk)) /\ (pc = "page" => Complete(walk))

-----------------------------------------------------------------------------
(* What the pages so far have listed.                                      *)

ListedInv ==
    /\ \A i \in listed : Shown(i)
    /\ pc # "end" => \A i \in listed : token # NoKey /\ (i = token \/ Less(i, token))

\* Between two pages, and at every step of a page, a key that has been there all the
\* time has been listed or is still to come: the token that list_objects returns is
\* before what it stands for.
PagesInv ==
    \A k \in stable : IsPrefix(query.prefix, k) /\ Behind(query.marker, ItemOf(k)) =>
        ItemOf(k) \in listed \/ (pc # "end" /\ Behind(token, ItemOf(k)))

WalkRight(w) == EntriesRight(w) /\ ShownRight(w) /\ OrderRight(w) /\ SeenRight(w) /\ FoundRight(w)

WalkInv == WalkRight(walk) /\ (pc \in {"request", "end"} => walk = NoWalk)

\* The variables have their types, the bucket is a tree, the entries on the stack of
\* collect_entries go up and are behind the items so far, each key the page owes is
\* listed or below an entry, and the pages so far are behind the token.
ListingInv == TypeOK /\ TreeInv /\ WalkInv /\ OwedInv /\ ListedInv
=============================================================================
