----------------------------- MODULE MCListing -----------------------------
(***************************************************************************)
(* A small instance of Listing for TLC.  The bytes are '-' < '.' < '/' <   *)
(* 'a' < 'b', the order that makes a file, a directory of the same name    *)
(* and names behind a dash interleave.                                     *)
(***************************************************************************)
EXTENDS ListingInvariant, TLC

Dash == 1
Dot == 2
SlashByte == 3
A == 4
B == 5

\* "a", "a-", "a/a", "a/b-a", "a/b/a", "a-b/a", "a-b/b"
ManyObjects ==
    {<<A>>, <<A, Dash>>, <<A, SlashByte, A>>, <<A, SlashByte, B, Dash, A>>,
     <<A, SlashByte, B, SlashByte, A>>, <<A, Dash, B, SlashByte, A>>,
     <<A, Dash, B, SlashByte, B>>}

\* "a/b/.a": what temp_path_for makes of "a/b/a", once.
OneTemp ==
    [k \in ManyObjects |->
        IF k = <<A, SlashByte, B, SlashByte, A>> THEN {<<A, SlashByte, B, SlashByte, Dot, A>>}
        ELSE {}]

\* With the writes that happen meanwhile every smaller tree is reached too.
BigTrees == {t \in SUBSET ManyObjects : Cardinality(t) = 3}

\* "a/"
EmptyDirectory == {<<A, SlashByte>>}

SomeQueries ==
    [prefix : {<<>>, <<A, SlashByte>>, <<A, SlashByte, B>>},
     delimiter : {NoKey, <<SlashByte>>, <<Dash>>},
     maxKeys : {1}, marker : {NoKey}]
    \cup
    [prefix : {<<>>, <<A, SlashByte, SlashByte>>}, delimiter : {<<>>, <<SlashByte>>},
     maxKeys : {2}, marker : {NoKey, <<A, Dash>>}]
=============================================================================
