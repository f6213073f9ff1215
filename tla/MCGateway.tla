------------------------------ MODULE MCGateway ------------------------------
(***************************************************************************)
(* A small instance of Gateway for TLC: the bucket "b" and keys written in *)
(* several ways, among them a path upwards, bytes that are no text, and    *)
(* the name of a directory.                                                *)
(***************************************************************************)
EXTENDS Gateway

Text(bucket, key) == [bucket |-> bucket, key |-> key]

\* "a", as it is and escaped; "e/a", as it is and with the slash escaped; and what S3
\* takes for another key of the same names.
Written_a == {<<"a">>, <<"%", "a">>}

Written_ea == {<<"e", "/", "a">>, <<"e", "%", "s", "a">>, <<"e", "/", "/", "a">>}

\* The key "%a", whose percent sign is escaped; e and what is above it; no text.
Odd == {<<"%", "p", "a">>, <<"e">>, <<"e", "/", "%", "d", ".", "/", "a">>,
        <<"e", "%", "p", "s", "%", "p", "d", "%", "p", "d">>, <<"%", "x">>}

AllKeys == Written_a \cup Written_ea \cup Odd

b == <<"b">>

MCBuckets == {b}

Calls(keys, acl) == [bucket : {b}, key : keys, acl : acl]

\* Buckets that are none: "n", and "b/e", whose name runs into the keys of "b".
MCHeadCalls == Calls(AllKeys, {FALSE}) \cup Calls({<<"a">>}, {TRUE})
               \cup [bucket : {<<"n">>, <<"b", "%", "s", "e">>}, key : {<<"a">>}, acl : {FALSE}]

MCDeleteCalls == MCHeadCalls

\* An object has three bytes; "a" may be empty, and so may a copy of it.  "%a" is read,
\* copied and deleted only.
MCPutCalls ==
    {[bucket |-> b, key |-> k, acl |-> FALSE, size |-> 3] : k \in AllKeys \ {<<"%", "p", "a">>}}
    \cup {[bucket |-> b, key |-> <<"a">>, acl |-> t, size |-> 0] : t \in BOOLEAN}

Sources == {[bucket |-> b, key |-> <<"a">>, source |-> <<"/", "b", "/", "%", "a">>],
            [bucket |-> b, key |-> <<"e", "/", "a">>, source |-> <<"b", "%", "s", "e", "%", "s", "a">>],
            [bucket |-> b, key |-> <<"%", "a">>, source |-> <<"b", "/", "%", "p", "a">>],
            [bucket |-> b, key |-> <<"e">>, source |-> <<"b", "/", "e">>],
            [bucket |-> b, key |-> <<>>, source |-> <<"b">>],
            [bucket |-> <<"n">>, key |-> <<"a">>, source |-> <<"n", "/", "a">>]}

MCCopyCalls ==
    {[bucket |-> c.bucket, key |-> c.key, acl |-> c.acl, source |-> f.source,
      from |-> Text(f.bucket, f.key)] :
        c \in Calls({<<"a">>, <<"e", "/", "a">>, <<"e", "/", ".", ".">>}, {FALSE})
              \cup Calls({<<"a">>}, {TRUE}), f \in Sources}

Reads(calls, ranges) ==
    {[bucket |-> c.bucket, key |-> c.key, acl |-> c.acl, range |-> r] : c \in calls, r \in ranges}

MCNumbers == {Blank, Junk, 0, 2, 3, 7, 8}

MCRanges ==
    [unit : {"bytes"}, pieces : {2}, first : MCNumbers, last : MCNumbers]
    \cup [unit : {"bytes", "other"}, pieces : {1, 3}, first : {0}, last : {1}]

\* Ranges of "a", be it empty, there or not.
MCGetCalls == Reads(MCHeadCalls, {NoRange}) \cup Reads(Calls({<<"a">>}, {FALSE}), MCRanges)

MCBucketCalls == [bucket : {b, <<"n">>, <<"%", "x">>}]
=============================================================================
