-------------------------- MODULE MCBlockingServer --------------------------
(***************************************************************************)
(* A small instance of BlockingServer for TLC: one client that sends two   *)
(* requests and one that only holds a connection.                          *)
(***************************************************************************)
EXTENDS BlockingServer, TLC

TwoConns == {"busy", "idle"}

Plain == [method |-> "GET", http11 |-> TRUE, connection |-> None, length |-> None,
          chunks |-> None, expect |-> FALSE]

OldKeepAlive == [Plain EXCEPT !.http11 = FALSE, !.connection = "keep-alive"]

HeadOnly == [Plain EXCEPT !.method = "HEAD"]

Closing == [Plain EXCEPT !.connection = "close"]

\* A body at the limit, one above it, and one that waits to be asked for.
AtLimit == [Plain EXCEPT !.method = "PUT", !.length = 2]
AboveLimit == [AtLimit EXCEPT !.length = 3]
Asking == [Plain EXCEPT !.method = "PUT", !.length = 1, !.expect = TRUE]

\* A length that is no usize.
Unfit == [AtLimit EXCEPT !.length = 8]

\* Chunks at the limit, next to a length that does not count; chunks that exceed it
\* together; a size that wraps the sum around; and one that is no usize.
ChunksAtLimit == [Plain EXCEPT !.method = "PUT", !.length = 1, !.chunks = <<1, 1>>]
ChunksAbove == [Plain EXCEPT !.method = "PUT", !.chunks = <<1, 2>>]
ChunksWrap == [Plain EXCEPT !.method = "PUT", !.chunks = <<1, 7>>]
ChunksUnfit == [Plain EXCEPT !.method = "PUT", !.chunks = <<8>>]

Requests == {Plain, OldKeepAlive, HeadOnly, Closing, AtLimit, AboveLimit, Asking,
             Unfit, ChunksAtLimit, ChunksAbove, ChunksWrap, ChunksUnfit}

SomeScripts ==
    [c \in TwoConns |->
        IF c = "busy" THEN {<<p, q>> : p \in Requests, q \in Requests \ {Unfit, ChunksUnfit}}
        ELSE {<<>>}]
=============================================================================
