----------------------- MODULE ObjectStoreRefinement -----------------------
(***************************************************************************)
(* ObjectStore without COPY and HEAD implements ObjectMap: PUT takes       *)
(* effect at its rename, DELETE at its unlink, GET where it opens the file.*)
(* COPY is left out because it fills its destination in place, HEAD        *)
(* because the cache may answer it with an earlier state.                  *)
(***************************************************************************)
EXTENDS ObjectStoreProperties

CONSTANTS
    Missing,    \* no object
    Torn        \* content that is no payload as a whole

Value(data) == IF \E w \in Payloads : data = Whole(w)
               THEN CHOOSE w \in Payloads : data = Whole(w) ELSE Torn

\* The object a path or a handle has.
ValueOf(n) == IF n \in Inodes THEN Value(ino[n].data) ELSE Missing

PhaseAt(step) ==
    IF step \in {"uncache", "restat", "prime", "prune", "metadata", "stream"} THEN "applied"
    ELSE IF step = "late_remove" THEN "late"
    ELSE IF step = "late_rmdir" THEN "failed"
    ELSE "pending"

\* A GET of a directory is answered 200 and breaks off: its caller has nothing.
PhaseOf(c) ==
    IF c.pc # "done" THEN PhaseAt(c.pc)
    ELSE IF c.resp \in {"200", "204", "404"} /\ c.fd # Directory THEN "ok" ELSE "failed"

\* What a GET has seen: the file it opened, and in the end what it streamed.
SeenBy(c) ==
    IF c.op # "GET" THEN Missing
    ELSE IF c.pc \in {"metadata", "stream"} THEN ValueOf(c.fd)
    ELSE IF PhaseOf(c) = "ok" /\ c.resp = "200" THEN Value(c.got) ELSE Missing

\* The request with locals c, as a call.
View(c) ==
    IF c.pc = "idle" THEN [phase |-> "idle"]
    ELSE [phase |-> PhaseOf(c), kind |-> c.op, name |-> PathOf[c.key], seen |-> SeenBy(c)]

ObjNow == [p \in Paths |-> ValueOf(node[p])]

CallNow == [r \in Reqs |-> View(req[r])]

Map == INSTANCE ObjectMap WITH
    Callers <- Reqs,
    Names <- Paths,
    Objects <- Payloads,
    Absent <- Missing,
    Upload <- [r \in Reqs |-> r],
    obj <- ObjNow,
    call <- CallNow

\* Every PUT, DELETE and GET takes effect at one instant between the request
\* and its response, on whole objects, through failed uploads, prunes, crashes
\* and timeouts; a request answered with an error may have taken effect, and a
\* DELETE that timed out may still do so.
ImplementsMap == Map!MapSpec
=============================================================================
