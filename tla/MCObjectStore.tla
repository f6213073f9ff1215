--------------------------- MODULE MCObjectStore ---------------------------
(***************************************************************************)
(* Small instances of ObjectStore for TLC.  The bucket has the directory d *)
(* with the objects d/a and d/b, and the directory d/e with d/e/c; a run   *)
(* takes the part of that tree it needs.  The key kd is "d", ka is "d/a",  *)
(* kb is "d/b" and kc is "d/e/c".                                          *)
(***************************************************************************)
EXTENDS ObjectStoreRefinement, ObjectStoreInvariant, TLC

CONSTANTS root, dd, da, db, de, dec, kd, ka, kb, kc

Tree == [p \in Paths \ {root} |-> IF p = dd THEN root ELSE IF p = dec THEN de ELSE dd]

Spelling == [k \in Keys |-> CASE k = kd -> dd [] k = ka -> da
                              [] k = kb -> db [] k = kc -> dec]

CallsOf(ops, keys) == [op : ops, key : keys, src : {ka}]

Copies(from, to) == [op : {"COPY"}, key : to, src : from]

RequestSymmetry == Permutations(Reqs)

\* Uploads over an existing object, deletes and reads of it, and an upload to
\* the directory's own name, whose rename fails.
UploadCalls == CallsOf({"PUT", "DELETE", "GET"}, {ka}) \cup CallsOf({"PUT", "GET"}, {kd})

\* Uploads and deletes in two directories, one above the other, either of which
\* a delete may also name.
PruneCalls == CallsOf({"PUT", "DELETE"}, {ka, kc}) \cup CallsOf({"DELETE"}, {kd})
              \cup Copies({ka}, {kc})

\* Everything but GET on two objects, with copies both ways and onto itself.
SerialCalls == CallsOf({"PUT", "DELETE", "HEAD"}, {ka, kb}) \cup Copies({ka}, {ka, kb})
               \cup Copies({kb}, {ka})

AllCalls == CallsOf({"PUT", "DELETE", "HEAD", "GET"}, {ka}) \cup Copies({ka}, {kb})
            \cup CallsOf({"PUT"}, {kc})

HeadAndDelete == CallsOf({"HEAD", "DELETE"}, {ka})

PutBesideDelete == CallsOf({"PUT"}, {kb}) \cup CallsOf({"DELETE"}, {ka})
=============================================================================
