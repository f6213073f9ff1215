------------------------------ MODULE Gateway ------------------------------
(***************************************************************************)
(* What clients see of the object and bucket handlers, one request after   *)
(* another: the URL's path decoded and joined to the bucket's storage, the *)
(* early answers of each handler in their order, the stat cache, ?acl,     *)
(* ranges and copies (src/handlers/object.rs, src/handlers/bucket.rs, the  *)
(* routes and the cache of src/lib.rs).                                    *)
(*                                                                         *)
(* ObjectStore has the steps inside a handler and how requests interleave; *)
(* there an upload is all or nothing, so here it is one step.  Auth        *)
(* decides which requests come this far.                                   *)
(***************************************************************************)
EXTENDS ObjectKeys, ByteRange

CONSTANTS
    Buckets,        \* the names in config.buckets, one storage directory each
    GetCalls, HeadCalls, PutCalls, CopyCalls, DeleteCalls, BucketCalls,
                    \* the requests clients make
    NoRange,        \* no Range header
    Nothing,        \* no answer, no content
    Acl,            \* the fixed policy that ?acl is answered with
    DirectorySize   \* the size that the file system gives for a directory

ASSUME CallAssumption ==
    /\ \A c \in GetCalls : c.range = NoRange \/ c.range \in Headers
    /\ NoRange \notin Headers
    /\ \A c \in PutCalls : c.size \in Sizes
    /\ DirectorySize \in Sizes

\* The names of buckets are as S3 has them: without a slash.
ASSUME BucketAssumption ==
    /\ Buckets \subseteq Seq(STRING)
    /\ \A b \in Buckets : \A i \in DOMAIN b : b[i] # "/"

\* What requests say is text, and the source of a copy is the escaped name of the object
\* that the client means, or no name of an object.
ASSUME TextAssumption ==
    /\ \A c \in GetCalls \cup HeadCalls \cup PutCalls \cup CopyCalls \cup DeleteCalls :
           c.bucket \in Seq(STRING) /\ c.key \in Seq(STRING)
    /\ \A c \in CopyCalls :
           /\ c.from.bucket \in Seq(STRING) \ {<<>>} /\ c.from.key \in Seq(STRING)
           /\ \A i \in DOMAIN c.from.bucket : c.from.bucket[i] # "/"
           /\ \/ Decode(c.source) \in SourcesOf(c.from.bucket, c.from.key)
              \/ CopySource(c.source) = Bad

VARIABLES
    object,     \* the object at each path that has one
    cache,      \* state.cache: an object by the text of its bucket and key
    meaning,    \* for the properties: what S3 would hold under each key
    holder,     \* for the properties: the key last written or deleted at each path
    answer      \* the last answer, until the client has it

vars == <<object, cache, meaning, holder, answer>>

stored == <<object, meaning, holder>>

\* A path: the bucket, whose directory it is under, and the names below it.
At(bucket, key) == <<bucket>> \o SafeJoin(key)

Exists(p) == p \in DOMAIN object

Above(p, q) == Len(p) < Len(q) /\ p = SubSeq(q, 1, Len(p))

\* Directories are what objects are in (prune_empty_dirs), and the roots.
IsDirectory(p) == Len(p) = 1 \/ \E q \in DOMAIN object : Above(p, q)

\* create_dir_all and the rename, or the copy, find no directory and no file
\* in the way.
CanWrite(p) == ~ IsDirectory(p) /\ \A q \in DOMAIN object : ~ Above(q, p)

With(f, k, v) == [x \in DOMAIN f \cup {k} |-> IF x = k THEN v ELSE f[x]]

Without(f, k) == [x \in DOMAIN f \ {k} |-> f[x]]

\* format!("{}/{}", bucket, key), which is not taken apart again.
CacheKey(bucket, key) == bucket \o <<"/">> \o key

\* The key S3 knows an object by: its very text.
KeyOf(bucket, key) == [bucket |-> bucket, key |-> key]

\* The names in a key, which keys with empty names and dots in between share.
NamesOf(bucket, key) == <<bucket>> \o Components(key)

-----------------------------------------------------------------------------
(* Answers.                                                                *)

Answer(op, c, status, body) ==
    [op |-> op, call |-> c, status |-> status, body |-> body, from |-> 0, length |-> 0]

Say(a) == answer' = a

\* What every object handler answers before it looks at the file system.
Refusal(c) ==
    LET key == HandlerKey(c.key)
    IN  CASE Decode(c.bucket) = Bad \/ key = Bad -> "400"
          [] Decode(c.bucket) # Bad /\ key # Bad /\ Decode(c.bucket) \notin Buckets ->
                 "NoSuchBucket"
          [] OTHER -> IF SafeJoin(key) = Bad THEN "AccessDenied" ELSE "none"

PathOf(c) == At(Decode(c.bucket), HandlerKey(c.key))

CachedAs(c) == CacheKey(Decode(c.bucket), HandlerKey(c.key))

MeantBy(c) == KeyOf(Decode(c.bucket), Meant(c.key))

\* Mutant: the subresource goes unnoticed.
NoAclQuery(c) == FALSE

HasAclQuery(c) == c.acl

\* Content-Length is end - start + 1 in u64; seek and take read as much.
Partial(a, r) == [a EXCEPT !.status = "206", !.from = r.start,
                           !.length = (r.end - r.start + 1) % (MaxU64 + 1)]

Whole(a, size) == [a EXCEPT !.status = "200", !.length = size]

Ranged(a, r, size) ==
    CASE r.kind = "satisfiable" -> Partial(a, r)
      [] r.kind = "unsatisfiable" -> [a EXCEPT !.status = "416"]
      [] r.kind = "invalid" -> Whole(a, size)

-----------------------------------------------------------------------------
(* The handlers.                                                           *)

\* A directory can be opened, and says so only when it is read.
GetObject(c) ==
    /\ answer = Nothing
    /\ LET p == PathOf(c)
           a == Answer("GET", c, "200", IF Exists(p) THEN object[p] ELSE Nothing)
           size == IF Exists(p) THEN object[p].size ELSE DirectorySize
       IN  CASE Refusal(c) # "none" -> Say(Answer("GET", c, Refusal(c), Nothing))
             [] Refusal(c) = "none" /\ ~ Exists(p) /\ ~ IsDirectory(p) ->
                    Say(Answer("GET", c, "NoSuchKey", Nothing))
             [] Refusal(c) = "none" /\ (Exists(p) \/ IsDirectory(p)) /\ HasAclQuery(c) ->
                    Say(Answer("GET", c, "200", Acl))
             [] OTHER -> Say(IF c.range = NoRange THEN Whole(a, size)
                             ELSE Ranged(a, ParseRange(c.range, size), size))
    /\ UNCHANGED <<stored, cache>>

\* The cache is asked before the bucket is looked for; what is found is kept in it.
HeadObject(c) ==
    /\ answer = Nothing
    /\ LET Fresh == Refusal(c) # "400" /\ CachedAs(c) \in DOMAIN cache
           Found == ~ Fresh /\ Refusal(c) = "none" /\ Exists(PathOf(c))
       IN  \/ /\ Fresh
              /\ Say(Answer("HEAD", c, "200", cache[CachedAs(c)]))
              /\ UNCHANGED cache
           \/ /\ Found
              /\ Say(Answer("HEAD", c, "200", object[PathOf(c)]))
              /\ cache' = With(cache, CachedAs(c), object[PathOf(c)])
           \/ /\ ~ Fresh /\ ~ Found
              /\ Say(Answer("HEAD", c, IF Refusal(c) = "none" THEN "NoSuchKey" ELSE Refusal(c),
                            Nothing))
              /\ UNCHANGED cache
    /\ UNCHANGED stored

\* An entry of the cache is evicted, outlives stat_cache_ttl_secs, or goes with a restart.
Forget(k) ==
    /\ answer = Nothing
    /\ cache' = Without(cache, k)
    /\ UNCHANGED <<stored, answer>>

\* A write is of the key that the client means, at the path that the server takes it for.
Store(op, c, body) ==
    IF CanWrite(PathOf(c))
    THEN /\ object' = With(object, PathOf(c), body)
         /\ meaning' = With(meaning, MeantBy(c), body)
         /\ holder' = With(holder, PathOf(c), MeantBy(c))
         /\ Say(Answer(op, c, "200", body))
    ELSE /\ Say(Answer(op, c, "500", Nothing))
         /\ UNCHANGED stored

\* Mutant: the entry in the cache is left as it was.
CacheLeft(c, entry) == UNCHANGED cache

\* After a write the entry of its own spelling goes; a PUT enters the new object.
Recache(c, entry) ==
    cache' = IF entry = Nothing THEN Without(cache, CachedAs(c))
             ELSE With(cache, CachedAs(c), entry)

\* ?acl is answered after the bucket is found and before the key is joined.
PutAcl(c) ==
    /\ HasAclQuery(c) /\ Refusal(c) \in {"none", "AccessDenied"}

Put(c) ==
    /\ answer = Nothing
    /\ IF PutAcl(c) \/ Refusal(c) # "none"
       THEN /\ Say(Answer("PUT", c, IF PutAcl(c) THEN "200" ELSE Refusal(c), Nothing))
            /\ UNCHANGED <<stored, cache>>
       ELSE LET body == [name |-> MeantBy(c), size |-> c.size]
            IN  /\ Store("PUT", c, body)
                /\ IF CanWrite(PathOf(c)) THEN Recache(c, body) ELSE UNCHANGED cache

\* The answers of copy_object before it copies.
CopyRefusal(c) ==
    LET source == CopySource(c.source)
        p == At(source.bucket, source.key)
    IN  CASE source = Bad -> "400"
          [] source # Bad /\ source.bucket \notin Buckets -> "NoSuchBucket"
          [] source # Bad /\ source.bucket \in Buckets /\ SafeJoin(source.key) = Bad ->
                 "AccessDenied"
          [] OTHER -> CASE ~ Exists(p) -> "NoSuchKey"
                        [] Exists(p) /\ p = PathOf(c) -> "InvalidRequest"
                        [] OTHER -> "none"

Copy(c) ==
    /\ answer = Nothing
    /\ LET source == CopySource(c.source)
       IN  IF PutAcl(c) \/ Refusal(c) # "none" \/ CopyRefusal(c) # "none"
           THEN /\ Say(Answer("COPY", c, CASE PutAcl(c) -> "200"
                                           [] ~ PutAcl(c) /\ Refusal(c) # "none" -> Refusal(c)
                                           [] OTHER -> CopyRefusal(c), Nothing))
                /\ UNCHANGED <<stored, cache>>
           ELSE /\ Store("COPY", c, object[At(source.bucket, source.key)])
                /\ IF CanWrite(PathOf(c)) THEN Recache(c, Nothing) ELSE UNCHANGED cache

\* A file that cannot be removed is answered like one that was, and leaves the cache as it
\* is; ?acl goes unnoticed.
Delete(c) ==
    /\ answer = Nothing
    /\ IF Refusal(c) # "none"
       THEN /\ Say(Answer("DELETE", c, Refusal(c), Nothing))
            /\ UNCHANGED <<stored, cache>>
       ELSE /\ object' = Without(object, PathOf(c))
            /\ meaning' = Without(meaning, MeantBy(c))
            /\ IF Exists(PathOf(c))
               THEN holder' = With(holder, PathOf(c), MeantBy(c)) /\ Recache(c, Nothing)
               ELSE UNCHANGED <<holder, cache>>
            /\ Say(Answer("DELETE", c, "204", Nothing))

HeadBucket(c) ==
    /\ answer = Nothing
    /\ Say(Answer("HEADBUCKET", c, CASE Decode(c.bucket) = Bad -> "400"
                                     [] Decode(c.bucket) \in Buckets -> "200"
                                     [] OTHER -> "NoSuchBucket", Nothing))
    /\ UNCHANGED <<stored, cache>>

Finish ==
    /\ answer # Nothing
    /\ answer' = Nothing
    /\ UNCHANGED <<stored, cache>>

Init ==
    /\ object = [p \in {} |-> Nothing]
    /\ cache = [k \in {} |-> Nothing]
    /\ meaning = [k \in {} |-> Nothing]
    /\ holder = [p \in {} |-> Nothing]
    /\ answer = Nothing

Next ==
    \/ \E c \in GetCalls : GetObject(c)
    \/ \E c \in HeadCalls : HeadObject(c)
    \/ \E c \in PutCalls : Put(c)
    \/ \E c \in CopyCalls : Copy(c)
    \/ \E c \in DeleteCalls : Delete(c)
    \/ \E c \in BucketCalls : HeadBucket(c)
    \/ \E k \in DOMAIN cache : Forget(k)
    \/ Finish

Spec == Init /\ [][Next]_vars

-----------------------------------------------------------------------------
(* Properties.                                                             *)

\* safe_join: whatever the URL says, objects are under the storage directory of
\* a configured bucket, and no name among theirs leads up or nowhere.
InsideBuckets ==
    \A p \in DOMAIN object :
        /\ p[1] \in Buckets /\ Len(p) > 1
        /\ \A i \in 2 .. Len(p) : p[i] \notin {<<>>, <<".">>, <<".", ".">>}

\* What S3 holds under this key.
Held(bucket, key) ==
    LET k == KeyOf(bucket, key)
    IN  IF k \in DOMAIN meaning THEN meaning[k] ELSE Nothing

\* Where this key is, another was written last: one of the same names, which S3 tells
\* apart and the server does not, or one with a "%".
Displaced(bucket, key) ==
    LET p == NamesOf(bucket, key)
    IN  /\ p \in DOMAIN holder
        /\ holder[p] # KeyOf(bucket, key)
        /\ Plain(holder[p].key) => NamesOf(holder[p].bucket, holder[p].key) = p

\* The handlers and the cache together are S3's map: GET and HEAD are answered from the
\* last write under the same key, however its URL was escaped and however often it was
\* asked for, a deleted key is gone, and a copy is of the object the source names.  It
\* leaves out keys with a "%", which the handlers decode twice, and displaced ones.
AnswersMap ==
    answer # Nothing =>
        LET c == answer.call
            bucket == Decode(c.bucket)
        IN  /\ (/\ answer.op \in {"GET", "HEAD"} /\ Refusal(c) = "none" /\ answer.body # Acl
                /\ Plain(Meant(c.key)) /\ ~ Displaced(bucket, Meant(c.key)))
               => answer.body = Held(bucket, Meant(c.key))
            /\ (/\ answer.op = "COPY" /\ answer.body # Nothing
                /\ Plain(c.from.key) /\ ~ Displaced(c.from.bucket, c.from.key))
               => answer.body = Held(c.from.bucket, c.from.key)
            /\ (/\ answer.op = "COPY" /\ Refusal(c) = "none"
                /\ answer.status \in {"NoSuchBucket", "NoSuchKey"}
                /\ Plain(c.from.key) /\ ~ Displaced(c.from.bucket, c.from.key))
               => Held(c.from.bucket, c.from.key) = Nothing

\* get_object and parse_range: a 206 has the bytes the range asks for and says
\* so, a 416 is given only where it asks for none there are, and a range that
\* asks for some is not answered with the whole object.
RangeAsAsked ==
    (answer # Nothing /\ answer.op = "GET" /\ answer.body \notin {Nothing, Acl}) =>
        LET size == answer.body.size
            range == answer.call.range
            asked == Asked(range, size)
        IN  IF range = NoRange THEN answer.status = "200" /\ answer.length = size
            ELSE /\ answer.status = "206" =>
                        /\ WellFormed(range) /\ asked # {}
                        /\ asked = answer.from .. answer.from + answer.length - 1
                 /\ answer.status = "416" => ~ WellFormed(range) \/ asked = {}
                 /\ answer.status = "200" =>
                        /\ answer.length = size
                        /\ ~ WellFormed(range) \/ asked = {} \/ ~ Fits(range)

\* put_object: a PUT with ?acl is an ACL write, which the server acknowledges
\* and drops; it never writes the object.
AclNeverWrites ==
    [][object' # object => ~ (answer'.op \in {"PUT", "COPY"} /\ answer'.call.acl)]_vars
=============================================================================
