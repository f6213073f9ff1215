# FerroS3 in TLA+

FerroS3 serves S3 buckets out of plain directories. It has no database and no
locks: what it promises about objects rests on the order of its file system
calls, on one in-memory cache, and on what a crash leaves behind. These modules
model that order, TLC checks it on small instances, and TLAPS proves the safety
properties for every instance.

Source paths are relative to the repository; line numbers are in the `map` of
`PROJECT.json`.

## 1. The system

| Component | State | Operations | Hard behaviour |
|---|---|---|---|
| Object handlers, `handlers/object.rs` | none of their own; files and directories under the bucket's path; `COUNTER` of `temp_path_for` | PUT, COPY (PUT with `x-amz-copy-source`), DELETE, HEAD, GET with ranges and `?acl` | keys are decoded and joined to a path; requests interleave at every await; clients leave in the middle; PUT writes a temporary file and renames it; DELETE prunes empty directories upward while PUTs create them; COPY fills its destination in place |
| Stat cache, `state.rs`, `cache.rs` | `AppState.cache`, a concurrent map from the client's `bucket/key` to a stat and the time it was taken | HEAD looks up and inserts; PUT removes and inserts; COPY and DELETE remove | a stat is taken in one step and inserted in another; the key is the client's spelling, the file is a normalised path |
| Request timeout, `lib.rs` `timeout_middleware` | none | drops the handler future, answers 504; PUT is exempt | the blocking call the handler awaited still happens |
| Router, state, configuration, `lib.rs`, `config.rs` | `AppState`, read-only after start | routes, body limit | |
| Listing, `handlers/list.rs` | none between requests: the token is in the client's hands | list a page of keys and common prefixes | pages over a tree that changes; an ordered walk that skips directories, groups and everything up to the token; boundary values of `max-keys` |
| Bucket handlers, `handlers/bucket.rs` | none | list buckets, head bucket | |
| Authentication, `auth/mod.rs`, `auth/sigv4.rs` | none; reads the clock and the configuration | header signature, query signature, basic | expiry against a clock that is ahead or behind; a canonical query rebuilt from what was parsed; a secret changed by a restart |
| Presigned URLs, `handlers/admin.rs` | none; the URLs are in the clients' hands | make a signed URL | its own canonical request must be the one authentication rebuilds |
| Blocking server (FreeBSD build), `main.rs`, `blocking_http.rs` | `ACTIVE_CONNECTIONS`; per connection, the bytes read and not yet used | accept, read head, read body (length or chunked), answer, keep alive | bytes of the next request in the buffer; chunk arithmetic; the count of connections when a thread dies |
| Error responses, `error.rs`; API description, `openapi.rs`; shims, `freebsd11_shim.c`, `build.rs` | none | | |

How they interact: the router wraps every handler in authentication and in the
timeout. Handlers share the storage directories (system calls on tokio's
blocking threads), the cache and the temporary-name counter, and nothing else.
Listing and GET see whatever the writers have done so far. The blocking server
hands a whole request to the same router and drives it to completion.

What makes each component correct:

- object handlers: an object is always the whole of one upload; an upload that
  fails, or a crash, leaves the object that was there; a reader gets one
  upload; pruning never takes a directory from under an object or an upload and
  leaves no skeleton; no temporary file is left; every request ends;
- stat cache: what it answers is what a stat would answer, once nothing is
  under way (until the TTL it promises nothing about changes made outside the
  server);
- timeout: a request without a body is answered even if storage hangs, and what
  it had started happens at most once;
- listing: the walk gives the page that S3 defines for the tree; pages follow
  each other without a gap or a repetition and show objects only (they show
  temporary files too, see the known gaps);
- authentication: who is let in has the key pair or signed just this call; an
  expired or not yet valid URL is refused (in the header it is not, finding 3),
  and one that was made by the presigner is accepted until it expires; requests
  of SDKs are accepted (with repeated parameters they are not, see the known gaps);
- keys and ranges: a key names one object however its URL is escaped, and another
  key another object (it may be the same, see the known gaps); nothing is stored outside
  a bucket, and a range gives the bytes it asks for;
- blocking server: a request's body is exactly the bytes its framing says and
  all of them (finding 4 and a length that fits no `usize` are the exceptions), the next request starts
  right behind it, and a slot is given back for every one taken (a thread that
  panics keeps its slot).

## 2. Modules

| Module | What it is |
|---|---|
| `Storage` | The file system under a bucket: `node` maps the tree's paths and the temporary names to files, directories or nothing; `ino` holds each file's content, its last writer and whether it is synced. Operators say when `mkdir`, `rmdir`, `open(O_CREAT\|O_TRUNC)`, `unlink` and `rename` succeed and what they do. External to the repository: modelled from the calls `object.rs` makes. |
| `ObjectStore` | The handlers of `object.rs`, one action per await on the file system and per access to the cache or the counter; the timeout of `lib.rs`; crash and restart. |
| `ObjectStoreProperties` | The type invariant and the properties. |
| `ObjectMap` | The abstract specification: a map from names to objects on which every call takes effect at one instant between its request and its answer; a call answered with an error may or may not have taken effect. |
| `ObjectStoreRefinement` | The refinement mapping from `ObjectStore` to `ObjectMap`. |
| `MCObjectStore` | Trees, keys and call sets for TLC. |
| `ObjectStoreInvariant` | The inductive invariants: of uploads, `IInv`, of readers, `ReadInv`, of the cache, of copies and of empty directories. |
| `ObjectStoreProofs` | Theorems about `ObjectStore`: types, the closed tree, and uploads, from `IInv`. |
| `ObjectStoreQuietProofs` | Theorems about what holds between requests: of the cache, of copies and of empty directories. |
| `ObjectStoreRefinementProofs` | Theorems about readers, from `ReadInv`, and the refinement of `ObjectMap`. |
| `Listing` | `list.rs`: a client that pages through a bucket, the walk of `collect_entries` one directory entry at a time, and uploads, copies, deletes and prunes meanwhile. The specification of a page is `reference_page`, the naive listing the repository's own tests compare with. |
| `ListingInvariant` | The inductive invariants of `Listing`: what is on the stack of the walk, how it lies to the items, and which keys are owed. |
| `ListingProofs` | Theorems about `Listing`: the order of the pages, that they miss and invent nothing, and the page that S3 defines. |
| `MCListing` | Seven keys and a temporary file, trees of three, prefixes and delimiters for TLC. |
| `BlockingServer` | The server of the FreeBSD build: the accept loop with its cap, one thread per connection, and the reading and writing of HTTP/1.1. |
| `MCBlockingServer` | Twelve kinds of request for TLC. |
| `SequenceInduction` | Facts about sequences whose elements are all of a kind and about functions defined by recursion, proved by induction over a set of lengths. |
| `BlockingServerProofs` | Theorems about the slots of the blocking server, what it reads of a connection and what it writes to it. |
| `ByteRange` | `parse_range` over integers of a bounded width, and what RFC 9110 says a range asks for. |
| `ObjectKeys` | Percent decoding, `safe_join`, `parse_copy_source` over texts of a few characters. |
| `Gateway` | The object and bucket handlers as a client sees them, a request at a time: every early answer in its order, the stat cache, `?acl`, ranges, copies. Extends the two above. |
| `GatewayProofs` | Theorems about ranges, paths, `?acl` and the handlers as a map. |
| `MCGateway` | Keys written in ten ways, copy sources, ranges for TLC. |
| `Auth` | `auth_middleware` with its SigV4 check, the presigner, a clock, restarts and the requests of clients. |
| `MCAuth` | Configurations and calls for TLC. |
| `AuthProofs` | Theorems about who is let in. |

`ObjectStore`, `Listing` and `BlockingServer` stand side by side: a listing sees
of the handlers only the files and directories they make and remove, which
`Listing` has as actions of its own: an upload creates its temporary file
(`BeginPut`) and renames or removes it later (`FinishPut`, `FailPut`) or never,
`CopyObject` writes in place, and `DeleteObject` and `PruneDirectory` remove. The
blocking server hands a request to the router when the
whole body is there, the step at which a request of `ObjectStore` begins. `Auth`
decides what comes as far as the handlers. `Gateway` and `ObjectStore` are two
views of `object.rs`: the first has what a request says and what is answered,
with a handler as one step, the second has the steps and takes the path for
given. `ObjectsReplacedWhole` and `ImplementsMap` of the second are why one step
will do in the first.

### How the state corresponds to the code

- `req[r]` is one request: `pc` is the await or shared access it is at, the
  other fields are the local variables of the handler that outlive an await
  (the temporary name, the attempt of `create_retrying_on_pruned_dir`, the
  directories `create_dir_all` has still to make, the open files, the stat).
  A field that the code no longer uses is reset when the request is answered.
- `cache[k]` is the entry of the client's spelling `k`; `PathOf[k]` is the path
  `safe_join` gives it. Two keys with one path are two spellings of it.
- `counter` is `COUNTER`; a temporary name is a pair of the destination and a
  number, in the destination's directory. The process id in the name is taken
  to repeat after a restart (it does in a container), which is the worst case.
- An inode is named by the request and the attempt that creates it. The mtime
  and the ETag are abstracted to the file's last writer and its size.
- Content is a sequence of `Chunks` pieces, each tagged by the upload it is
  from. A short write, a partly copied file and a hole are sequences too.
- `create_dir_all` is the algorithm of the standard library: make the
  directory; if its parent is missing make that first and then try again; an
  error other than that is success if the directory is there after all.
- `Timeout` drops the handler at an await on the file system. For `remove_file`
  and `remove_dir` the call stays behind and happens later (`LateRemove`,
  `LateRmdir`); for calls that change nothing there is nothing left to do.
- `CacheLose` is an entry that outlived `stat_cache_ttl_secs` or was evicted.
- `Abandon` is a client that closes its connection: hyper drops the handler at
  the await it is in. `Disconnects` says whether clients do.
- `Crash` ends every request, empties the cache and resets the counter; with
  `PowerLoss` any set of unsynced files becomes empty. Directory changes survive
  in the order they were made.

For `Listing`:

- A key is a sequence of bytes. A directory is named by the prefix its keys
  have, with the slash; `read_children` sorts it by that name.
- `walk` holds the locals of `collect_entries`: the stack of directories with
  the children still to visit, the items so far, the group that is settled.
- `token` is the start-after key of the page under way, as `list_objects`
  derives it from the continuation token or the marker.
- `files` are objects and temporary files: `read_children` tells them apart no more
  than the model does. `Temps[k]` are the names `temp_path_for` makes for `k`.
- `stable`, `ever` and `still` are history variables for the properties.

For `BlockingServer`:

- `wire[c]` is what the client has sent and the thread has not read, in the
  socket or in the `BufReader`; it outlives a request, as the reader does. What
  is sent is a token at a time: a line, or one byte of a body. `todo[c]` is what
  the client has still to send.
- `read_line` gives a line, or at the end of the stream the part of one that came,
  which the code takes for the line (`CutShort`): a request line with a part of its
  target and with or without its version, a field or none, a number made of the
  digits that came, for which any number up to the one sent stands (`PartsOf`). The
  thread's `whole` says that this has not happened; it is for the properties, and
  what is handed to the router carries it.
- `conn[c]` holds the locals of `serve_blocking_connection`: the fields of the
  head, the body read so far, the bytes or frames left, `keep_alive`.
- `loop` is the accept loop's step: the load of `ACTIVE_CONNECTIONS`, the
  addition and the spawn are separate.
- `% Word` is the width of `usize`. A `Content-Length` that does not fit counts like
  none, a chunk size that does not fit is refused; a size past half of it cannot be allocated
  and the thread panics (`died`).
- `read_exact` is one step: nobody else sees a part of it.

For `Auth`:

- `clock` counts parts of a second, because the age of a URL drops them;
  `SetClock` is time that passes and a clock that is set. `config` is the
  configuration of the run of the server, `urls` what the presigner issued.
- A signature is the record of the key and the text it was made from: HMAC and
  SHA-256 are taken to be free of collisions, and the canonical text to name its
  parts without confusion.
- A query is a sequence of parts, a parameter with a value or a flag; a flag has
  an empty value in what is signed.
- `meant` of a request is what its signer signed, for the properties only.
- The requests of clients are of four kinds: URLs as issued, URLs used for
  something else or with their signature in a header (`InHeader`), what SDKs sign
  by the rules of SigV4 in a header or in the query, and requests that are not
  signed. What an SDK signs is not the server's map of the parameters but SigV4's
  list of them (`SignerQuery`): a repeated one is in it as often as it is sent.

For `Gateway`, `ObjectKeys` and `ByteRange`:

- A text is a sequence of characters, an escape is `%` and one code for the
  byte. A path is the bucket followed by the components of the key.
- `object` is the content of the storage; directories are what objects lie in,
  as long as DELETE prunes. `cache` is the stat cache by the text `bucket/key` of
  the handlers; `Forget` is an entry that is evicted, outlives its time or goes
  with a restart.
- `meaning` is what S3 would hold under each key, which S3 knows by its very text:
  `e/a` and `e//a` are two. `holder` is the key that was last written or deleted
  at each path. Both are for the properties. Where another key of the same names
  has been at the path since (`Displaced`), the server has not what S3 would have.
- `MaxU64` is the width of the numbers of a range; sums are taken modulo it.

Steps put together: `canonicalize` of source and destination in `copy_object`
is one step, and so are an `open` and the `fstat` of a file that `fs::copy`
makes. `fs::copy` is modelled as the read-write loop it falls back to. In
`Listing` a `readdir` and the probe `subtree_has_file` are one step each, and so are
the `mkdir`s and the `open` of an upload or a copy; a directory that was made and is
still empty is one of `Vacant` there.

## 3. Runs

The runs `uploads`, `prune`, `serial_clients`, `requests_end` and those of findings 1
and 2 instantiate `MCObjectStore`. Its bucket has a directory `d` with `d/a` and
`d/b`, and `d/e` with `d/e/c`; each run takes the part it needs. The run of a
finding violates its property.

| Run | Configuration | Question |
|---|---|---|
| `uploads` | 3 requests: PUT, DELETE, GET of `d/a` and a PUT and a GET of the key `d`, whose rename and whose read fail; 2 pieces; failing sync, timeouts, clients that leave, 1 crash with power loss | Are objects replaced whole, do readers see one upload, and is it all a linearizable map? Is `ReadInv` an invariant? |
| `prune` | 3 requests: PUT and DELETE of `d/a` and `d/e/c`, DELETE of `d`, COPY of one to the other; failing write and mkdir | Does pruning respect what others put there, and is nothing left over? Is `IInv` an invariant? |
| `serial_clients` | 3 requests, everything but GET, copies both ways and onto itself, failing write, stat, rmdir; requests on one object do not overlap | Is the cache coherent and are copies whole when clients take turns? |
| `requests_end` | 2 requests of every kind, every kind of fault, timeouts, a crash; fairness only of the timer and of steps that do not touch storage | Does every request end if storage answers? Is a HEAD, GET or DELETE answered even if it never does? |
| `listing` | 7 keys around `a`, `a-` and `a/` whose order depends on the slash, initial trees of 3, an empty directory, prefixes with and without a slash, no, empty and one-byte delimiters, `max-keys` 1 and 2, markers; 2 writes or deletes, among them an upload with its temporary file | Are pages those of `reference_page` when nothing changes, do they ascend, is a key that stays listed, is nothing listed that never was, does it end? Are `ListingInv` and `PagesInv` invariants? |
| `connections` | 2 clients and a cap of 1; one sends one of twelve requests (no body, a length at and above the limit or past `usize`, chunks, chunk sizes that exceed the limit together, wrap or do not fit, `Expect`, HTTP/1.0, close, HEAD) and another of ten of them, and may break off anywhere, inside a line too; the other only connects | Does the router get what was sent, can the answers be told apart, do the limits hold, are the slots in use those of threads, does everybody get on? |
| `signed_requests` | a server with one secret, with another, on the default port, and without auth; 1 URL for a plain key or one that needs an escape; lifetimes at and above the limit; a clock of 5 seconds in halves, days of 2 seconds | Is everybody who is let in entitled to that very call, do signatures in the query lapse, and are the presigner's URLs and the SDKs' requests honoured? |
| `object_requests` | keys spelled in 10 ways, among them two keys of the same names, a path upwards, bytes that are no text, the name of a directory and a key with `%`; 6 copy sources; a bucket that is none, and one whose name runs into a key; objects of sizes 0 and 3, and 53 ranges of numbers up to 7, the last that fits, and one that does not | Do the handlers and the cache answer as S3's map would, inside the buckets? Does a range give the bytes it asks for? Does `?acl` leave the storage alone? |
| `head_races_delete` | 2 requests: HEAD and DELETE | finding 1 |
| `pruned_put` | 2 requests: PUT of `d/b`, DELETE of `d/a` | finding 2 |
| `url_in_header` | as `signed_requests` | finding 3 |
| `aborted_put` | as `connections` | finding 4 |

### Why the bounds are enough

Three requests give every ordered pair of writers a third party that reads,
deletes or prunes between their steps. Two attempts per write, the nested
directory and the two levels of pruning are all reached. Two pieces are the
least at which a file is neither empty nor whole. `TempNums` has as many numbers
as there are PUTs in a run between two crashes; a request past it waits, which
is why deadlock is not checked: a run is over when its requests are done. One
crash is enough for a name left behind to be used again. `Reqs` is symmetric in
the runs that check safety only.

In `listing` two changes take a tree of three to any of one to five files, and
meet a page twice; one key has a temporary file, which sorts before the key and
lies in a directory of its own: before and after an entry is read. Pages of one item make
every item a token once; pages of two have an item that is none. In
`connections` a second request is what shows whether the first was read and
answered to the byte; a third would repeat it. A line can be cut short in the first and in the second;
any number of digits of a number may come, and the rest of a line is one token,
of which a part is as good as another. A length or a chunk that does not fit is
sent first only, because nothing behind it is read as it was sent. With a cap of one and two
connections every order of a thread's end and the accept loop's three steps
happens.

In `signed_requests` the clock reaches every moment before, within and after the
life of a URL, less the skew and across midnight, at the second and between two;
a second URL would not meet the first. With days of two seconds a lifetime spans
a day's end. `MaxLifetime` is 2 and the clients ask for 2 and 3, `Skew` is 1:
the comparisons of the code are all there is to the numbers. The flags
of an SDK are none, one, and one given twice. In `object_requests` the
numbers of a range lie at both ends of an object, behind it, at the last one a `u64` of this
width holds, and past that; a range is asked of one key, under which there is an
object of three bytes, an empty one or none. The key `%a`, which the handlers take for
`a`, is not written here but deleted: what such a write displaces is left out of
`AnswersMap` either way. Nothing else bounds the states of this run, so every
sequence of its requests is covered, with any entry of the cache lost at any time.

### Fairness

`StorageAnswers` is weak fairness of each request's next step: tokio polls every
task that is ready, system calls return, and a client that sends a body goes on
or breaks off. It says nothing of timeouts, crashes, clients that leave or cache
losses. It is the premise of `RequestsEnd`. `HungSpec` has less: the timer of
`timeout_middleware` and the steps that await nothing. That is all
`HungStorageAnswered` rests on.

`Listing!FairSpec` has the walk run on and the client ask for the next page;
writes are not fair, and there are finitely many. `BlockingServer!FairSpec` has
threads and the accept loop run, and clients send what they have to send and
close when they are answered. The last is a real assumption: the server sets no
limit to how long a client may take, and holds its slot as long.

## 4. Findings

1. `head_object` inserts a stat taken before another request's invalidation
   (`object.rs:189` reads, `:202` writes). After a DELETE in between, HEAD
   answers 200 for a deleted object until the TTL. `config.rs:24` and
   `API.md:269` say that deletes and writes invalidate at once.
2. A PUT can be answered 500 because a DELETE of another object pruned its
   directory inside `create_dir_all`: the retry, whose comment
   (`object.rs:347`) says it prevents this, covers the `File::create` only.
3. `verify_header_auth` checks no age. A presigned URL's signature that comes in the
   `Authorization` header, with the URL's date in `x-amz-date`, stands for the same
   canonical request and is let in after the URL's lifetime. `auth/mod.rs:156`
   calls a URL valid only for `X-Amz-Expires` seconds.
4. The end of the stream counts for the end of a line and of the head
   (`blocking_http.rs:36`, `:56`, `:142`): a PUT cut off in front of or inside its
   `Content-Length`, or inside a chunk size, is handled with a shorter or no body, and is
   stored. So may its target be a part of the one that was sent. The comment at
   `object.rs:261` says that an aborted PUT never truncates.

### Known gaps

The model also reaches the following, for which no run is kept. In the first group
the code is at odds with its documents, and the property named leaves the case out in
so many words; it fails without that exception, or once the instance has the case.

- The cache key is the client's spelling, so a PUT or DELETE of `d/a` leaves the entry
  of `d//a`, against `API.md:269`. `CoherentWhenQuiet` fails once two keys have one
  `PathOf`; `AnswersMap` leaves such keys out by `Displaced`.
- Keys of the same names are one object: a GET of `e//a`, never written, is answered
  with the object `e/a` (`object.rs:92`, `:649`), where `API.md:201` has 404.
  `AnswersMap` without `Displaced` fails.
- The cache is asked before the bucket is looked for (`object.rs:168`), under the text
  `bucket/key`: a HEAD of `a` in a bucket `b/e` that does not exist is answered 200 from
  the entry of `e/a` in `b`. `API.md:324` has 404 `NoSuchBucket`.
- A GET of a key that names a directory is answered 200 and breaks on the first read
  (`object.rs:96` asks only whether `open` succeeds); HEAD answers 404, and
  `API.md:201` promises 404.
- A listing shows the temporary file of an upload under way, or of one that died, as a
  key, and counts it for its group: `read_children` (`list.rs:373`) and
  `subtree_has_file` (`:418`) filter nothing. `list.rs:174` says that an entry is an
  object or a prefix. `NothingInvented` counts such a file as there; of objects alone
  it fails.
- The canonical query is made from a map with one value of each name
  (`auth/mod.rs:225`). A request with a repeated parameter, which SigV4 signs as often as
  it is there, is refused. `README.md:18` of the repository claims full SigV4 support.
  `SignersAdmitted` leaves repeated parameters out, and fails with them.
- A `Content-Length` that does not fit a `usize` counts like none
  (`blocking_http.rs:104`): the request is handled with an empty body and its body
  read as the next request. The comment at `:120` says it fails fast. `RequestsAsSent`
  allows it of the last request of a connection.

In the second no document promises the contrary, or what it says is older than the
code or a matter of wording, or a run would ask the question of finding 1 again.

- With `RequestTimeout`, a DELETE that timed out in `remove_file` removes the
  object later and never reaches its cache invalidation: `CoherentWhenQuiet`
  fails even for clients that take turns.
- With `"copy"` in `Faults`, a COPY that fails after `fs::copy` truncated its
  destination is answered 500 without invalidating the cache entry.
- The self-copy check and the copy are separate steps. A DELETE of the object
  before the check and a PUT after it let a self-copy truncate it.
- A crash in the middle of a COPY leaves a truncated object.
- Between the `readdir` of a directory and the probe of one of its
  subdirectories, the subdirectory can be pruned and a file take its name;
  `WalkDir` then counts the file and the group `a/` is listed although no key
  was ever below it. `NothingInvented` allows it.
- A client that leaves during its PUT leaves the temporary file: no step
  removes it. One that leaves between the rename and the cache's removal leaves
  the old entry in the cache. The runs that check `NoOrphanTemps` and
  `CoherentWhenQuiet` have no such clients.
- Keys are decoded twice: axum's `Path` decodes the URL, and the handlers decode
  the result again (`object.rs:82`, `:225`). An object put under the key `%61`
  lands at `a` and replaces it; `API.md:189` has the key URL-encoded once. The
  copy source is decoded once, so a COPY of that key finds nothing.
  `AnswersMap` leaves out keys with a percent sign, and fails with them; and keys at
  whose path another key was written or deleted last, of which the first group
  says what happens.
- DELETE takes no notice of `?acl` (`object.rs:471`) and removes the object.
- The presigner signs the key as it stands (`admin.rs:55`) and the verifier the
  path as it is sent: the URL of a key that needs an escape is refused.
- The presigner signs `endpoint:port` (`admin.rs:62`); a client leaves port 80
  out of the `Host` header, and the URL is refused.
- The presigner takes any `expires`; 0 and more than 604800 make URLs that are
  refused at once (`mod.rs:158`).
- A request signed in the header may be of any date: a signature is checked for its
  age only where it comes in the query. Finding 3 is what follows for URLs.
- Where no auth is configured, a request with an expired signature in its query
  is refused all the same, and one with none is let in.
- `API.md:42` lists `Authorization: <access_key>`; `auth_middleware` knows no
  such form and refuses it.
- `API.md:195` leaves out suffix ranges, which the code has. `bytes=9-1` of a
  file of 5 bytes is answered 416 although it is malformed, and a number that
  does not fit a `u64` is answered with the whole object; RFC 9110 lets a server
  do either.
- `max-keys=0` of a bucket that has keys is answered as truncated, without a
  token to go on from.
- `API.md:147-158` says that markers and tokens are echoed only and
  `is_truncated` is fixed. The code pages; the text is older.
- Every method is handled from a head that was cut off, not PUT alone: a DELETE with a
  part of its target is one of another key. `RequestsAsSent` allows it of the last
  request of a connection.
- A thread that panics does not give its slot back (`main.rs:96` is not
  reached). One way there is the sum of `blocking_http.rs:157` when it wraps
  around in a release build: the size passes the limit and cannot be allocated.
- A response whose length is unknown and whose stream breaks ends like one that
  is complete, with the end of the connection. In this build every GET of an object
  is such a response: `get_object` sends its body as a stream (`object.rs:129`,
  `:147`), of which `main.rs` knows no exact size. `AnswersFramed` has both kinds.
- A PUT whose object is deleted between its rename and its `stat` is answered 500
  though it took effect (`object.rs:329`). `ImplementsMap` permits it.

## 5. What is proved

`ObjectStoreProofs` proves, for every tree, every set of calls and any number
of requests, from the assumptions named in `Storage` and `ObjectStore`:

- `TypeCorrect`: `Spec => []TypeOK`. `TypeOK` is inductive by itself because it
  includes `LocalsSet`, which says which locals a request has at each `pc`:
  without it a step could use a handle or a name that was never set.
- `TreeStaysClosed`: `Spec => []TreeClosed`. Everything that exists lies in a
  directory that exists. It is inductive given `TypeOK`. The argument groups the
  steps by what they do to the tree: those that fill an entry do so only where
  the directory above it is there at that very step (`FillKeepsTree`), those
  that empty one empty a file or a directory that has nothing in it
  (`FreeKeepsTree`), and a rename does both.

Each lemma treats one action, or one operator that several actions share
(`Goto`, `Answer`, `EnsureParent`, `OpenTrunc`, `WritePiece`, `PruneFrom`).

The same module proves what PUT promises:

- `UploadsStayPrivate`: `Spec => []UploadsPrivate`, without further
  assumptions: two uploads under way never write to one temporary file.
- `Inductive`: `Spec => []IInv`, if a server that may lose power syncs
  (`PowerLoss => Fsync`).
- `ObjectsStayWhole`: `Spec => []ObjectsWhole`, from `IInv`.
- `UploadsReplaceWhole`: `Spec => ObjectsReplacedWhole`, if there is no COPY,
  which fills its destination in place.
- `UploadsTidyUp`: `Spec => []NoOrphanTemps`, if no client takes its handler
  with it and `remove_file` of a file that is there does not fail. `TempsOwned`
  carries it: a temporary file is that of an upload under way. Such a file comes
  from the open of its upload only (`TempsOpened`), and the upload ends in its
  rename or in the removal (`UploadGoesOn`), which finds the file because
  `WritersApart` says that the name still links what the upload wrote.

`ObjectsWhole` is not inductive: it says nothing of the file that the next
rename puts in place. `IInv` adds, in named parts, that a request which has not
opened its file owns an inode that is linked nowhere (`FreshInodes`), that the
numbers given out are below the counter and differ among the uploads under way
(`NamesTaken`), that no file has two names (`OneName`), that what a writer has
written is a prefix of its payload (`Progress`), and that an upload which comes
to its rename with power to lose has synced (`UploadsProgress`). A crash resets
the counter while old names stay; the proof rests there on `O_TRUNC` reusing
the inode of a name nobody holds any more.

The steps fall in two groups. A mild one takes no name, opens no file and
writes nothing; one lemma covers all of them (`Mild`, `Kept`). The others have a
lemma each: taking a name, opening, writing, flushing, syncing, renaming, the
crash.

`ObjectStoreQuietProofs` proves what is left when no request is under way:

- `CacheStaysCoherent`: `Spec => []CoherentWhenQuiet`, if requests on one
  object take turns. `TurnsInv` says that then an object changes only by the steps
  of the request in hand, and `CacheRight` that an entry is what the file system would
  answer, but for the key of a PUT, COPY or DELETE that has changed the file and
  has not come to its `uncache` (`Dirty`). The other hypotheses are
  the ways in which the code does leave a stale entry: a client that disconnects
  takes the handler before the invalidation, a timeout leaves a removal that
  happens later, a COPY that breaks off has written part of the object, and
  the keys `a/b` and `a//b` each have an entry for one file.
- `CopiesStayWhole`: `Spec => []CopiesWholeWhenQuiet`, for requests that take
  turns, with timeouts. `CopyProgress` says that the open destination of a COPY holds a
  prefix of its source, which nobody else writes meanwhile. The hypotheses are
  again what leaves a part: a COPY broken off by its client, an error or a crash.
- `NoSkeletonStays`: `Spec => []NoSkeleton`, for any interleaving. `NoSkeleton` speaks
  of histories in which every request was answered, and none with 500 or 504: of what
  failures, timeouts, disconnects and crashes under a request leave behind it says
  nothing. `SkeletonInv` says that for an empty directory there is a
  request to see to it (`SeenTo`): one that has made it and will make or open
  something in it (`Fills`), one whose walk up has still to come to it
  (`Prunes`), a removal that a timeout left to be done, or one that failed, and
  then the server does not promise anything. The delicate step is a failed `rmdir`
  of the walk: it stops because something is in the directory, and whoever empties
  it again walks from there. The hypotheses leave out an `rmdir` that is refused
  for another reason and directories that were empty before the server started.

`GatewayProofs` proves of `Gateway`, for any calls, with buckets, keys and copy
sources of any length and spelling, every `MaxU64` and every size of a
directory, all properties that its run checks:

- `RangesAsAsked`: `Spec => []RangeAsAsked`, inductive together with
  `SizesKnown`, which says that every object has a size the width of the numbers
  holds: without it `size - 1` and the sum modulo the width would not be what
  they seem. Three lemmas about `ParseRange`, one for each of its results, carry
  the arithmetic.
- `StayInside`: `Spec => []InsideBuckets`. `Components` never returns an empty
  name or `.` (`ComponentsTyped`), and `SafeJoin` returns none that is `..`
  (`Joins`), whatever two decodings make of a URL.
- `HandlersAreMap`: `Spec => []AnswersMap`, from `MapInv`: `HoldersHold` says that
  under the key last written or deleted at a path S3 would hold what is there, and that
  its entry in the cache, if it has one, is of just that; `ObjectsWritten`,
  `KeysWritten` and `EntriesWritten` say that every object, every key that S3 holds and
  every entry has such a path. Four facts about
  texts carry it. A plain text decodes to itself (`PlainUnescaped`, `Decoded`), so a plain key
  lies where its names say (`PlainPlace`); where `Refusal` lets a request pass, the
  handler's path and entry are those of the key the client means (`Passed`); the text of
  an entry is of one bucket and one key, because a bucket's name has no slash (`Apart`);
  and `parse_copy_source` gives back what a source joins (`SplitsSource`). They go by the
  functions that read a text character by character (`UnescapedIs`, `ComponentsIs`, from
  `Recursion` and `Carried` of `SequenceInduction`). `BucketAssumption` has the buckets'
  names without a slash; `TextAssumption` says that requests are made of text and that
  `from` is what the client means by its copy source: the source, decoded once, joins
  the two, or names no object.
- `AclWritesNothing`: `Spec => AclNeverWrites`.

`ObjectStoreRefinementProofs` proves what readers get where clients do not COPY:

- `ReadersHoldPublished`: `Spec => []ReadInv`. A file is published when it is the
  whole of an upload, synced if power may fail, and no upload links, writes or is
  going to create it (`Published`). An object's file is published because it has
  no second name (`ObjectPublished`), and a published file stays as it is through
  every step of every request and through a crash, whatever becomes of its name
  (`StaysPublished`). `ReadInv` says that what a GET holds open is published,
  that it announced that file and what it has streamed of it; and at which steps
  a request of each kind can be.
- `ReadsStayConsistent`: `Spec => []GetConsistent`, from `ReadInv`.
- `HandlersImplementMap`: `Spec => ImplementsMap`, where nobody asks for COPY or
  HEAD, `Chunks > 0` (an empty payload is not told from another) and neither
  `open` nor `unlink` of a file that is there fails: the code answers such a
  failure 404 and 204, and then the map of objects is not what the answers say.
  The instants are the rename of a PUT, the unlink of a DELETE, late or not,
  and the open of a GET.

The simulation has a lemma per action, or per group of actions that leave a
request in the same way (`PutMoves`, `DeleteMoves`, `HeadMoves`: it goes on to a
step or is answered). The lemmas `AsInvoke` to `AsTakeLate` say when a change of
the mapped calls and objects is an action of `ObjectMap`. `ObjectKept` and
`ViewStays` say that nothing else changes: both come down to `StaysPublished`.

`BlockingServerProofs` proves of the blocking server, for any number of connections, any cap, limit and width of `usize`:

- `Types`: `Spec => []TypeOK`.
- `Slots`: `Spec => []SlotsAccountedFor`, from `SlotInv`. The count is the number
  of threads that run or died of a panic, plus the slot the accept loop has taken for the one it is about to
  spawn; only that loop raises it, so the cap it read a step before still holds.
- `InOrderAndWhole`: `Spec => []RequestsAsSent`, and `LimitAlone`:
  `Spec => []LimitDecides`, from `StreamInv`: what was handed on, what the thread
  has read of the request in hand, what is on the wire and what the client has
  still to send make up its script, as long as no line was cut short. Once one was,
  the client is gone, nothing more is on the wire, and what comes of the request is a
  part of it (`CutReading`, `WholeOrCut`).
  They assume that a body of `MaxBody` can be allocated, `MaxBody < Word \div 2`
  (`ServerAssumption`), and that clients send requests of the kinds of `Request`
  (`ScriptsAssumption`).
- `FramesWhereAnnounced`: `Spec => []AnswersFramed`, from `StreamInv` and
  `FrameInv`. There are as many heads as requests answered; between two answers
  the last one is complete (`Complete`), inside one the frames sent and those
  left make up what its head announces, or the connection is not to be kept
  (`UnderWay`). So what is written next is where a client looks for it:
  `DataFramed` says so of a frame of a body, `HeadFramed` of a head or an interim
  response.

What the scripts and bodies are is a matter of sequences of any length. The
library's induction takes an operator as a parameter, which the provers cannot
instantiate; `SequenceInduction` goes by the set of the lengths for which a fact
holds instead.

`AuthProofs` proves of `Auth`, for any configurations, clock and calls, any
number of URLs and restarts:

- `Types`: `Spec => []TypeOK`.
- `EntitledOnly`: `Spec => []LetInByRight`. A kept URL was issued by a server with
  a key pair, for a call that was asked for (`Typed`); a signature that
  verifies was made from the very text the server rebuilds, because `Mac` has no
  collisions, and so for the request that carries it (`Entitled`).
- `Lapse`, `Honoured`, `Admitted`: `Spec => []` of `UrlsLapse`,
  `PresignedHonoured` and `SignersAdmitted`. The first is of signatures in the query
  and the last of requests without repeated parameters: of a signature in the header
  finding 3 shows the contrary, and repeated parameters are among the known gaps. `ConfigAssumption`,
  `TimeAssumption` and `MalformedAssumption` say what a configuration, a clock
  and a malformed parameter are.

`ListingProofs` proves of `Listing`, for any finite bucket of keys without empty
components, any prefixes, delimiters, page sizes and markers, and any number of
writes:

- `ListingIsRight`: `Spec => []ListingInv`, which is inductive.
- `PagesGoUp`: `Spec => []PagesAscend`.
- `NothingIsInvented`: `Spec => []NothingInvented`, in which a temporary file is as
  good as an object.
- `NothingIsMissed`: `Spec => []NothingMissed`, from `PagesInv`, if no page is
  asked to be empty. `max-keys=0` ends a listing that is not at its end (see the
  known gaps), and `PagesInv` fails with it.
- `PagesMatch`: `Spec => []PageMatches`.

`ListingInv` says of the walk what its comments say of the order. The entries
left on the stack go up from the last level to the first, and all that lies
below an entry is before the next one (`Ordered`); the items go up too, and
everything left is behind them (`OrderRight`). That a directory is named with
its slash is what this rests on: of two entries of one directory the smaller, if
it is a directory, does not begin the greater (`SiblingsAhead`), and then
everything below it stays before (`BlockBelow`). A group that is listed is among
those seen and is not listed again (`SeenRight`), and an item before an entry is
before the group of the entry, if it is not that group (`GroupNext`).

That nothing is missed is `OwedInv`: each key the page owes is listed, or an
entry on the stack stands for it, being the key or a directory above it
(`ToCome`). Every way in which `collect_entries` drops an entry has to be paid
for (`Pays`): a settled entry is in a group already seen (`SeenPays`), a
directory passed over holds nothing with the prefix and behind the token
(`MayContainOwed`), one that collapses is listed as what all its keys are listed
as, one that is entered has on the next level an entry toward the key
(`LeadsTo`), and a directory that is left in the middle lies in the group as a
whole (`GroupGoesOn`). The keys owed are those there all the time, and as long
as nothing changes those there at the beginning of the page (`Sure`); so the
same invariant gives `NothingMissed` and, together with the order, the page of
`reference_page` item by item (`ItemsMatch`): both are sorted, and an element of a
sorted set is found by how many come before it (`SortedIs`).

Induction over data is needed in few places. `Less` and `Grouped` are defined by a
first place and not by recursion; `Normalised`, a recursive function, is the identity
on the prefixes of keys (`NormalisedPlain`); `Sorted` is defined by rank, which
is the order `sort_by` leaves names in that all differ.

Only model-checked are the liveness properties: `RequestsEnd`,
`HungStorageAnswered`, `ConnectionsEnd` and `ListingEnds`. The prover has no
rules for fairness or `ENABLED`. Every safety property that a run checks is a
theorem, under the hypotheses named here.

## 6. What is not modelled

- Keys that resolve to the bucket's own directory, clients that name temporary
  files, symbolic and hard links, other writers on the same directory.
- Response headers, the XML of answers and of errors.
- HEAD and COPY in the refinement: HEAD may be answered from the cache, COPY
  shows its intermediate states. Nor are I/O errors of `remove_file` and
  `File::open`, which `delete_object` answers 204 and `get_object` 404. A GET
  of a directory, answered 200 and broken off, counts there as a call that
  failed.
- That a directory entry needs a sync of its directory to survive a power
  failure; `put_object` does not sync it.
- In `Listing`: '.' components, dates, sizes, ETags, XML and URL encoding.
- In `BlockingServer`: bytes of a body that read like a request where the length of the
  body was taken for none, heads that are malformed and values that do not parse,
  targets that are no URI, an `accept` that fails (the loop goes on), a thread
  that cannot be spawned (the process ends).
- In `Auth`: the text of credentials and of the canonical request, the `+` of
  a query, headers that repeat, other header names than those SDKs sign.
- In `Gateway`: `prune_empty_dirs: false`, whose empty directories stay in the
  way of uploads to their names; read and write errors (`ObjectStore` has them).
- `list_buckets`, which formats the configuration; error bodies (`error.rs`),
  the API description (`openapi.rs`) and the platform shims, which have no state.

## 7. Plan

Done: the modules of section 2 and the proofs of section 5. What would say more:

1. A durability module, in which a power failure undoes directory changes that no
   `fsync` of the directory covers: what an acknowledged PUT is worth then.
2. HEAD in the refinement of `ObjectMap`, with an abstract cache beside the map.
3. Bounds that stand in for the liveness properties, as a count that every step
   of a walk or of a connection lowers, and that the prover can reach.
