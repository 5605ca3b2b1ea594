# A TLA+ model of reveldb

reveldb is an HTTP key-value server on top of leveldb. This directory holds TLA+
modules of its own logic, the TLC configurations that check them on small
instances, and TLAPS proofs of what holds for every instance. Paths below are
relative to the repository's root.

## 1. Inventory

| part | source | state it keeps | operations |
|---|---|---|---|
| server | `src/server.c` | pid file, the process globals | start, open the default database, run the loop |
| registry and instances | `src/reveldb.c`, `src/engine/xleveldb.c` | a red-black tree of instances by name; per instance the leveldb handle, options and one error slot | init, search, insert, free; open, destroy, reset error |
| command interface | `src/rpc.c` | none of its own | about 60 handlers: testing, admin, CRUD, counters, scans, iterators, snapshots, write batches |
| session objects | `src/iter.c`, `src/snapshot.c`, `src/writebatch.c` | three trees of objects by uuid, each pointing into an instance | new, use, free |
| REST interface | `src/rest.c` | none of its own | a second front end with 13 of the handlers; compiled, never started by `main` |
| HTTP library | `src/evhttpx/` | connections, requests, parser state; tables of callbacks and virtual hosts | accept, read, dispatch, reply, pause and resume |
| thread pool | `src/evhttpx/evthr/evthr.c` | per thread a command pipe, a backlog counter, locks | defer, stop, run |
| configuration | `src/xconfig.c` | the configuration record | strip comments, parse, free |
| JSON | `src/cJSON.c` | a document as a tree of items | parse, print, look up, add |
| strings and numbers | `src/tstring.c`, `src/utility.c` | a string in its block of memory | edit, grow, convert |
| trees and identifiers | `src/rbtree.c`, `src/splaytree.c`, `src/uuid/` | ordered trees | insert, erase, look up |
| log | `src/log.c` | | output |
| vendored | `src/regex/`, `src/nedmalloc/`, `src/zmalloc.c`, `src/vasprintf.c` | | third-party code |

**How the parts interact.** `main` opens the default database, registers every
`/rpc/...` callback and runs one libevent loop. The call that would start a
thread pool (`src/rpc.c:5134`) is commented out, so every handler runs to
completion before the next one starts; concurrency between requests is the
order in which whole handlers run. What makes the server hard to test is state
that handlers leave to later handlers: the registry, the handle behind a name,
and `instance->err`, one error slot per instance that leveldb's C interface
fills and never clears, that most handlers read after their own call and only
some reset. Handlers that make several engine calls can be cut short when the
process dies. Iterators, snapshots and batches are pointers into an instance
that a destroy takes away.

**What has to be right**, per part:

- registry and instances: a name is found iff it was registered; an instance
  that can be reached has its files; nothing is open twice on one path;
- reading and writing: what a reply says is what happened, in terms a client
  can use (done, refused, unknown); no request touches another key or database;
  a failure is reported for the request that failed;
- session objects: never used after their instance is closed; a scan sees the
  database as it was when it began;
- counters: moved by exactly one step, and readable again, at the limits too;
- thread pool: every accepted job runs once and no refused one does; the counter
  that spreads jobs is the work there is; stopping it loses and blocks nothing;
- HTTP library: every request of a client that waits is answered once, from
  itself, to the callback that was set for it;
- trees, strings, documents: as dictionaries, as texts, and read back from what
  was written.

## 2. Modules

| module | what it models |
|---|---|
| `KVTypes` | databases as partial maps from keys to values, requests |
| `KVService` | abstract: what a client may rely on, told by the `code` of a reply |
| `RevelStore` | detailed: registry, handles, error slots, process death, 19 handlers of `src/rpc.c`, the start in `main` |
| `RevelRest` | extends `RevelStore` with the handlers of `src/rest.c` |
| `RevelBatches` | extends `RevelStore` with the write batches of `src/writebatch.c` and their handlers |
| `RevelCursors` | extends `RevelStore` with the iterators and snapshots of `src/iter.c`, `src/snapshot.c` and their handlers |
| `RevelScans` | extends `RevelCursors` with range, the regular expressions, the similarity searches, and the handlers that test and ask |
| `RevelCounters`, `Numerals` | extends `RevelStore` with incr and decr; texts as integers of a width, and back |
| `JobService` | abstract: what a caller of the thread pool relies on |
| `EvThr` | detailed: main, callers and workers of `src/evhttpx/evthr/evthr.c`, step by step |
| `HttpService` | abstract: what a client that waits for its answers relies on |
| `HttpParser` | the state machine of `httpparser/http-parser.c` for requests, symbol by symbol |
| `HttpConnection` | detailed: one connection of `src/evhttpx/evhttpx.c`, its hooks, callbacks and replies |
| `HttpMessages` | what a message says when it is read alone, and the assumption that good ones are understood |
| `Routing` | the tables of callbacks and virtual hosts, and their lookup |
| `Dictionary` | abstract: a set of keys and what a lookup in it says |
| `RbTree`, `SplayTree` | detailed: `src/rbtree.c` with its users, `src/splaytree.c` |
| `TextBuffer`, `TString` | abstract: a text; detailed: `src/tstring.c` in its block of memory |
| `JsonText`, `Documents` | the parser and printers of `src/cJSON.c`; documents that grow and are read back |
| `QueryText`, `Replies`, `Exchange` | queries and their escapes, the texts of all replies, a value on its way to the server and back |
| `Config` | from the configuration file to the listeners: `src/xconfig.c`, the start in `src/rpc.c` |
| `...Proofs` | theorems about the module they are named after; `RevelServiceProofs`: the store, its service and the REST interface; `RevelCursorsProofs`: also `RevelScans`; `EvThrProofs`: also `JobService`; `RevelCountersProofs`: also `Numerals`; `TStringProofs`: also `TextBuffer`; `HttpConnectionProofs`: also `HttpParser` and `HttpMessages` |
| `MC...` | constants of the runs; `MCLibrary` runs seven of the small parts |

```
KVTypes --- KVService <= = refined by = = RevelStore --- RevelRest
                                         /    |     \
                            RevelBatches  RevelCursors  RevelCounters --- Numerals
                                              |                              |
                                          RevelScans ------------------------+

JobService  <= = refined by = = EvThr
HttpService <= = refined by = = HttpConnection --- HttpParser
                                     |
                                HttpMessages
Dictionary  <= = refined by = = RbTree, SplayTree
TextBuffer  <= = refined by = = TString
JsonText --- Documents, Config, Replies --- Exchange --- QueryText
```

**RevelStore.** Six variables: `proc` (is the process up), per database `handle`
(not registered / open / closed / NULL), `err` (is `instance->err` set), `leaked`
(an instance that `reveldb_insert_db` refused still holds the path's lock) and
`disk` (what leveldb stores), and `reply` (the last request with the `code` of
its JSON body and the pairs it carries; the HTTP status, which some handlers
leave at 200 beside a body that says 500, is left out). One action is one
handler, from its parameter checks to the reply, because the loop runs one
handler at a time. The handlers fall into shapes that are written once:
`NoSuchDb` (the lookup fails), `BadHandle` (the handle is NULL or closed: the
engine call faults and the process dies), `Miss` (`leveldb_get` returned
nothing), `WriteAndReset` (set, add, del, cas, batch commit), `WriteAndKeep`
(append, prepend, insert, replace), `Batch` (mset, mdel). mset, mdel, mseize and
remove also have an action in which the process dies inside the loop, after some
of its engine calls. The handlers of lists touch the handle inside the loop only: with
no keys they answer 200 whatever the handle is (`NoKeys`), so `BadHandle` counts for
a list with a key (`ListNotServed`).

leveldb is external and modelled from its C interface as this code uses it: a
call may report an error when `EngineFaults` is set; an error fills the slot, a
success leaves it alone; a write that reports an error has not been applied; one
instance may be open per path; `leveldb_destroy_db` may remove the files and
report an error; `leveldb_repair_db` may drop keys. `leveldb_open` is handed an
uninitialised error pointer (`src/engine/xleveldb.c:87`): when it fails the
process may die or go on with a NULL handle, and both are modelled. After
`leveldb_repair_db` on a database that is open, later writes of the live
instance can be lost at the next start; the model does not follow this.

The quiet parameter only changes the text of a reply and is left out. A value is
a sequence of chunks, a key a natural number in leveldb's order.

**KVService** has one step per reply. A 2xx means the request took effect as a
whole, a 4xx that it did not, a 500 or a missing reply that a prefix of it may
have. With `EngineFaults` clear the sweeping requests (mseize, remove) must sweep
everything and mget must return everything. A 2xx tells that the database is there only
if the request asked something of it: a list without keys (`AsksNothing`) is
acknowledged also where the files are gone. The refinement maps `kv` to `disk`:
registry, handles, error slots and restarts disappear.

**RevelBatches.** `batches` holds, per uuid, the keys and values collected by put
and del (a delete is a put of `Absent`). A batch is collected over several
requests and written by one engine call; commit writes it to whatever database
the commit names, and leaves it in the tree, so it can be committed again after
a 500 or to a second database. It is lost with the process. destroy reads the
id from the parameter `iter`. `asked` is history, not state of the program: the
last wish of the client per key since the batch was made or cleared. `told` is
the last batch request, its id and its code.

**RevelCursors.** leveldb gives a reader the version of a database at a sequence
number; `past` lists, per database, the contents after each write since it was
opened, and a snapshot or iterator is an index into it. An iterator also has its
position, and `live` says whether the instance it points into is still open:
destroy closes the instance and leaves snapshots and iterators behind, so a
release, move or kv of one that is not live may kill the process. `own` says
that an iterator was made with no snapshot or with one of its own database; a
snapshot of another database gives a number leveldb never promised anything
about, and such reads return the value of any version (`AnyVersion`) and such
moves end at any position. A step of an iterator that stands on no pair
(`Lost`) is outside leveldb's interface and ends the process: leveldb asserts
that the iterator is valid and, without the assertion, follows the null position
of one that is not. `saw` (contents when the object was made) and `scan` (keys
stood on since iter first) are history. A get through a snapshot may fail
(`ReadFails`): it fills the error slot and is answered 404, as if the key were not there
(`src/rpc.c:2037`). Three things are left out: the free before `rb_erase` in the destroy
functions, taken with its intended outcome; lengths beyond 32 bits; and an iterator's
own read errors, which end a scan early and which the code never asks for
(`leveldb_iter_get_error` is called nowhere), so `ScanSeesAll` and `ScansAreFrozen` speak
of scans whose reads succeed.

**RevelRest.** rest.c takes its arguments from a URI or a JSON body and calls
the same engine functions as rpc.c. Each handler is an action on the variables of
`RevelStore`, put together from the same shapes; where it differs from its twin
(missing parameters, the order of the checks, what is refused) the action has a
disjunct of its own. `RestSpec` is the specification the `store_keys` run uses,
with both front ends on one registry.

**RevelCounters.** A value is read by `safe_strntoll` and `strtoll`, moved, and
printed by `sprintf`. `Digits`, `Minus` and `Space` are the characters of
`Numerals`; `MaxLL` is the largest long long, `MaxUInt` the largest unsigned int (what
`RevelScans` cuts a limit to), and a number out of range is
cut to the limit as strtoll does. `NumberBuf` is the buffer of 64 bytes: a longer
value is copied past its end and the process is taken to die. `safe_strntoll`
reads one byte past a value that is not terminated; the byte is not modelled.

**RevelScans.** None of these handlers changes a database; each is a step that
leaves the variables of `RevelCursors` alone or ends the process. `seen` is the
request and what it was answered. A pattern is the set of keys or values it
matches (the regular expressions of glibc are external) or one that does not
compile, which faults at the first text. `Distance` is what `_rpc_levenshtein`
computes: its first loop compares a character with itself, so it consumes the
shorter text whole. `similar` reads keys for values. clear, sync, report and
status have no statement: `Unanswered`.

**EvThr.** Every step is a stretch of code with one access to what other threads
can see: the backlog, a pipe, the lock `rlock`. `main` starts the threads (a
creation may fail, and nobody looks), ends the event loop when no call is under
way, writes the stop commands, and frees what the threads share. A caller goes
through `evthr_pool_defer`: it scans for a thread with the least backlog
(one thread per step), checks the bound, counts under the lock, sends, and takes its
count back when the pipe is full. A worker reads a command, runs the callback,
which counts the connection a second time until it closes, and takes one off
for every command, the stop command too. A read may fail (`Faults`); the worker
then sets its backlog to -1 and frees itself while the pool still lists it.
Reading freed memory is undefined and taken as the death of the process
(`Crash`). The mutex `lock` is only taken by its own thread, so its trylock always
succeeds and it is left out. `answer` and `ran` are history. `max_backlog` is
a parameter here; evhttpx.c never sets it.

**HttpParser, HttpConnection.** A text is a sequence of symbols: a character the
parser looks at alone, or a word it only compares or copies; `Symbols` are those that
may be sent. `HttpParser` is the
switch of `http_parser_run`; a step of it is one symbol, or one of its hooks.
`HttpConnection` holds what evhttpx.c keeps of a connection: the request, the
output, the virtual host, the flags, the counters. The network delivers what
was sent in pieces of any length (`Read` cuts anywhere). A callback answers now, later,
in chunks, never, or takes the connection. What the parser keeps between
requests is what the code keeps: `NewParser` is applied where
`http_parser_init` is called, no earlier. The code writes bodies and headers
through evbuffers, which are external and modelled as what is written and not
yet drained (`out`). Modelling it showed, among others:

- a request pipelined behind one with arguments is parsed with the offset of the
  arguments of the first and a NULL uri: the process dies; a pipelined request
  also keeps the virtual host of the one before;
- HTTP/0.9 and `http://h:80` leave the uri NULL, and the hooks use it;
- a pause on the last symbol of a read is lost, and so is an error: the
  connection stays open and the parser goes on behind the error;
- the limit of requests per connection closes it after a reply that promised to
  keep it; a reply to a multipart request has no length, so its end cannot be told;
- a request that is never answered blocks its connection;
- a second `?` in a URI runs the hook for the path again; an absolute URI
  without anything behind its path goes to the default callback; a request
  without headers gets no keep-alive; the body of a form is never used as a query,
  since its length has been counted down to 0 when it is asked for.

`HttpImplemented` makes its promise to a client that waits for each answer and
sends well-formed requests; `waived` is history and says that it did not, or that
a user hook refused. The cases above that break the promise are those
`CrashesAreKnown`, `RepliesDelimited` and `ClosesWhenAsked` except.

Which messages are well-formed (`good`) is said of each message of the run, and
`HttpMessages` says what that means: a reader with a new parser takes the text in one
symbol at a time, runs the hooks as if every one let the message pass (`Seen`), and
ends, at the last symbol and no earlier, with one whole request that has the path,
arguments, body and callback the message is meant to have (`Understood`). `GoodMessages`
assumes this of the good ones; TLC evaluates it for the messages of the run. It says
nothing of cuts, pauses, refusing hooks, bodies taken in several symbols at once,
requests after one another, or answers: that these make no difference is what the run
checks and the proofs show.

**The library.** `RbTree` keeps nodes with colours, parents and children as
`src/rbtree.c` does, under the insert and search loops of its users; an object is
freed before its node is erased (`src/rpc.c:4335`), which a single thread survives,
and the model erases what it links to. `SplayTree` is the top-down tree with
sizes. `TString` is the string with its `allocated_len`: bytes that were never written are
`Junk`, a position behind the end of a string is clamped or refused as the code
does it, text inserted into a string may come from the string itself. `JsonText`
parses and prints texts byte by byte, `Replies` has the formats of all replies. An error
repeats the pairs of the query (not of a body), and takes a value that `safe_strtoul`
accepts through an unsigned int (`src/rpc.c:121`): `07` is echoed as 7 and 4294967296 as
0. The sample replies at `src/rpc.c:425` and in `doc/response-on-error.json` show the
strings the client sent (`"expires": "3600"`); `ReplyReadsBack` asks of an echoed numeral
no more than that the number is what it spells, up to the width.
`Config` follows the configuration file from its bytes to the array of 32 ports
and the listeners; a member that is missing is dereferenced and ends the process.
`Routing` has the tables of callbacks and virtual hosts, and the pattern matcher.

## 3. Runs

| run | instance | checks |
|---|---|---|
| `store_keys` | both front ends, 1 database, 2 keys, values up to 2 chunks, failing engine | `KVImplemented`, `ReportedErrorIsReset`, `TypeOK` |
| `store_admin` | 2 databases, 1 key, failing engine | `OpenHasFiles`, `LeakIsUnusable`, `KVImplemented` |
| `store_healthy` | 2 databases, 2 keys, engine without errors | `HealthyStore`, `NotFoundIsTrue`, `KVImplemented` |
| `batches` | 2 databases, 1 key, 1 batch, failing engine | `BatchTypeOK`, `CommitTakesBatch`, `KVImplemented` |
| `cursors` | 1 database, 2 keys, 3 versions, 1 iterator, 1 snapshot, failing engine | `CursorTypeOK`, `ViewIsFrozen`, `StandsOnAPair`, `ScanSeesAll`, `AnswersAreFrozen` |
| `counters` | 1 counter, long longs from -4 to 3, 3 digits, failing engine | `CountsOnce`, `CountsAgain` |
| `scans` | 1 database, 2 keys, 3 versions, 1 snapshot, failing engine | `ScansAreFrozen`, `RangeShowsWhatRemoveTakes` |
| `pool` | 2 workers, 2 callers, 3 jobs, pipes of 1, bound 1, failing reads and creations | `EvThrTypeOK`, `BacklogIsWork`, `BacklogBounded`, `Drained`, `JobsImplemented`, `CrashesAreKnown`, `AcceptedJobsRun`, `CallsReturn`, `StopEnds` |
| `connection` | 2 requests of 17 kinds, cut anywhere, hooks that pause and refuse | `HttpTypeOK`, `RepliesDelimited`, `CrashesAreKnown`, `HttpImplemented`, `ClosesWhenAsked`, `AnswersCome` |
| `library` | seven small parts, one moving in a behaviour | `TreesAreSound`, `LookupsAreRight`, `StringsImplemented`, `TextsReadBack` |
| `claim_remove` | 1 database, 2 keys | remove is no single-key operation |
| `claim_config` | 2 files with a comment | a commented configuration ends the server |

What the properties say, in the client's terms: `KVImplemented` - a code can be
trusted, across failing engine calls, stale error slots, unusable handles and
restarts; `ReportedErrorIsReset` - a 500 is paid for once (not so in the append
family, which the property leaves out); `HealthyStore`, `NotFoundIsTrue` - all
trouble starts with the engine; `CommitTakesBatch` - a commit leaves the last
wish per key, or nothing; `ViewIsFrozen`, `AnswersAreFrozen`, `ScansAreFrozen` -
snapshots, iterators and scans read the past, and a get through a snapshot denies a key
it has only when a read failed and the error slot tells; `ScanSeesAll` - first and next miss
nothing; `CountsOnce`, `CountsAgain` - a counter moves by one step of the
request, modulo its width, and can be read again; `BacklogIsWork` - the counter that
places jobs is the work of its thread, at every moment; `BacklogBounded` - how far
concurrent callers overshoot the bound; `JobsImplemented` - accepted jobs run
once, refused ones never; `AcceptedJobsRun`, `CallsReturn`, `StopEnds` - nobody waits
for ever; `HttpImplemented`, `AnswersCome` - each request gets its own answer, and gets it;
`TextsReadBack` - documents, values in replies and configurations without comments are
read back as they were meant, the numerals echoed in errors up to their width, a star in
a configuration twice.

**Bounds.** `MaxLen` caps how long append may grow a value; `Words` are the
values a request carries; `KeyLists` names the key arrays of multi-key requests
(empty, one key, two keys, one key twice) and, in `batches`, what a batch may
collect: nothing, one key, the same key twice, which is enough to tell the last
put from the first and a delete from a put. `cursors` and `scans` use no
multi-key requests (`NoLists`). `MaxVersions` bounds the writes between two
starts: with three, a pair can be written, seen and removed (or removed and
written again) under one iterator. `StepCounts` holds a step of 0 and of 2, with
next as a step of 1; with two keys a step of 2 ends on the second key, on the end or
past it. `BatchIds`, `IterIds`, `SnapIds` have one id each: objects do not
interact, except a snapshot with an iterator made from it. Two keys separate the
key a handler names from one it must not touch, and give a range with an end
inside it; two chunks tell append from prepend from insert; two databases tell a
handler of one from the state of the other. Restart needs no bound, since
everything but `disk` returns to its initial value. Engine faults in
`cursors` and `scans` leave handles that cannot be used, under objects made before.

`counters`: digits are 0, 1, 2 and the largest long long is 3, so it runs from -4 to 3
and texts of two digits lie on both sides of its limits; inputs hold a number, one with
spaces, one with text behind it, one out of range, one as long as the buffer
(`NumberBuf` is 5) and texts that are no number. `scans`: patterns match one value, two
or none; distances are a number, none, and one that is cut to the width. `pool`: pipes
of one command fill up, two callers race for a thread, a third job meets a bound of one;
with two threads the search prefers one to the other and one may fail while the other
works. `connection`: the messages are every shape the code tells apart (a query, a form
for a virtual host, chunks with an expected 100, multipart, HTTP/1.0, a close, one that
is never answered, an upgrade, absolute URIs, six malformed ones, two too large); two
are enough for everything that one request leaves to the next, and `MaxKeepalive` is
two. The hooks that may return anything are those on the host name, on the end of the
headers, on a read and on accept; those on the path and on single headers return OK in
the run. `library`: eight nodes and six keys reach every rotation of both trees; strings
of up to four bytes in blocks of up to eight (bytes of wide characters are put in and
not edited further); documents of four items (two to a list); queries of up to two pairs
whose values are one or two of eight kinds of byte, sent with every byte but letters and
digits or hyphens escaped, and nine numerals on both sides of an unsigned int of five bits
and a long of seven (`MaxUInt`, `MaxLong`); thirty configurations without comments and
with one star at most (a second would leave the block that takes the text), with a `MaxPorts` of two (32 in
the code and in `claim_config`); patterns of up to three characters over two letters and
a star, two callbacks, three servers, one alias.

**View.** The runs of cursors and scans identify states that differ only in
`reply`, `told` and `seen` (`VIEW WithoutAnswers`). No guard and no invariant reads
them, so states that agree on the rest have the same successors; action
properties read them in the step that sets them, and TLC checks these on every
step it generates. `library` does the same with last answers, with what
erased nodes point at, and with the bytes behind a string's end.

**Fairness.** `pool` assumes weak fairness of main's start and stop, of every
caller inside `evthr_pool_defer` and of every worker's own steps: threads of an
operating system are scheduled. It does not assume that a call is made, that the
server is stopped, that a connection is closed, or that a read fails. `connection`
assumes weak fairness of the event loop (parser and hooks), of reading and writing on a
socket, and that the application resumes what it paused and answers what it took
on; a client need not send. Requests to the callbacks that never answer are excepted from
`AnswersCome` by name (`silent`): clear, sync, report and status are such callbacks.
Every other property is a safety property and needs no fairness.

**Deadlock** is checked in every run but `library` and `claim_config`, where a
server that has read its configuration rests or has ended. In `pool` the
action `Finished` marks the states in which all is done.

**The build.** Assertions are compiled out unless the build type is Debug
(`CMakeLists.txt:110`), so a failing assertion is no guard in the modules of the server.
`TString` alone, as a type on its own, leaves out the calls that its assertions exclude;
an empty text without a length is one of them (`tstring_maybe_expand` asserts that it
makes room for something), and a Debug build ends there.

**Claims.** The two `claim_*` runs check one sentence each of the documentation or
of a comment, and end in a counterexample; `PROJECT.json` quotes the sentence under
`findings`. Other surprises met on the way are in the models as they are in the code:
seize denies a delete that it did when the slot was full before; insert behind the end of
a value is acknowledged; a step of an iterator past the end has no answer; release
wants the id of a snapshot under the name of the iterators' parameter; remove and
range run past an end that is not stored; a star in a configuration's text is read
twice (`src/xconfig.c:76` and again at 82).

## 4. Proofs

The theorems hold for any databases, keys, chunks, ids and bounds that satisfy the named
assumptions (`StoreAssumption`, `BatchAssumption`, `CursorAssumption`, `ScanAssumption`,
`NumeralAssumption`, `CounterAssumption`, `EvThrAssumption`, `NobodyAssumption`,
`TStringAssumption`, `ParserAssumption`, `HttpAssumption`, `GoodMessages`;
`CursorAssumption` asks for finitely many keys, since a database has a first and a last
pair). Every safety property of the runs `store_*`, `batches`, `cursors`, `scans`,
`counters` and `pool` is a theorem, and so are `StringsImplemented` of `library` and, of
`connection`, all but `CrashesAreKnown`, half of which is one.

**The invariant of the store** (`RevelStoreProofs`). `TypeOK`, `OpenHasFiles` and
`LeakIsUnusable` are proved together as `StoreInv`, because none is inductive
alone: a handler of an open instance returns contents only if `OpenHasFiles`
holds, and a destroy keeps `OpenHasFiles` only because `LeakIsUnusable` rules out
a leaked instance under the name of an open one. There is one lemma per handler,
grouped by the shapes above; `LastExists` (a nonempty set inside `1..n` has a
greatest element) carries the type of a multiple set.

**The service** (`RevelServiceProofs`). `StoreServes` is the refinement
`Spec => KVImplemented`: a lemma per handler (`...Serves`) shows that a step is
`KV!Answers`. It needs `StoreInv` because the service wants `kv` to be contents,
not `NoDb`, when a read or write is acknowledged. `StaysHealthy`,
`ErrorsAreReset` and `MissesAreTrue` follow from one step predicate, `Honest`,
with a lemma per handler (`...Honest`): a 404 is the truth only as long as no
handle is unusable, and no handle gets so only as long as the slots are clean.

**Batches** (`RevelBatchesProofs`). Every step of `BatchSpec` is a step of `Spec`
or leaves its variables alone (`BatchesAreRequests`), so all of the above holds
with batches too. `CommitsAreWhole` rests on the invariant `WishKept`: what
`PutFirst` makes of a batch's lists is what the client asked last, for lists of
any length.

**Cursors** (`RevelCursorsProofs`). `CursorsAreReaders` is the same fact for
iterators and snapshots, the dangling ones included: whatever they do, they
never change a database. The invariant `CursorInv` adds to `StoreInv` that the last
entry of `past` is the disk (`PastIsDisk`) and that sound objects point at the
contents they were made over and have scanned all they passed (`Frozen`). The
lemmas `ForwardEnds`, `BackwardEnds` and `NextIsNext` say where a walk by
cardinalities ends.

**REST** (`RevelServiceProofs`). Every handler of rest.c is a step of `Spec` or leaves its
variables alone; `RestIsStore` says so. It is a step and no result: the actions are
built of the same shapes because the functions are. It carries every theorem about
the store over, and `RestServes` is the refinement of the service by the second front end.

**Scans** (`RevelCursorsProofs`). `ScansAreReaders` maps every step of `ScanSpec` to one
of `CursorSpec` or to a stutter. `ScansAreOfTheSource` uses `CursorInv`: what a sound
snapshot points at is what the database held when it was taken, and a scan reads
nothing else. `RangesAreRemovals` needs no invariant beyond types: the two loops
are compared key by key.

**Counters** (`RevelCountersProofs`). `TextReadsBack`: what sprintf writes for a long
long strtoll reads as that number, in any base of two or more digits, the smallest
negative number included. It is an induction over the digits of a number; the library's
induction theorems cannot be used (they take an operator), so the numbers for which the
claim holds are put in a set, and a least number outside it (`LeastExists`) leads to a
contradiction. `CountInv` stands beside `StoreInv`: a counter whose request was just
acknowledged holds the text of a long long. With it `CountsOnceAlways` and
`CountsAgainAlways` follow for any base, any `MaxLL` and any texts as steps and as
values.

**Thread pool** (`EvThrProofs`). The invariant `PoolInv` puts four facts beside the
types. `CallInv`: a caller inside a send holds the lock of the thread it chose, nobody
else does, and callers are idle unless main serves. `StopInv`: at most one stop command
is ever written to a pipe, it is the last in it, and a thread that took it finds its
pipe empty. `Accepting`: a thread inside the callback has the connection it may close.
`Fresh`: threads main has not come to are new. None is inductive alone: a worker closes
a connection without going below zero by `Accepting`, stop stays last by the idle
callers of `CallInv`, and `Drained` and `CrashesAreKnown` follow from `StopInv`.
`CountersAreWork` adds `BacklogIsWork`, which is inductive relative to `PoolInv`: a
lemma (`Rebalance`) says the counter stays right when it moves as the sum of its parts
does, and each step moves them so. `OvershootIsBounded` strengthens `BacklogBounded` to
`BoundInv`, which charges to the bound every caller between its test and its count, and
a job that is counted twice.

**Jobs** (`EvThrProofs`). `JobsAreServed` is the refinement of `JobService` by the
pool. `JobInv` says where a job is: a job that is not accepted is nowhere and was not
run, a call under way has a job of its own, and an accepted job is in one place of
one pipe or in one hand, run if its callback was entered. It is inductive beside
`PoolInv`, from which it takes that main writes the stop command to a pipe only once.
Writing to a pipe is the step that queues, entering the callback the one that runs, a
refusing return the one that refuses; every other step is a stutter.

**Strings** (`TStringProofs`). `StringsAlways` is the refinement of `TextBuffer` by the
blocks of `TString`. The invariant is `Holds`: the first bytes of the block are the
text, a zero stands behind them, and both lie inside the block. One lemma per
operation follows the block cell by cell. Two are not obvious: a string inserted
into itself is read after its tail was moved, so its text comes from both sides of the
gap (the code copies in two parts, and the proof has a case for each); and
`tstring_maybe_expand` must make room for the text and its zero, whether
`_nearest_power` doubles or stops at the largest unsigned int. `Doubled` and `Decoded`
are recursive functions, unfolded by lemmas of their own.

**Connection** (`HttpConnectionProofs`). `HttpInv` has five parts that are proved together.
`InputInv` is the type: each symbol leaves the buffer of the parser within `BufMax`
(`ParserOK`), which is shown for each state of `http_parser_run`. `ReadInv`: the parser
is between two requests or in one that was begun; a hook waits only while a read is
worked on, and the parser starts anew when a request is freed. From it
`RequestsAreThere` follows: no hook runs while `c->request` is NULL, the hooks that
refuse or pause included. `RequestInv`: the request of a connection is the last one begun,
so what is queued for the client is queued in the order of the requests
(`ReplyInv`); this is `RepliesDoNotOvertake`. `LimitInv` gives `LimitsAreKept`: with
`max_body_size` set no request has a longer body, with
`max_keepalive_requests` set no connection is open whose `num_requests` has come to it.
That counter goes up when the output is drained and the current request is finished
(`evhttpx.c:1519`); an answered request that a pipelined one replaces before that (853) is
not counted, so a client that pipelines may get more answers than the limit. The three properties
`HooksHaveRequests`, `RepliesInOrder` and `LimitsHold` are stated with the proofs. All this
holds for any messages over `Symbols`, whether the code understands them or not.

**The conversation** (`HttpConnectionProofs`, second half). For a client that waits, and
messages that satisfy `GoodMessages`, the invariant is `TalkInv`, with `HttpInv` and
`HooksInPairs`. While the promise stands and the connection is there, the conversation
is in one of three phases. `Idle`: every question has its answer and nothing is left of
them: a new parser, the main host, no request, no output. `BeingRead`: all but the last
question have their answer, and some number i of symbols of the last is used such that
what the connection holds (`Now`), once the hooks still waiting have run, is what the
reader of the text alone knows after i symbols. `WasRead`: the text is used up, the
request is what was meant, and either its answer is still the application's to give or
it is queued with its end last. `Talking` adds that nothing has failed and that a read
stops early only for a pause. A phase as precise as this is needed: `HttpImplemented`
alone does not say what is in the parser, in the hooks still to run or in the output.
The argument, action by action:

- `RunTalks`: one call of the parser on what a read brought is the reader's next symbol,
  or one of the two rounds that the parser makes on a symbol it does not use at first
  (`AtSymbol`, second disjunct; `TwoRounds`), or a stretch of a body: `BodyReading`
  shows by induction that a stretch of any length leaves what its symbols one by one
  leave (`GotBody`). So no cut of the text makes a difference.
- `HookTalks`: a hook that returns OK or pauses adds to the request what it adds to the
  reader (`HookKnows`, a lemma for each hook); one that refuses gives up the promise. Of
  the two hooks of a symbol the first is that of a value or of a body (`HooksInPairs`):
  a pause on a body leaves the second to run, one on a header gives up the promise.
- `FiniTalks`, `AnswerTalks`: the callback sees the request the text means, and the last
  part of its reply is the only last part in the output.
- `DrainEnds`: with the last part of an answer written, the number of answers is the
  number of questions; the connection is either as new (`Recycle`, `Idle`) or closed,
  because the question or the limit wanted it, which the counter `num_requests` has
  followed.

From `TalkAlways` follow `ConnectionServes`, the refinement of `HttpService`: the last
part written is `Reply`, `Send` is `Ask`, giving up the promise is `Forfeit`, and every
other step leaves the service alone; `ServerClosesWhenAsked`; `NoWaiterCrashes`
(`UriIsThere`: the reader has a path where the uri is used, so the connection has one);
and with `DelimInv`, every part written or queued is delimited, `RepliesAreDelimited`:
the parser knows of a multipart request only if the question asked is one. That a list
of last parts grows by one with a last part and not otherwise (`LastOfAppend`), and that
the reader moves by one symbol (`ReadingFacts`), are proved of recursive functions by
the induction over a set of numbers in `StepByStep`.

**Only model-checked**: what TLAPS cannot do here.

- The liveness properties `AcceptedJobsRun`, `CallsReturn`, `StopEnds`, `AnswersCome`.
- `TreesAreSound`, `LookupsAreRight` and `TextsReadBack` of `library`: trees and texts by
  recursion, with RECURSIVE operators.
- `CrashesAreKnown` of `connection` says which messages kill the process of a client that
  does not wait, which depends on the messages of the run; that a waiting client is
  safe is `NoWaiterCrashes`.
- `GoodMessages` itself: which texts the parser understands is evaluated for the messages
  of the run, not derived from a grammar.

The two claims are refutations.

## 5. Not modelled

- `src/regex/`, `src/nedmalloc/`, `src/zmalloc.c`, `src/vasprintf.c`: third-party code,
  taken at its interface: a pattern is the set of texts it matches, allocation succeeds.
- `src/log.c`: output only.
- Becoming a daemon, the pid file, options of the command line, statistics that read
  the clock or the kernel: I/O.
- TLS in `src/evhttpx/`: `conf/reveldb.json` turns it on and `reveldb_rpc_run` then calls
  `evhttpx_ssl_init` (`src/rpc.c:5131`), but it lies below the callbacks of a connection,
  which read and write the same buffers, and its handshake and records are OpenSSL's.
- The parser of responses in `src/evhttpx/`, which the server does not use; paths given as
  regular expressions; accessors of single headers.
- Read errors of leveldb's iterators: nothing in the code asks for them.
- Failing allocations: the code checks some and ends the process.
- leveldb: external, by its C interface as the code uses it.

What could follow: a grammar of requests from which `GoodMessages` could be proved; and a
composition of the connection with the handlers of the store, to follow one request
from its first byte to its reply.
