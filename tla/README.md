# Formal models of libsnowflakeclient

TLA+ specifications of the parts of the Snowflake C/C++ client in which
concurrency, failures and retries matter, with TLC models and TLAPS proofs.
Paths are relative to the repository; definitions keep the names of the code.

## The system

The library has a C core and a C++ layer for file transfer.

| Part | Code | State | Operations | What is hard |
|---|---|---|---|---|
| Chunk downloader | `lib/chunk_downloader.c` | locked array of chunks, two heads, `thread_count`, `is_shutdown`, `has_error`, a mutex, two condition variables | init, thread body, term | threads against the fetching application, failed downloads, shutdown |
| Row fetch | `lib/client.c` `snowflake_fetch` | `raw_results`, `chunk_rowcount`, `cur_row`, `total_row_index`, error | fetch | waits for chunks; order and end of the rows |
| Statement | `lib/client.c` | SQL text, parameters, description, results, downloader | prepare, bind, execute, fetch, reset, term | re-execution, partial failure |
| Session and HTTP | `lib/connection.c` | session and master token, error | request, post/get call, renew session, retry | expiry during a request, unbounded retry, partly replaced tokens |
| Thread pool | `cpp/util/ThreadPool.hpp` | job queue, `busyThreads`, `finished` | AddJob, WaitAll, JoinAll, thread body | lost wakeups, dropped jobs |
| Multi-part transfer | `cpp/SnowflakeS3Client.cpp`, `cpp/util/ByteArrayStreamBuf.cpp` | splitter, appender, part outcomes | upload, download of parts | order of parts, failed part |
| File transfer agent | `cpp/FileTransferAgent.cpp` and helpers | file lists, results, storage client, last renewal | execute, upload, download, renewToken | token expiry in parallel jobs |
| Parameter store | `lib/rbtree.c`, `treemap.c`, `paramstore.c`, `arraylist.c` | red-black tree, array | insert, search | balance, replaced values |
| Cipher streams | `cpp/crypto/CipherStreamBuf.cpp`, `CipherContext.cpp` | source and result buffer, context, `m_readReachEnds`, `m_finalized` | underflow, overflow, sync | block, batch and part boundaries; finalized once and last |
| Conversions | `lib/client.c`, `lib/results.c`, `cpp/util/Base64.cpp` | none | column getters, timestamps, encode, decode | ranges |

The statement owns a chunk downloader when the query response names chunks; the
downloader writes into the statement's error and the statement's fetch reads its
queue. Downloads and queries go through `http_perform`. The file transfer agent
runs on a statement, an S3 client and thread pools.

What correctness means here: rows arrive once, in order and completely, or an
error is reported; every call returns; nothing is freed while in use; a file's
parts are assembled in order; a renewed token is used; the parameter store is a
map.

## Modules

| Module | Contents |
|---|---|
| `ChunkDownloader` | the downloader's threads, `snowflake_fetch`, `_snowflake_stmt_reset` and `chunk_downloader_term` on one statement |
| `ResultStream` | what an application may see of a statement: the rows in order, then EOF, or an error |
| `MCChunkDownloader` | values of the constants for TLC |
| `ChunkDownloaderProofs` | the inductive invariant and the safety theorems, the proof that `ChunkDownloader` implements `ResultStream`, and that nobody waits forever without a failure |
| `ThreadPool` | the thread pool's threads and the thread that uses it |
| `JobPool` | what a pool promises: jobs start in order, once, at most `N` at a time; when `WaitAll` and closing may return |
| `ThreadPoolProofs` | safety of `ThreadPool`, the proof that it implements `JobPool`, and that no wakeup is lost |
| `CipherStreamBuf` | the stream that encrypts a file as it is read and decrypts it as it is written, as operators |
| `StorageClient` | one upload or download by `SnowflakeS3Client`, in one request or in parts, on `JobPool` and `CipherStreamBuf` |
| `StorageClientProofs` | what reading, writing and flushing a `CipherStreamBuf` give, for any sizes; the parts of a transfer: their numbers, order and outcomes |
| `StorageClientBytes` | the bytes of a transfer: what has been sent and written is the file |
| `FileTransferAgent`, `MCFileTransferAgent` | put and get commands on one agent, with tokens that expire, on `JobPool` |
| `FileTransferAgentProofs` | the files of a command and their outcomes, renewals of the token, and which client and result set are alive |
| `Session` | the attributes and tokens of a connection, requests, renewals, connect and term |
| `Statement`, `MCStatement` | `Session` composed with one statement: prepare, execute, fetch, affected rows |
| `StatementProofs` | the nested requests of `Session`, and the rows that `Statement` hands out |
| `RedBlackTree` | `rbtree.c` as operators, and what a red-black tree is |
| `RedBlackTreeProofs` | rotations, a round of `rbtree_fix_tree` and the assignments of `rbtree_insert`, for trees of any size |
| `ParamStore`, `MCParamStore` | binding parameters and sending them, on `RedBlackTree` |
| `ParamStoreProofs` | the loop of `rbtree_fix_tree`, `rbtree_insert` and `rbtree_search_node` as a whole, the invariant of the store, and what is sent |

### ChunkDownloader

Variables are the fields of `SF_CHUNK_DOWNLOADER` and `SF_STMT` under their own
names, the program point of every thread (`pc`, with its local `index`) and of the
application (`apc`), and `freed`. An action is the code between two points at
which another thread can interfere: lock, test, wait, unlock, download. Each
critical section of `attr_lock` is one step. A chunk is its number; a row is the
pair of its chunk and its place in it; `Offset` gives the rows that precede a
chunk, so that the row number is determined.

* `chunk_downloader_init`: `InitQueue`, `CreateThread` and `CountThread` (a thread
  runs before `thread_count++` accounts for it), and the failures.
* `chunk_downloader_thread(t)`: `WLock` ... `WExit`. `WFail` leaves the loop
  without the lock, as line 441 does, and `WExit` then unlocks it all the same.
  `Release` models what POSIX leaves open: unlocking somebody else's mutex either
  releases it (glibc) or does nothing.
* `snowflake_fetch`: `FetchStart` ... `FetchRow`.
* `chunk_downloader_term`: `TermLock` ... `TermFree`, entered by `ResetStart` or
  by a thread that could not be created.

`Faults` says what may fail: the setup (`init`), `pthread_create` (`create`), a
download, a signal, a broadcast. `WSpurious` and `FetchSpurious` are the spurious
wakeups of POSIX condition variables.

Assumptions of the model: one application thread per statement, as the API asks;
`rowCount` of a chunk is positive and is the number of rows in it; `pthread_join`
and locking do not fail on valid handles; the unsynchronised clearing of the
statement's error in `snowflake_fetch` is one write. `http_perform` answers
`FALSE` without an error in some cases, so a failed download may leave `sf_error`
empty.

### ResultStream

`phase`, `pos`, `row` and `status` as the application sees them. `ReturnRow`
hands out row `pos + 1`; `ReturnEof` needs `pos = Total`; `ReturnError` needs
`CanFail`. The refinement mapping takes `row` from the chunk that really holds
the current row, so a chunk taken from the wrong slot does not refine it.

### ThreadPool and JobPool

Everything shared is accessed under `queue_mutex` and every section is properly
bracketed, so a section up to its end or to a wait is one step. A job is its number
in the order of `AddJob`; `done` records the jobs that were run.

* `execute_thread(t)`: `Enter` (from the lock to a job, a wait or the exit),
  `Wake` (the same after `_cond_wait`), `RunJob` (the job ends; being at `run` is its
  duration). `TakeOrSleep` is what they share.
* The user: `CreateThread` (threads run while the constructor still creates
  others), `AddJob`, `WaitAll` and `WaitWakes`, `JoinAll`, `JoinThread`, `Destroy`, in the
  order in which `FileTransferAgent` and `SnowflakeS3Client` call them; jobs can be
  added again after `WaitAll`, as the S3 client does for each file.
* `Spurious` and `WaitSpurious` are spurious wakeups.

Assumptions: at least one thread, whose creation succeeds (`_thread_init`'s answer
is ignored by the code, and joining the handle it did not set is undefined); one
user thread; jobs do not throw. `MaxJobs` bounds the jobs for TLC.

`JobPool` has the user's `phase`, the numbers of jobs `added` and `started`, and
`done`. The mapping computes `started` from the queue's length. `StorageClient` and
`FileTransferAgent` run on this interface, so that the pool's own interleavings are
checked once.

The code's `JoinAll` drops what is still queued, because a thread tests `finished`
before the queue (`ThreadPool.hpp:118`), while the comment at line 199 says that the
queue will be empty. `ThreadPool` and `JobPool` model the code; all callers call
`WaitAll` first.

### CipherStreamBuf

The state of a stream is a record: the cipher context, what is between `gptr` and
`egptr` (`get`) and between `pbase` and `pptr` (`put`), the two flags, how much has
been read from the file below and what has been written to it. `Underflow`, `Overflow`
and `Sync` are the code's functions; `Reads` and `Writes` are the standard library's
loops around them. A byte is its place in the file and keeps it through encryption, so
an encrypted file is the bytes of the file followed by those of the padding. What the
cipher does with blocks is modelled: encryption gives out whole blocks and holds the
rest, decryption also holds the last whole block, `finalize` adds the padding or
takes it off. A call that OpenSSL refuses, or one after `finalize`, reaches a `throw;`
outside any handler, which ends the process: `op` is then `"terminated"`. Writing to the
file below is taken to succeed.

### StorageClient

A behaviour is one call of `upload` or `download`, with the stream the agent passes to
it (`cipher`). "The object is the file" is an equation between sequences. `mpc` is the
calling thread, `tpc`, `job` and `part` the pool threads; `data`, `len` and `pptr` are
their buffers, which keep old bytes as the code's do.

* `UploadSkips`, `UploadThrows`, `UploadGoesOn`: the `HEAD` request and the digests.
  `stored` says how many leading bytes the object of that name shares with the file, or
  that the object has no digest (`NoDigest`: `metadata.at` throws), and `HashedBytes` how
  many the digest covers.
* `DoSingleUpload`, `DoSingleDownload`: transfers in one request. The SDK writes
  whatever body comes to the stream. A complete answer is then flushed, so an error with
  a body ends in `finalize` on bytes that are not the object's, and the process is
  terminated. An answer that breaks off is not flushed (`CurlHttpClient.cpp`), and the
  request is repeated into the same stream, after what has come already
  (`RepeatSingleRequest`).
* `CreateMultipartUpload`, `StartDownload`, `AddJob`, `WaitAll`, `WaitAllReturns` (with
  `CheckParts`), `CompleteMultipartUpload`: transfers in parts.
* The jobs: `FillAndGetBuf` and `UploadPart`; `GetObject` and
  `WritePartToOutputStream`, which flushes after the last part.
* `RepeatRequest`: the SDK repeats the request of a part (`AttemptExhaustively`) into the same
  buffer, whose put pointer stays where the broken answer left it.

The arithmetic of part counts and ranges is the code's, with `unsigned int` wrapping
at `Wrap`. Every request may be refused with a member of `Errors`. `large` is free in
an upload, because the client compares the size of the file as it is, while the parts
are those of the compressed and encrypted one. The lock that guards `m_currentPartIndex` makes reading and
writing a part one step; every write broadcasts, so the wait is a guard.

### FileTransferAgent

A behaviour is a sequence of commands on one agent, up to its destruction. Time is
a counter; a token is the time of its issue and expires after `Lifetime`; `Recent`
stands for the ten minutes of `renewToken`. A source location stands for one file.
Clients and result sets are numbered as they are made, so that a second `delete` and
a use after it show.

* `Execute` (with `Reset`, `Parse`, `GetClient`), `Destroy`.
* `ListUpload`, `ListDownload`: `initFileMetadata`, one location at a time; a
  download asks the service for each, and may renew the token. The locations and the
  encryption materials of a command are appended to those of earlier ones, one material
  for an upload and one per file for a download: a get after a put of several files finds
  fewer materials than locations, and `encryptionMaterials.at(i)` throws
  (`ListDownloadThrows`). So does an answer without the metadata of the encryption.
* `StartTransfer`, `TransferLarge`, `StartSmall`, `AddJob`, `WaitAll`,
  `WaitAllReturns`: the calling thread.
* The jobs: `CallClient` reads `m_storageClient`, `TransferSmall` uses what was read,
  `EnterRenew` and `RenewAndUnlock` are `renewToken` under its mutex, with the
  command sent to the server between the test and the new client.
* `UploadThrows`, `JobThrows`: `uploadSingleFile` throws when a file cannot be compressed,
  or when the stored object has no digest. In the loop over the large files the exception
  leaves `execute`; on a pool thread nothing catches it and the process ends
  (`mpc` is `"terminated"`).

Assumptions: a token lives longer than ten minutes (`Recent < Lifetime`); the
command is parsed by the server, which may fail (`IStatementPutGet` answers false).
`StatementPutGet` never answers false: after a failed query it reads the response
that is not there, which is undefined and left out. Compression and encryption
change a file's bytes only; what is modelled of them is that they can throw.

### Session and Statement

`request`, `curl_post_call`, `curl_get_call` and `renew_session` call each other, and
the interesting failures are in what a caller finds when a callee returns. `stack`
holds their activations with their header and program point; `ret` is what the last
one returned. An action is the work of one activation between two calls. In
`Statement` the application's calls (`SetAttributes`, `Connect`, `Prepare`, `PrepareNull`,
`Execute`, `Fetch`, `AffectedRows`, `Term`) interleave with the service's `Expire`, which forgets session
and master tokens at any moment.

* Connecting: `attributes` are the attributes that are not empty, of those that
  `snowflake_connect` looks at. `ConnectNoRequest` has its early returns: tokens that exist
  already, a direct URL with or without the two attributes that go with it (without them it
  fails and sets no error), a missing account, user or password. The password is wiped by
  every call that gets as far as checking it, so a second login needs it to be set again.
* Requests: `Retry`, `PerformFails`, `Perform`, then `Renewed` and `Repeated` if the
  session had expired, `Poll` and `Polled` if the query was in progress. A renewed
  poll goes on with the header of the old token, as the code does.
* `RenewSession`, `RenewReturns` with `SetTokens`, which keeps a new session token
  without its master token.
* `Execute` ... `ExecuteQuery`, `ExecutePutGet`, `ExecuteFails`. Only a result with
  chunks replaces `chunk_downloader`.
* `FetchRow`, `FetchChunk`, `FetchEof`, `FetchFails`: a downloader hands out its
  chunks in order or fails, as `ResultStream` promises; a chunk has one row.

`PrepareNull` is `snowflake_prepare` without a command, which fails without an error and
leaves the statement as it was.

`Faults` says what may go wrong: a request that fails with an error (`failed`) or
without one (`silent`), an answer with half a pair of tokens, a refusal, an answer
without a code or a result URL, a downloader that cannot be made
(`chunk_downloader_init` sets no error for a chunk without `url` or `rowCount`), a
failed download.

Assumptions: one thread per connection, whose tokens are not locked; the
service answers that a session has expired exactly to session tokens it has
forgotten, never to a renewal; the application prepares before it executes. `json`
is the last answer received; the answer of a renewal is a local variable in the code,
and `AnswerIsFinal` says that the difference is not visible.

### RedBlackTree and ParamStore

A key stands for the pointer to its node, and the code's mirrored branches are one
operator with the side as a parameter. A loop is a recursive function of the number of
rounds (`FixTree`, `Place`, `BindAll`); its bound is the number of nodes of the tree, which is proved to be enough,
or the length of the array. `ParamStore` has the statement's store, the
list of names and `bound`, the map an application thinks it has filled. `BindParams`
is `snowflake_bind_param_array` (and `snowflake_bind_param` for one input), `Execute` the
part of `_snowflake_execute_ex` that reads the parameters back. `fits` records whether
the list of names had room: growing it asks for too few bytes (`client.c:1042`),
after which any of the names may be missing. The store keeps pointers to the
application's inputs; the model takes them as unchanged until they are sent.

## Runs

The downloader's runs use 2 threads, the number `client.c` asks for, and 3 chunks: more chunks
than threads, so the window fills, closes and reopens, and one thread serves two
chunks. The inline rowset has one row and the chunks have two, one and one, so that
a fetch may or may not need the next chunk.

| Run | Faults | Checked | Result |
|---|---|---|---|
| `downloader_ok` | none | `FetchReturns`, `TermReturns` | hold |
| `downloader_faults` | all | `TypeOK`, `DeliveredInOrder`, `EofMeansAll`, `WindowBound`, `SlotIntegrity`, `MutualExclusion`, `NoUseAfterFree`, `ImplementsStream` | hold |
| `fetch_hang` | download | `FetchReturns` | violated |
| `term_hang` | download | `TermReturns` | violated |
| `pool_ok` | | `TypeOK`, `BusyCount`, `JobsOnceInOrder`, `WaitedMeansDone`, `NoUseAfterDestroy`, `WaitReturns`, `JoinReturns`, `JobsRun`, `ImplementsPool` | hold |
| `parts_ok` | refused and repeated requests | `TypeOK`, `NoUseAfterReturn`, `FailedPartReported`, `TransferredIsFile`, `OutputIsPrefix`, `CipherEndsLast`, `ReturnsOrBlocked` | hold |
| `digest_skip` | | `SkippedIsStored` | violated |
| `agent_ok` | expiry, refusals, exceptions | `ListedOnce`, `EveryFileReported`, `ClientsAlive`, `RecentMeansValid`, `DeletedOnce`, `RenewalsApart`, `ExecuteReturns` | hold |
| `agent_second` | | `ResultsAreCommands` | violated |
| `statement_ok` | expiry, all of `Faults` | `MasterTokenOnlyRenews`, `TokensMoveForward`, `AnswerIsFinal`, `RowsOfOneResult`, `CallReturns` | hold |
| `statement_stale` | | `RowsOfResult` | violated |
| `bind_ok` | | `TreesAreRedBlack`, `SentIsBound` | hold |

`pool_ok` has 3 threads and 4 jobs: a thread can be asleep, one woken and one busy
at the same time, and jobs outnumber threads.

`parts_ok` has 2 threads, parts of 8 bytes, batches of 4 (`m_blockSize`) and cipher
blocks of 2, each a multiple of the next as in the code (5 MiB, 128 and 16 bytes). The
plain sizes 0, 7, 16, 23 and 25 give encrypted files of 2, 8, 18, 24 and 26 bytes, of
one to four parts: two of them with an empty last part (the encrypted size is a
multiple of the part size), two whose plain size is a multiple of the batch (a
last read of nothing and a whole block of padding), and three with more parts than threads, so that buffers are used again.
One request may be repeated (`MaxRepeats`). `Wrap` is above all of them: from 4 GiB on the
ranges are wrong. A transfer may stop where it is over, so deadlock is not checked;
`ReturnsOrBlocked` says where it may stop.

`agent_ok` has 2 threads, 3 files and 2 commands, one of which may be for a stage
that is not supported; `MaxFiles` bounds the locations a command starts with. The clock can pass the lifetime of a token twice, so that a
renewed token expires again and a thread finds a token that another one has
renewed while it was transferring.

`statement_ok` has 2 executions, 2 forgotten tokens, 2 polls and 1 retryable answer:
enough for a session to expire during a poll after it was renewed during the query,
and for a result with chunks followed by one without. The attributes (`MCSettings`) are set in
groups: complete for a login or for a direct URL, or with one missing. `chunk_rowcount` of a statement
without a result is followed down to `MinRowcount`; every fetch there returns success
without a row.

`bind_ok` binds up to 8 names that collide, in every order, one of them with two
values, and up to 3 positions; the list of names has room for 7, so that it also
overflows. Eight insertions into one tree reach every case of `FixTree` and its
repetition higher up.

`downloader_faults` switches deadlock checking off: a failed broadcast makes
`chunk_downloader_term` keep `queue_lock` while it joins the threads, and
`fetch_hang` and `term_hang` describe two more ways to stop.

What the violated runs show:

* `fetch_hang`: the application waits for a chunk, its download fails, the thread
  sets `has_error` and exits without signalling `consumer_cond`
  (`chunk_downloader.c:435-441`). `snowflake_fetch` stays in `_cond_wait`, unlike
  its comment at `client.c:1410`.
* `term_hang`: the exiting thread unlocks `queue_lock` (line 470) although it does
  not hold it, under another thread that has tested the wait condition and not
  yet gone to sleep. `chunk_downloader_term` gets the lock, broadcasts, and joins a
  thread that goes to sleep afterwards.
* `digest_skip`: `updateFileDigest` hashes only blocks that were read completely
  (`FileTransferAgent.cpp:283`). A file that differs from the stored one after its
  last full 64 KB is skipped, although the function is said to "calculate sha256
  message digest" of the file (`FileTransferAgent.hpp:69`).
* `agent_second`: `StatementPutGet` appends to `srcLocations`
  (`StatementPutGet.cpp:35`) and `reset` does not clear them, so the second command of
  an agent lists the files of the first as well. A renewal while the files of a
  download are listed appends to the list that is being walked; `ListedOnce` therefore
  counts against the locations there are at the end.
* `statement_stale`: a result with chunks, not fetched to its end, is followed by a
  second execution whose result has none; after its rows, `snowflake_fetch` goes on
  with the chunks of the first (`client.c:1786`). `RowsOfOneResult` shows that this is
  the only way to mix rows.

What the properties that hold leave open, by their statements: `TransferredIsFile`,
`OutputIsPrefix` and `CipherEndsLast` except transfers into which something other than
the object was written (`junk`). A repeated part is shifted by what came before, and is
written and reported as a success, unless the last block shows it; a single download
that is repeated after part of an answer has that part in front of the object, or ends the
process, and one that is answered with an error body ends it. `ReturnsOrBlocked` names
the download in parts that never returns, because a refused part is never written and
a later one waits for it (`ByteArrayStreamBuf.cpp:125`). `DeletedOnce` excepts agents
whose `execute` has thrown, because `reset` keeps the pointers it deletes.
`ExecuteReturns` and `RecentMeansValid` except a server that could not be asked for a
new token: the failure is ignored, and the agent repeats the transfer with the old
token for ten minutes; `ExecuteReturns` also excepts the exception on a pool thread.
`TokensMoveForward` allows that the session token is newer than the master token beside it:
`set_tokens` keeps the first when the second is missing (`connection.c:1253`). `SentIsBound`
excepts positions with gaps, mixed styles, and a list of names that was too small.

### Fairness

Liveness is checked under `FairSpec`. Weak fairness of every thread's own steps:
the operating system schedules runnable threads, and an HTTP request ends (this is
an assumption on the server: `http_perform` repeats retryable answers without
limit). Strong fairness of the steps that take `queue_lock`: a thread is not
passed over forever by a lock that is released again and again. The application
need not fetch or reset, and no spurious wakeup has to happen, so nothing is
rescued by one. The pool's `FairSpec` is weak fairness of every thread and of the user's
steps inside a call: a job ends, and the mutex, held for one step at a time, is
obtained. The user need not call anything.

`StorageClient` and `FileTransferAgent`: weak fairness of the calling thread and of every
pool thread; requests end, and nobody has to give a command. The mutex of `renewToken`
is held for two steps; a thread that waits for it finds it free in the end because
renewals are ten minutes apart and the clock of the model is bounded. `Statement`: weak
fairness of the call in progress. `CallReturns` rests on the bounds as well: a service
that answers with a retryable code, or "in progress", forever keeps the caller
forever, and so would one that forgets every new session.

## Proofs

`ChunkDownloaderProofs` proves the seven invariants of `downloader_faults` for any
`NThreads`, `QSize`, `RowCount`, `Offset` and `Faults` that satisfy the
assumptions stated with the constants. None of them is inductive alone. `IInv` adds:

* `LockHeld`, `LockOwner`: until a download fails, whoever is at a point that
  relies on `queue_lock` has it. After a failure this is false, because of the
  unlock at line 470; exclusion then rests on `has_error`, which every thread and
  the fetch test again under the lock before they touch the queue. This is why
  `MutualExclusion` is itself a conjunct: it says what survives.
* `ClaimReady`, `TakeReady`: what was tested under the lock is still true when it
  is acted on.
* `ThreadsCounted`: `thread_count` lags one behind the created threads during
  `CountThread` only; nobody exceeds the window because it only grows.
* `Position`, `FetchState`: `raw_results` is the chunk before `consumer_head`, and
  `total_row_index` is its offset plus the rows taken from it.
* `FailureHasCause`, `DownloadFailureHasCause`, `FreedLast`: an error needs a
  fault; `freed` comes last.

One lemma per conjunct shows that every action keeps it; `InductiveStep` collects
them, and each theorem follows by PTL. `Refinement` shows that
initial states map to initial states and that each step maps to a step of
`ResultStream` or to a stutter, which gives `Spec => ImplementsStream`.

`OffsetAssumption` states that `Offset` is the running sum of `RowCount`; that its
last value is the largest is the lemma `OffsetGrows`, by induction over the chunks
(`Least`: a set of natural numbers has a least element).

`NobodyWaitsForever` is about the waits: for two threads or more, if signals do not fail, then
at every moment before the first failed download or broadcast at which a fetch or a reset is in
progress, the caller (`AppCanRun`) or a thread (`WorkerCanRun`) can take its next step without a
spurious wakeup. `AppCanRun` and `WorkerCanRun` spell out when the actions of the two are enabled. `WInv` is
what it needs beyond `IInv`: a consumer that has decided to wait has nothing to take
(`ConsumerSleeps`), nobody waits for the window after a shutdown (`ProducersSleep`), a claimed
chunk is in its slot or on its way (`ClaimedArrives`), a thread leaves only when it is told to
or when all chunks are claimed (`ThreadsStay`), a thread waits because a chunk is claimed and
not consumed (`WaitHasCause`), and not all threads sleep when nothing is claimed
(`SomeoneAwake`). The hypothesis on the number of threads is needed: the first thread may run
before `thread_count++` (`chunk_downloader.c`) accounts for it, find a window of size 0 and go to
sleep, and the increment does not signal; only a second thread makes sure that somebody
downloads. `client.c` always asks for two. With a failed download the statement is false,
as `fetch_hang` and `term_hang` show.

`ThreadPoolProofs` proves the five invariants of `pool_ok` for any number of threads
and jobs. Its `IInv` adds `Creation` (a thread not yet created is counted busy, and the
constructor returns when all are created) and `Ending` (threads leave only after
`JoinAll` and stay away). `BusyStep` follows the set of busy threads through every
action, with the cardinality theorems of finite sets; `IdleMeansDone` then turns
`WaitAll`'s test into "every job is done", by way of `JobsOnceInOrder`. `Refinement`
shows `Spec => ImplementsPool`; that at most `threadCount` jobs run follows from the
map of running threads onto running jobs. `WakeupsArrive` shows that no wakeup is lost: when
`WaitAll` sleeps or a job is queued, some thread can run, and the thread that `JoinAll` waits
for has ended or can run. Its invariant `SleepHasReason` relates those who sleep to
`busyThreads`, the queue and `finished`, which they have tested under the mutex.

`StorageClientProofs` proves `NoUseAfterReturn` and `FailedPartReported` for any number
of threads, sizes and refusals, and two facts on which the bytes rest: parts that are sent
at the same time have different numbers (`PartsApart`), and a part is not appended after a
later one (`WrittenInOrder`). `IInv` consists of `Jobs` (a busy thread has a job of its own,
which is not done), `Caller` (what the calling thread has established where it is),
`Splitter` (the threads about to read are as many as the jobs started minus the parts
numbered, and a numbered part has an outcome or is being sent) and `Appender` (the jobs of
the parts below `m_currentPartIndex` are done). `Splitter` and `Appender` are needed because
`FailedPartReported` looks only at outcomes: `AllOutcomes` shows that none is missing when
`WaitAll` returns.

The first half of `StorageClientProofs` treats the stream for any `Block` and any `Batch` that is a multiple
of it. `Encrypts(s, r, n)` describes a stream from which `r` bytes of an encrypted file of
`n` bytes have been read, `Decrypts(s, w, n)` one to which `w` have been written: what is in
the buffers, in the cipher and in the file below. `UnderflowKeeps` and `OverflowKeeps` follow
one call across batch and block boundaries. `Reads` and `Writes` are recursive functions over
the bytes asked for; `ReadsNextBytes` and `WritesNextBytes` show by induction on their number
that any sequence of requests, of whatever sizes, gives the consecutive bytes of the encrypted
file or leaves a prefix of the file, and `SyncEndsFile` that the flush after the last byte
leaves the file. The induction is over sets of numbers (`Induction`), and that a recursive
function satisfies its own equation is proved by constructing one that does.

`StorageClientBytes` puts the two together and proves the other four invariants of
`parts_ok`: `TypeOK`, `TransferredIsFile`, `OutputIsPrefix` and `CipherEndsLast`. Its invariant
adds to `IInv` the types (`Known`, `Buffered`), where the stream is (`Streamed`: an upload has
read up to the splitter's part), what a part that is being sent contains (`Sent`), what a part
that is about to be appended contains (`Fetched`), and how far the appended parts have got
(`Placed`). `Placed` needs `Appender` and `WrittenInOrder`: without the order of the parts the
stream would not be at the place of the part that comes next. `BytesSent`, about uploads, holds
for files of any size. The theorems about downloads assume `SmallFiles`: no encrypted file has
`Wrap` (4 GiB) bytes or more, because beyond that the `unsigned int` arithmetic of the ranges
(`SnowflakeS3Client.cpp`) asks for the wrong bytes.

`FileTransferAgentProofs` proves the six safety properties of `agent_ok` for any number of threads, commands and files, provided that a token
lives longer than the ten minutes of `renewToken` (`AgentAssumption`). `IInv` adds
`TokenFresh` (the client's token is not older than the last renewal), `Renewing` (a thread
in the middle of `renewToken` holds the mutex, and its test of the time is still true),
`Jobs`, from which `Quiet` derives that no pool thread moves outside the parallel part of a
transfer, so that the calling thread renews and deletes alone, and `Alive` (at which
points the client and the result set have not been deleted). The conditions of
`ClientsAlive` and `DeletedOnce` are inductive only together with `Alive`. For the files, `Listing`
says that what has been filed as small, large or lost is the part of `srcLocations` already
walked, counted per file, and `Reporting` which files have an outcome at each point: the
large ones transferred so far, and the small ones whose jobs are done. `ListedOnce` counts
occurrences, so the lemmas about `Count` and concatenation carry it.

`StatementProofs` proves the four invariants of `statement_ok` for any bounds, and so for
stacks of any depth. For the requests, `IInv` describes every activation (`Sound`), what
an activation and the one it has called have in common (`Awaits`), and that the answer in
`json` is one to the activation that has just returned (`Received`). For the tokens it says that
the connection's session token is the newest, except while a new one is in an answer not yet read
(`Tokens`), from which `RenewalsMoveForward` follows. Calls and returns are
treated once, in `CallKeeps`, `PollKeeps` and `ReturnKeeps`; every action is then one of
these. For the rows, `RowInv` says that the rows held by the statement follow those fetched
and that the downloader goes on where these end (`Remaining`), and that the downloader
found by a new execution is of an earlier one (`Downloader`).

`RedBlackTreeProofs` and `ParamStoreProofs` prove the two invariants of `bind_ok` for any
names, hash function, inputs and arrays. The trees are of any size, so `IsRedBlack`, whose
recursive functions compute the keys and the black heights below a node, is replaced by `RB(D,
E, t, B, H)`: the tree `t` has the keys `D` and elements in `E`, `B` and `H` give the keys below
and the black height of every node, and satisfy their equations and the rules locally at every
node. `Half(D, E, t, x, B, H)` is the same except that the red node `x` may have a red parent, or
be the root; it is the invariant of the loop of `rbtree_fix_tree`. A rotation moves two nodes, and the lemmas about
it say what `B` and `H` become. A round of the loop either ends it or moves to the grandparent, which has
more keys below it: hence fewer rounds than nodes, and the bound of `FixTree` is
never reached early. In the same way a step down of `Place` has fewer keys below.
`InsertHolds` and `HoldsFinds` state what `rbtree_insert` and `rbtree_search_node` do.

`Store(p, ref)` is the invariant of the parameters: under names, each bucket's tree is a
red-black tree of exactly the listed names of that bucket, and as long as the application
has bound names only, `bound` maps these names to the trees' elements; under positions, the array list and
`bound` agree, and no more positions are in it than were counted. The last
conjunct is needed for `SentIsBound`: positions without a gap that are no more than
`params_len` are all sent. `Inductive` shows that every turn of the loop of
`snowflake_bind_param_array`, failing ones included, keeps `Store`; `RedBlack` and `Sent` follow.

Induction is over sets of natural numbers and finite sets in all these proofs, as for
`Reads` and `Writes`.

Every invariant and action property that a passing run checks is therefore proved for all values of the constants, and both
refinements are. Only model-checked: the liveness properties, because fairness is out of
the prover's reach (`NobodyWaitsForever` and `WakeupsArrive` are their safety part: they
exclude that everybody waits, not that somebody is passed over), and the violations.

## Not modelled

See `components` in `PROJECT.json`.

* The cryptographic and compression libraries, cJSON, the S3 SDK and logging:
  third-party code or pure I/O.
* Column getters, timestamps, Base64, JWT and proxy settings: conversions of
  single values without state.
* `EncryptionProvider` and the rest of `CipherContext` and `Cryptor`: keys and options
  passed on to OpenSSL.
* The result description of a statement, statement attributes, the attributes of a
  connection that `snowflake_connect` does not check, and session parameters: assignments without control worth checking.
* Data races that change more than a pointer or a flag: `renewToken` rewrites
  `response` while other threads read its fields (`FileTransferAgent.cpp:213`).
* Which calls set an error when they fail: several do not (`silent`, an incomplete direct
  URL, `snowflake_prepare` without a command, a chunk without `url`), although a comment in
  `curl_post_call` says that "Error is set in the perform function" (`connection.c:251`).
  The models have these failures; no property is stated about the error structure.
* Leaks: replaced storage clients and downloaders, and a chunk that arrives after
  another one failed.
