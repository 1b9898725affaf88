-------------------------- MODULE ChunkDownloader --------------------------
(***************************************************************************)
(* The chunk downloader of a large result set (src/lib/chunk_downloader.c) *)
(* together with its only consumer, snowflake_fetch (src/lib/client.c).    *)
(*                                                                         *)
(* Threads download chunks in the background into a locked array (queue);  *)
(* the application thread fetches rows out of the chunks in order, and     *)
(* finally destroys the downloader (_snowflake_stmt_reset).  queue_lock is *)
(* a pthread mutex of the default type, producer_cond and consumer_cond    *)
(* are condition variables.  attr_lock only makes the accesses to          *)
(* is_shutdown, has_error and the first write of sf_error atomic, so each  *)
(* of its critical sections is one step here.                              *)
(***************************************************************************)
EXTENDS Integers, FiniteSets

CONSTANTS
    NThreads,   \* number of threads asked of chunk_downloader_init (2 in client.c)
    QSize,      \* number of chunks in the query response (queue_size)
    RowCount,   \* rows of the inline rowset (index Rowset) and of every chunk
    Offset,     \* number of rows that precede a chunk in the result set
    Faults      \* which of FaultKinds may happen

NoChunk == -2   \* a NULL chunk, or NULL raw_results
Rowset  == -1   \* the rows that come with the query response itself

FaultKinds == {"init", "create", "download", "signal", "broadcast"}

ASSUME SizeAssumption == NThreads \in Nat \ {0} /\ QSize \in Nat

\* The server sends no empty chunk; the inline rowset may be empty.
ASSUME RowCountAssumption ==
    /\ RowCount \in [Rowset..QSize - 1 -> Nat]
    /\ \A k \in 0..QSize - 1 : RowCount[k] > 0

\* Offset is the running sum of RowCount.
ASSUME OffsetAssumption ==
    /\ Offset \in [Rowset..QSize -> Nat]
    /\ Offset[Rowset] = 0
    /\ \A k \in Rowset..QSize - 1 : Offset[k + 1] = Offset[k] + RowCount[k]

ASSUME FaultAssumption == Faults \subseteq FaultKinds

Fallible == Faults # {}   \* whether anything can go wrong

Threads == 1..NThreads
Chunks  == 0..QSize - 1
App     == 0            \* the application thread, as an owner of queue_lock
Free    == -1           \* queue_lock is not held
NoResults == [chunk |-> NoChunk, next |-> 1]
NoRow     == <<NoChunk, 0>>

VARIABLES
    \* SF_CHUNK_DOWNLOADER
    queue_lock, queue, producer_head, consumer_head, thread_count,
    is_shutdown, has_error,
    freed,          \* chunk_downloader_term has released the structure
    \* each downloader thread: where it is, and its local index
    pc, index,
    \* the application thread: where it is, the threads it has created or joined
    apc, created, joined,
    \* SF_STMT
    sf_error, raw_results, chunk_rowcount, cur_row, total_row_index,
    \* snowflake_fetch's ret and get_chunk_success
    ret, get_chunk_success

dvars == <<queue, producer_head, consumer_head>>
avars == <<created, joined, freed>>
svars == <<raw_results, chunk_rowcount, cur_row, total_row_index>>
fvars == <<ret, get_chunk_success>>
vars  == <<queue_lock, dvars, thread_count, is_shutdown, has_error, pc, index,
           apc, avars, sf_error, svars, fvars>>

(***************************************************************************)
(* Mutex and condition variables                                           *)
(***************************************************************************)
Acquire(a) == queue_lock = Free /\ queue_lock' = a

\* Unlocking a default mutex that the caller does not hold is undefined: glibc
\* releases it whoever holds it, other implementations return an error.
Release(a) == queue_lock' \in IF queue_lock = a THEN {Free} ELSE {Free, queue_lock}

ProducersWaiting == {t \in Threads : pc[t] = "pwait"}

SignalProducer ==
    IF ProducersWaiting = {}
    THEN pc' = pc
    ELSE \E t \in ProducersWaiting : pc' = [pc EXCEPT ![t] = "pwake"]

SignalConsumer == apc' = IF apc = "cwait" THEN "cwake" ELSE apc

shutdown_or_error == is_shutdown \/ has_error

(***************************************************************************)
(* chunk_downloader_init and the creation of the threads                   *)
(***************************************************************************)
Init ==
    /\ queue_lock = Free
    /\ queue = [k \in Chunks |-> NoChunk]
    /\ producer_head = 0 /\ consumer_head = 0 /\ thread_count = 0
    /\ is_shutdown = FALSE /\ has_error = FALSE /\ freed = FALSE
    /\ pc = [t \in Threads |-> "none"]
    /\ index = [t \in Threads |-> 0]
    /\ apc = "init" /\ created = 0 /\ joined = 0
    /\ sf_error = "none"
    /\ raw_results = [chunk |-> Rowset, next |-> 1]
    /\ chunk_rowcount = RowCount[Rowset]
    /\ cur_row = NoRow /\ total_row_index = 0
    /\ ret = "none" /\ get_chunk_success = TRUE

\* Headers, locks, memory and queue are set up.
InitQueue ==
    /\ apc = "init" /\ apc' = "create"
    /\ UNCHANGED <<queue_lock, dvars, thread_count, is_shutdown, has_error, pc,
                   index, avars, sf_error, svars, fvars>>

\* init releases what it allocated and returns NULL.  A bad header or a lock that
\* cannot be made sets an error; bad arguments and a chunk without url or rowCount
\* do not.
InitQueueFails ==
    /\ apc = "init" /\ apc' = "gone" /\ "init" \in Faults
    /\ sf_error' \in {"bad_json", "pthread", "none"}
    /\ freed' = TRUE
    /\ UNCHANGED <<queue_lock, dvars, thread_count, is_shutdown, has_error, pc,
                   index, created, joined, svars, fvars>>

\* _thread_init: the new thread runs before thread_count accounts for it.
CreateThread ==
    /\ apc = "create"
    /\ pc' = [pc EXCEPT ![created + 1] = "lock"]
    /\ created' = created + 1
    /\ apc' = "count"
    /\ UNCHANGED <<queue_lock, dvars, thread_count, is_shutdown, has_error,
                   index, joined, freed, sf_error, svars, fvars>>

\* thread_count++ without any lock, then the next turn of the loop or the return.
CountThread ==
    /\ apc = "count"
    /\ thread_count' = thread_count + 1
    /\ apc' = IF created < NThreads THEN "create" ELSE "idle"
    /\ UNCHANGED <<queue_lock, dvars, is_shutdown, has_error, pc, index, avars,
                   sf_error, svars, fvars>>

\* pthread_create fails: init destroys the downloader and returns NULL.
CreateThreadFails ==
    /\ apc = "create" /\ "create" \in Faults
    /\ apc' = "t_lock"
    /\ UNCHANGED <<queue_lock, dvars, thread_count, is_shutdown, has_error, pc,
                   index, avars, sf_error, svars, fvars>>

(***************************************************************************)
(* chunk_downloader_thread                                                 *)
(***************************************************************************)
\* A step of thread t that only moves from one program point to another.
Goto(t, from, to) == pc[t] = from /\ pc' = [pc EXCEPT ![t] = to]

\* Everything but the lock, the queue and the threads' own state.
NotWorkerVars == <<thread_count, is_shutdown, apc, avars, svars, fvars>>

WLock(t) ==
    /\ Goto(t, "lock", "loop") /\ Acquire(t)
    /\ UNCHANGED <<dvars, has_error, index, sf_error, NotWorkerVars>>

WindowFull == producer_head - consumer_head >= thread_count

\* The condition of the wait loop.
WLoop(t) ==
    /\ Goto(t, "loop", IF /\ WindowFull
                          /\ producer_head < QSize
                          /\ ~shutdown_or_error
                       THEN "wait" ELSE "break")
    /\ UNCHANGED <<queue_lock, dvars, has_error, index, sf_error, NotWorkerVars>>

\* _cond_wait releases queue_lock and sleeps; it takes the lock again to return.
WWait(t) ==
    /\ Goto(t, "wait", "pwait") /\ Release(t)
    /\ UNCHANGED <<dvars, has_error, index, sf_error, NotWorkerVars>>

\* POSIX lets a wait end without a signal.
WSpurious(t) ==
    /\ Goto(t, "pwait", "pwake")
    /\ UNCHANGED <<queue_lock, dvars, has_error, index, sf_error, NotWorkerVars>>

\* Mutant: the wait loop tested only once.
WWakeOnce(t) ==
    /\ Goto(t, "pwake", "break") /\ Acquire(t)
    /\ UNCHANGED <<dvars, has_error, index, sf_error, NotWorkerVars>>

WWake(t) ==
    /\ Goto(t, "pwake", "loop") /\ Acquire(t)
    /\ UNCHANGED <<dvars, has_error, index, sf_error, NotWorkerVars>>

\* Mutant: no test for the end of the queue.
WBreakNoEnd(t) ==
    /\ Goto(t, "break", IF shutdown_or_error THEN "exit" ELSE "claim")
    /\ UNCHANGED <<queue_lock, dvars, has_error, index, sf_error, NotWorkerVars>>

\* Mutant: only the shutdown is tested.
WBreakNoError(t) ==
    /\ Goto(t, "break", IF is_shutdown \/ producer_head >= QSize
                        THEN "exit" ELSE "claim")
    /\ UNCHANGED <<queue_lock, dvars, has_error, index, sf_error, NotWorkerVars>>

WBreak(t) ==
    /\ Goto(t, "break", IF shutdown_or_error \/ producer_head >= QSize
                        THEN "exit" ELSE "claim")
    /\ UNCHANGED <<queue_lock, dvars, has_error, index, sf_error, NotWorkerVars>>

\* Mutant: the head is read but not advanced.
WClaimNoAdvance(t) ==
    /\ Goto(t, "claim", "unlock")
    /\ index' = [index EXCEPT ![t] = producer_head]
    /\ UNCHANGED <<queue_lock, dvars, has_error, sf_error, NotWorkerVars>>

WClaim(t) ==
    /\ Goto(t, "claim", "unlock")
    /\ index' = [index EXCEPT ![t] = producer_head]
    /\ producer_head' = producer_head + 1
    /\ UNCHANGED <<queue_lock, queue, consumer_head, has_error, sf_error,
                   NotWorkerVars>>

WUnlock(t) ==
    /\ Goto(t, "unlock", "download") /\ Release(t)
    /\ UNCHANGED <<dvars, has_error, index, sf_error, NotWorkerVars>>

WDownload(t) ==
    /\ \/ Goto(t, "download", "relock")
       \/ "download" \in Faults /\ Goto(t, "download", "fail")
    /\ UNCHANGED <<queue_lock, dvars, has_error, index, sf_error, NotWorkerVars>>

\* The first failure is copied into the statement's error; the copy is empty when
\* http_perform failed without setting one.  The thread leaves its loop without
\* queue_lock and without a signal.
WFail(t) ==
    /\ Goto(t, "fail", "exit")
    /\ has_error' = TRUE
    /\ IF has_error THEN sf_error' = sf_error ELSE sf_error' \in {"none", "download"}
    /\ UNCHANGED <<queue_lock, dvars, index, NotWorkerVars>>

WRelock(t) ==
    /\ Goto(t, "relock", "publish") /\ Acquire(t)
    /\ UNCHANGED <<dvars, has_error, index, sf_error, NotWorkerVars>>

WPublish(t) ==
    /\ Goto(t, "publish", IF has_error THEN "exit" ELSE "store")
    /\ UNCHANGED <<queue_lock, dvars, has_error, index, sf_error, NotWorkerVars>>

\* Mutant: the consumer is not signalled.
WStoreSilent(t) ==
    /\ queue' = [queue EXCEPT ![index[t]] = index[t]]
    /\ Goto(t, "store", "next")
    /\ UNCHANGED <<queue_lock, producer_head, consumer_head, has_error, index,
                   sf_error, NotWorkerVars>>

\* The chunk is stored and the consumer signalled.
WStore(t) ==
    /\ queue' = [queue EXCEPT ![index[t]] = index[t]]
    /\ \/ /\ Goto(t, "store", "next")
          /\ SignalConsumer
          /\ UNCHANGED <<has_error, sf_error>>
       \/ /\ "signal" \in Faults /\ Goto(t, "store", "exit")
          /\ has_error' = TRUE
          /\ sf_error' = IF has_error THEN sf_error ELSE "pthread"
          /\ UNCHANGED apc
    /\ UNCHANGED <<queue_lock, producer_head, consumer_head, index,
                   thread_count, is_shutdown, avars, svars, fvars>>

WNext(t) ==
    /\ Goto(t, "next", "lock") /\ Release(t)
    /\ UNCHANGED <<dvars, has_error, index, sf_error, NotWorkerVars>>

\* The unlock after the loop, reached with the lock or, from WFail, without it.
WExit(t) ==
    /\ Goto(t, "exit", "done") /\ Release(t)
    /\ UNCHANGED <<dvars, has_error, index, sf_error, NotWorkerVars>>

chunk_downloader_thread(t) ==
    \/ WLock(t) \/ WLoop(t) \/ WWait(t) \/ WWake(t) \/ WBreak(t) \/ WClaim(t)
    \/ WUnlock(t) \/ WDownload(t) \/ WFail(t) \/ WRelock(t) \/ WPublish(t)
    \/ WStore(t) \/ WNext(t) \/ WExit(t)

(***************************************************************************)
(* snowflake_fetch                                                         *)
(***************************************************************************)
AppGoto(from, to) == apc = from /\ apc' = to

\* Everything but the lock, the heads, the statement and the locals of fetch.
NotFetchVars == <<thread_count, is_shutdown, has_error, index, avars>>

\* The statement's error, which is the downloader's sf_error, is cleared first.
FetchStart ==
    /\ AppGoto("idle", "f_error")
    /\ sf_error' = "none" /\ cur_row' = NoRow
    /\ ret' = "general" /\ get_chunk_success' = TRUE
    /\ UNCHANGED <<queue_lock, dvars, pc, raw_results, chunk_rowcount,
                   total_row_index, NotFetchVars>>

FetchError ==
    /\ AppGoto("f_error", IF has_error THEN "idle"
                          ELSE IF chunk_rowcount = 0 THEN "f_lock" ELSE "f_row")
    /\ UNCHANGED <<queue_lock, dvars, pc, sf_error, svars, fvars, NotFetchVars>>

FetchLock ==
    /\ AppGoto("f_lock", "f_head") /\ Acquire(App)
    /\ UNCHANGED <<dvars, pc, sf_error, svars, fvars, NotFetchVars>>

\* Mutant: one chunk too early.
FetchHeadEarly ==
    /\ IF consumer_head + 1 >= QSize
       THEN AppGoto("f_head", "f_unlock") /\ raw_results' = NoResults /\ ret' = "eof"
       ELSE AppGoto("f_head", "f_loop") /\ UNCHANGED <<raw_results, ret>>
    /\ UNCHANGED <<queue_lock, dvars, pc, sf_error, chunk_rowcount, cur_row,
                   total_row_index, get_chunk_success, NotFetchVars>>

\* All chunks consumed: the last results are deleted and the status is EOF.
FetchHead ==
    /\ IF consumer_head >= QSize
       THEN AppGoto("f_head", "f_unlock") /\ raw_results' = NoResults /\ ret' = "eof"
       ELSE AppGoto("f_head", "f_loop") /\ UNCHANGED <<raw_results, ret>>
    /\ UNCHANGED <<queue_lock, dvars, pc, sf_error, chunk_rowcount, cur_row,
                   total_row_index, get_chunk_success, NotFetchVars>>

FetchLoop ==
    /\ AppGoto("f_loop", IF queue[consumer_head] = NoChunk /\ ~shutdown_or_error
                         THEN "f_wait" ELSE "f_check")
    /\ UNCHANGED <<queue_lock, dvars, pc, sf_error, svars, fvars, NotFetchVars>>

FetchWait ==
    /\ AppGoto("f_wait", "cwait") /\ Release(App)
    /\ UNCHANGED <<dvars, pc, sf_error, svars, fvars, NotFetchVars>>

FetchSpurious ==
    /\ AppGoto("cwait", "cwake")
    /\ UNCHANGED <<queue_lock, dvars, pc, sf_error, svars, fvars, NotFetchVars>>

\* Mutant: the wait loop tested only once.
FetchWakeOnce ==
    /\ AppGoto("cwake", "f_check") /\ Acquire(App)
    /\ UNCHANGED <<dvars, pc, sf_error, svars, fvars, NotFetchVars>>

FetchWake ==
    /\ AppGoto("cwake", "f_loop") /\ Acquire(App)
    /\ UNCHANGED <<dvars, pc, sf_error, svars, fvars, NotFetchVars>>

\* Mutant: only the shutdown is tested.
FetchCheckNoError ==
    /\ AppGoto("f_check", IF is_shutdown THEN "f_unlock" ELSE "f_take")
    /\ get_chunk_success' = ~is_shutdown
    /\ UNCHANGED <<queue_lock, dvars, pc, sf_error, svars, ret, NotFetchVars>>

FetchCheck ==
    /\ AppGoto("f_check", IF shutdown_or_error THEN "f_unlock" ELSE "f_take")
    /\ get_chunk_success' = ~shutdown_or_error
    /\ UNCHANGED <<queue_lock, dvars, pc, sf_error, svars, ret, NotFetchVars>>

\* The chunk moves from the queue to the statement and a producer is signalled.
FetchTake ==
    /\ AppGoto("f_take", "f_unlock")
    /\ consumer_head' = consumer_head + 1
    /\ raw_results' = [chunk |-> queue[consumer_head], next |-> 1]
    /\ queue' = [queue EXCEPT ![consumer_head] = NoChunk]
    /\ chunk_rowcount' = RowCount[consumer_head]
    /\ \/ SignalProducer /\ UNCHANGED <<sf_error, get_chunk_success>>
       \/ /\ "signal" \in Faults
          /\ sf_error' = "pthread" /\ get_chunk_success' = FALSE
          /\ UNCHANGED pc
    /\ UNCHANGED <<queue_lock, producer_head, cur_row, total_row_index, ret,
                   NotFetchVars>>

FetchUnlock ==
    /\ AppGoto("f_unlock", IF ret = "eof" \/ ~get_chunk_success
                           THEN "idle" ELSE "f_row")
    /\ Release(App)
    /\ UNCHANGED <<dvars, pc, sf_error, svars, fvars, NotFetchVars>>

\* The first row left in raw_results is detached and becomes the current row.
FetchRow ==
    /\ AppGoto("f_row", "idle")
    /\ cur_row' = IF /\ raw_results.chunk # NoChunk
                     /\ raw_results.next <= RowCount[raw_results.chunk]
                  THEN <<raw_results.chunk, raw_results.next>> ELSE NoRow
    /\ raw_results' = [raw_results EXCEPT !.next = @ + 1]
    /\ chunk_rowcount' = chunk_rowcount - 1
    /\ total_row_index' = total_row_index + 1
    /\ ret' = "success"
    /\ UNCHANGED <<queue_lock, dvars, pc, sf_error, get_chunk_success, NotFetchVars>>

snowflake_fetch ==
    \/ FetchError \/ FetchLock \/ FetchHead \/ FetchLoop \/ FetchWait \/ FetchWake
    \/ FetchCheck \/ FetchTake \/ FetchUnlock \/ FetchRow

(***************************************************************************)
(* chunk_downloader_term, called by _snowflake_stmt_reset or by a failed   *)
(* chunk_downloader_init                                                   *)
(***************************************************************************)
NotTermVars == <<producer_head, consumer_head, thread_count, index, created,
                 svars, fvars>>

\* _snowflake_stmt_reset drops the statement's rows and error, then calls term.
ResetStart ==
    /\ AppGoto("idle", "t_lock")
    /\ sf_error' = "none" /\ cur_row' = NoRow /\ raw_results' = NoResults
    /\ chunk_rowcount' = -1 /\ total_row_index' = -1
    /\ UNCHANGED <<queue_lock, dvars, pc, fvars, NotFetchVars>>

TermLock ==
    /\ AppGoto("t_lock", "t_down") /\ Acquire(App)
    /\ UNCHANGED <<queue, is_shutdown, has_error, pc, joined, freed, sf_error,
                   NotTermVars>>

\* Mutant: the threads are not woken.
TermShutdownSilent ==
    /\ is_shutdown' = TRUE
    /\ AppGoto("t_down", "t_unlock")
    /\ UNCHANGED <<queue_lock, queue, has_error, pc, joined, freed, sf_error,
                   NotTermVars>>

\* set_shutdown and the two broadcasts.  A broadcast that fails skips the rest of
\* the condition, the unlock included, and term goes on to the join.
TermShutdown ==
    /\ is_shutdown' = TRUE
    /\ \/ /\ AppGoto("t_down", "t_unlock")
          /\ pc' = [t \in Threads |-> IF pc[t] = "pwait" THEN "pwake" ELSE pc[t]]
          /\ UNCHANGED <<has_error, sf_error>>
       \/ /\ AppGoto("t_down", "t_join") /\ "broadcast" \in Faults
          /\ has_error' = TRUE
          /\ sf_error' = IF has_error THEN sf_error ELSE "pthread"
          /\ UNCHANGED pc
    /\ UNCHANGED <<queue_lock, queue, joined, freed, NotTermVars>>

TermUnlock ==
    /\ AppGoto("t_unlock", "t_join") /\ Release(App)
    /\ UNCHANGED <<queue, is_shutdown, has_error, pc, joined, freed, sf_error,
                   NotTermVars>>

TermJoin ==
    /\ apc = "t_join" /\ joined < thread_count
    /\ pc[joined + 1] = "done"
    /\ joined' = joined + 1
    /\ UNCHANGED <<queue_lock, queue, is_shutdown, has_error, pc, apc, freed,
                   sf_error, NotTermVars>>

\* Mutant: the threads are not joined.
TermFreeEarly ==
    /\ AppGoto("t_join", "gone")
    /\ freed' = TRUE
    /\ queue' = [k \in Chunks |-> NoChunk]
    /\ sf_error' = IF created < NThreads THEN "pthread" ELSE sf_error
    /\ UNCHANGED <<queue_lock, is_shutdown, has_error, pc, joined, NotTermVars>>

\* The chunks nobody fetched and the structure are freed.  A failed init then
\* reports the thread it could not create.
TermFree ==
    /\ joined = thread_count
    /\ AppGoto("t_join", "gone")
    /\ freed' = TRUE
    /\ queue' = [k \in Chunks |-> NoChunk]
    /\ sf_error' = IF created < NThreads THEN "pthread" ELSE sf_error
    /\ UNCHANGED <<queue_lock, is_shutdown, has_error, pc, joined, NotTermVars>>

chunk_downloader_term ==
    TermLock \/ TermShutdown \/ TermUnlock \/ TermJoin \/ TermFree

chunk_downloader_init ==
    InitQueue \/ InitQueueFails \/ CreateThread \/ CountThread \/ CreateThreadFails

\* The statement may stay as it is once its downloader is gone.
Terminated == apc = "gone" /\ UNCHANGED vars

Next ==
    \/ chunk_downloader_init
    \/ \E t \in Threads : chunk_downloader_thread(t) \/ WSpurious(t)
    \/ FetchStart \/ snowflake_fetch \/ FetchSpurious
    \/ ResetStart \/ chunk_downloader_term
    \/ Terminated

Spec == Init /\ [][Next]_vars

\* The operating system runs every thread that can run, an HTTP request ends, and
\* no thread is passed over forever by a lock that keeps being released.  Nobody
\* has to fetch or to reset, and no spurious wakeup has to come.
Fairness ==
    /\ WF_vars(chunk_downloader_init)
    /\ WF_vars(snowflake_fetch) /\ WF_vars(chunk_downloader_term)
    /\ SF_vars(FetchLock) /\ SF_vars(FetchWake) /\ SF_vars(TermLock)
    /\ \A t \in Threads :
        /\ WF_vars(chunk_downloader_thread(t))
        /\ SF_vars(WLock(t)) /\ SF_vars(WWake(t)) /\ SF_vars(WRelock(t))

FairSpec == Spec /\ Fairness

(***************************************************************************)
(* Properties                                                              *)
(***************************************************************************)
WorkerPoints ==
    {"none", "lock", "loop", "wait", "pwait", "pwake", "break", "claim", "unlock",
     "download", "fail", "relock", "publish", "store", "next", "exit", "done"}

FetchPoints ==
    {"f_error", "f_lock", "f_head", "f_loop", "f_wait", "cwait", "cwake", "f_check",
     "f_take", "f_unlock", "f_row"}

TermPoints == {"t_lock", "t_down", "t_unlock", "t_join"}

AppPoints == {"init", "create", "count", "idle", "gone"} \cup FetchPoints \cup TermPoints

DownloaderType ==
    /\ queue_lock \in Threads \cup {App, Free}
    /\ queue \in [Chunks -> Chunks \cup {NoChunk}]
    /\ producer_head \in 0..QSize /\ consumer_head \in 0..QSize
    /\ thread_count \in 0..NThreads
    /\ is_shutdown \in BOOLEAN /\ has_error \in BOOLEAN /\ freed \in BOOLEAN

ControlType ==
    /\ pc \in [Threads -> WorkerPoints]
    /\ index \in [Threads -> 0..QSize]
    /\ apc \in AppPoints
    /\ created \in 0..NThreads /\ joined \in 0..NThreads

StatementType ==
    /\ sf_error \in {"none", "download", "pthread", "bad_json"}
    /\ raw_results \in [chunk : Chunks \cup {Rowset, NoChunk}, next : Nat]
    /\ chunk_rowcount \in Int /\ total_row_index \in Int
    /\ cur_row \in (Chunks \cup {Rowset, NoChunk}) \X Nat
    /\ ret \in {"none", "success", "eof", "general"}
    /\ get_chunk_success \in BOOLEAN

\* Every variable stays in its type; in particular the heads of the queue never
\* pass queue_size and no more threads are counted than were asked for.
TypeOK == DownloaderType /\ ControlType /\ StatementType

\* A thread between the claim of a chunk and its publication.
InFlight(t) ==
    pc[t] \in {"unlock", "download", "fail", "relock", "publish", "store"}

\* snowflake_fetch: the n-th call that succeeds returns the n-th row of the result
\* set, whatever the order in which the threads downloaded the chunks.
DeliveredInOrder ==
    apc = "idle" /\ ret = "success" =>
        /\ cur_row[1] # NoChunk
        /\ cur_row[2] \in 1..RowCount[cur_row[1]]
        /\ Offset[cur_row[1]] + cur_row[2] = total_row_index

\* snowflake_fetch: SF_STATUS_EOF is returned only when every row of the inline
\* rowset and of every chunk has been returned, never in place of an error.
EofMeansAll ==
    apc = "idle" /\ ret = "eof" => total_row_index = Offset[QSize]

\* chunk_downloader_thread: the consumer never overtakes the producers and the
\* producers never run more than one chunk per thread ahead of it, although
\* thread_count is written without a lock.  So the unsigned subtraction of the
\* heads never wraps.
WindowBound ==
    /\ consumer_head <= producer_head
    /\ producer_head - consumer_head <= thread_count

\* chunk_downloader_thread and snowflake_fetch: no chunk is downloaded by two
\* threads, stored in another chunk's slot, stored twice, or left in its slot once
\* consumed.
SlotIntegrity ==
    /\ \A k \in Chunks : queue[k] # NoChunk =>
          queue[k] = k /\ consumer_head <= k /\ k < producer_head
    /\ \A t \in Threads : InFlight(t) =>
          /\ consumer_head <= index[t] /\ index[t] < producer_head
          /\ queue[index[t]] = NoChunk
    /\ \A t, u \in Threads : t # u /\ InFlight(t) /\ InFlight(u) =>
          index[t] # index[u]

\* An actor about to change the queue or one of its heads.
Mutating(a) == IF a = App THEN apc = "f_take" ELSE pc[a] \in {"claim", "store"}

\* queue_lock: two actors never change the queue at the same time, not even after
\* a failed download made a thread release a lock that it does not hold.
MutualExclusion ==
    \A a, b \in Threads \cup {App} : Mutating(a) /\ Mutating(b) => a = b

\* chunk_downloader_term: when the structure is freed every thread that was
\* created has left it, and nobody holds the mutex that is destroyed unless a
\* failed broadcast made term keep it.
NoUseAfterFree ==
    freed => /\ \A t \in Threads : pc[t] \in {"none", "done"}
             /\ queue_lock = Free \/ "broadcast" \in Faults

\* The statement as its application sees it.
Phase ==
    IF apc \in {"init", "create", "count"} THEN "opening"
    ELSE IF apc \in FetchPoints THEN "fetching"
    ELSE IF apc \in TermPoints THEN "closing"
    ELSE IF apc = "gone" THEN "closed" ELSE "idle"

\* The number of the current row in the result set, 0 when there is none.
RowNumber == IF cur_row[1] = NoChunk THEN 0 ELSE Offset[cur_row[1]] + cur_row[2]

Stream == INSTANCE ResultStream WITH
    Total   <- Offset[QSize],
    CanFail <- Fallible,
    phase   <- Phase,
    pos     <- IF apc \in TermPoints \cup {"gone"} THEN 0 ELSE total_row_index,
    row     <- RowNumber,
    status  <- IF apc \in FetchPoints THEN "none" ELSE ret

\* The downloader, its threads and snowflake_fetch together hand out the rows of
\* the result set as ResultStream says: every row once, in order, EOF only after
\* the last one, and an error only if something failed.
ImplementsStream == Stream!Spec

\* snowflake_fetch: every call returns.
FetchReturns == (apc \in FetchPoints) ~> (apc = "idle")

\* chunk_downloader_term: every call joins all the threads and returns.
TermReturns == (apc \in TermPoints) ~> (apc = "gone")

====
