----------------------- MODULE ChunkDownloaderProofs -----------------------
(***************************************************************************)
(* ChunkDownloader for any number of threads and chunks, any row counts    *)
(* and any set of faults: the inductive invariant, the safety theorems,    *)
(* the refinement of ResultStream, and that nobody waits forever.          *)
(***************************************************************************)
EXTENDS ChunkDownloader, WellFoundedInduction, TLAPS

(***************************************************************************)
(* The inductive invariant                                                 *)
(***************************************************************************)
\* Points at which the code relies on holding queue_lock.
WorkerHolds(t) ==
    pc[t] \in {"loop", "wait", "break", "claim", "unlock", "publish", "store",
               "next", "exit"}

AppHolds ==
    apc \in {"f_head", "f_loop", "f_wait", "f_check", "f_take", "f_unlock",
             "t_down", "t_unlock"}

\* Until a download fails, whoever relies on the lock has it.  Afterwards a thread
\* may have released somebody else's lock.
LockHeld ==
    ~has_error => /\ \A t \in Threads : WorkerHolds(t) => queue_lock = t
                  /\ AppHolds => queue_lock = App

\* The owner of the lock is always at a point where it will release it, except
\* the application after a failed broadcast.
LockOwner ==
    /\ \A t \in Threads : queue_lock = t => WorkerHolds(t)
    /\ queue_lock = App => AppHolds \/ "broadcast" \in Faults

\* What a thread tested under the lock still holds when it acts on it.
ClaimReady ==
    \A t \in Threads :
        /\ pc[t] = "break" /\ ~shutdown_or_error =>
              ~WindowFull \/ producer_head >= QSize
        /\ pc[t] = "claim" => ~WindowFull /\ producer_head < QSize

\* What snowflake_fetch tested under the lock still holds when it acts on it.
TakeReady ==
    /\ apc \in {"f_loop", "f_wait", "cwait", "cwake", "f_check", "f_take"} =>
          consumer_head < QSize
    /\ apc = "f_check" /\ ~shutdown_or_error => queue[consumer_head] # NoChunk
    /\ apc = "f_take" => queue[consumer_head] # NoChunk

\* The application counts the threads that it creates and joins.
ThreadsCounted ==
    /\ created = IF apc = "count" THEN thread_count + 1 ELSE thread_count
    /\ apc = "init" => created = 0
    /\ apc = "create" => created < NThreads
    /\ apc \in {"idle"} \cup FetchPoints => created = NThreads
    /\ joined <= thread_count
    /\ \A t \in Threads : t > created => pc[t] = "none"
    /\ \A t \in Threads : t <= joined => pc[t] = "done"

\* The statement is before its reset.
Open == apc \notin TermPoints \cup {"gone"}

\* Where the statement is in the result set: raw_results is the chunk before
\* consumer_head and the rows taken from it are counted once each.
Position ==
    Open =>
        IF raw_results.chunk = NoChunk
        THEN /\ chunk_rowcount = 0
             /\ consumer_head = QSize
             /\ total_row_index = Offset[QSize]
        ELSE /\ raw_results.chunk = consumer_head - 1
             /\ chunk_rowcount = RowCount[consumer_head - 1] - raw_results.next + 1
             /\ chunk_rowcount >= 0 /\ raw_results.next >= 1
             /\ total_row_index = Offset[consumer_head - 1] + raw_results.next - 1

\* The locals of snowflake_fetch along its path.
FetchState ==
    /\ apc \in {"init", "create", "count"} =>
          ret = "none" /\ cur_row = NoRow /\ total_row_index = 0
    /\ apc \in FetchPoints => cur_row = NoRow
    /\ apc \in FetchPoints \ {"f_unlock"} => ret = "general"
    /\ apc = "f_unlock" => ret \in {"general", "eof"}
    /\ apc \in FetchPoints \ {"f_unlock"} => get_chunk_success
    /\ apc \in FetchPoints \ {"f_error", "f_unlock", "f_row"} => chunk_rowcount = 0
    /\ apc \in {"f_unlock", "idle"} /\ ret = "eof" => raw_results.chunk = NoChunk
    /\ apc = "f_row" \/ (apc = "f_unlock" /\ ret # "eof" /\ get_chunk_success) =>
          chunk_rowcount > 0

\* A call fails only after a fault, and only the end of the statement shuts the
\* downloader down.
FailureHasCause ==
    /\ has_error => Fallible
    /\ is_shutdown => apc \in TermPoints \cup {"gone"}
    /\ apc = "f_unlock" /\ ~get_chunk_success => Fallible

DownloadFailureHasCause == \A t \in Threads : pc[t] = "fail" => Fallible

\* freed is set by the last step of the application.
FreedLast ==
    /\ freed => apc = "gone"
    /\ NoUseAfterFree

IInv ==
    /\ TypeOK /\ LockHeld /\ LockOwner /\ MutualExclusion
    /\ ClaimReady /\ WindowBound /\ TakeReady /\ SlotIntegrity
    /\ ThreadsCounted /\ FreedLast
    /\ FailureHasCause /\ DownloadFailureHasCause
    /\ Position /\ FetchState /\ DeliveredInOrder

-----------------------------------------------------------------------------
\* Abbreviations and elementary steps that every proof below expands.
USE DEF Threads, Chunks, App, Free, NoChunk, Rowset, NoResults, NoRow,
        dvars, avars, svars, fvars, NotWorkerVars, NotFetchVars, NotTermVars,
        Goto, AppGoto, Acquire, Release, shutdown_or_error

(***************************************************************************)
(* Frames: what the steps of a thread and a signal leave alone             *)
(***************************************************************************)
\* A step of a thread leaves the statement and the application's counters alone,
\* can only wake the consumer, and never takes an error back.
LEMMA WorkerFrame ==
    ASSUME NEW t \in Threads, chunk_downloader_thread(t) \/ WSpurious(t)
    PROVE  /\ UNCHANGED <<consumer_head, thread_count, is_shutdown, avars, svars, fvars>>
           /\ apc' = apc \/ (apc = "cwait" /\ apc' = "cwake")
           /\ has_error => has_error'
<1>1. CASE WLock(t) \/ WLoop(t) \/ WWait(t) \/ WSpurious(t) \/ WWake(t)
    BY <1>1 DEF WLock, WLoop, WWait, WSpurious, WWake
<1>2. CASE WBreak(t) \/ WClaim(t) \/ WUnlock(t) \/ WDownload(t)
           \/ WFail(t)
    BY <1>2 DEF WBreak, WClaim, WUnlock, WDownload, WFail
<1>3. CASE WRelock(t) \/ WPublish(t) \/ WStore(t)
    BY <1>3 DEF WRelock, WPublish, WStore, SignalConsumer
<1>4. CASE WNext(t) \/ WExit(t)
    BY <1>4 DEF WNext, WExit
<1>. QED
    BY <1>1, <1>2, <1>3, <1>4, Zenon DEF chunk_downloader_thread

\* It moves that thread only.
LEMMA WorkerMoves ==
    ASSUME ControlType, NEW t \in Threads, chunk_downloader_thread(t) \/ WSpurious(t)
    PROVE  /\ pc[t] # "none" /\ pc[t] # "done"
           /\ \A u \in Threads : u # t => pc'[u] = pc[u] /\ index'[u] = index[u]
<1>. USE DEF ControlType
<1>1. CASE WLock(t) \/ WLoop(t) \/ WWait(t)
    BY <1>1, Zenon DEF WLock, WLoop, WWait
<1>2. CASE WSpurious(t) \/ WWake(t) \/ WBreak(t)
    BY <1>2, Zenon DEF WSpurious, WWake, WBreak
<1>3. CASE WClaim(t)
    BY <1>3 DEF WClaim
<1>4. CASE WUnlock(t) \/ WDownload(t)
    BY <1>4, Zenon DEF WUnlock, WDownload
<1>5. CASE WFail(t) \/ WRelock(t) \/ WPublish(t)
    BY <1>5, Zenon DEF WFail, WRelock, WPublish
<1>6. CASE WStore(t)
    BY <1>6, Zenon DEF WStore, SignalConsumer
<1>7. CASE WNext(t) \/ WExit(t)
    BY <1>7, Zenon DEF WNext, WExit
<1>. QED
    BY <1>1, <1>2, <1>3, <1>4, <1>5, <1>6, <1>7, Zenon DEF chunk_downloader_thread


\* A signal moves at most one waiting thread.
LEMMA SignalProducerEffect ==
    ASSUME ControlType, SignalProducer
    PROVE  /\ pc' \in [Threads -> WorkerPoints]
           /\ \A t \in Threads : pc'[t] # pc[t] => pc[t] = "pwait" /\ pc'[t] = "pwake"
<1>1. CASE ProducersWaiting = {}
    BY <1>1 DEF SignalProducer, ControlType
<1>2. CASE ProducersWaiting # {}
    <2>1. PICK t \in ProducersWaiting : pc' = [pc EXCEPT ![t] = "pwake"]
        BY <1>2 DEF SignalProducer
    <2>. QED  BY <2>1 DEF ProducersWaiting, ControlType, WorkerPoints
<1>. QED  BY <1>1, <1>2

(***************************************************************************)
(* Type correctness                                                        *)
(***************************************************************************)
\* The heads, the slots and thread_count keep their types: a claim and a take were
\* preceded by a test against queue_size.
LEMMA DownloaderTypeStep ==
    ASSUME IInv, Next PROVE DownloaderType'
<1>. USE SizeAssumption DEF IInv, TypeOK, DownloaderType
<1>1. CASE InitQueue \/ InitQueueFails \/ CreateThread
           \/ CreateThreadFails
    BY <1>1, Zenon DEF InitQueue, InitQueueFails, CreateThread, CreateThreadFails
<1>2. CASE CountThread
    BY <1>2, Zenon DEF CountThread, ThreadsCounted, ControlType
<1>3. CASE FetchStart \/ FetchError \/ FetchLock \/ FetchHead
           \/ FetchLoop \/ FetchWait
    BY <1>3, Zenon
    DEF FetchStart, FetchError, FetchLock, FetchHead, FetchLoop, FetchWait
<1>4. CASE FetchSpurious \/ FetchWake \/ FetchCheck \/ FetchUnlock
           \/ FetchRow
    BY <1>4, Zenon DEF FetchSpurious, FetchWake, FetchCheck, FetchUnlock, FetchRow
<1>5. CASE FetchTake
    BY <1>5 DEF FetchTake, TakeReady
<1>6. CASE ResetStart \/ TermLock \/ TermShutdown \/ TermUnlock
           \/ TermJoin \/ TermFree
    BY <1>6, Zenon
    DEF ResetStart, TermLock, TermShutdown, TermUnlock, TermJoin, TermFree
<1>7. ASSUME NEW t \in Threads, WLock(t) \/ WLoop(t) \/ WWait(t) \/ WSpurious(t) \/ WWake(t)
           \/ WBreak(t)
      PROVE  DownloaderType'
    BY <1>7, Zenon DEF WLock, WLoop, WWait, WSpurious, WWake, WBreak
<1>8. ASSUME NEW t \in Threads, WClaim(t)
      PROVE  DownloaderType'
    BY <1>8 DEF WClaim, ClaimReady
<1>9. ASSUME NEW t \in Threads, WUnlock(t) \/ WDownload(t) \/ WFail(t) \/ WRelock(t)
           \/ WPublish(t)
      PROVE  DownloaderType'
    BY <1>9, Zenon DEF WUnlock, WDownload, WFail, WRelock, WPublish
<1>10. ASSUME NEW t \in Threads, WStore(t)
      PROVE  DownloaderType'
    BY <1>10, Zenon DEF WStore, SlotIntegrity, InFlight, ControlType
<1>11. ASSUME NEW t \in Threads, WNext(t) \/ WExit(t)
      PROVE  DownloaderType'
    BY <1>11, Zenon DEF WNext, WExit
<1>12. CASE Terminated
    BY <1>12 DEF Terminated, vars
<1>. HIDE DEF IInv, TypeOK, DownloaderType
<1>. QED
    BY <1>1, <1>2, <1>3, <1>4, <1>5, <1>6, <1>7, <1>8, <1>9, <1>10, <1>11,
       <1>12, Zenon
    DEF Next, chunk_downloader_init, chunk_downloader_thread, snowflake_fetch,
        chunk_downloader_term

\* The program points, the claimed indices and the counts of created and joined
\* threads keep their types: only a thread below NThreads is created or joined.
LEMMA ControlTypeStep ==
    ASSUME IInv, Next PROVE ControlType'
<1>. USE SizeAssumption
     DEF IInv, TypeOK, ControlType, WorkerPoints, AppPoints, FetchPoints, TermPoints
<1>1. CASE InitQueue \/ InitQueueFails \/ CountThread
           \/ CreateThreadFails
    BY <1>1, Zenon
    DEF InitQueue, InitQueueFails, CountThread, CreateThreadFails,
        ThreadsCounted, DownloaderType
<1>2. CASE CreateThread
    BY <1>2 DEF CreateThread, ThreadsCounted
<1>3. CASE FetchStart \/ FetchError \/ FetchLock \/ FetchHead
           \/ FetchLoop \/ FetchWait
    BY <1>3, Zenon
    DEF FetchStart, FetchError, FetchLock, FetchHead, FetchLoop, FetchWait
<1>4. CASE FetchSpurious \/ FetchWake \/ FetchCheck \/ FetchUnlock
           \/ FetchRow
    BY <1>4, Zenon DEF FetchSpurious, FetchWake, FetchCheck, FetchUnlock, FetchRow
<1>5. CASE FetchTake
    BY <1>5, SignalProducerEffect, Zenon DEF FetchTake
<1>6. CASE ResetStart \/ TermLock \/ TermUnlock \/ TermFree
    BY <1>6, Zenon DEF ResetStart, TermLock, TermUnlock, TermFree
<1>7. CASE TermShutdown
    BY <1>7 DEF TermShutdown
<1>8. CASE TermJoin
    BY <1>8 DEF TermJoin, DownloaderType
<1>9. ASSUME NEW t \in Threads, WLock(t) \/ WLoop(t) \/ WWait(t)
      PROVE  ControlType'
    BY <1>9, Zenon DEF WLock, WLoop, WWait
<1>10. ASSUME NEW t \in Threads, WSpurious(t) \/ WWake(t) \/ WBreak(t)
      PROVE  ControlType'
    BY <1>10, Zenon DEF WSpurious, WWake, WBreak
<1>11. ASSUME NEW t \in Threads, WClaim(t)
      PROVE  ControlType'
    BY <1>11, Zenon DEF WClaim, ClaimReady, DownloaderType
<1>12. ASSUME NEW t \in Threads, WUnlock(t) \/ WDownload(t) \/ WFail(t)
      PROVE  ControlType'
    BY <1>12, Zenon DEF WUnlock, WDownload, WFail
<1>13. ASSUME NEW t \in Threads, WRelock(t) \/ WPublish(t)
      PROVE  ControlType'
    BY <1>13, SMTT(30) DEF WRelock, WPublish
<1>14. ASSUME NEW t \in Threads, WStore(t)
      PROVE  ControlType'
    BY <1>14, SMTT(30) DEF WStore, SignalConsumer
<1>15. ASSUME NEW t \in Threads, WNext(t) \/ WExit(t)
      PROVE  ControlType'
    BY <1>15, SMTT(30) DEF WNext, WExit
<1>16. CASE Terminated
    BY <1>16 DEF Terminated, vars
<1>. HIDE DEF IInv, TypeOK, ControlType, WorkerPoints, AppPoints, FetchPoints,
             TermPoints
<1>. QED
    BY <1>1, <1>2, <1>3, <1>4, <1>5, <1>6, <1>7, <1>8, <1>9, <1>10, <1>11,
       <1>12, <1>13, <1>14, <1>15, <1>16, Zenon
    DEF Next, chunk_downloader_init, chunk_downloader_thread, snowflake_fetch,
        chunk_downloader_term

\* The statement's fields and the locals of snowflake_fetch keep their types.
LEMMA StatementTypeStep ==
    ASSUME IInv, Next PROVE StatementType'
<1>. USE SizeAssumption, RowCountAssumption DEF IInv, TypeOK, StatementType
<1>1. CASE InitQueue \/ InitQueueFails \/ CreateThread \/ CountThread
           \/ CreateThreadFails
    BY <1>1, Zenon
    DEF InitQueue, InitQueueFails, CreateThread, CountThread,
        CreateThreadFails
<1>2. CASE FetchStart
    BY <1>2, Zenon DEF FetchStart
<1>3. CASE FetchError \/ FetchLock \/ FetchLoop \/ FetchWait
    BY <1>3, Zenon DEF FetchError, FetchLock, FetchLoop, FetchWait
<1>4. CASE FetchHead
    <2>1. NoResults \in [chunk : Chunks \cup {Rowset, NoChunk}, next : Nat]
        OBVIOUS
    <2>. QED  BY <1>4, <2>1, Zenon DEF FetchHead
<1>5. CASE FetchSpurious \/ FetchWake \/ FetchCheck \/ FetchUnlock
    BY <1>5, Zenon DEF FetchSpurious, FetchWake, FetchCheck, FetchUnlock
<1>6. CASE FetchTake
    <2>. USE <1>6 DEF FetchTake
    <2>1. /\ consumer_head \in Chunks
          /\ queue[consumer_head] \in Chunks \cup {Rowset, NoChunk}
        BY DEF TakeReady, DownloaderType, Zenon
    <2>2. raw_results' \in [chunk : Chunks \cup {Rowset, NoChunk}, next : Nat]
        BY <2>1, Zenon
    <2>3. chunk_rowcount' \in Int
        BY <2>1
    <2>. QED  BY <2>2, <2>3, Zenon
<1>7. CASE FetchRow
    <2>1. /\ raw_results.chunk \in Chunks \cup {Rowset, NoChunk}
          /\ raw_results.next \in Nat
        OBVIOUS
    <2>2. raw_results' = [chunk |-> raw_results.chunk, next |-> raw_results.next + 1]
        BY <1>7, Zenon DEF FetchRow
    <2>3. raw_results' \in [chunk : Chunks \cup {Rowset, NoChunk}, next : Nat]
        BY <2>1, <2>2, SMTT(30)
    <2>4. cur_row' = <<raw_results.chunk, raw_results.next>> \/ cur_row' = NoRow
        BY <1>7, Zenon DEF FetchRow
    <2>5. cur_row' \in (Chunks \cup {Rowset, NoChunk}) \X Nat
        BY <2>1, <2>4
    <2>6. /\ chunk_rowcount' = chunk_rowcount - 1
          /\ total_row_index' = total_row_index + 1
          /\ ret' = "success" /\ UNCHANGED <<sf_error, get_chunk_success>>
        BY <1>7 DEF FetchRow
    <2>. QED  BY <2>3, <2>5, <2>6
<1>8. CASE ResetStart
    BY <1>8 DEF ResetStart
<1>9. CASE TermLock \/ TermShutdown \/ TermUnlock \/ TermJoin \/ TermFree
    BY <1>9, Zenon DEF TermLock, TermShutdown, TermUnlock, TermJoin, TermFree
<1>10. ASSUME NEW t \in Threads, WLock(t) \/ WLoop(t) \/ WWait(t) \/ WSpurious(t) \/ WWake(t)
           \/ WBreak(t) \/ WClaim(t) \/ WUnlock(t) \/ WDownload(t)
      PROVE  StatementType'
    BY <1>10, SMTT(30)
    DEF WLock, WLoop, WWait, WSpurious, WWake, WBreak, WClaim, WUnlock,
        WDownload
<1>11. ASSUME NEW t \in Threads, WFail(t)
      PROVE  StatementType'
    BY <1>11, Zenon DEF WFail
<1>12. ASSUME NEW t \in Threads, WRelock(t) \/ WPublish(t) \/ WStore(t) \/ WNext(t) \/ WExit(t)
      PROVE  StatementType'
    BY <1>12, SMTT(30) DEF WRelock, WPublish, WStore, WNext, WExit
<1>13. CASE Terminated
    BY <1>13 DEF Terminated, vars
<1>. HIDE DEF IInv, TypeOK, StatementType
<1>. QED
    BY <1>1, <1>2, <1>3, <1>4, <1>5, <1>6, <1>7, <1>8, <1>9, <1>10, <1>11,
       <1>12, <1>13, Zenon
    DEF Next, chunk_downloader_init, chunk_downloader_thread, snowflake_fetch,
        chunk_downloader_term

(***************************************************************************)
(* The lock                                                                *)
(***************************************************************************)
\* Until an error, acquiring needs a free lock and only the owner releases.
LEMMA LockHeldStep ==
    ASSUME IInv, Next PROVE LockHeld'
<1>. USE SizeAssumption
     DEF IInv, TypeOK, DownloaderType, ControlType, LockHeld, WorkerHolds, AppHolds
<1>1. CASE InitQueue \/ InitQueueFails \/ CountThread
           \/ CreateThreadFails
    BY <1>1, Zenon DEF InitQueue, InitQueueFails, CountThread, CreateThreadFails
<1>2. CASE CreateThread
    BY <1>2 DEF CreateThread, ThreadsCounted
<1>3. CASE FetchStart \/ FetchError
    BY <1>3, Zenon DEF FetchStart, FetchError
<1>4. CASE FetchLock
    BY <1>4 DEF FetchLock
<1>5. CASE FetchHead \/ FetchLoop
    BY <1>5, Zenon DEF FetchHead, FetchLoop
<1>6. CASE FetchWait
    BY <1>6 DEF FetchWait
<1>7. CASE FetchSpurious
    BY <1>7 DEF FetchSpurious
<1>8. CASE FetchWake
    BY <1>8 DEF FetchWake
<1>9. CASE FetchCheck \/ FetchUnlock \/ FetchRow
    BY <1>9, SMTT(30) DEF FetchCheck, FetchUnlock, FetchRow
<1>10. CASE FetchTake
    BY <1>10, SignalProducerEffect, Zenon DEF FetchTake
<1>11. CASE ResetStart \/ TermJoin \/ TermFree
    BY <1>11, Zenon DEF ResetStart, TermJoin, TermFree
<1>12. CASE TermLock
    BY <1>12 DEF TermLock
<1>13. CASE TermUnlock
    BY <1>13 DEF TermUnlock
<1>14. CASE TermShutdown
    BY <1>14, Zenon DEF TermShutdown
<1>15. ASSUME NEW t \in Threads, WLock(t)
      PROVE  LockHeld'
    BY <1>15 DEF WLock
<1>16. ASSUME NEW t \in Threads, WLoop(t)
      PROVE  LockHeld'
    BY <1>16, Zenon DEF WLoop
<1>17. ASSUME NEW t \in Threads, WWait(t)
      PROVE  LockHeld'
    BY <1>17 DEF WWait
<1>18. ASSUME NEW t \in Threads, WSpurious(t)
      PROVE  LockHeld'
    BY <1>18, Zenon DEF WSpurious
<1>19. ASSUME NEW t \in Threads, WWake(t)
      PROVE  LockHeld'
    BY <1>19 DEF WWake
<1>20. ASSUME NEW t \in Threads, WBreak(t) \/ WClaim(t)
      PROVE  LockHeld'
    BY <1>20, Zenon DEF WBreak, WClaim
<1>21. ASSUME NEW t \in Threads, WUnlock(t)
      PROVE  LockHeld'
    BY <1>21 DEF WUnlock
<1>22. ASSUME NEW t \in Threads, WDownload(t) \/ WFail(t)
      PROVE  LockHeld'
    BY <1>22, Zenon DEF WDownload, WFail
<1>23. ASSUME NEW t \in Threads, WRelock(t) \/ WPublish(t)
      PROVE  LockHeld'
    BY <1>23, SMTT(30) DEF WRelock, WPublish
<1>24. ASSUME NEW t \in Threads, WNext(t)
      PROVE  LockHeld'
    BY <1>24 DEF WNext
<1>25. ASSUME NEW t \in Threads, WExit(t)
      PROVE  LockHeld'
    BY <1>25 DEF WExit
<1>26. ASSUME NEW t \in Threads, WStore(t)
      PROVE  LockHeld'
    BY <1>26, Zenon DEF WStore, SignalConsumer
<1>27. CASE Terminated
    BY <1>27, Zenon DEF Terminated, vars
<1>. HIDE DEF IInv, TypeOK, DownloaderType, ControlType, LockHeld, WorkerHolds,
             AppHolds
<1>. QED
    BY <1>1, <1>2, <1>3, <1>4, <1>5, <1>6, <1>7, <1>8, <1>9, <1>10, <1>11,
       <1>12, <1>13, <1>14, <1>15, <1>16, <1>17, <1>18, <1>19, <1>20, <1>21,
       <1>22, <1>23, <1>24, <1>25, <1>26, <1>27, Zenon
    DEF Next, chunk_downloader_init, chunk_downloader_thread, snowflake_fetch,
        chunk_downloader_term

\* The owner leaves the points at which it holds the lock only by releasing it.
LEMMA LockOwnerStep ==
    ASSUME IInv, Next PROVE LockOwner'
<1>. USE SizeAssumption
     DEF IInv, TypeOK, DownloaderType, ControlType, LockOwner, WorkerHolds, AppHolds
<1>1. CASE InitQueue \/ InitQueueFails \/ CountThread
           \/ CreateThreadFails
    BY <1>1, Zenon DEF InitQueue, InitQueueFails, CountThread, CreateThreadFails
<1>2. CASE CreateThread
    BY <1>2 DEF CreateThread, ThreadsCounted
<1>3. CASE FetchStart \/ FetchError
    BY <1>3, Zenon DEF FetchStart, FetchError
<1>4. CASE FetchLock
    BY <1>4 DEF FetchLock
<1>5. CASE FetchHead \/ FetchLoop
    BY <1>5, Zenon DEF FetchHead, FetchLoop
<1>6. CASE FetchWait
    BY <1>6 DEF FetchWait
<1>7. CASE FetchSpurious
    BY <1>7 DEF FetchSpurious
<1>8. CASE FetchWake
    BY <1>8 DEF FetchWake
<1>9. CASE FetchCheck \/ FetchUnlock \/ FetchRow
    BY <1>9, SMTT(30) DEF FetchCheck, FetchUnlock, FetchRow
<1>10. CASE FetchTake
    BY <1>10, SignalProducerEffect, Zenon DEF FetchTake
<1>11. CASE ResetStart \/ TermJoin \/ TermFree
    BY <1>11, Zenon DEF ResetStart, TermJoin, TermFree
<1>12. CASE TermLock
    BY <1>12 DEF TermLock
<1>13. CASE TermUnlock
    BY <1>13 DEF TermUnlock
<1>14. CASE TermShutdown
    BY <1>14, Zenon DEF TermShutdown
<1>15. ASSUME NEW t \in Threads, WLock(t)
      PROVE  LockOwner'
    BY <1>15 DEF WLock
<1>16. ASSUME NEW t \in Threads, WLoop(t)
      PROVE  LockOwner'
    BY <1>16, Zenon DEF WLoop
<1>17. ASSUME NEW t \in Threads, WWait(t)
      PROVE  LockOwner'
    BY <1>17 DEF WWait
<1>18. ASSUME NEW t \in Threads, WSpurious(t)
      PROVE  LockOwner'
    BY <1>18, Zenon DEF WSpurious
<1>19. ASSUME NEW t \in Threads, WWake(t)
      PROVE  LockOwner'
    BY <1>19 DEF WWake
<1>20. ASSUME NEW t \in Threads, WBreak(t) \/ WClaim(t)
      PROVE  LockOwner'
    BY <1>20, Zenon DEF WBreak, WClaim
<1>21. ASSUME NEW t \in Threads, WUnlock(t)
      PROVE  LockOwner'
    BY <1>21 DEF WUnlock
<1>22. ASSUME NEW t \in Threads, WDownload(t) \/ WFail(t)
      PROVE  LockOwner'
    BY <1>22, Zenon DEF WDownload, WFail
<1>23. ASSUME NEW t \in Threads, WRelock(t) \/ WPublish(t)
      PROVE  LockOwner'
    BY <1>23, SMTT(30) DEF WRelock, WPublish
<1>24. ASSUME NEW t \in Threads, WNext(t)
      PROVE  LockOwner'
    BY <1>24 DEF WNext
<1>25. ASSUME NEW t \in Threads, WExit(t)
      PROVE  LockOwner'
    BY <1>25 DEF WExit
<1>26. ASSUME NEW t \in Threads, WStore(t)
      PROVE  LockOwner'
    BY <1>26, Zenon DEF WStore, SignalConsumer
<1>27. CASE Terminated
    BY <1>27, SMTT(30) DEF Terminated, vars
<1>. HIDE DEF IInv, TypeOK, DownloaderType, ControlType, LockOwner, WorkerHolds,
             AppHolds
<1>. QED
    BY <1>1, <1>2, <1>3, <1>4, <1>5, <1>6, <1>7, <1>8, <1>9, <1>10, <1>11,
       <1>12, <1>13, <1>14, <1>15, <1>16, <1>17, <1>18, <1>19, <1>20, <1>21,
       <1>22, <1>23, <1>24, <1>25, <1>26, <1>27, Zenon
    DEF Next, chunk_downloader_init, chunk_downloader_thread, snowflake_fetch,
        chunk_downloader_term

\* Whoever gets ready to change the queue holds the lock, and no error was seen.
LEMMA EntersWithLock ==
    ASSUME IInv, Next
    PROVE  \A a \in Threads \cup {App} :
              Mutating(a)' => Mutating(a) \/ (~has_error /\ queue_lock = a)
<1>. USE SizeAssumption
     DEF IInv, TypeOK, ControlType, Mutating, LockHeld, WorkerHolds, AppHolds
<1>1. CASE InitQueue \/ InitQueueFails \/ CountThread
           \/ CreateThreadFails
    BY <1>1, Zenon DEF InitQueue, InitQueueFails, CountThread, CreateThreadFails
<1>2. CASE CreateThread
    BY <1>2, Zenon DEF CreateThread, ThreadsCounted
<1>3. CASE FetchStart \/ FetchError \/ FetchLock \/ FetchHead
           \/ FetchLoop
    BY <1>3, Zenon DEF FetchStart, FetchError, FetchLock, FetchHead, FetchLoop
<1>4. CASE FetchWait \/ FetchSpurious \/ FetchWake \/ FetchUnlock
           \/ FetchRow
    BY <1>4, Zenon DEF FetchWait, FetchSpurious, FetchWake, FetchUnlock, FetchRow
<1>5. CASE FetchCheck
    BY <1>5, Zenon DEF FetchCheck
<1>6. CASE FetchTake
    BY <1>6, SignalProducerEffect, Zenon DEF FetchTake
<1>7. CASE ResetStart \/ TermLock \/ TermUnlock \/ TermJoin \/ TermFree
    BY <1>7, Zenon DEF ResetStart, TermLock, TermUnlock, TermJoin, TermFree
<1>8. CASE TermShutdown
    BY <1>8, Zenon DEF TermShutdown
<1>9. ASSUME NEW t \in Threads, WLock(t) \/ WLoop(t)
      PROVE  \A a \in Threads \cup {App} :
                Mutating(a)' => Mutating(a) \/ (~has_error /\ queue_lock = a)
    BY <1>9, Zenon DEF WLock, WLoop
<1>10. ASSUME NEW t \in Threads, WWait(t) \/ WSpurious(t)
      PROVE  \A a \in Threads \cup {App} :
                Mutating(a)' => Mutating(a) \/ (~has_error /\ queue_lock = a)
    BY <1>10, Zenon DEF WWait, WSpurious
<1>11. ASSUME NEW t \in Threads, WWake(t)
      PROVE  \A a \in Threads \cup {App} :
                Mutating(a)' => Mutating(a) \/ (~has_error /\ queue_lock = a)
    BY <1>11, Zenon DEF WWake
<1>12. ASSUME NEW t \in Threads, WBreak(t)
      PROVE  \A a \in Threads \cup {App} :
                Mutating(a)' => Mutating(a) \/ (~has_error /\ queue_lock = a)
    BY <1>12, Zenon DEF WBreak
<1>13. ASSUME NEW t \in Threads, WClaim(t) \/ WUnlock(t)
      PROVE  \A a \in Threads \cup {App} :
                Mutating(a)' => Mutating(a) \/ (~has_error /\ queue_lock = a)
    BY <1>13, Zenon DEF WClaim, WUnlock
<1>14. ASSUME NEW t \in Threads, WDownload(t)
      PROVE  \A a \in Threads \cup {App} :
                Mutating(a)' => Mutating(a) \/ (~has_error /\ queue_lock = a)
    BY <1>14, Zenon DEF WDownload
<1>15. ASSUME NEW t \in Threads, WFail(t) \/ WRelock(t)
      PROVE  \A a \in Threads \cup {App} :
                Mutating(a)' => Mutating(a) \/ (~has_error /\ queue_lock = a)
    BY <1>15, Zenon DEF WFail, WRelock
<1>16. ASSUME NEW t \in Threads, WPublish(t)
      PROVE  \A a \in Threads \cup {App} :
                Mutating(a)' => Mutating(a) \/ (~has_error /\ queue_lock = a)
    BY <1>16 DEF WPublish
<1>17. ASSUME NEW t \in Threads, WNext(t) \/ WExit(t)
      PROVE  \A a \in Threads \cup {App} :
                Mutating(a)' => Mutating(a) \/ (~has_error /\ queue_lock = a)
    BY <1>17, Zenon DEF WNext, WExit
<1>18. ASSUME NEW t \in Threads, WStore(t)
      PROVE  \A a \in Threads \cup {App} :
                Mutating(a)' => Mutating(a) \/ (~has_error /\ queue_lock = a)
    BY <1>18, Zenon DEF WStore, SignalConsumer
<1>19. CASE Terminated
    BY <1>19, Zenon DEF Terminated, vars
<1>. QED
    BY <1>1, <1>2, <1>3, <1>4, <1>5, <1>6, <1>7, <1>8, <1>9, <1>10, <1>11,
       <1>12, <1>13, <1>14, <1>15, <1>16, <1>17, <1>18, <1>19, ZenonT(40)
    DEF Next, chunk_downloader_init, chunk_downloader_thread, snowflake_fetch,
        chunk_downloader_term

\* Two actors that change the queue would both have held the lock when the second
\* one got ready.
LEMMA MutualExclusionStep ==
    ASSUME IInv, Next PROVE MutualExclusion'
<1>1. \A a \in Threads \cup {App} : Mutating(a) /\ ~has_error => queue_lock = a
    BY DEF IInv, LockHeld, Mutating, WorkerHolds, AppHolds, Zenon
<1>2. \A a, b \in Threads \cup {App} : Mutating(a) /\ Mutating(b) => a = b
    BY DEF IInv, MutualExclusion, Zenon
<1>. SUFFICES ASSUME NEW a \in Threads \cup {App}, NEW b \in Threads \cup {App},
                     Mutating(a)', Mutating(b)'
              PROVE  a = b
    BY SMTT(30) DEF MutualExclusion
<1>. QED  BY <1>1, <1>2, EntersWithLock

\* Every nonempty set of natural numbers has a least element.
LEMMA Least ==
    ASSUME NEW T, T \subseteq Nat, T # {}
    PROVE  \E x \in T : \A y \in T : x <= y
<1>. DEFINE R == {ss \in Nat \X Nat : ss[1] < ss[2]}
<1>1. IsWellFoundedOn(R, Nat)
    BY NatLessThanWellFounded DEF OpToRel
<1>. HIDE DEF R
<1>2. PICK x \in T : \A y \in T : ~(<<y, x>> \in R)
    BY <1>1, WFMin, Zenon
<1>3. ASSUME NEW y \in T, y < x PROVE FALSE
    <2>1. <<y, x>> \in Nat \X Nat /\ <<y, x>>[1] < <<y, x>>[2]
        BY <1>3
    <2>2. <<y, x>> \in R
        BY <2>1, Zenon DEF R
    <2>. QED
        BY <1>2, <2>2, Zenon
<1>. QED
    BY <1>3

\* No offset is larger than that of the end: the chunks that follow it add to it.
LEMMA OffsetGrows == \A k \in Rowset..QSize : Offset[k] <= Offset[QSize]
<1>. DEFINE T == {j \in Nat : j <= QSize + 1 /\ ~(Offset[QSize - j] <= Offset[QSize])}
<1>1. ASSUME T # {} PROVE FALSE
    <2>1. PICK j \in T : \A i \in T : j <= i
        BY <1>1, Least, Zenon
    <2>2. j \in Nat /\ j <= QSize + 1 /\ ~(Offset[QSize - j] <= Offset[QSize])
        BY <2>1
    <2>3. Offset[QSize] \in Nat /\ QSize - 0 = QSize
        BY SizeAssumption, OffsetAssumption DEF Rowset
    <2>4. j # 0
        BY <2>2, <2>3
    <2>. DEFINE k == QSize - j
    <2>5. k \in Rowset..QSize - 1 /\ k + 1 = QSize - (j - 1) /\ k \in Rowset..QSize /\ k + 1 \in Rowset..QSize
        BY <2>2, <2>4, SizeAssumption DEF Rowset
    <2>6. j - 1 \in Nat /\ j - 1 <= QSize + 1 /\ ~(j <= j - 1)
        BY <2>2, <2>4, SizeAssumption
    <2>7. Offset[QSize - (j - 1)] <= Offset[QSize]
        BY <2>1, <2>6
    <2>8. Offset[k + 1] = Offset[k] + RowCount[k] /\ Offset[k] \in Nat /\ RowCount[k] \in Nat
        BY <2>5, RowCountAssumption, OffsetAssumption
    <2>9. Offset[k + 1] <= Offset[QSize]
        BY <2>5, <2>7
    <2>. QED
        BY <2>2, <2>3, <2>8, <2>9
<1>2. ASSUME NEW k \in Rowset..QSize PROVE Offset[k] <= Offset[QSize]
    <2>1. QSize - k \in Nat /\ QSize - k <= QSize + 1 /\ QSize - (QSize - k) = k
        BY SizeAssumption DEF Rowset
    <2>2. QSize - k \notin T
        BY <1>1
    <2>. QED
        BY <2>1, <2>2
<1>. QED
    BY <1>2

\* Abbreviations and elementary steps that every proof below expands.
USE DEF Threads, Chunks, App, Free, NoChunk, Rowset, NoResults, NoRow,
        dvars, avars, svars, fvars, NotWorkerVars, NotFetchVars, NotTermVars,
        Goto, AppGoto, Acquire, Release, shutdown_or_error

(***************************************************************************)
(* What was tested under the lock stays true                               *)
(***************************************************************************)
\* Another thread that claims would share the lock with this one; the consumer and
\* the count of threads only widen the window.
LEMMA ClaimReadyStep ==
    ASSUME IInv, Next PROVE ClaimReady'
<1>. USE SizeAssumption
     DEF IInv, TypeOK, DownloaderType, ControlType, ClaimReady, WindowFull
<1>1. CASE InitQueue \/ InitQueueFails \/ CreateThreadFails
    BY <1>1, Zenon DEF InitQueue, InitQueueFails, CreateThreadFails
<1>2. CASE CountThread
    BY <1>2 DEF CountThread
<1>3. CASE CreateThread
    BY <1>3, SMTT(30) DEF CreateThread, ThreadsCounted
<1>4. CASE FetchStart \/ FetchError \/ FetchLock \/ FetchHead
           \/ FetchLoop
    BY <1>4, Zenon DEF FetchStart, FetchError, FetchLock, FetchHead, FetchLoop
<1>5. CASE FetchWait \/ FetchSpurious \/ FetchWake \/ FetchCheck
           \/ FetchUnlock \/ FetchRow
    BY <1>5, Zenon
    DEF FetchWait, FetchSpurious, FetchWake, FetchCheck, FetchUnlock,
        FetchRow
<1>6. CASE FetchTake
    BY <1>6, SignalProducerEffect, SMTT(30) DEF FetchTake
<1>7. CASE ResetStart \/ TermLock \/ TermUnlock \/ TermJoin \/ TermFree
    BY <1>7, Zenon DEF ResetStart, TermLock, TermUnlock, TermJoin, TermFree
<1>8. CASE TermShutdown
    BY <1>8, Zenon DEF TermShutdown
<1>9. ASSUME NEW t \in Threads, WLock(t)
      PROVE  ClaimReady'
    BY <1>9, Zenon DEF WLock
<1>10. ASSUME NEW t \in Threads, WLoop(t)
      PROVE  ClaimReady'
    BY <1>10, SMTT(30) DEF WLoop
<1>11. ASSUME NEW t \in Threads, WWait(t) \/ WSpurious(t)
      PROVE  ClaimReady'
    BY <1>11, Zenon DEF WWait, WSpurious
<1>12. ASSUME NEW t \in Threads, WWake(t)
      PROVE  ClaimReady'
    BY <1>12, Zenon DEF WWake
<1>13. ASSUME NEW t \in Threads, WBreak(t)
      PROVE  ClaimReady'
    BY <1>13 DEF WBreak
<1>14. ASSUME NEW t \in Threads, WUnlock(t)
      PROVE  ClaimReady'
    BY <1>14, Zenon DEF WUnlock
<1>15. ASSUME NEW t \in Threads, WDownload(t)
      PROVE  ClaimReady'
    BY <1>15, Zenon DEF WDownload
<1>16. ASSUME NEW t \in Threads, WFail(t) \/ WRelock(t)
      PROVE  ClaimReady'
    BY <1>16, Zenon DEF WFail, WRelock
<1>17. ASSUME NEW t \in Threads, WPublish(t)
      PROVE  ClaimReady'
    BY <1>17, Zenon DEF WPublish
<1>18. ASSUME NEW t \in Threads, WStore(t)
      PROVE  ClaimReady'
    BY <1>18, Zenon DEF WStore
<1>19. ASSUME NEW t \in Threads, WNext(t) \/ WExit(t)
      PROVE  ClaimReady'
    BY <1>19, ZenonT(30) DEF WNext, WExit
<1>20. ASSUME NEW t \in Threads, WClaim(t)
      PROVE  ClaimReady'
    <2>1. ASSUME NEW u \in Threads, u # t, pc[u] = "claim" PROVE FALSE
        BY <1>20, <2>1 DEF WClaim, MutualExclusion, Mutating
    <2>2. ASSUME NEW u \in Threads, u # t, pc[u] = "break", ~has_error PROVE FALSE
        BY <1>20, <2>2, SMTT(30) DEF WClaim, LockHeld, WorkerHolds
    <2>. QED  BY <1>20, <2>1, <2>2, Zenon DEF WClaim
<1>21. CASE Terminated
    BY <1>21, Zenon DEF Terminated, vars
<1>. HIDE DEF IInv, TypeOK, DownloaderType, ControlType, ClaimReady, WindowFull
<1>. QED
    BY <1>1, <1>2, <1>3, <1>4, <1>5, <1>6, <1>7, <1>8, <1>9, <1>10, <1>11,
       <1>12, <1>13, <1>14, <1>15, <1>16, <1>17, <1>18, <1>19, <1>20, <1>21,
       Zenon
    DEF Next, chunk_downloader_init, chunk_downloader_thread, snowflake_fetch,
        chunk_downloader_term

\* Only the application advances consumer_head and empties a slot.
LEMMA TakeReadyStep ==
    ASSUME IInv, Next PROVE TakeReady'
<1>. USE SizeAssumption DEF IInv, TypeOK, DownloaderType, ControlType, TakeReady
<1>1. CASE InitQueue \/ InitQueueFails \/ CreateThread \/ CountThread
           \/ CreateThreadFails
    BY <1>1, Zenon
    DEF InitQueue, InitQueueFails, CreateThread, CountThread,
        CreateThreadFails
<1>2. CASE FetchStart \/ FetchError \/ FetchLock
    BY <1>2, Zenon DEF FetchStart, FetchError, FetchLock
<1>3. CASE FetchHead \/ FetchLoop \/ FetchWait
    BY <1>3, SMTT(30) DEF FetchHead, FetchLoop, FetchWait
<1>4. CASE FetchSpurious \/ FetchWake \/ FetchCheck
    BY <1>4, Zenon DEF FetchSpurious, FetchWake, FetchCheck
<1>5. CASE FetchTake \/ FetchUnlock \/ FetchRow
    BY <1>5, Zenon DEF FetchTake, FetchUnlock, FetchRow
<1>6. CASE ResetStart \/ TermLock \/ TermShutdown \/ TermUnlock
           \/ TermJoin \/ TermFree
    BY <1>6, Zenon
    DEF ResetStart, TermLock, TermShutdown, TermUnlock, TermJoin, TermFree
<1>7. ASSUME NEW t \in Threads, WLock(t) \/ WLoop(t) \/ WWait(t) \/ WSpurious(t) \/ WWake(t)
      PROVE  TakeReady'
    BY <1>7, Zenon DEF WLock, WLoop, WWait, WSpurious, WWake
<1>8. ASSUME NEW t \in Threads, WBreak(t) \/ WClaim(t) \/ WUnlock(t) \/ WDownload(t)
      PROVE  TakeReady'
    BY <1>8, Zenon DEF WBreak, WClaim, WUnlock, WDownload
<1>9. ASSUME NEW t \in Threads, WFail(t) \/ WRelock(t) \/ WPublish(t)
      PROVE  TakeReady'
    BY <1>9, Zenon DEF WFail, WRelock, WPublish
<1>10. ASSUME NEW t \in Threads, WNext(t) \/ WExit(t)
      PROVE  TakeReady'
    BY <1>10, Zenon DEF WNext, WExit
<1>11. ASSUME NEW t \in Threads, WStore(t)
      PROVE  TakeReady'
    BY <1>11 DEF WStore, SignalConsumer
<1>12. CASE Terminated
    BY <1>12, SMTT(30) DEF Terminated, vars
<1>. HIDE DEF IInv, TypeOK, DownloaderType, ControlType, TakeReady
<1>. QED
    BY <1>1, <1>2, <1>3, <1>4, <1>5, <1>6, <1>7, <1>8, <1>9, <1>10, <1>11,
       <1>12, Zenon
    DEF Next, chunk_downloader_init, chunk_downloader_thread, snowflake_fetch,
        chunk_downloader_term

(***************************************************************************)
(* The queue                                                               *)
(***************************************************************************)
\* A claim follows a test that the window was not full; only the consumer and the
\* count of threads move the other end.
LEMMA WindowBoundStep ==
    ASSUME IInv, Next PROVE WindowBound'
<1>. USE SizeAssumption DEF IInv, TypeOK, DownloaderType, WindowBound
<1>1. CASE InitQueue \/ InitQueueFails \/ CreateThread \/ CountThread
           \/ CreateThreadFails
    BY <1>1, SMTT(30)
    DEF InitQueue, InitQueueFails, CreateThread, CountThread,
        CreateThreadFails
<1>2. CASE FetchStart \/ FetchError \/ FetchLock \/ FetchHead
           \/ FetchLoop \/ FetchWait
    BY <1>2, Zenon
    DEF FetchStart, FetchError, FetchLock, FetchHead, FetchLoop, FetchWait
<1>3. CASE FetchSpurious \/ FetchWake \/ FetchCheck \/ FetchUnlock
           \/ FetchRow
    BY <1>3, Zenon DEF FetchSpurious, FetchWake, FetchCheck, FetchUnlock, FetchRow
<1>4. CASE FetchTake
    BY <1>4, SMTT(30) DEF FetchTake, TakeReady, SlotIntegrity
<1>5. CASE ResetStart \/ TermLock \/ TermShutdown \/ TermUnlock
           \/ TermJoin \/ TermFree
    BY <1>5, Zenon
    DEF ResetStart, TermLock, TermShutdown, TermUnlock, TermJoin, TermFree
<1>6. ASSUME NEW t \in Threads, WLock(t) \/ WLoop(t) \/ WWait(t) \/ WSpurious(t) \/ WWake(t)
           \/ WBreak(t)
      PROVE  WindowBound'
    BY <1>6, Zenon DEF WLock, WLoop, WWait, WSpurious, WWake, WBreak
<1>7. ASSUME NEW t \in Threads, WClaim(t)
      PROVE  WindowBound'
    BY <1>7, SMTT(30) DEF WClaim, ClaimReady, WindowFull
<1>8. ASSUME NEW t \in Threads, WUnlock(t) \/ WDownload(t) \/ WFail(t) \/ WRelock(t)
           \/ WPublish(t) \/ WStore(t) \/ WNext(t) \/ WExit(t)
      PROVE  WindowBound'
    BY <1>8, Zenon
    DEF WUnlock, WDownload, WFail, WRelock, WPublish, WStore, WNext, WExit
<1>9. CASE Terminated
    BY <1>9, Zenon DEF Terminated, vars
<1>. HIDE DEF IInv, TypeOK, DownloaderType, WindowBound
<1>. QED
    BY <1>1, <1>2, <1>3, <1>4, <1>5, <1>6, <1>7, <1>8, <1>9, Zenon
    DEF Next, chunk_downloader_init, chunk_downloader_thread, snowflake_fetch,
        chunk_downloader_term

\* A step that leaves the queue alone and puts no chunk in flight.
SlotsKept ==
    /\ UNCHANGED <<queue, producer_head, consumer_head, index>>
    /\ \A u \in Threads : InFlight(u)' => InFlight(u)

\* A step that keeps the slots, the heads and the claims keeps SlotIntegrity.
LEMMA SlotsKeptSuffices ==
    ASSUME SlotIntegrity, SlotsKept PROVE SlotIntegrity'
<1>. USE DEF SlotsKept, SlotIntegrity
<1>1. \A k \in Chunks : queue'[k] # NoChunk =>
          queue'[k] = k /\ consumer_head' <= k /\ k < producer_head'
    BY Zenon
<1>2. \A u \in Threads : InFlight(u)' =>
          /\ consumer_head' <= index'[u] /\ index'[u] < producer_head'
          /\ queue'[index'[u]] = NoChunk
    OBVIOUS
<1>3. \A u, v \in Threads : u # v /\ InFlight(u)' /\ InFlight(v)' => index'[u] # index'[v]
    BY Zenon
<1>. QED  BY <1>1, <1>2, <1>3, Zenon

\* A claim takes a fresh index, a store fills the slot of a chunk in flight, and the
\* consumer empties the slot that it advances over, which is in flight nowhere.
LEMMA SlotIntegrityStep ==
    ASSUME IInv, Next PROVE SlotIntegrity'
<1>. USE SizeAssumption DEF IInv, TypeOK, DownloaderType, ControlType
<1>1. ASSUME InitQueue \/ InitQueueFails \/ CountThread
           \/ CreateThreadFails
      PROVE  SlotsKept
    BY <1>1, Zenon
    DEF InitQueue, InitQueueFails, CountThread, CreateThreadFails, SlotsKept,
        InFlight
<1>2. ASSUME CreateThread
      PROVE  SlotsKept
    BY <1>2 DEF CreateThread, ThreadsCounted, SlotsKept, InFlight
<1>3. ASSUME FetchStart \/ FetchError \/ FetchLock \/ FetchHead
           \/ FetchLoop \/ FetchWait
      PROVE  SlotsKept
    BY <1>3, Zenon
    DEF FetchStart, FetchError, FetchLock, FetchHead, FetchLoop, FetchWait,
        SlotsKept, InFlight
<1>4. ASSUME FetchSpurious \/ FetchWake \/ FetchCheck \/ FetchUnlock
           \/ FetchRow
      PROVE  SlotsKept
    BY <1>4, Zenon
    DEF FetchSpurious, FetchWake, FetchCheck, FetchUnlock, FetchRow,
        SlotsKept, InFlight
<1>5. ASSUME ResetStart \/ TermLock \/ TermUnlock \/ TermJoin
      PROVE  SlotsKept
    BY <1>5, Zenon
    DEF ResetStart, TermLock, TermUnlock, TermJoin, SlotsKept, InFlight
<1>6. ASSUME TermShutdown
      PROVE  SlotsKept
    BY <1>6, Zenon DEF TermShutdown, SlotsKept, InFlight
<1>7. ASSUME NEW t \in Threads, WLock(t) \/ WLoop(t)
      PROVE  SlotsKept
    BY <1>7, Zenon DEF WLock, WLoop, SlotsKept, InFlight
<1>8. ASSUME NEW t \in Threads, WWait(t) \/ WSpurious(t)
      PROVE  SlotsKept
    BY <1>8, Zenon DEF WWait, WSpurious, SlotsKept, InFlight
<1>9. ASSUME NEW t \in Threads, WWake(t) \/ WBreak(t)
      PROVE  SlotsKept
    BY <1>9, SMTT(30) DEF WWake, WBreak, SlotsKept, InFlight
<1>10. ASSUME NEW t \in Threads, WUnlock(t)
      PROVE  SlotsKept
    BY <1>10 DEF WUnlock, SlotsKept, InFlight
<1>11. ASSUME NEW t \in Threads, WDownload(t)
      PROVE  SlotsKept
    BY <1>11, Zenon DEF WDownload, SlotsKept, InFlight
<1>12. ASSUME NEW t \in Threads, WFail(t)
      PROVE  SlotsKept
    BY <1>12, SMTT(30) DEF WFail, SlotsKept, InFlight
<1>13. ASSUME NEW t \in Threads, WRelock(t) \/ WPublish(t)
      PROVE  SlotsKept
    BY <1>13, Zenon DEF WRelock, WPublish, SlotsKept, InFlight
<1>14. ASSUME NEW t \in Threads, WNext(t) \/ WExit(t)
      PROVE  SlotsKept
    BY <1>14, Zenon DEF WNext, WExit, SlotsKept, InFlight
<1>15. CASE FetchTake
    <2>1. consumer_head \in Chunks /\ queue[consumer_head] # NoChunk
        BY <1>15, SMTT(30) DEF FetchTake, TakeReady
    <2>2. \A u \in Threads : InFlight(u)' => InFlight(u) /\ index'[u] = index[u]
        BY <1>15, SignalProducerEffect, Zenon DEF FetchTake, InFlight
    <2>3. \A u \in Threads : InFlight(u) => index[u] # consumer_head
        BY <2>1 DEF SlotIntegrity
    <2>4. /\ consumer_head' = consumer_head + 1 /\ producer_head' = producer_head
          /\ queue' = [queue EXCEPT ![consumer_head] = NoChunk]
        BY <1>15, SMTT(30) DEF FetchTake
    <2>. QED  BY <2>1, <2>2, <2>3, <2>4, SMTT(30) DEF SlotIntegrity
<1>16. CASE TermFree
    <2>1. /\ \A u \in Threads : InFlight(u)' => InFlight(u) /\ index'[u] = index[u]
          /\ consumer_head' = consumer_head /\ producer_head' = producer_head
          /\ \A k \in Chunks : queue'[k] = NoChunk
        BY <1>16 DEF TermFree, InFlight
    <2>. QED  BY <2>1, SMTT(30) DEF SlotIntegrity
<1>17. ASSUME NEW t \in Threads, WClaim(t)
      PROVE  SlotIntegrity'
    <2>1. /\ \A u \in Threads \ {t} : InFlight(u)' => InFlight(u) /\ index'[u] = index[u]
          /\ index'[t] = producer_head
        BY <1>17 DEF WClaim, InFlight
    <2>2. /\ producer_head' = producer_head + 1 /\ producer_head \in Chunks
          /\ queue' = queue /\ consumer_head' = consumer_head
        BY <1>17, SMTT(30) DEF WClaim, ClaimReady
    <2>3. \A u \in Threads : InFlight(u)' =>
              /\ consumer_head <= index'[u] /\ index'[u] < producer_head + 1
              /\ queue[index'[u]] = NoChunk
        BY <2>1, <2>2, SMTT(30) DEF SlotIntegrity, WindowBound
    <2>4. \A u, v \in Threads : u # v /\ InFlight(u)' /\ InFlight(v)' => index'[u] # index'[v]
        BY <2>1, <2>2, SMTT(30) DEF SlotIntegrity
    <2>. QED  BY <2>2, <2>3, <2>4, SMTT(30) DEF SlotIntegrity
<1>18. ASSUME NEW t \in Threads, WStore(t)
      PROVE  SlotIntegrity'
    <2>1. InFlight(t) /\ index[t] \in Chunks
        BY <1>18, SMTT(30) DEF WStore, InFlight, SlotIntegrity
    <2>2. /\ ~InFlight(t)' /\ index' = index
          /\ \A u \in Threads \ {t} : InFlight(u)' => InFlight(u)
        BY <1>18, Zenon DEF WStore, InFlight
    <2>3. /\ queue' = [queue EXCEPT ![index[t]] = index[t]]
          /\ producer_head' = producer_head /\ consumer_head' = consumer_head
        BY <1>18, Zenon DEF WStore
    <2>4. \A k \in Chunks : queue'[k] # NoChunk =>
              queue'[k] = k /\ consumer_head <= k /\ k < producer_head
        BY <2>1, <2>3, Zenon DEF SlotIntegrity
    <2>5. \A u \in Threads : InFlight(u)' => queue'[index[u]] = NoChunk
        BY <2>1, <2>2, <2>3, SMTT(30) DEF SlotIntegrity
    <2>. QED  BY <2>2, <2>3, <2>4, <2>5, SMTT(30) DEF SlotIntegrity
<1>19. CASE Terminated
    BY <1>19, Zenon DEF Terminated, vars, SlotIntegrity, InFlight
<1>20. SlotsKept => SlotIntegrity'
    BY SlotsKeptSuffices
<1>. HIDE DEF IInv, TypeOK, DownloaderType, ControlType
<1>. QED
    BY <1>1, <1>2, <1>3, <1>4, <1>5, <1>6, <1>7, <1>8, <1>9, <1>10, <1>11,
       <1>12, <1>13, <1>14, <1>15, <1>16, <1>17, <1>18, <1>19, <1>20, Zenon
    DEF Next, chunk_downloader_init, chunk_downloader_thread, snowflake_fetch,
        chunk_downloader_term

(***************************************************************************)
(* Threads and memory                                                      *)
(***************************************************************************)
\* thread_count lags behind the created threads only inside the loop of
\* chunk_downloader_init, and only finished threads are joined.
LEMMA ThreadsCountedStep ==
    ASSUME IInv, Next PROVE ThreadsCounted'
<1>. USE SizeAssumption
     DEF IInv, TypeOK, DownloaderType, ControlType, ThreadsCounted, FetchPoints
<1>1. CASE InitQueue \/ InitQueueFails \/ CreateThreadFails
    BY <1>1, SMTT(30) DEF InitQueue, InitQueueFails, CreateThreadFails
<1>2. CASE CountThread
    BY <1>2 DEF CountThread
<1>3. CASE CreateThread
    BY <1>3, SMTT(30) DEF CreateThread
<1>4. CASE FetchStart \/ FetchError \/ FetchLock \/ FetchHead
           \/ FetchLoop \/ FetchWait
    BY <1>4, Zenon
    DEF FetchStart, FetchError, FetchLock, FetchHead, FetchLoop, FetchWait
<1>5. CASE FetchSpurious \/ FetchWake \/ FetchCheck \/ FetchUnlock
           \/ FetchRow
    BY <1>5, Zenon DEF FetchSpurious, FetchWake, FetchCheck, FetchUnlock, FetchRow
<1>6. CASE FetchTake
    BY <1>6, SignalProducerEffect, Zenon DEF FetchTake
<1>7. CASE ResetStart \/ TermLock \/ TermUnlock
    BY <1>7, Zenon DEF ResetStart, TermLock, TermUnlock
<1>8. CASE TermFree
    BY <1>8, Zenon DEF TermFree
<1>9. CASE TermJoin
    <2>1. /\ joined' = joined + 1 /\ joined + 1 <= thread_count
          /\ pc[joined + 1] = "done"
          /\ UNCHANGED <<created, thread_count, pc, apc>>
        BY <1>9 DEF TermJoin
    <2>2. \A t \in Threads : t <= joined + 1 => t <= joined \/ t = joined + 1
        BY SMTT(30)
    <2>. QED  BY <2>1, <2>2, Zenon
<1>10. CASE TermShutdown
    BY <1>10, Zenon DEF TermShutdown
<1>11. ASSUME NEW t \in Threads, chunk_downloader_thread(t) \/ WSpurious(t)
      PROVE  ThreadsCounted'
    BY <1>11, WorkerFrame, WorkerMoves, Zenon
<1>12. CASE Terminated
    BY <1>12 DEF Terminated, vars
<1>. HIDE DEF IInv, TypeOK, DownloaderType, ControlType, ThreadsCounted, FetchPoints
<1>. QED
    BY <1>1, <1>2, <1>3, <1>4, <1>5, <1>6, <1>7, <1>8, <1>9, <1>10, <1>11,
       <1>12, Zenon
    DEF Next, chunk_downloader_init, snowflake_fetch, chunk_downloader_term

\* Memory is freed when every counted thread is joined, and all were counted.
LEMMA FreedLastStep ==
    ASSUME IInv, Next PROVE FreedLast'
<1>. USE SizeAssumption
     DEF IInv, TypeOK, DownloaderType, ControlType, FreedLast, NoUseAfterFree
<1>1. CASE InitQueue \/ CountThread \/ CreateThread \/ CreateThreadFails
    BY <1>1, SMTT(30) DEF InitQueue, CountThread, CreateThread, CreateThreadFails
<1>2. CASE InitQueueFails
    BY <1>2, SMTT(30)
    DEF InitQueueFails, ThreadsCounted, LockOwner, WorkerHolds, AppHolds
<1>3. CASE FetchStart \/ FetchError \/ FetchLock \/ FetchHead
           \/ FetchLoop \/ FetchWait
    BY <1>3
    DEF FetchStart, FetchError, FetchLock, FetchHead, FetchLoop, FetchWait
<1>4. CASE FetchSpurious \/ FetchWake \/ FetchCheck \/ FetchTake
           \/ FetchUnlock \/ FetchRow
    BY <1>4, SMTT(30)
    DEF FetchSpurious, FetchWake, FetchCheck, FetchTake, FetchUnlock,
        FetchRow
<1>5. CASE ResetStart \/ TermLock \/ TermUnlock \/ TermJoin
    BY <1>5, SMTT(30) DEF ResetStart, TermLock, TermUnlock, TermJoin
<1>6. CASE TermShutdown
    BY <1>6 DEF TermShutdown
<1>7. CASE TermFree
    <2>. USE <1>7 DEF TermFree
    <2>1. \A t \in Threads : t <= joined \/ t > created
        BY SMTT(30) DEF ThreadsCounted
    <2>2. \A t \in Threads : pc[t] \in {"none", "done"}
        BY <2>1, Zenon DEF ThreadsCounted
    <2>3. queue_lock = Free \/ "broadcast" \in Faults
        BY <2>2, Zenon DEF LockOwner, WorkerHolds, AppHolds
    <2>. QED  BY <2>2, <2>3, SMTT(30)
<1>8. ASSUME NEW t \in Threads, chunk_downloader_thread(t) \/ WSpurious(t)
      PROVE  FreedLast'
    BY <1>8, WorkerFrame, WorkerMoves, Zenon
<1>9. CASE Terminated
    BY <1>9 DEF Terminated, vars
<1>. HIDE DEF IInv, TypeOK, DownloaderType, ControlType, FreedLast, NoUseAfterFree
<1>. QED
    BY <1>1, <1>2, <1>3, <1>4, <1>5, <1>6, <1>7, <1>8, <1>9, Zenon
    DEF Next, chunk_downloader_init, snowflake_fetch, chunk_downloader_term

(***************************************************************************)
(* The statement                                                           *)
(***************************************************************************)
\* Offset is the running sum of RowCount.
LEMMA Sums ==
    ASSUME NEW k \in 0..QSize
    PROVE  /\ Offset[k] \in Nat /\ Offset[k - 1] \in Nat /\ RowCount[k - 1] \in Nat
           /\ Offset[k] = Offset[k - 1] + RowCount[k - 1]
<1>1. k - 1 \in Rowset..QSize - 1 /\ (k - 1) + 1 = k
    BY SizeAssumption
<1>. QED  BY <1>1, SizeAssumption, RowCountAssumption, OffsetAssumption

\* A statement that has no row left stands at the end of the chunks it consumed.
LEMMA EndOfChunk ==
    ASSUME TypeOK, Position, Open, chunk_rowcount = 0
    PROVE  total_row_index = Offset[consumer_head]
<1>1. CASE raw_results.chunk = NoChunk
    BY <1>1, Zenon DEF Position
<1>2. CASE raw_results.chunk # NoChunk
    <2>1. /\ RowCount[consumer_head - 1] - raw_results.next + 1 = 0
          /\ total_row_index = Offset[consumer_head - 1] + raw_results.next - 1
        BY <1>2, Zenon DEF Position
    <2>2. consumer_head \in 0..QSize /\ raw_results.next \in Nat
        BY DEF TypeOK, DownloaderType, StatementType, Zenon
    <2>. HIDE DEF Rowset, NoChunk
    <2>. QED  BY <2>1, <2>2, Sums
<1>. QED  BY <1>1, <1>2, Zenon

\* A statement with rows left stands inside the chunk before consumer_head.
LEMMA InsideChunk ==
    ASSUME TypeOK, Position, Open, chunk_rowcount # 0
    PROVE  /\ chunk_rowcount > 0 /\ chunk_rowcount \in Nat
           /\ raw_results.chunk # NoChunk /\ raw_results.chunk = consumer_head - 1
           /\ raw_results.next \in 1..RowCount[consumer_head - 1]
           /\ chunk_rowcount = RowCount[consumer_head - 1] - raw_results.next + 1
           /\ total_row_index = Offset[consumer_head - 1] + raw_results.next - 1
<1>1. consumer_head \in 0..QSize /\ raw_results.next \in Nat /\ chunk_rowcount \in Int
    BY DEF TypeOK, DownloaderType, StatementType, Zenon
<1>2. RowCount[consumer_head - 1] \in Nat
    BY <1>1, Sums, Zenon
<1>. QED  BY <1>1, <1>2 DEF Position

\* A row is counted when it is detached; a new chunk starts where the last one
\* ended.
LEMMA PositionStep ==
    ASSUME IInv, Next PROVE Position'
<1>. USE DEF IInv, Position, Open, TermPoints
<1>1. CASE InitQueue \/ InitQueueFails \/ CreateThread \/ CountThread
           \/ CreateThreadFails
    BY <1>1, Zenon
    DEF InitQueue, InitQueueFails, CreateThread, CountThread,
        CreateThreadFails
<1>2. CASE FetchStart \/ FetchError \/ FetchLock \/ FetchLoop
           \/ FetchWait
    BY <1>2, Zenon DEF FetchStart, FetchError, FetchLock, FetchLoop, FetchWait
<1>3. CASE FetchSpurious \/ FetchWake \/ FetchCheck \/ FetchUnlock
    BY <1>3, Zenon DEF FetchSpurious, FetchWake, FetchCheck, FetchUnlock
<1>4. CASE FetchHead
    <2>1. /\ consumer_head \in 0..QSize /\ QSize \in Nat
          /\ chunk_rowcount = 0 /\ Open
        BY <1>4, SizeAssumption, Zenon
        DEF FetchHead, FetchState, FetchPoints, TypeOK, DownloaderType
    <2>2. total_row_index = Offset[consumer_head]
        BY <2>1, EndOfChunk, Zenon
    <2>3. CASE consumer_head >= QSize
        BY <1>4, <2>1, <2>2, <2>3, SMTT(30) DEF FetchHead
    <2>4. CASE ~(consumer_head >= QSize)
        BY <1>4, <2>4, Zenon DEF FetchHead
    <2>. QED  BY <2>3, <2>4, Zenon
<1>5. CASE FetchTake
    <2>1. /\ consumer_head \in Chunks /\ queue[consumer_head] = consumer_head
          /\ chunk_rowcount = 0 /\ Open
        BY <1>5, SizeAssumption, SMTT(30)
        DEF FetchTake, TakeReady, SlotIntegrity, FetchState, FetchPoints, TypeOK,
            DownloaderType
    <2>2. total_row_index = Offset[consumer_head]
        BY <2>1, EndOfChunk, Zenon
    <2>3. /\ raw_results' = [chunk |-> consumer_head, next |-> 1]
          /\ consumer_head' = consumer_head + 1
          /\ chunk_rowcount' = RowCount[consumer_head]
          /\ total_row_index' = total_row_index
        BY <1>5, <2>1, Zenon DEF FetchTake
    <2>4. RowCount[consumer_head] \in Nat /\ Offset[consumer_head] \in Nat
        BY <2>1, SizeAssumption, RowCountAssumption, OffsetAssumption, SMTT(30)
    <2>5. /\ consumer_head' - 1 = consumer_head /\ raw_results'.chunk # NoChunk
          /\ raw_results'.chunk = consumer_head /\ raw_results'.next = 1
        BY <2>1, <2>3, SMTT(30)
    <2>. QED  BY <2>2, <2>3, <2>4, <2>5, SMTT(30)
<1>6. CASE FetchRow
    <2>1. Open /\ chunk_rowcount # 0
        BY <1>6 DEF FetchRow, FetchState
    <2>2. /\ raw_results'.chunk = raw_results.chunk
          /\ raw_results'.next = raw_results.next + 1
          /\ chunk_rowcount' = chunk_rowcount - 1
          /\ total_row_index' = total_row_index + 1
          /\ consumer_head' = consumer_head
        BY <1>6, Zenon DEF FetchRow, TypeOK, StatementType
    <2>3. consumer_head \in 0..QSize
        BY Zenon DEF TypeOK, DownloaderType
    <2>. QED  BY <2>1, <2>2, <2>3, InsideChunk, Sums
<1>7. CASE ResetStart \/ TermLock \/ TermShutdown \/ TermUnlock
           \/ TermJoin \/ TermFree
    BY <1>7, Zenon
    DEF ResetStart, TermLock, TermShutdown, TermUnlock, TermJoin, TermFree
<1>8. ASSUME NEW t \in Threads, chunk_downloader_thread(t) \/ WSpurious(t)
      PROVE  Position'
    BY <1>8, WorkerFrame, Zenon
<1>9. CASE Terminated
    BY <1>9, Zenon DEF Terminated, vars
<1>. HIDE DEF IInv, Position, Open, TermPoints
<1>. QED
    BY <1>1, <1>2, <1>3, <1>4, <1>5, <1>6, <1>7, <1>8, <1>9, Zenon
    DEF Next, chunk_downloader_init, snowflake_fetch, chunk_downloader_term

\* Between the steps of snowflake_fetch, ret and get_chunk_success say what the
\* call has found so far.
LEMMA FetchStateStep ==
    ASSUME IInv, Next PROVE FetchState'
<1>. USE SizeAssumption DEF IInv, TypeOK, StatementType, FetchState, FetchPoints
<1>1. CASE InitQueue \/ InitQueueFails \/ CreateThread \/ CountThread
           \/ CreateThreadFails
    BY <1>1, Zenon
    DEF InitQueue, InitQueueFails, CreateThread, CountThread,
        CreateThreadFails
<1>2. CASE FetchStart
    BY <1>2, Zenon DEF FetchStart
<1>3. CASE FetchError
    <2>1. Open
        BY <1>3, Zenon DEF FetchError, Open, TermPoints
    <2>2. chunk_rowcount # 0 => chunk_rowcount > 0
        BY <2>1, InsideChunk, Zenon DEF TypeOK
    <2>3. UNCHANGED <<raw_results, chunk_rowcount, cur_row, ret, get_chunk_success>>
        BY <1>3, Zenon DEF FetchError
    <2>4. cur_row = NoRow /\ ret = "general"
        BY <1>3, Zenon DEF FetchError
    <2>5. get_chunk_success
        BY <1>3, Zenon DEF FetchError
    <2>6. \/ apc' = "idle"
          \/ apc' = "f_lock" /\ chunk_rowcount = 0
          \/ apc' = "f_row" /\ chunk_rowcount # 0
        BY <1>3, Zenon DEF FetchError
    <2>. QED  BY <2>2, <2>3, <2>4, <2>5, <2>6, Zenon
<1>4. CASE FetchLock \/ FetchLoop
    BY <1>4, Zenon DEF FetchLock, FetchLoop
<1>5. CASE FetchHead
    BY <1>5, SMTT(30) DEF FetchHead
<1>6. CASE FetchWait \/ FetchSpurious \/ FetchWake
    BY <1>6, Zenon DEF FetchWait, FetchSpurious, FetchWake
<1>7. CASE FetchCheck
    BY <1>7, ZenonT(30) DEF FetchCheck
<1>8. CASE FetchTake
    <2>1. consumer_head \in Chunks /\ chunk_rowcount' = RowCount[consumer_head]
        BY <1>8, SMTT(30) DEF FetchTake, TakeReady, DownloaderType
    <2>2. chunk_rowcount' > 0
        BY <2>1, RowCountAssumption, Zenon
    <2>. QED  BY <1>8, <2>2, Zenon DEF FetchTake
<1>9. CASE FetchUnlock
    BY <1>9, Zenon DEF FetchUnlock
<1>10. CASE FetchRow
    BY <1>10, Zenon DEF FetchRow
<1>11. CASE ResetStart \/ TermLock \/ TermShutdown \/ TermUnlock
           \/ TermJoin \/ TermFree
    BY <1>11, Zenon
    DEF ResetStart, TermLock, TermShutdown, TermUnlock, TermJoin, TermFree
<1>12. ASSUME NEW t \in Threads, chunk_downloader_thread(t) \/ WSpurious(t)
      PROVE  FetchState'
    BY <1>12, WorkerFrame, SMTT(30)
<1>13. CASE Terminated
    BY <1>13, Zenon DEF Terminated, vars
<1>. HIDE DEF IInv, TypeOK, StatementType, FetchState, FetchPoints
<1>. QED
    BY <1>1, <1>2, <1>3, <1>4, <1>5, <1>6, <1>7, <1>8, <1>9, <1>10, <1>11,
       <1>12, <1>13, Zenon
    DEF Next, chunk_downloader_init, snowflake_fetch, chunk_downloader_term

\* The row that FetchRow detaches is the next one of the result set.
LEMMA DeliveredStep ==
    ASSUME IInv, Next PROVE DeliveredInOrder'
<1>. USE DEF IInv, DeliveredInOrder
<1>1. CASE InitQueue \/ InitQueueFails \/ CreateThread \/ CountThread
           \/ CreateThreadFails
    BY <1>1, Zenon
    DEF InitQueue, InitQueueFails, CreateThread, CountThread,
        CreateThreadFails, FetchState
<1>2. CASE FetchStart \/ FetchLock \/ FetchHead \/ FetchLoop \/ FetchWait
    BY <1>2, Zenon DEF FetchStart, FetchLock, FetchHead, FetchLoop, FetchWait
<1>3. CASE FetchError
    BY <1>3, Zenon DEF FetchError, FetchState, FetchPoints
<1>4. CASE FetchSpurious \/ FetchWake \/ FetchCheck \/ FetchTake
    BY <1>4, Zenon DEF FetchSpurious, FetchWake, FetchCheck, FetchTake
<1>5. CASE FetchUnlock
    BY <1>5, Zenon DEF FetchUnlock, FetchState, FetchPoints
<1>6. CASE FetchRow
    <2>1. Open /\ chunk_rowcount # 0
        BY <1>6 DEF FetchRow, FetchState, Open, TermPoints
    <2>2. /\ raw_results.chunk # NoChunk /\ raw_results.chunk = consumer_head - 1
          /\ raw_results.next \in 1..RowCount[raw_results.chunk]
          /\ total_row_index = Offset[raw_results.chunk] + raw_results.next - 1
        BY <2>1, InsideChunk, Zenon
    <2>3. Offset[raw_results.chunk] \in Nat /\ RowCount[raw_results.chunk] \in Nat
        BY <2>2, Sums, Zenon DEF TypeOK, DownloaderType
    <2>4. /\ cur_row' = <<raw_results.chunk, raw_results.next>>
          /\ total_row_index' = total_row_index + 1
        BY <1>6, <2>2, <2>3 DEF FetchRow
    <2>5. Offset[raw_results.chunk] + raw_results.next = total_row_index + 1
        BY <2>2, <2>3, SMTT(30)
    <2>. QED  BY <2>2, <2>4, <2>5, Zenon
<1>7. CASE ResetStart \/ TermLock \/ TermShutdown \/ TermUnlock
           \/ TermJoin \/ TermFree
    BY <1>7, Zenon
    DEF ResetStart, TermLock, TermShutdown, TermUnlock, TermJoin, TermFree
<1>8. ASSUME NEW t \in Threads, chunk_downloader_thread(t) \/ WSpurious(t)
      PROVE  DeliveredInOrder'
    BY <1>8, WorkerFrame, Zenon
<1>9. CASE Terminated
    BY <1>9, Zenon DEF Terminated, vars
<1>. HIDE DEF IInv, DeliveredInOrder
<1>. QED
    BY <1>1, <1>2, <1>3, <1>4, <1>5, <1>6, <1>7, <1>8, <1>9, Zenon
    DEF Next, chunk_downloader_init, snowflake_fetch, chunk_downloader_term

\* Any fault makes the system fallible; cited so that the provers need not see
\* the set Faults.
LEMMA FaultMakesFallible == \A f \in Faults : Fallible
    BY Zenon DEF Fallible

\* snowflake_fetch gives up, and the downloader fails or is freed half made, only
\* if something can go wrong.
LEMMA FailureHasCauseStep ==
    ASSUME IInv, Next PROVE FailureHasCause'
<1>. USE DEF IInv, FailureHasCause, TermPoints
<1>1. CASE InitQueue \/ InitQueueFails \/ CreateThread \/ CountThread
           \/ CreateThreadFails
    BY <1>1, SMTT(30)
    DEF InitQueue, InitQueueFails, CreateThread, CountThread,
        CreateThreadFails
<1>2. CASE FetchStart \/ FetchError \/ FetchLock \/ FetchLoop
           \/ FetchWait
    BY <1>2, SMTT(30) DEF FetchStart, FetchError, FetchLock, FetchLoop, FetchWait
<1>3. CASE FetchHead
    BY <1>3, Zenon DEF FetchHead, FetchState, FetchPoints
<1>4. CASE FetchSpurious \/ FetchWake \/ FetchUnlock \/ FetchRow
    BY <1>4, SMTT(30) DEF FetchSpurious, FetchWake, FetchUnlock, FetchRow
<1>5. CASE FetchCheck
    BY <1>5, Zenon DEF FetchCheck
<1>6. CASE FetchTake
    BY <1>6, FaultMakesFallible, ZenonT(30) DEF FetchTake, FetchState, FetchPoints
<1>7. CASE ResetStart \/ TermLock \/ TermUnlock \/ TermJoin \/ TermFree
    BY <1>7, SMTT(30) DEF ResetStart, TermLock, TermUnlock, TermJoin, TermFree
<1>8. CASE TermShutdown
    BY <1>8, FaultMakesFallible, SMTT(30) DEF TermShutdown
<1>9. ASSUME NEW t \in Threads, WLock(t) \/ WLoop(t) \/ WWait(t) \/ WSpurious(t) \/ WWake(t)
           \/ WBreak(t)
      PROVE  FailureHasCause'
    BY <1>9, SMTT(30) DEF WLock, WLoop, WWait, WSpurious, WWake, WBreak
<1>10. ASSUME NEW t \in Threads, WClaim(t)
      PROVE  FailureHasCause'
    BY <1>10, Zenon DEF WClaim
<1>11. ASSUME NEW t \in Threads, WUnlock(t)
      PROVE  FailureHasCause'
    BY <1>11, Zenon DEF WUnlock
<1>12. ASSUME NEW t \in Threads, WDownload(t)
      PROVE  FailureHasCause'
    BY <1>12, Zenon DEF WDownload
<1>13. ASSUME NEW t \in Threads, WRelock(t) \/ WPublish(t)
      PROVE  FailureHasCause'
    BY <1>13, SMTT(30) DEF WRelock, WPublish
<1>14. ASSUME NEW t \in Threads, WNext(t) \/ WExit(t)
      PROVE  FailureHasCause'
    BY <1>14, SMTT(30) DEF WNext, WExit
<1>15. ASSUME NEW t \in Threads, WFail(t)
      PROVE  FailureHasCause'
    BY <1>15, Zenon DEF WFail, DownloadFailureHasCause
<1>16. ASSUME NEW t \in Threads, WStore(t)
      PROVE  FailureHasCause'
    BY <1>16, FaultMakesFallible, SMTT(30) DEF WStore, SignalConsumer
<1>17. CASE Terminated
    BY <1>17, Zenon DEF Terminated, vars
<1>. HIDE DEF IInv, FailureHasCause, TermPoints
<1>. QED
    BY <1>1, <1>2, <1>3, <1>4, <1>5, <1>6, <1>7, <1>8, <1>9, <1>10, <1>11,
       <1>12, <1>13, <1>14, <1>15, <1>16, <1>17, Zenon
    DEF Next, chunk_downloader_init, chunk_downloader_thread, snowflake_fetch,
        chunk_downloader_term

\* A thread is about to record a failed download only if downloads can fail.
LEMMA DownloadFailureHasCauseStep ==
    ASSUME IInv, Next PROVE DownloadFailureHasCause'
<1>. USE DEF IInv, TypeOK, ControlType, DownloadFailureHasCause
<1>1. CASE InitQueue \/ InitQueueFails \/ CreateThread \/ CountThread
           \/ CreateThreadFails
    BY <1>1, Zenon
    DEF InitQueue, InitQueueFails, CreateThread, CountThread,
        CreateThreadFails, ThreadsCounted
<1>2. CASE FetchStart \/ FetchError \/ FetchLock \/ FetchHead
           \/ FetchLoop \/ FetchWait
    BY <1>2, Zenon
    DEF FetchStart, FetchError, FetchLock, FetchHead, FetchLoop, FetchWait
<1>3. CASE FetchSpurious \/ FetchWake \/ FetchCheck \/ FetchUnlock
           \/ FetchRow
    BY <1>3, Zenon DEF FetchSpurious, FetchWake, FetchCheck, FetchUnlock, FetchRow
<1>4. CASE FetchTake
    BY <1>4, SignalProducerEffect, Zenon DEF FetchTake
<1>5. CASE ResetStart \/ TermLock \/ TermUnlock \/ TermJoin \/ TermFree
    BY <1>5, Zenon DEF ResetStart, TermLock, TermUnlock, TermJoin, TermFree
<1>6. CASE TermShutdown
    BY <1>6, Zenon DEF TermShutdown
<1>7. ASSUME NEW t \in Threads, WDownload(t)
      PROVE  DownloadFailureHasCause'
    BY <1>7, FaultMakesFallible, Zenon DEF WDownload
<1>8. ASSUME NEW t \in Threads, WLock(t) \/ WLoop(t) \/ WWait(t)
      PROVE  DownloadFailureHasCause'
    BY <1>8, Zenon DEF WLock, WLoop, WWait
<1>9. ASSUME NEW t \in Threads, WSpurious(t) \/ WWake(t) \/ WBreak(t)
      PROVE  DownloadFailureHasCause'
    BY <1>9, Zenon DEF WSpurious, WWake, WBreak
<1>10. ASSUME NEW t \in Threads, WClaim(t) \/ WUnlock(t)
      PROVE  DownloadFailureHasCause'
    BY <1>10, Zenon DEF WClaim, WUnlock
<1>11. ASSUME NEW t \in Threads, WFail(t) \/ WRelock(t) \/ WPublish(t)
      PROVE  DownloadFailureHasCause'
    BY <1>11, Zenon DEF WFail, WRelock, WPublish
<1>12. ASSUME NEW t \in Threads, WStore(t) \/ WNext(t) \/ WExit(t)
      PROVE  DownloadFailureHasCause'
    BY <1>12, ZenonT(30) DEF WStore, WNext, WExit
<1>13. CASE Terminated
    BY <1>13, Zenon DEF Terminated, vars
<1>. HIDE DEF IInv, TypeOK, ControlType, DownloadFailureHasCause
<1>. QED
    BY <1>1, <1>2, <1>3, <1>4, <1>5, <1>6, <1>7, <1>8, <1>9, <1>10, <1>11,
       <1>12, <1>13, Zenon
    DEF Next, chunk_downloader_init, chunk_downloader_thread, snowflake_fetch,
        chunk_downloader_term

(***************************************************************************)
(* The invariant holds                                                     *)
(***************************************************************************)
\* A statement whose query has just been answered satisfies the invariant.
LEMMA InitInv == Init => IInv
<1>. SUFFICES ASSUME Init PROVE IInv
    BY Zenon
<1>. USE SizeAssumption DEF Init
<1>1. DownloaderType
    <2>1. queue \in [Chunks -> Chunks \cup {NoChunk}]
        OBVIOUS
    <2>2. is_shutdown \in BOOLEAN /\ has_error \in BOOLEAN /\ freed \in BOOLEAN
        BY ZenonT(30)
    <2>3. /\ queue_lock \in Threads \cup {App, Free}
          /\ producer_head \in 0..QSize /\ consumer_head \in 0..QSize
          /\ thread_count \in 0..NThreads
        BY SMTT(30)
    <2>. QED  BY <2>1, <2>2, <2>3, Zenon DEF DownloaderType
<1>2. ControlType
    BY SMTT(30) DEF ControlType, WorkerPoints, AppPoints
<1>3. StatementType
    BY RowCountAssumption, SMTT(30) DEF StatementType
<1>4. LockHeld /\ LockOwner /\ MutualExclusion
    BY SMTT(30) DEF LockHeld, LockOwner, MutualExclusion, WorkerHolds, AppHolds, Mutating
<1>5. ClaimReady /\ WindowBound /\ TakeReady /\ SlotIntegrity
    BY SMTT(30) DEF ClaimReady, WindowBound, TakeReady, SlotIntegrity, InFlight
<1>6. ThreadsCounted /\ FreedLast
    BY SMTT(30) DEF ThreadsCounted, FreedLast, NoUseAfterFree, FetchPoints
<1>7. Position
    <2>1. RowCount[Rowset] \in Nat /\ Offset[Rowset] = 0
        BY RowCountAssumption, OffsetAssumption, SMTT(30)
    <2>. QED  BY <2>1, SMTT(30) DEF Position
<1>8. /\ FetchState /\ DeliveredInOrder
      /\ FailureHasCause /\ DownloadFailureHasCause
    BY DEF FetchState, FailureHasCause, DownloadFailureHasCause, DeliveredInOrder,
           FetchPoints, Zenon
<1>. QED
    BY <1>1, <1>2, <1>3, <1>4, <1>5, <1>6, <1>7, <1>8, Zenon DEF IInv, TypeOK

\* Every step keeps the inductive invariant: one lemma above for each conjunct.
LEMMA InductiveStep == IInv /\ [Next]_vars => IInv'
<1>. SUFFICES ASSUME IInv, [Next]_vars PROVE IInv'
    BY Zenon
<1>1. CASE Next
    BY <1>1, DownloaderTypeStep, ControlTypeStep, StatementTypeStep, LockHeldStep,
       LockOwnerStep, MutualExclusionStep, ClaimReadyStep, TakeReadyStep,
       WindowBoundStep, SlotIntegrityStep, ThreadsCountedStep, FreedLastStep,
       PositionStep, FetchStateStep, FailureHasCauseStep,
       DownloadFailureHasCauseStep, DeliveredStep, SMTT(30)
    DEF IInv, TypeOK
<1>2. CASE UNCHANGED vars
    <2>. USE <1>2 DEF IInv, vars
    <2>1. TypeOK'
        BY SMTT(30) DEF TypeOK, DownloaderType, ControlType, StatementType
    <2>2. LockHeld' /\ LockOwner' /\ MutualExclusion'
        BY Zenon DEF LockHeld, LockOwner, MutualExclusion, WorkerHolds, AppHolds, Mutating
    <2>3. ClaimReady' /\ WindowBound' /\ TakeReady'
        BY Zenon DEF ClaimReady, WindowBound, TakeReady, WindowFull
    <2>4. SlotIntegrity'
        BY Zenon DEF SlotIntegrity, InFlight
    <2>5. ThreadsCounted' /\ FreedLast'
        BY Zenon DEF ThreadsCounted, FreedLast, NoUseAfterFree
    <2>6. /\ Position' /\ FetchState' /\ DeliveredInOrder'
          /\ FailureHasCause' /\ DownloadFailureHasCause'
        BY DEF Position, Open, FetchState, DeliveredInOrder, FailureHasCause,
               DownloadFailureHasCause
    <2>. QED  BY <2>1, <2>2, <2>3, <2>4, <2>5, <2>6, Zenon
<1>. QED  BY <1>1, <1>2, Zenon

\* The inductive invariant holds in every reachable state.
THEOREM Invariance == Spec => []IInv
<1>. QED  BY InitInv, InductiveStep, PTL DEF Spec

\* Every variable of the downloader, its threads and the statement keeps its type.
THEOREM TypeCorrectness == Spec => []TypeOK
<1>1. IInv => TypeOK
    BY Zenon DEF IInv
<1>. QED  BY <1>1, Invariance, PTL

\* snowflake_fetch: the n-th successful call returns the n-th row, for any number of
\* threads and chunks and whatever fails.
THEOREM RowsInOrder == Spec => []DeliveredInOrder
<1>1. IInv => DeliveredInOrder
    BY Zenon DEF IInv
<1>. QED  BY <1>1, Invariance, PTL

\* snowflake_fetch: SF_STATUS_EOF comes only after every row.
THEOREM EofComplete == Spec => []EofMeansAll
<1>1. IInv => EofMeansAll
    BY DEF IInv, EofMeansAll, Position, Open, FetchState, TermPoints
<1>. QED  BY <1>1, Invariance, PTL

\* chunk_downloader_thread: at most one chunk per counted thread is ahead of the
\* consumer, and the consumer never overtakes the producers.
THEOREM BoundedWindow == Spec => []WindowBound
<1>1. IInv => WindowBound
    BY Zenon DEF IInv
<1>. QED  BY <1>1, Invariance, PTL

\* chunk_downloader_thread, snowflake_fetch: each chunk is downloaded by one thread
\* into its own slot and leaves it once.
THEOREM SlotsIntact == Spec => []SlotIntegrity
<1>1. IInv => SlotIntegrity
    BY Zenon DEF IInv
<1>. QED  BY <1>1, Invariance, PTL

\* queue_lock: no two actors change the queue at once, although a thread whose
\* download failed releases a lock that it does not hold.
THEOREM QueueExclusion == Spec => []MutualExclusion
<1>1. IInv => MutualExclusion
    BY Zenon DEF IInv
<1>. QED  BY <1>1, Invariance, PTL

\* chunk_downloader_term: no thread is left in the structure when it is freed.
THEOREM MemorySafety == Spec => []NoUseAfterFree
<1>1. IInv => NoUseAfterFree
    BY DEF IInv, FreedLast
<1>. QED  BY <1>1, Invariance, PTL

(***************************************************************************)
(* ChunkDownloader implements ResultStream: the threads, the queue, the    *)
(* lock and snowflake_fetch hand out the rows as an atomic stream would.   *)
(***************************************************************************)
\* The abstract state that a step leaves as it is.
StreamKept ==
    /\ Phase' = Phase
    /\ total_row_index' = total_row_index
    /\ cur_row' = cur_row
    /\ apc \notin FetchPoints => ret' = ret

\* Points that look the same to the application.
LEMMA KeptIsStuttering ==
    ASSUME StreamKept, apc \in AppPoints, apc' \in AppPoints
    PROVE  UNCHANGED Stream!svars
<1>1. /\ apc \in FetchPoints <=> Phase = "fetching"
      /\ apc \in TermPoints \cup {"gone"} <=> Phase \in {"closing", "closed"}
    BY DEF Phase, FetchPoints, TermPoints
<1>2. /\ apc' \in FetchPoints <=> Phase' = "fetching"
      /\ apc' \in TermPoints \cup {"gone"} <=> Phase' \in {"closing", "closed"}
    BY DEF Phase, FetchPoints, TermPoints
<1>. QED  BY <1>1, <1>2 DEF StreamKept, Stream!svars, RowNumber

\* The initial state of a statement is a stream that is being opened.
LEMMA StreamInit == Init => Stream!Init
    BY DEF Init, Stream!Init, Phase, RowNumber, FetchPoints, TermPoints

\* Every step of the implementation is one of the stream, or changes nothing that the
\* application can see.
LEMMA StreamStep ==
    ASSUME IInv, Next PROVE [Stream!Next]_(Stream!svars)
<1>. DEFINE Goal == [Stream!Next]_(Stream!svars)
<1>. USE DEF Phase, FetchPoints, TermPoints, AppPoints
<1>0. apc \in AppPoints
    BY DEF IInv, TypeOK, ControlType
<1>1. CASE InitQueue \/ CreateThread
    <2>1. StreamKept /\ apc' \in AppPoints
        BY <1>1 DEF InitQueue, CreateThread, StreamKept
    <2>. QED  BY <1>0, <2>1, KeptIsStuttering
<1>2. CASE FetchLock \/ FetchHead \/ FetchLoop \/ FetchWait
    <2>1. StreamKept /\ apc' \in AppPoints
        BY <1>2 DEF FetchLock, FetchHead, FetchLoop, FetchWait, StreamKept
    <2>. QED  BY <1>0, <2>1, KeptIsStuttering
<1>3. CASE FetchSpurious \/ FetchWake \/ FetchCheck \/ FetchTake
    <2>1. StreamKept /\ apc' \in AppPoints
        BY <1>3
        DEF FetchSpurious, FetchWake, FetchCheck, FetchTake, StreamKept
    <2>. QED  BY <1>0, <2>1, KeptIsStuttering
<1>4. CASE TermLock \/ TermShutdown \/ TermUnlock \/ TermJoin
    <2>1. StreamKept /\ apc' \in AppPoints
        BY <1>4 DEF TermLock, TermShutdown, TermUnlock, TermJoin, StreamKept
    <2>. QED  BY <1>0, <2>1, KeptIsStuttering
<1>5. ASSUME NEW t \in Threads, chunk_downloader_thread(t) \/ WSpurious(t)
      PROVE  Goal
    <2>1. StreamKept /\ apc' \in AppPoints
        BY <1>0, <1>5, WorkerFrame DEF StreamKept
    <2>. QED  BY <1>0, <2>1, KeptIsStuttering
<1>6. CASE InitQueueFails
    <2>1. cur_row = NoRow /\ total_row_index = 0
        BY <1>6 DEF InitQueueFails, IInv, FetchState
    <2>. QED
        BY <1>6, <2>1, FaultMakesFallible
        DEF InitQueueFails, RowNumber, Stream!Next, Stream!OpenFails,
            Stream!Move
<1>7. CASE CreateThreadFails
    <2>1. cur_row = NoRow /\ total_row_index = 0
        BY <1>7 DEF CreateThreadFails, IInv, FetchState
    <2>. QED
        BY <1>7, <2>1, FaultMakesFallible
        DEF CreateThreadFails, RowNumber, Stream!Next, Stream!OpenFails,
            Stream!Move
<1>8. CASE CountThread
    <2>1. CASE created < NThreads
        <3>1. StreamKept /\ apc' \in AppPoints
            BY <1>8, <2>1 DEF CountThread, StreamKept
        <3>. QED  BY <1>0, <3>1, KeptIsStuttering
    <2>2. CASE ~(created < NThreads)
        BY <1>8, <2>2 DEF CountThread, RowNumber, Stream!Next, Stream!Open, Stream!Move
    <2>. QED  BY <2>1, <2>2
<1>9. CASE FetchStart
    <2>. QED
        BY <1>9
        DEF FetchStart, RowNumber, Stream!Next, Stream!Fetch, Stream!Move
<1>10. CASE FetchError
    <2>1. CASE has_error
        <3>1. Fallible /\ ret = "general"
            BY <1>10, <2>1 DEF FetchError, IInv, FailureHasCause, FetchState
        <3>. QED
            BY <1>10, <2>1, <3>1
            DEF FetchError, RowNumber, Stream!Next, Stream!ReturnError, Stream!Move
    <2>2. CASE ~has_error
        <3>1. StreamKept /\ apc' \in AppPoints
            BY <1>10, <2>2 DEF FetchError, StreamKept
        <3>. QED  BY <1>0, <3>1, KeptIsStuttering
    <2>. QED  BY <2>1, <2>2
<1>11. CASE FetchUnlock
    <2>1. CASE ret = "eof"
        <3>1. total_row_index = Offset[QSize]
            BY <1>11, <2>1 DEF FetchUnlock, IInv, FetchState, Position, Open
        <3>. QED
            BY <1>11, <2>1, <3>1
            DEF FetchUnlock, RowNumber, Stream!Next, Stream!ReturnEof, Stream!Move
    <2>2. CASE ret # "eof" /\ ~get_chunk_success
        <3>1. Fallible /\ ret = "general"
            BY <1>11, <2>2 DEF FetchUnlock, IInv, FailureHasCause, FetchState
        <3>. QED
            BY <1>11, <2>2, <3>1
            DEF FetchUnlock, RowNumber, Stream!Next, Stream!ReturnError, Stream!Move
    <2>3. CASE ret # "eof" /\ get_chunk_success
        <3>1. StreamKept /\ apc' \in AppPoints
            BY <1>11, <2>3 DEF FetchUnlock, StreamKept
        <3>. QED  BY <1>0, <3>1, KeptIsStuttering
    <2>. QED  BY <2>1, <2>2, <2>3
<1>12. CASE FetchRow
    <2>1. Open /\ chunk_rowcount # 0 /\ TypeOK /\ Position
        BY <1>12 DEF FetchRow, IInv, FetchState, Open
    <2>2. /\ raw_results.chunk # NoChunk /\ raw_results.chunk = consumer_head - 1
          /\ raw_results.next \in 1..RowCount[consumer_head - 1]
          /\ total_row_index = Offset[consumer_head - 1] + raw_results.next - 1
        BY <2>1, InsideChunk
    <2>3. consumer_head \in 0..QSize
        BY <2>1 DEF TypeOK, DownloaderType
    <2>4. total_row_index \in Int /\ total_row_index < Offset[consumer_head]
        BY <2>2, <2>3, Sums
    <2>5. Offset[consumer_head] <= Offset[QSize] /\ Offset[QSize] \in Nat /\ Offset[consumer_head] \in Nat
        BY <2>3, SizeAssumption, OffsetAssumption, OffsetGrows
    <2>6. total_row_index < Offset[QSize]
        BY <2>4, <2>5
    <2>7. cur_row' = <<raw_results.chunk, raw_results.next>>
        BY <1>12, <2>2 DEF FetchRow
    <2>8. RowNumber' = total_row_index + 1
        <3>1. RowNumber' = Offset[raw_results.chunk] + raw_results.next
            BY <2>2, <2>7 DEF RowNumber
        <3>. QED  BY <2>2, <2>3, <3>1, Sums
    <2>. QED
        BY <1>12, <2>6, <2>8 DEF FetchRow, Stream!Next, Stream!ReturnRow, Stream!Move
<1>13. CASE ResetStart
    <2>. QED
        BY <1>13
        DEF ResetStart, RowNumber, Stream!Next, Stream!Close, Stream!Move
<1>14. CASE TermFree
    <2>. QED
        BY <1>14
        DEF TermFree, RowNumber, Stream!Next, Stream!Closed, Stream!Move
<1>15. CASE Terminated
    <2>1. StreamKept /\ apc' \in AppPoints
        BY <1>15 DEF Terminated, StreamKept, vars
    <2>. QED  BY <1>0, <2>1, KeptIsStuttering
<1>. QED
    BY <1>1, <1>2, <1>3, <1>4, <1>5, <1>6, <1>7, <1>8, <1>9, <1>10, <1>11,
       <1>12, <1>13, <1>14, <1>15
    DEF Next, chunk_downloader_init, snowflake_fetch, chunk_downloader_term

\* Downloader, threads and snowflake_fetch implement the stream of rows.
THEOREM Refinement == Spec => ImplementsStream
<1>1. IInv /\ [Next]_vars => [Stream!Next]_(Stream!svars)
    <2>1. ASSUME IInv, UNCHANGED vars PROVE UNCHANGED Stream!svars
        BY <2>1 DEF vars, Stream!svars, Phase, RowNumber
    <2>. QED  BY <2>1, StreamStep
<1>. QED  BY <1>1, StreamInit, Invariance, PTL DEF Spec, ImplementsStream, Stream!Spec

(***************************************************************************)
(* Who sleeps and why, while nothing has failed                            *)
(***************************************************************************)
\* A consumer that has decided to wait has nothing to take.
ConsumerSleeps == apc \in {"f_wait", "cwait"} => queue[consumer_head] = NoChunk

\* Nobody waits for the window after a shutdown.
ProducersSleep == \A t \in Threads : pc[t] \in {"wait", "pwait"} => ~is_shutdown

\* A chunk that has been claimed is in its slot or on its way.
ClaimedArrives ==
    ~freed => \A k \in Chunks : consumer_head <= k /\ k < producer_head =>
                 queue[k] # NoChunk \/ \E t \in Threads : InFlight(t) /\ index[t] = k

\* A thread leaves when it is told to or when all chunks are claimed.
ThreadsStay ==
    \A t \in Threads : pc[t] \in {"exit", "done"} => is_shutdown \/ producer_head >= QSize

\* A thread waits because a chunk is claimed and not consumed.  The first thread may also have
\* found thread_count = 0, before any other had started.
WaitHasCause ==
    \A t \in Threads : pc[t] = "wait" =>
        producer_head > consumer_head \/ (t = 1 /\ \A u \in Threads \ {1} : pc[u] \in {"none", "lock"})

\* Of two threads or more, not all are asleep when nothing is claimed.
SomeoneAwake ==
    created >= 2 /\ (\A t \in Threads : t <= created => pc[t] = "pwait") => producer_head > consumer_head

ThreadsStarted == \A t \in Threads : t <= created => pc[t] # "none"

ShutdownFirst == apc \in {"t_unlock", "t_join"} => is_shutdown

LockKept == queue_lock = App => AppHolds

WInv ==
    ~has_error =>
        /\ ConsumerSleeps /\ ProducersSleep /\ ClaimedArrives /\ ThreadsStay
        /\ WaitHasCause /\ SomeoneAwake /\ ThreadsStarted /\ ShutdownFirst /\ LockKept

\* has_error is never taken back.
LEMMA ErrorStays == ASSUME Next, has_error PROVE has_error'
<1>1. CASE chunk_downloader_init
    BY <1>1, Zenon DEF chunk_downloader_init, InitQueue, InitQueueFails, CreateThread, CountThread, CreateThreadFails
<1>2. CASE FetchStart \/ snowflake_fetch \/ FetchSpurious
    BY <1>2, Zenon DEF FetchStart, FetchSpurious, snowflake_fetch, FetchError, FetchLock, FetchHead, FetchLoop,
                FetchWait, FetchWake, FetchCheck, FetchTake, FetchUnlock, FetchRow
<1>3. CASE ResetStart \/ chunk_downloader_term
    BY <1>3, Zenon DEF ResetStart, chunk_downloader_term, TermLock, TermShutdown, TermUnlock, TermJoin, TermFree
<1>4. ASSUME NEW t \in Threads, chunk_downloader_thread(t) \/ WSpurious(t) PROVE has_error'
    BY <1>4, WorkerFrame
<1>5. CASE Terminated
    BY <1>5 DEF Terminated, vars
<1>. QED
    BY <1>1, <1>2, <1>3, <1>4, <1>5 DEF Next

\* The consumer decides to wait, and goes to sleep, without letting go of queue_lock; whoever
\* fills its slot wakes it.
LEMMA ConsumerSleepsStep ==
    ASSUME IInv, Next, ~has_error, ~has_error', ConsumerSleeps PROVE ConsumerSleeps'
<1>. USE DEF ConsumerSleeps
<1>1. CASE chunk_downloader_init
    BY <1>1, Zenon
    DEF chunk_downloader_init, InitQueue, InitQueueFails, CreateThread, CountThread, CreateThreadFails
<1>2. CASE FetchStart \/ FetchError \/ FetchLock \/ FetchHead \/ FetchLoop \/ FetchWait
    BY <1>2, Zenon DEF FetchStart, FetchError, FetchLock, FetchHead, FetchLoop, FetchWait
<1>3. CASE FetchSpurious \/ FetchWake \/ FetchCheck \/ FetchUnlock \/ FetchRow
    BY <1>3, Zenon DEF FetchSpurious, FetchWake, FetchCheck, FetchUnlock, FetchRow
<1>4. CASE FetchTake
    BY <1>4, Zenon DEF FetchTake
<1>5. CASE ResetStart \/ chunk_downloader_term
    BY <1>5, Zenon
    DEF ResetStart, chunk_downloader_term, TermLock, TermShutdown, TermUnlock, TermJoin, TermFree
<1>6. ASSUME NEW t \in Threads, chunk_downloader_thread(t) \/ WSpurious(t), ~WStore(t) PROVE ConsumerSleeps'
    <2>1. queue' = queue
        BY <1>6, Zenon
        DEF chunk_downloader_thread, WSpurious, WLock, WLoop, WWait, WWake, WBreak, WClaim, WUnlock,
            WDownload, WFail, WRelock, WPublish, WNext, WExit
    <2>2. consumer_head' = consumer_head /\ (apc' = apc \/ apc' = "cwake")
        BY <1>6, WorkerFrame
    <2>. QED
        BY <2>1, <2>2
<1>7. ASSUME NEW t \in Threads, WStore(t) PROVE ConsumerSleeps'
    <2>1. apc # "f_wait"
        BY <1>7 DEF WStore, IInv, LockHeld, WorkerHolds, AppHolds
    <2>2. apc' = IF apc = "cwait" THEN "cwake" ELSE apc
        BY <1>7 DEF WStore, SignalConsumer
    <2>. QED
        BY <2>1, <2>2
<1>8. CASE Terminated
    BY <1>8 DEF Terminated, vars
<1>. QED
    BY <1>1, <1>2, <1>3, <1>4, <1>5, <1>6, <1>7, <1>8 DEF Next, snowflake_fetch, chunk_downloader_thread

\* What a step does to the program points of the threads.
LEMMA PointsStep ==
    ASSUME IInv, Next, ~has_error, ~has_error', NEW t \in Threads, pc'[t] # pc[t]
    PROVE  \/ WLoop(t) /\ pc'[t] = "wait"
           \/ WWait(t) /\ pc'[t] = "pwait"
           \/ WBreak(t) /\ pc'[t] = "exit"
           \/ WExit(t) /\ pc'[t] = "done"
           \/ pc'[t] \notin {"none", "wait", "pwait", "exit", "done"}
<1>. USE DEF IInv, TypeOK, ControlType, WorkerPoints
<1>1. CASE CreateThread
    BY <1>1, SizeAssumption DEF CreateThread
<1>2. CASE chunk_downloader_init /\ ~CreateThread
    BY <1>2, Zenon DEF chunk_downloader_init, InitQueue, InitQueueFails, CountThread, CreateThreadFails
<1>3. CASE FetchStart \/ FetchSpurious \/ FetchError \/ FetchLock \/ FetchHead \/ FetchLoop \/ FetchWait
    BY <1>3, Zenon DEF FetchStart, FetchSpurious, FetchError, FetchLock, FetchHead, FetchLoop, FetchWait
<1>4. CASE FetchWake \/ FetchCheck \/ FetchUnlock \/ FetchRow \/ ResetStart
    BY <1>4, Zenon DEF FetchWake, FetchCheck, FetchUnlock, FetchRow, ResetStart
<1>5. CASE FetchTake
    <2>1. SignalProducer \/ pc' = pc
        BY <1>5 DEF FetchTake
    <2>. QED
        BY <2>1, SignalProducerEffect, Zenon
<1>6. CASE TermLock \/ TermUnlock \/ TermJoin \/ TermFree
    BY <1>6, Zenon DEF TermLock, TermUnlock, TermJoin, TermFree
<1>7. CASE TermShutdown
    BY <1>7, Zenon DEF TermShutdown
<1>8. ASSUME NEW u \in Threads, chunk_downloader_thread(u) \/ WSpurious(u), u # t PROVE FALSE
    BY <1>8, WorkerMoves
<1>9. CASE WLoop(t) \/ WWait(t) \/ WExit(t) \/ WBreak(t)
    BY <1>9, Zenon DEF WLoop, WWait, WExit, WBreak
<1>10. CASE WLock(t) \/ WSpurious(t) \/ WWake(t) \/ WClaim(t) \/ WUnlock(t) \/ WDownload(t)
    BY <1>10, Zenon DEF WLock, WSpurious, WWake, WClaim, WUnlock, WDownload
<1>11. CASE WFail(t) \/ WRelock(t) \/ WPublish(t) \/ WStore(t) \/ WNext(t)
    BY <1>11, Zenon DEF WFail, WRelock, WPublish, WStore, WNext
<1>12. CASE Terminated
    BY <1>12 DEF Terminated, vars
<1>. HIDE DEF IInv, TypeOK, ControlType, WorkerPoints
<1>. QED
    BY <1>1, <1>2, <1>3, <1>4, <1>5, <1>6, <1>7, <1>8, <1>9, <1>10, <1>11, <1>12
    DEF Next, snowflake_fetch, chunk_downloader_thread, chunk_downloader_term

\* Which steps move the heads, count a thread, or shut down.
LEMMA HeadsStep ==
    ASSUME Next
    PROVE  /\ producer_head' = producer_head \/ (\E t \in Threads : WClaim(t))
           /\ consumer_head' = consumer_head \/ FetchTake
           /\ is_shutdown' = is_shutdown \/ TermShutdown
           /\ created' = created \/ CreateThread
<1>1. CASE chunk_downloader_init
    BY <1>1, Zenon
    DEF chunk_downloader_init, InitQueue, InitQueueFails, CreateThread, CountThread, CreateThreadFails
<1>2. CASE FetchStart \/ FetchError \/ FetchLock \/ FetchHead \/ FetchLoop \/ FetchWait
    BY <1>2, Zenon DEF FetchStart, FetchError, FetchLock, FetchHead, FetchLoop, FetchWait
<1>3. CASE FetchSpurious \/ FetchWake \/ FetchCheck \/ FetchTake \/ FetchUnlock \/ FetchRow
    BY <1>3, Zenon DEF FetchSpurious, FetchWake, FetchCheck, FetchTake, FetchUnlock, FetchRow
<1>4. CASE ResetStart \/ chunk_downloader_term
    BY <1>4, Zenon
    DEF ResetStart, chunk_downloader_term, TermLock, TermShutdown, TermUnlock, TermJoin, TermFree
<1>5. ASSUME NEW t \in Threads, chunk_downloader_thread(t) \/ WSpurious(t), ~WClaim(t)
      PROVE  producer_head' = producer_head
    BY <1>5, Zenon
    DEF chunk_downloader_thread, WSpurious, WLock, WLoop, WWait, WWake, WBreak, WUnlock,
        WDownload, WFail, WRelock, WPublish, WStore, WNext, WExit
<1>6. ASSUME NEW t \in Threads, chunk_downloader_thread(t) \/ WSpurious(t)
      PROVE  UNCHANGED <<consumer_head, is_shutdown, created>>
    BY <1>6, WorkerFrame
<1>7. CASE Terminated
    BY <1>7 DEF Terminated, vars
<1>. QED
    BY <1>1, <1>2, <1>3, <1>4, <1>5, <1>6, <1>7 DEF Next, snowflake_fetch

\* The producer's head only grows.
LEMMA HeadGrows ==
    ASSUME IInv, Next
    PROVE  producer_head \in Nat /\ producer_head' \in Nat /\ consumer_head \in Nat /\ producer_head' >= producer_head
<1>1. producer_head \in Nat /\ consumer_head \in Nat
    BY SizeAssumption DEF IInv, TypeOK, DownloaderType
<1>2. \A t \in Threads : WClaim(t) => producer_head' = producer_head + 1
    BY DEF WClaim
<1>. QED
    BY <1>1, <1>2, HeadsStep

\* A thread decides to wait under queue_lock, and chunk_downloader_term wakes all that wait.
LEMMA ProducersSleepStep ==
    ASSUME IInv, Next, ~has_error, ~has_error', ProducersSleep PROVE ProducersSleep'
<1>. SUFFICES ASSUME NEW t \in Threads, pc'[t] \in {"wait", "pwait"} PROVE ~is_shutdown'
    BY DEF ProducersSleep
<1>1. CASE pc'[t] # pc[t]
    <2>1. WLoop(t) \/ WWait(t)
        BY <1>1, PointsStep
    <2>2. is_shutdown' = is_shutdown
        BY <2>1, WorkerFrame DEF chunk_downloader_thread
    <2>3. ~is_shutdown
        <3>1. CASE WLoop(t)
            BY <3>1, <1>1 DEF WLoop, IInv, TypeOK, ControlType
        <3>2. CASE WWait(t)
            BY <3>2 DEF WWait, ProducersSleep
        <3>. QED
            BY <2>1, <3>1, <3>2
    <2>. QED
        BY <2>2, <2>3
<1>2. CASE pc'[t] = pc[t]
    <2>1. ~is_shutdown
        BY <1>2 DEF ProducersSleep
    <2>2. CASE TermShutdown
        <3>1. pc' = [u \in Threads |-> IF pc[u] = "pwait" THEN "pwake" ELSE pc[u]]
            BY <2>2 DEF TermShutdown
        <3>2. pc[t] = "wait"
            BY <1>2, <3>1
        <3>. QED
            BY <2>2, <3>2 DEF TermShutdown, IInv, LockHeld, WorkerHolds, AppHolds
    <2>. QED
        BY <2>1, <2>2, HeadsStep
<1>. QED
    BY <1>1, <1>2

\* A thread leaves its loop only for a reason, which stays.
LEMMA ThreadsStayStep ==
    ASSUME IInv, Next, ~has_error, ~has_error', ThreadsStay PROVE ThreadsStay'
<1>. SUFFICES ASSUME NEW t \in Threads, pc'[t] \in {"exit", "done"} PROVE is_shutdown' \/ producer_head' >= QSize
    BY DEF ThreadsStay
<1>1. is_shutdown \/ producer_head >= QSize
    <2>1. CASE pc'[t] # pc[t]
        <3>1. (WBreak(t) /\ pc'[t] = "exit") \/ WExit(t)
            BY <2>1, PointsStep
        <3>2. CASE WBreak(t) /\ pc'[t] = "exit"
            BY <3>2 DEF WBreak, IInv, TypeOK, ControlType
        <3>3. CASE WExit(t)
            BY <3>3 DEF WExit, ThreadsStay
        <3>. QED
            BY <3>1, <3>2, <3>3
    <2>2. CASE pc'[t] = pc[t]
        BY <2>2 DEF ThreadsStay
    <2>. QED
        BY <2>1, <2>2
<1>2. is_shutdown => is_shutdown'
    BY HeadsStep, Zenon DEF TermShutdown
<1>. QED
    BY <1>1, <1>2, HeadGrows, SizeAssumption

\* A thread that was created has started.
LEMMA StartedStep ==
    ASSUME IInv, Next, ~has_error, ~has_error', ThreadsStarted PROVE ThreadsStarted'
<1>. SUFFICES ASSUME NEW t \in Threads, t <= created', pc'[t] = "none" PROVE FALSE
    BY DEF ThreadsStarted
<1>1. pc'[t] = pc[t]
    BY PointsStep
<1>2. CASE created' = created
    BY <1>1, <1>2 DEF ThreadsStarted
<1>3. CASE CreateThread
    <2>1. created \in Nat /\ created' = created + 1 /\ pc' = [pc EXCEPT ![created + 1] = "lock"]
        BY <1>3, SizeAssumption DEF CreateThread, IInv, TypeOK, ControlType
    <2>2. pc'[created + 1] = "lock" \/ t # created + 1
        BY <2>1 DEF IInv, TypeOK, ControlType
    <2>. QED
        BY <1>1, <2>1, <2>2 DEF ThreadsStarted
<1>. QED
    BY <1>2, <1>3, HeadsStep

\* A thread that has not looked at the queue yet needs the lock to do so.
LEMMA NotYet ==
    ASSUME IInv, Next, ~has_error, ~has_error', NEW u \in Threads, pc[u] \in {"none", "lock"}, queue_lock # Free
    PROVE  pc'[u] \in {"none", "lock"}
<1>. USE DEF IInv, TypeOK, ControlType
<1>1. CASE CreateThread
    BY <1>1 DEF CreateThread
<1>2. CASE chunk_downloader_init /\ ~CreateThread
    BY <1>2, Zenon DEF chunk_downloader_init, InitQueue, InitQueueFails, CountThread, CreateThreadFails
<1>3. CASE FetchStart \/ FetchSpurious \/ FetchError \/ FetchLock \/ FetchHead \/ FetchLoop \/ FetchWait
    BY <1>3, Zenon DEF FetchStart, FetchSpurious, FetchError, FetchLock, FetchHead, FetchLoop, FetchWait
<1>4. CASE FetchWake \/ FetchCheck \/ FetchUnlock \/ FetchRow \/ ResetStart
    BY <1>4, Zenon DEF FetchWake, FetchCheck, FetchUnlock, FetchRow, ResetStart
<1>5. CASE FetchTake
    <2>1. SignalProducer \/ pc' = pc
        BY <1>5 DEF FetchTake
    <2>. QED
        BY <2>1, SignalProducerEffect, Zenon
<1>6. CASE TermLock \/ TermUnlock \/ TermJoin \/ TermFree
    BY <1>6, Zenon DEF TermLock, TermUnlock, TermJoin, TermFree
<1>7. CASE TermShutdown
    BY <1>7, Zenon DEF TermShutdown
<1>8. ASSUME NEW t \in Threads, chunk_downloader_thread(t) \/ WSpurious(t), u # t PROVE pc'[u] = pc[u]
    BY <1>8, WorkerMoves
<1>9. ASSUME chunk_downloader_thread(u) \/ WSpurious(u) PROVE FALSE
    <2>1. pc[u] = "lock"
        BY <1>9, WorkerMoves
    <2>2. ~WLock(u)
        BY DEF WLock
    <2>3. WLoop(u) \/ WWait(u) \/ WWake(u) \/ WBreak(u) \/ WClaim(u) \/ WUnlock(u) \/ WDownload(u)
          \/ WFail(u) \/ WRelock(u) \/ WPublish(u) \/ WStore(u) \/ WNext(u) \/ WExit(u) \/ WSpurious(u)
        BY <1>9, <2>2 DEF chunk_downloader_thread
    <2>. QED
        BY <2>1, <2>3
        DEF WSpurious, WLoop, WWait, WWake, WBreak, WClaim, WUnlock,
            WDownload, WFail, WRelock, WPublish, WStore, WNext, WExit
<1>10. CASE Terminated
    BY <1>10 DEF Terminated, vars
<1>. HIDE DEF IInv, TypeOK, ControlType
<1>. QED
    BY <1>1, <1>2, <1>3, <1>4, <1>5, <1>6, <1>7, <1>8, <1>9, <1>10
    DEF Next, snowflake_fetch, chunk_downloader_term

\* The window is full because chunks are ahead of the consumer, unless no thread is counted.
LEMMA WaitHasCauseStep ==
    ASSUME IInv, Next, ~has_error, ~has_error', WaitHasCause PROVE WaitHasCause'
<1>. SUFFICES ASSUME NEW t \in Threads, pc'[t] = "wait"
              PROVE  producer_head' > consumer_head' \/ (t = 1 /\ \A u \in Threads \ {1} : pc'[u] \in {"none", "lock"})
    BY DEF WaitHasCause
<1>1. CASE pc'[t] # pc[t]
    <2>1. WLoop(t)
        BY <1>1, PointsStep
    <2>2. UNCHANGED <<producer_head, consumer_head, thread_count>> /\ pc[t] = "loop" /\ WindowFull
        BY <1>1, <2>1 DEF WLoop, IInv, TypeOK, ControlType
    <2>3. thread_count \in Nat /\ producer_head \in Int /\ consumer_head \in Int
        BY SizeAssumption DEF IInv, TypeOK, DownloaderType
    <2>4. CASE thread_count > 0
        BY <2>2, <2>3, <2>4 DEF WindowFull
    <2>5. CASE thread_count = 0
        <3>1. created \in Nat /\ created <= 1 /\ \A u \in Threads : u > created => pc[u] = "none"
            BY <2>5 DEF IInv, ThreadsCounted, TypeOK, ControlType
        <3>2. t = 1
            BY <2>2, <3>1, SizeAssumption
        <3>3. ASSUME NEW u \in Threads \ {1} PROVE pc'[u] = "none"
            <4>1. pc[u] = "none"
                BY <3>1, SizeAssumption
            <4>. QED
                BY <2>1, <3>2, <4>1, WorkerMoves DEF chunk_downloader_thread, IInv, TypeOK
        <3>. QED
            BY <3>2, <3>3
    <2>. QED
        BY <2>3, <2>4, <2>5
<1>2. CASE pc'[t] = pc[t]
    <2>1. pc[t] = "wait" /\ queue_lock = t /\ t # Free /\ t # App
        BY <1>2, SizeAssumption DEF IInv, LockHeld, WorkerHolds
    <2>2. ~FetchTake
        BY <2>1 DEF FetchTake, IInv, LockHeld, AppHolds
    <2>3. consumer_head' = consumer_head
        BY <2>2, HeadsStep
    <2>4. CASE producer_head > consumer_head
        BY <2>3, <2>4, HeadGrows
    <2>5. CASE t = 1 /\ \A u \in Threads \ {1} : pc[u] \in {"none", "lock"}
        BY <2>1, <2>5, NotYet
    <2>. QED
        BY <2>1, <2>4, <2>5 DEF WaitHasCause
<1>. QED
    BY <1>1, <1>2

\* The last thread that goes to sleep leaves a chunk to consume, and the consumer, when it
\* takes the last one, wakes a thread.
LEMMA SomeoneAwakeStep ==
    ASSUME IInv, Next, ~has_error, ~has_error', WaitHasCause, SomeoneAwake, "signal" \notin Faults
    PROVE  SomeoneAwake'
<1>. SUFFICES ASSUME created' >= 2, \A t \in Threads : t <= created' => pc'[t] = "pwait"
              PROVE  producer_head' > consumer_head'
    BY DEF SomeoneAwake
<1>0. created \in Nat /\ created <= NThreads /\ NThreads \in Nat /\ pc \in [Threads -> WorkerPoints]
    BY SizeAssumption DEF IInv, TypeOK, ControlType
<1>1. ~CreateThread
    <2>. SUFFICES ASSUME CreateThread PROVE FALSE
        OBVIOUS
    <2>1. created < NThreads /\ created' = created + 1 /\ pc' = [pc EXCEPT ![created + 1] = "lock"]
        BY DEF CreateThread, IInv, ThreadsCounted
    <2>2. created + 1 \in Threads
        BY <1>0, <2>1
    <2>. QED
        BY <1>0, <2>1, <2>2
<1>2. created' = created
    BY <1>1, HeadsStep
<1>3. CASE \A t \in Threads : t <= created => pc[t] = "pwait"
    <2>1. producer_head > consumer_head
        BY <1>2, <1>3 DEF SomeoneAwake
    <2>2. ~FetchTake
        <3>. SUFFICES ASSUME FetchTake PROVE FALSE
            OBVIOUS
        <3>1. SignalProducer
            BY DEF FetchTake
        <3>2. 1 \in ProducersWaiting
            BY <1>0, <1>2, <1>3 DEF ProducersWaiting
        <3>3. PICK t \in ProducersWaiting : pc' = [pc EXCEPT ![t] = "pwake"]
            BY <3>1, <3>2 DEF SignalProducer
        <3>4. t \in Threads /\ pc[t] = "pwait"
            BY <3>3 DEF ProducersWaiting
        <3>5. t <= created
            BY <1>0, <3>4 DEF IInv, ThreadsCounted
        <3>. QED
            BY <1>0, <1>2, <3>3, <3>4, <3>5
    <2>. QED
        BY <2>1, <2>2, HeadsStep, HeadGrows
<1>4. ASSUME NEW t \in Threads, t <= created, pc[t] # "pwait" PROVE producer_head' > consumer_head'
    <2>1. WWait(t)
        BY <1>2, <1>4, PointsStep
    <2>2. pc[t] = "wait" /\ UNCHANGED <<producer_head, consumer_head>>
        BY <2>1 DEF WWait
    <2>3. CASE producer_head > consumer_head
        BY <2>2, <2>3
    <2>4. CASE t = 1 /\ \A u \in Threads \ {1} : pc[u] \in {"none", "lock"}
        <3>1. 2 \in Threads \ {1} /\ 2 <= created
            BY <1>0, <1>2
        <3>2. pc[2] # "pwait" /\ pc'[2] = pc[2]
            BY <2>1, <2>4, <3>1, WorkerMoves DEF chunk_downloader_thread, IInv, TypeOK
        <3>. QED
            BY <1>2, <3>1, <3>2
    <2>. QED
        BY <2>2, <2>3, <2>4 DEF WaitHasCause
<1>. QED
    BY <1>3, <1>4

\* A step that takes no chunk out of flight, nor claims or consumes one.
Carried ==
    /\ UNCHANGED <<queue, producer_head, consumer_head, index>>
    /\ \A u \in Threads : InFlight(u) => InFlight(u)'

\* A claimed chunk is in flight until it is in its slot, and in its slot until it is consumed.
LEMMA ClaimedArrivesStep ==
    ASSUME IInv, Next, ~has_error, ~has_error', ClaimedArrives PROVE ClaimedArrives'
<1>. USE SizeAssumption DEF IInv, TypeOK, DownloaderType, ControlType
<1>1. ASSUME InitQueue \/ CountThread \/ CreateThreadFails
      PROVE  Carried /\ freed' = freed
    BY <1>1, Zenon DEF InitQueue, CountThread, CreateThreadFails, Carried, InFlight
<1>2. ASSUME CreateThread
      PROVE  Carried /\ freed' = freed
    BY <1>2 DEF CreateThread, ThreadsCounted, Carried, InFlight
<1>3. ASSUME FetchStart \/ FetchError \/ FetchLock \/ FetchHead \/ FetchLoop \/ FetchWait
      PROVE  Carried /\ freed' = freed
    BY <1>3, Zenon
    DEF FetchStart, FetchError, FetchLock, FetchHead, FetchLoop, FetchWait, Carried, InFlight
<1>4. ASSUME FetchSpurious \/ FetchWake \/ FetchCheck \/ FetchUnlock \/ FetchRow
      PROVE  Carried /\ freed' = freed
    BY <1>4, Zenon
    DEF FetchSpurious, FetchWake, FetchCheck, FetchUnlock, FetchRow, Carried, InFlight
<1>5. ASSUME ResetStart \/ TermLock \/ TermUnlock \/ TermJoin
      PROVE  Carried /\ freed' = freed
    BY <1>5, Zenon DEF ResetStart, TermLock, TermUnlock, TermJoin, Carried, InFlight
<1>6. ASSUME TermShutdown
      PROVE  Carried /\ freed' = freed
    BY <1>6 DEF TermShutdown, Carried, InFlight
<1>7. ASSUME NEW t \in Threads,
             \/ WLock(t) \/ WLoop(t) \/ WWait(t) \/ WSpurious(t) \/ WWake(t) \/ WBreak(t)
             \/ WUnlock(t) \/ WDownload(t) \/ WFail(t) \/ WRelock(t) \/ WPublish(t) \/ WNext(t) \/ WExit(t)
      PROVE  Carried /\ freed' = freed
    <2>1. UNCHANGED <<queue, producer_head, consumer_head, index, freed>>
        BY <1>7, Zenon
        DEF WLock, WLoop, WWait, WSpurious, WWake, WBreak, WUnlock, WDownload, WFail, WRelock, WPublish,
            WNext, WExit
    <2>2. InFlight(t) => InFlight(t)'
        <3>1. CASE WUnlock(t) \/ WDownload(t) \/ WFail(t)
            BY <3>1, SMTT(30) DEF WUnlock, WDownload, WFail, InFlight
        <3>3. CASE WRelock(t) \/ WPublish(t)
            BY <3>3, SMTT(30) DEF WRelock, WPublish, InFlight
        <3>2. CASE \/ WLock(t) \/ WLoop(t) \/ WWait(t) \/ WSpurious(t) \/ WWake(t) \/ WBreak(t)
                   \/ WNext(t) \/ WExit(t)
            BY <3>2, Zenon DEF WLock, WLoop, WWait, WSpurious, WWake, WBreak, WNext, WExit, InFlight
        <3>. QED
            BY <1>7, <3>1, <3>2, <3>3, Zenon
    <2>3. \A u \in Threads : u # t => pc'[u] = pc[u]
        BY <1>7, WorkerMoves DEF chunk_downloader_thread
    <2>. QED
        BY <2>1, <2>2, <2>3 DEF Carried, InFlight
<1>8. CASE FetchTake
    <2>1. \A u \in Threads : InFlight(u) => InFlight(u)' /\ index'[u] = index[u]
        BY <1>8, SignalProducerEffect DEF FetchTake, InFlight
    <2>2. /\ consumer_head' = consumer_head + 1 /\ producer_head' = producer_head
          /\ queue' = [queue EXCEPT ![consumer_head] = NoChunk] /\ freed' = freed
        BY <1>8 DEF FetchTake
    <2>. QED  BY <2>1, <2>2 DEF ClaimedArrives
<1>9. CASE TermFree \/ InitQueueFails
    BY <1>9 DEF TermFree, InitQueueFails, ClaimedArrives
<1>10. ASSUME NEW t \in Threads, WClaim(t)
      PROVE  ClaimedArrives'
    <2>1. /\ \A u \in Threads \ {t} : InFlight(u) => InFlight(u)' /\ index'[u] = index[u]
          /\ index'[t] = producer_head /\ InFlight(t)' /\ ~InFlight(t)
        BY <1>10 DEF WClaim, InFlight
    <2>2. /\ producer_head' = producer_head + 1 /\ queue' = queue /\ consumer_head' = consumer_head
          /\ freed' = freed
        BY <1>10 DEF WClaim
    <2>3. ASSUME ~freed', NEW k \in Chunks, consumer_head' <= k, k < producer_head'
          PROVE  queue'[k] # NoChunk \/ \E u \in Threads : InFlight(u)' /\ index'[u] = k
        <3>1. CASE k = producer_head
            BY <2>1, <3>1
        <3>2. CASE k # producer_head
            <4>1. queue[k] # NoChunk \/ \E u \in Threads : InFlight(u) /\ index[u] = k
                BY <2>2, <2>3, <3>2 DEF ClaimedArrives
            <4>. QED
                BY <2>1, <2>2, <4>1, Zenon
        <3>. QED
            BY <3>1, <3>2
    <2>. QED  BY <2>3 DEF ClaimedArrives
<1>11. ASSUME NEW t \in Threads, WStore(t)
      PROVE  ClaimedArrives'
    <2>0. InFlight(t)
        BY <1>11, Zenon DEF WStore, InFlight
    <2>1. InFlight(t) /\ index[t] \in Chunks
        BY <2>0, SMTT(30) DEF SlotIntegrity
    <2>2. \A u \in Threads \ {t} : InFlight(u) => InFlight(u)' /\ index'[u] = index[u]
        BY <1>11, Zenon DEF WStore, InFlight
    <2>3. /\ queue' = [queue EXCEPT ![index[t]] = index[t]]
          /\ producer_head' = producer_head /\ consumer_head' = consumer_head /\ freed' = freed
        BY <1>11, Zenon DEF WStore
    <2>4. ASSUME ~freed', NEW k \in Chunks, consumer_head' <= k, k < producer_head'
          PROVE  queue'[k] # NoChunk \/ \E u \in Threads : InFlight(u)' /\ index'[u] = k
        <3>1. CASE k = index[t]
            BY <2>1, <2>3, <3>1
        <3>2. CASE k # index[t]
            <4>1. queue[k] # NoChunk \/ \E u \in Threads : InFlight(u) /\ index[u] = k
                BY <2>3, <2>4 DEF ClaimedArrives
            <4>. QED
                BY <2>2, <2>3, <3>2, <4>1, SMTT(30)
        <3>. QED
            BY <3>1, <3>2
    <2>. QED  BY <2>4 DEF ClaimedArrives
<1>12. CASE Terminated
    BY <1>12, Zenon DEF Terminated, vars, ClaimedArrives, InFlight
<1>13. Carried /\ freed' = freed => ClaimedArrives'
    BY DEF Carried, ClaimedArrives
<1>. HIDE DEF IInv, TypeOK, DownloaderType, ControlType
<1>. QED
    BY <1>1, <1>2, <1>3, <1>4, <1>5, <1>6, <1>7, <1>8, <1>9, <1>10, <1>11, <1>12, <1>13, Zenon
    DEF Next, chunk_downloader_init, chunk_downloader_thread, snowflake_fetch, chunk_downloader_term

\* chunk_downloader_term joins after set_shutdown.
LEMMA ShutdownFirstStep ==
    ASSUME Next, ~has_error', ShutdownFirst PROVE ShutdownFirst'
<1>. USE DEF ShutdownFirst
<1>1. CASE chunk_downloader_init
    BY <1>1
    DEF chunk_downloader_init, InitQueue, InitQueueFails, CreateThread, CountThread, CreateThreadFails
<1>2. CASE FetchStart \/ snowflake_fetch \/ FetchSpurious
    BY <1>2
    DEF snowflake_fetch, FetchStart, FetchError, FetchLock, FetchHead, FetchLoop, FetchWait,
        FetchSpurious, FetchWake, FetchCheck, FetchTake, FetchUnlock, FetchRow
<1>3. CASE ResetStart \/ chunk_downloader_term
    BY <1>3
    DEF ResetStart, chunk_downloader_term, TermLock, TermShutdown, TermUnlock, TermJoin, TermFree
<1>4. ASSUME NEW t \in Threads, chunk_downloader_thread(t) \/ WSpurious(t) PROVE ShutdownFirst'
    BY <1>4, WorkerFrame
<1>5. CASE Terminated
    BY <1>5 DEF Terminated, vars
<1>. QED
    BY <1>1, <1>2, <1>3, <1>4, <1>5 DEF Next

\* The application has queue_lock only at the points that release it.
LEMMA LockKeptStep ==
    ASSUME IInv, Next, ~has_error, ~has_error', LockKept PROVE LockKept'
<1>. USE DEF LockKept, AppHolds
<1>0. AppHolds => queue_lock = App
    BY DEF IInv, LockHeld
<1>1. CASE chunk_downloader_init
    BY <1>1
    DEF chunk_downloader_init, InitQueue, InitQueueFails, CreateThread, CountThread, CreateThreadFails
<1>2. CASE FetchStart \/ FetchError \/ FetchLock \/ FetchHead \/ FetchLoop \/ FetchWait
    <2>1. CASE FetchStart \/ FetchError \/ FetchLock
        BY <1>0, <2>1 DEF FetchStart, FetchError, FetchLock
    <2>2. CASE FetchHead \/ FetchLoop \/ FetchWait
        BY <1>0, <2>2 DEF FetchHead, FetchLoop, FetchWait
    <2>. QED
        BY <1>2, <2>1, <2>2, Zenon
<1>3. CASE FetchSpurious \/ FetchWake \/ FetchCheck \/ FetchTake \/ FetchUnlock \/ FetchRow
    <2>1. CASE FetchSpurious \/ FetchWake \/ FetchCheck
        BY <1>0, <2>1 DEF FetchSpurious, FetchWake, FetchCheck
    <2>2. CASE FetchTake \/ FetchUnlock \/ FetchRow
        BY <1>0, <2>2 DEF FetchTake, FetchUnlock, FetchRow
    <2>. QED
        BY <1>3, <2>1, <2>2, Zenon
<1>4. CASE ResetStart \/ chunk_downloader_term
    <2>1. CASE ResetStart \/ TermLock \/ TermShutdown
        BY <1>0, <2>1 DEF ResetStart, TermLock, TermShutdown
    <2>2. CASE TermUnlock \/ TermJoin \/ TermFree
        BY <1>0, <2>2 DEF TermUnlock, TermJoin, TermFree
    <2>. QED
        BY <1>4, <2>1, <2>2, Zenon DEF chunk_downloader_term
<1>5. ASSUME NEW t \in Threads, chunk_downloader_thread(t) \/ WSpurious(t), queue_lock' = App PROVE AppHolds'
    <2>1. CASE WLock(t) \/ WWake(t) \/ WRelock(t)
        BY <1>5, <2>1, SizeAssumption DEF WLock, WWake, WRelock
    <2>2. CASE WWait(t) \/ WUnlock(t) \/ WNext(t) \/ WExit(t)
        <3>1. queue_lock' \in {Free, queue_lock}
            BY <2>2, Zenon DEF WWait, WUnlock, WNext, WExit
        <3>. QED
            BY <1>5, <3>1, WorkerFrame, SizeAssumption
    <2>3. CASE \/ WSpurious(t) \/ WLoop(t) \/ WBreak(t) \/ WClaim(t) \/ WDownload(t) \/ WFail(t)
               \/ WPublish(t) \/ WStore(t)
        <3>1. queue_lock' = queue_lock
            BY <2>3, Zenon DEF WSpurious, WLoop, WBreak, WClaim, WDownload, WFail, WPublish, WStore
        <3>. QED
            BY <1>5, <3>1, WorkerFrame
    <2>. QED
        BY <1>5, <2>1, <2>2, <2>3 DEF chunk_downloader_thread
<1>6. CASE Terminated
    BY <1>6 DEF Terminated, vars
<1>. QED
    BY <1>1, <1>2, <1>3, <1>4, <1>5, <1>6 DEF Next, snowflake_fetch

\* What is asleep and why, all of it together: it holds initially and every step keeps it.
LEMMA WakeInit == Init => WInv
BY SizeAssumption
DEF Init, WInv, ConsumerSleeps, ProducersSleep, ClaimedArrives, ThreadsStay, WaitHasCause, SomeoneAwake,
    ThreadsStarted, ShutdownFirst, LockKept

\* And every step keeps it, as long as no signal fails.
LEMMA WakeStep ==
    ASSUME "signal" \notin Faults, IInv, WInv, [Next]_vars PROVE WInv'
<1>1. CASE UNCHANGED vars
    BY <1>1, Zenon
    DEF vars, WInv, ConsumerSleeps, ProducersSleep, ClaimedArrives, InFlight, ThreadsStay, WaitHasCause, SomeoneAwake,
        ThreadsStarted, ShutdownFirst, LockKept, AppHolds
<1>2. CASE Next
    <2>. SUFFICES ASSUME ~has_error' PROVE WInv'
        BY DEF WInv
    <2>1. ~has_error
        BY <1>2, ErrorStays
    <2>2. /\ ConsumerSleeps /\ ProducersSleep /\ ClaimedArrives /\ ThreadsStay
          /\ WaitHasCause /\ SomeoneAwake /\ ThreadsStarted /\ ShutdownFirst /\ LockKept
        BY <2>1 DEF WInv
    <2>. QED
        BY <1>2, <2>1, <2>2, ConsumerSleepsStep, ProducersSleepStep, ClaimedArrivesStep, ThreadsStayStep,
           WaitHasCauseStep, SomeoneAwakeStep, StartedStep, ShutdownFirstStep, LockKeptStep, Zenon
        DEF WInv
<1>. QED
    BY <1>1, <1>2

(***************************************************************************)
(* No wait without an end                                                  *)
(***************************************************************************)
\* A thread that can take its next step.
WorkerCanRun(t) ==
    \/ WorkerHolds(t) \/ pc[t] \in {"download", "fail"}
    \/ pc[t] \in {"lock", "pwake", "relock"} /\ queue_lock = Free

\* snowflake_fetch or chunk_downloader_term can take its next step.
AppCanRun ==
    \/ AppHolds \/ apc \in {"f_error", "f_row"}
    \/ apc \in {"f_lock", "cwake", "t_lock"} /\ queue_lock = Free
    \/ apc = "t_join" /\ (joined = thread_count \/ pc[joined + 1] = "done")

NoDeadlock ==
    ~has_error /\ apc \in FetchPoints \cup TermPoints => AppCanRun \/ \E t \in Threads : WorkerCanRun(t)

\* If neither the caller nor a thread could run, all threads would be asleep or gone.
LEMMA WaitsHaveAnEnd ==
    ASSUME NThreads >= 2, IInv, WInv PROVE NoDeadlock
<1>. SUFFICES ASSUME ~has_error, apc \in FetchPoints \cup TermPoints, ~AppCanRun,
                     \A t \in Threads : ~WorkerCanRun(t)
              PROVE  FALSE
    BY DEF NoDeadlock
<1>0. /\ ConsumerSleeps /\ ProducersSleep /\ ClaimedArrives /\ ThreadsStay
      /\ SomeoneAwake /\ ThreadsStarted /\ ShutdownFirst /\ LockKept
    BY DEF WInv
<1>1. queue_lock = Free
    <2>1. queue_lock # App
        BY <1>0 DEF LockKept, AppCanRun
    <2>2. queue_lock \notin Threads
        BY DEF IInv, LockOwner, WorkerCanRun
    <2>. QED
        BY <2>1, <2>2 DEF IInv, TypeOK, DownloaderType
\* The threads are all asleep, gone or not started.
<1>2. \A t \in Threads : pc[t] \in {"pwait", "done", "none"}
    BY <1>1 DEF WorkerCanRun, WorkerHolds, IInv, TypeOK, ControlType, WorkerPoints
<1>3. \A t \in Threads : ~InFlight(t)
    BY <1>2 DEF InFlight
<1>4. apc \in {"cwait", "t_join"}
    BY <1>1 DEF AppCanRun, AppHolds, FetchPoints, TermPoints
<1>5. /\ producer_head \in 0..QSize /\ consumer_head \in 0..QSize /\ QSize \in Nat /\ NThreads \in Nat
      /\ created \in 0..NThreads /\ joined \in 0..NThreads /\ thread_count \in 0..NThreads
    BY SizeAssumption DEF IInv, TypeOK, DownloaderType, ControlType
<1>6. CASE apc = "cwait"
    <2>1. consumer_head \in Chunks /\ queue[consumer_head] = NoChunk /\ ~freed /\ created = NThreads /\ ~is_shutdown
        BY <1>0, <1>5, <1>6
        DEF ConsumerSleeps, IInv, TakeReady, FreedLast, ThreadsCounted, FailureHasCause, FetchPoints, TermPoints
    <2>2. ~(consumer_head < producer_head)
        BY <1>0, <1>3, <2>1 DEF ClaimedArrives
    <2>3. \A t \in Threads : pc[t] = "pwait"
        BY <1>0, <1>2, <1>5, <2>1, <2>2 DEF ThreadsStay, ThreadsStarted
    <2>. QED
        BY <1>0, <1>5, <2>1, <2>2, <2>3 DEF SomeoneAwake
<1>7. CASE apc = "t_join"
    <2>1. is_shutdown
        BY <1>0, <1>7 DEF ShutdownFirst
    <2>2. joined < thread_count /\ pc[joined + 1] # "done" /\ created = thread_count
        BY <1>5, <1>7 DEF AppCanRun, IInv, ThreadsCounted
    <2>3. joined + 1 \in Threads /\ joined + 1 <= created
        BY <1>5, <2>2
    <2>. QED
        BY <1>0, <1>2, <2>1, <2>2, <2>3 DEF ProducersSleep, ThreadsStarted
<1>. QED
    BY <1>4, <1>6, <1>7

\* As long as no download or broadcast has failed, a call of snowflake_fetch or of
\* chunk_downloader_term never waits for a wakeup that nobody is left to send: the caller or
\* one of the threads can always take its next step.
THEOREM NobodyWaitsForever ==
    ASSUME NThreads >= 2, "signal" \notin Faults PROVE Spec => []NoDeadlock
<1>1. Init => IInv /\ WInv
    BY InitInv, WakeInit
<1>2. IInv /\ WInv /\ [Next]_vars => (IInv /\ WInv)'
    BY InductiveStep, WakeStep
<1>3. IInv /\ WInv => NoDeadlock
    BY WaitsHaveAnEnd
<1>. QED
    BY <1>1, <1>2, <1>3, PTL DEF Spec

=============================================================================
