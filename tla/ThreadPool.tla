----------------------------- MODULE ThreadPool -----------------------------
(***************************************************************************)
(* The thread pool of the file transfer (src/cpp/util/ThreadPool.hpp) and  *)
(* the one thread that uses it: it constructs the pool, adds jobs, waits   *)
(* for them, possibly several times, and destroys the pool.                *)
(*                                                                         *)
(* Everything shared is accessed under queue_mutex, which is always        *)
(* released by its owner, so a critical section up to its end or to a wait *)
(* is one step.                                                            *)
(***************************************************************************)
EXTENDS Naturals, Sequences, FiniteSets

CONSTANTS
    N,          \* threadCount
    MaxJobs     \* bound on the jobs that the user adds

\* A pool without threads would run nothing.
ASSUME PoolAssumption == N \in Nat \ {0} /\ MaxJobs \in Nat

Threads == 1..N

VARIABLES
    queue,          \* jobs are numbered in the order in which they were added
    busyThreads, finished,
    pc,             \* where each thread is in execute_thread
    res,            \* the job that each thread took last
    upc,            \* where the user of the pool is
    created, joined,
    added, done     \* the number of jobs added, the jobs that were run

vars == <<queue, busyThreads, finished, pc, res, upc, created, joined, added, done>>

\* Mutant: no thread counts as busy before it has started.
InitNotBusy ==
    /\ queue = <<>> /\ busyThreads = 0 /\ finished = FALSE
    /\ pc = [t \in Threads |-> "none"] /\ res = [t \in Threads |-> 0]
    /\ upc = "ctor" /\ created = 0 /\ joined = 0
    /\ added = 0 /\ done = {}

\* The constructor up to its loop: a thread is busy until it finds no job.
Init ==
    /\ queue = <<>> /\ busyThreads = N /\ finished = FALSE
    /\ pc = [t \in Threads |-> "none"] /\ res = [t \in Threads |-> 0]
    /\ upc = "ctor" /\ created = 0 /\ joined = 0
    /\ added = 0 /\ done = {}

(***************************************************************************)
(* execute_thread                                                          *)
(***************************************************************************)
\* Mutant: the job is copied from the queue and not removed.
TakeNoPop(t, b) ==
    \/ /\ queue = <<>> /\ ~finished
       /\ pc' = [pc EXCEPT ![t] = "asleep"]
       /\ busyThreads' = b
       /\ UNCHANGED <<queue, res>>
    \/ /\ finished
       /\ pc' = [pc EXCEPT ![t] = "exited"]
       /\ busyThreads' = b
       /\ UNCHANGED <<queue, res>>
    \/ /\ queue # <<>> /\ ~finished
       /\ pc' = [pc EXCEPT ![t] = "run"]
       /\ busyThreads' = b + 1
       /\ res' = [res EXCEPT ![t] = Head(queue)]
       /\ UNCHANGED queue

\* The wait loop and what follows it, with b busy threads.
TakeOrSleep(t, b) ==
    \/ /\ queue = <<>> /\ ~finished
       /\ pc' = [pc EXCEPT ![t] = "asleep"]
       /\ busyThreads' = b
       /\ UNCHANGED <<queue, res>>
    \/ /\ finished
       /\ pc' = [pc EXCEPT ![t] = "exited"]
       /\ busyThreads' = b
       /\ UNCHANGED <<queue, res>>
    \/ /\ queue # <<>> /\ ~finished
       /\ pc' = [pc EXCEPT ![t] = "run"]
       /\ busyThreads' = b + 1
       /\ res' = [res EXCEPT ![t] = Head(queue)]
       /\ queue' = Tail(queue)

\* Mutant: the user is not told that the last thread has become idle.
EnterSilent(t) ==
    /\ pc[t] = "start"
    /\ TakeOrSleep(t, busyThreads - 1)
    /\ UNCHANGED <<finished, upc, created, joined, added, done>>

\* The thread stops being busy, which the user may be waiting for.
Enter(t) ==
    /\ pc[t] = "start"
    /\ upc' = IF busyThreads = 1 /\ upc = "asleep" THEN "awake" ELSE upc
    /\ TakeOrSleep(t, busyThreads - 1)
    /\ UNCHANGED <<finished, created, joined, added, done>>

\* Mutant: a thread that is woken counts as busy before it looks for a job.
WakeBusy(t) ==
    /\ pc[t] = "awake"
    /\ TakeOrSleep(t, busyThreads + 1)
    /\ UNCHANGED <<finished, upc, created, joined, added, done>>

\* _cond_wait has returned.
Wake(t) ==
    /\ pc[t] = "awake"
    /\ TakeOrSleep(t, busyThreads)
    /\ UNCHANGED <<finished, upc, created, joined, added, done>>

\* The job ends.
RunJob(t) ==
    /\ pc[t] = "run"
    /\ pc' = [pc EXCEPT ![t] = "start"]
    /\ done' = done \cup {res[t]}
    /\ UNCHANGED <<queue, busyThreads, finished, res, upc, created, joined, added>>

execute_thread(t) == Enter(t) \/ Wake(t) \/ RunJob(t)

\* POSIX lets a wait end without a signal.
Spurious(t) ==
    /\ pc[t] = "asleep"
    /\ pc' = [pc EXCEPT ![t] = "awake"]
    /\ UNCHANGED <<queue, busyThreads, finished, res, upc, created, joined, added, done>>

(***************************************************************************)
(* The user of the pool                                                    *)
(***************************************************************************)
Usable == upc \in {"ready", "waited"}

\* The constructor, one thread at a time; they run at once.
CreateThread ==
    /\ upc = "ctor"
    /\ pc' = [pc EXCEPT ![created + 1] = "start"]
    /\ created' = created + 1
    /\ upc' = IF created + 1 < N THEN "ctor" ELSE "ready"
    /\ UNCHANGED <<queue, busyThreads, finished, res, joined, added, done>>

Sleepers == {t \in Threads : pc[t] = "asleep"}

\* Mutant: no thread is signalled.
AddJobSilent ==
    /\ Usable /\ added < MaxJobs /\ upc' = "ready"
    /\ added' = added + 1
    /\ queue' = Append(queue, added + 1)
    /\ UNCHANGED <<busyThreads, finished, pc, res, created, joined, done>>

\* _cond_signal wakes one of the threads that wait, if there is one.
AddJob ==
    /\ Usable /\ added < MaxJobs /\ upc' = "ready"
    /\ added' = added + 1
    /\ queue' = Append(queue, added + 1)
    /\ IF Sleepers = {}
       THEN pc' = pc
       ELSE \E t \in Sleepers : pc' = [pc EXCEPT ![t] = "awake"]
    /\ UNCHANGED <<busyThreads, finished, res, created, joined, done>>

\* Mutant: WaitAll waits for the queue to be empty and not for the running jobs.
WaitTestQueue ==
    /\ upc' = IF queue # <<>> THEN "asleep" ELSE "waited"
    /\ UNCHANGED <<queue, busyThreads, finished, pc, res, created, joined, added, done>>

\* Mutant: WaitAll waits for the running jobs and not for the queue.
WaitTestBusy ==
    /\ upc' = IF busyThreads > 0 THEN "asleep" ELSE "waited"
    /\ UNCHANGED <<queue, busyThreads, finished, pc, res, created, joined, added, done>>

\* The test of WaitAll's loop: return or sleep on wait_var.
WaitTest ==
    /\ upc' = IF busyThreads > 0 \/ queue # <<>> THEN "asleep" ELSE "waited"
    /\ UNCHANGED <<queue, busyThreads, finished, pc, res, created, joined, added, done>>

WaitAll == Usable /\ WaitTest

WaitWakes == upc = "awake" /\ WaitTest

WaitSpurious ==
    /\ upc = "asleep" /\ upc' = "awake"
    /\ UNCHANGED <<queue, busyThreads, finished, pc, res, created, joined, added, done>>

\* Mutant: only one thread is told.
JoinAllSignal ==
    /\ Usable /\ upc' = "join"
    /\ finished' = TRUE
    /\ IF Sleepers = {}
       THEN pc' = pc
       ELSE \E t \in Sleepers : pc' = [pc EXCEPT ![t] = "awake"]
    /\ UNCHANGED <<queue, busyThreads, res, created, joined, added, done>>

\* The destructor calls JoinAll: tell the threads, wake them, join them.
JoinAll ==
    /\ Usable /\ upc' = "join"
    /\ finished' = TRUE
    /\ pc' = [t \in Threads |-> IF pc[t] = "asleep" THEN "awake" ELSE pc[t]]
    /\ UNCHANGED <<queue, busyThreads, res, created, joined, added, done>>

JoinThread ==
    /\ upc = "join" /\ joined < N
    /\ pc[joined + 1] = "exited"
    /\ joined' = joined + 1
    /\ UNCHANGED <<queue, busyThreads, finished, pc, res, upc, created, added, done>>

\* Mutant: the last thread is not joined.
DestroyEarly ==
    /\ upc = "join" /\ joined = N - 1 /\ upc' = "gone"
    /\ UNCHANGED <<queue, busyThreads, finished, pc, res, created, joined, added, done>>

\* The mutex and the condition variables are destroyed.
Destroy ==
    /\ upc = "join" /\ joined = N /\ upc' = "gone"
    /\ UNCHANGED <<queue, busyThreads, finished, pc, res, created, joined, added, done>>

Terminated == upc = "gone" /\ UNCHANGED vars

User == CreateThread \/ WaitWakes \/ JoinThread \/ Destroy

Next ==
    \/ \E t \in Threads : execute_thread(t) \/ Spurious(t)
    \/ User \/ AddJob \/ WaitAll \/ WaitSpurious \/ JoinAll \/ Terminated

Spec == Init /\ [][Next]_vars

\* Every thread that can run does, and a job ends.  The mutex is held for one step
\* at a time here; a thread that wants it gets it.  Nobody has to use the pool, and
\* no spurious wakeup has to come.
FairSpec == Spec /\ WF_vars(User) /\ \A t \in Threads : WF_vars(execute_thread(t))

(***************************************************************************)
(* Properties                                                              *)
(***************************************************************************)
\* Types of the variables; busyThreads, an unsigned int in the code, stays within
\* 0..threadCount, so that busyThreads -- never wraps.
TypeOK ==
    /\ queue \in Seq(Nat) /\ busyThreads \in 0..N /\ finished \in BOOLEAN
    /\ pc \in [Threads -> {"none", "start", "asleep", "awake", "run", "exited"}]
    /\ res \in [Threads -> Nat]
    /\ upc \in {"ctor", "ready", "asleep", "awake", "waited", "join", "gone"}
    /\ created \in 0..N /\ joined \in 0..N
    /\ added \in Nat /\ done \in SUBSET Nat

BusySet == {t \in Threads : pc[t] \in {"none", "start", "run"}}

\* busyThreads is the number of threads that run a job or have not yet looked for one:
\* "threads not sleeping" (line 44), where a woken thread still counts as asleep.
BusyCount == busyThreads = Cardinality(BusySet)

Taken   == added - Len(queue)
RunSet  == {t \in Threads : pc[t] = "run"}
RunJobs == {res[t] : t \in RunSet}

\* Jobs are taken in the order of AddJob and each is run exactly once: the queue holds
\* the jobs not yet taken, in order, and every job taken either is done or is being
\* run by one thread.
JobsOnceInOrder ==
    /\ Len(queue) <= added
    /\ \A i \in 1..Len(queue) : queue[i] = Taken + i
    /\ done \cup RunJobs = 1..Taken
    /\ done \cap RunJobs = {}
    /\ \A t, u \in RunSet : res[t] = res[u] => t = u

\* When WaitAll returns, every job that was added is done and none is in the queue,
\* although a woken thread that has not taken its job is not counted in busyThreads.
WaitedMeansDone == upc = "waited" => done = 1..added /\ queue = <<>>

\* The destructor destroys the mutex and the condition variables only when every
\* thread has left execute_thread for good.
NoUseAfterDestroy == upc = "gone" => \A t \in Threads : pc[t] = "exited"

\* A call of WaitAll returns: the signal of the last busy thread is not lost.
WaitReturns == upc = "asleep" ~> upc = "waited"

\* The destructor returns: no thread sleeps through the broadcast of JoinAll.
JoinReturns == upc = "join" ~> upc = "gone"

\* A job that was added is run, unless the pool is closed first: the signal of AddJob is
\* not lost when every thread is busy or has been woken for another job.
JobsRun == \A j \in 1..MaxJobs : added >= j ~> (j \in done \/ finished)

Phase ==
    CASE upc \in {"ctor", "ready"}   -> "open"
      [] upc \in {"asleep", "awake"} -> "waiting"
      [] upc = "waited"              -> "waited"
      [] upc = "join"                -> "closing"
      [] upc = "gone"                -> "closed"

Abstract == INSTANCE JobPool WITH phase <- Phase, started <- Taken

\* The pool does what JobPool promises: jobs start in order, once, at most threadCount at
\* a time, none after JoinAll, and WaitAll and the destructor return only when they may.
ImplementsPool == Abstract!Spec

====
