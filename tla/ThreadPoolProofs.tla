-------------------------- MODULE ThreadPoolProofs --------------------------
(***************************************************************************)
(* The safety properties of ThreadPool for any number of threads and jobs, *)
(* the proof that it implements JobPool, and that no wakeup is lost.       *)
(***************************************************************************)
EXTENDS ThreadPool, FiniteSetTheorems, SequenceTheorems, TLAPS

(***************************************************************************)
(* The inductive invariant                                                 *)
(***************************************************************************)
\* Threads 1..created exist; the constructor has not returned until all do.
Creation ==
    /\ \A t \in Threads : pc[t] = "none" <=> t > created
    /\ upc = "ctor" <=> created < N

\* Threads leave, and are joined, only after JoinAll; a joined thread has left.
Ending ==
    /\ finished <=> upc \in {"join", "gone"}
    /\ \A t \in Threads : pc[t] = "exited" => finished
    /\ \A t \in 1..joined : pc[t] = "exited"
    /\ upc = "gone" => joined = N

IInv ==
    /\ TypeOK /\ BusyCount /\ Creation /\ Ending
    /\ JobsOnceInOrder /\ WaitedMeansDone

(***************************************************************************)
(* Types and counting                                                      *)
(***************************************************************************)
\* Any set of threads is finite and no larger than the pool.
LEMMA ThreadSets ==
    ASSUME NEW S \in SUBSET Threads
    PROVE  IsFiniteSet(S) /\ Cardinality(S) \in 0..N
<1>1. IsFiniteSet(Threads) /\ Cardinality(Threads) = N
    BY PoolAssumption, FS_Interval DEF Threads
<1>2. IsFiniteSet(S) /\ Cardinality(S) <= N
    BY <1>1, FS_Subset
<1>. QED
    BY <1>2, FS_CardinalityType, PoolAssumption

\* The three outcomes of the wait loop.
Sleeps(t) ==
    /\ queue = <<>> /\ ~finished
    /\ pc' = [pc EXCEPT ![t] = "asleep"] /\ UNCHANGED <<queue, res>>

Leaves(t) ==
    /\ finished
    /\ pc' = [pc EXCEPT ![t] = "exited"] /\ UNCHANGED <<queue, res>>

Takes(t) ==
    /\ queue # <<>> /\ ~finished
    /\ pc' = [pc EXCEPT ![t] = "run"]
    /\ res' = [res EXCEPT ![t] = Head(queue)] /\ queue' = Tail(queue)

LEMMA Outcomes ==
    ASSUME NEW t, NEW b, TakeOrSleep(t, b)
    PROVE  \/ Sleeps(t) /\ busyThreads' = b
           \/ Leaves(t) /\ busyThreads' = b
           \/ Takes(t) /\ busyThreads' = b + 1
BY Zenon DEF TakeOrSleep, Sleeps, Leaves, Takes

\* The count follows the set of busy threads through every step.
LEMMA BusyStep ==
    ASSUME IInv, Next PROVE BusyCount' /\ busyThreads' \in 0..N
<1>. USE DEF IInv, TypeOK
<1>0. IsFiniteSet(BusySet) /\ busyThreads = Cardinality(BusySet)
    BY ThreadSets DEF BusySet, BusyCount
<1>1. SUFFICES busyThreads' = Cardinality(BusySet')
    <2>1. BusySet' \in SUBSET Threads
        BY DEF BusySet
    <2>. QED
        BY <1>1, <2>1, ThreadSets DEF BusyCount
<1>2. CASE BusySet' = BusySet /\ busyThreads' = busyThreads
    BY <1>0, <1>2
<1>3. ASSUME NEW t \in Threads, Enter(t) PROVE busyThreads' = Cardinality(BusySet')
    <2>1. t \in BusySet /\ TakeOrSleep(t, busyThreads - 1)
        BY <1>3 DEF Enter, BusySet
    <2>2. CASE (Sleeps(t) \/ Leaves(t)) /\ busyThreads' = busyThreads - 1
        <3>1. BusySet' = BusySet \ {t}
            BY <2>2 DEF Sleeps, Leaves, BusySet
        <3>. QED
            BY <1>0, <2>1, <2>2, <3>1, FS_RemoveElement, Zenon
    <2>3. CASE Takes(t) /\ busyThreads' = busyThreads - 1 + 1
        <3>1. BusySet' = BusySet
            BY <1>3, <2>3 DEF Enter, Takes, BusySet
        <3>. QED
            BY <1>0, <2>3, <3>1
    <2>. QED
        BY <2>1, <2>2, <2>3, Outcomes, Zenon
<1>4. ASSUME NEW t \in Threads, Wake(t) PROVE busyThreads' = Cardinality(BusySet')
    <2>1. t \notin BusySet /\ TakeOrSleep(t, busyThreads)
        BY <1>4 DEF Wake, BusySet
    <2>2. CASE (Sleeps(t) \/ Leaves(t)) /\ busyThreads' = busyThreads
        <3>1. BusySet' = BusySet
            BY <1>4, <2>2 DEF Wake, Sleeps, Leaves, BusySet
        <3>. QED
            BY <1>0, <2>2, <3>1
    <2>3. CASE Takes(t) /\ busyThreads' = busyThreads + 1
        <3>1. BusySet' = BusySet \cup {t}
            BY <2>3 DEF Takes, BusySet
        <3>. QED
            BY <1>0, <2>1, <2>3, <3>1, FS_AddElement, Zenon
    <2>. QED
        BY <2>1, <2>2, <2>3, Outcomes
<1>5. ASSUME NEW t \in Threads, RunJob(t) \/ Spurious(t)
      PROVE  BusySet' = BusySet /\ busyThreads' = busyThreads
    BY <1>5 DEF RunJob, Spurious, BusySet
<1>6. CASE CreateThread
    <2>1. created + 1 \in Threads /\ pc[created + 1] = "none"
        BY <1>6, PoolAssumption DEF CreateThread, Creation, Threads
    <2>. QED
        BY <1>2, <1>6, <2>1 DEF CreateThread, BusySet
<1>7. CASE AddJob
    BY <1>2, <1>7 DEF AddJob, Sleepers, BusySet
<1>8. CASE JoinAll
    BY <1>2, <1>8 DEF JoinAll, BusySet
<1>9. CASE WaitAll \/ WaitWakes \/ WaitSpurious \/ JoinThread \/ Destroy \/ Terminated
    BY <1>2, <1>9, Zenon
    DEF WaitAll, WaitWakes, WaitTest, WaitSpurious, JoinThread, Destroy, Terminated,
        vars, BusySet
<1>. QED
    BY <1>2, <1>3, <1>4, <1>5, <1>6, <1>7, <1>8, <1>9, Zenon
    DEF Next, User, execute_thread

\* Every variable keeps its type.
LEMMA TypeStep ==
    ASSUME IInv, Next PROVE TypeOK'
<1>. USE PoolAssumption, BusyStep DEF IInv, TypeOK
<1>1. ASSUME NEW t \in Threads, Sleeps(t) \/ Leaves(t)
      PROVE  UNCHANGED <<queue, res>>
             /\ pc' \in [Threads -> {"none", "start", "asleep", "awake", "run", "exited"}]
    BY <1>1 DEF Sleeps, Leaves
<1>2. ASSUME NEW t \in Threads, Takes(t)
      PROVE  queue' \in Seq(Nat) /\ res' \in [Threads -> Nat]
             /\ pc' \in [Threads -> {"none", "start", "asleep", "awake", "run", "exited"}]
    BY <1>2, HeadTailProperties DEF Takes
<1>3. ASSUME NEW t \in Threads, Enter(t) \/ Wake(t) PROVE TypeOK'
    <2>1. Sleeps(t) \/ Leaves(t) \/ Takes(t)
        BY <1>3, Outcomes, Zenon DEF Enter, Wake
    <2>2. queue' \in Seq(Nat) /\ res' \in [Threads -> Nat]
          /\ pc' \in [Threads -> {"none", "start", "asleep", "awake", "run", "exited"}]
        BY <1>1, <1>2, <2>1
    <2>. QED
        BY <1>3, <2>2, Zenon DEF Enter, Wake
<1>4. ASSUME NEW t \in Threads, RunJob(t) \/ Spurious(t) PROVE TypeOK'
    BY <1>4, Zenon DEF RunJob, Spurious
<1>5. CASE CreateThread
    BY <1>5 DEF CreateThread, Creation, Threads
<1>6. CASE AddJob
    <2>1. queue' \in Seq(Nat)
        BY <1>6, AppendProperties DEF AddJob
    <2>2. pc' \in [Threads -> {"none", "start", "asleep", "awake", "run", "exited"}]
        BY <1>6, SMTT(30) DEF AddJob, Sleepers
    <2>. QED
        BY <1>6, <2>1, <2>2 DEF AddJob
<1>7. CASE JoinAll
    BY <1>7 DEF JoinAll
<1>8. CASE JoinThread
    BY <1>8 DEF JoinThread
<1>9. CASE WaitAll \/ WaitWakes \/ WaitSpurious \/ Destroy \/ Terminated
    BY <1>9, Zenon DEF WaitAll, WaitWakes, WaitTest, WaitSpurious, Destroy, Terminated, vars
<1>. QED
    BY <1>3, <1>4, <1>5, <1>6, <1>7, <1>8, <1>9, Zenon DEF Next, User, execute_thread

(***************************************************************************)
(* Creation and end of the threads                                         *)
(***************************************************************************)
\* A thread that runs stays created; the next one is created last.
LEMMA CreationStep ==
    ASSUME IInv, Next PROVE Creation'
<1>. USE PoolAssumption DEF IInv, TypeOK, Creation
<1>1. ASSUME NEW t \in Threads, Enter(t) \/ Wake(t) PROVE Creation'
    <2>1. Sleeps(t) \/ Leaves(t) \/ Takes(t)
        BY <1>1, Outcomes, Zenon DEF Enter, Wake
    <2>2. \A u \in Threads : pc'[u] = "none" <=> pc[u] = "none"
        BY <1>1, <2>1 DEF Enter, Wake, Sleeps, Leaves, Takes
    <2>3. created' = created /\ (upc' = "ctor" <=> upc = "ctor")
        BY <1>1 DEF Enter, Wake
    <2>. QED
        BY <2>2, <2>3
<1>2. ASSUME NEW t \in Threads, RunJob(t) \/ Spurious(t) PROVE Creation'
    BY <1>2 DEF RunJob, Spurious
<1>3. CASE CreateThread
    BY <1>3 DEF CreateThread, Threads
<1>4. CASE AddJob
    BY <1>4 DEF AddJob, Usable, Sleepers
<1>5. CASE JoinAll
    BY <1>5 DEF JoinAll, Usable
<1>6. CASE WaitAll \/ WaitWakes \/ WaitSpurious \/ JoinThread \/ Destroy \/ Terminated
    BY <1>6
    DEF WaitAll, WaitWakes, WaitTest, WaitSpurious, JoinThread, Destroy, Terminated,
        vars, Usable
<1>. QED
    BY <1>1, <1>2, <1>3, <1>4, <1>5, <1>6, Zenon DEF Next, User, execute_thread

\* A thread that has left does nothing more, and only such a thread is joined.
LEMMA EndingStep ==
    ASSUME IInv, Next PROVE Ending'
<1>. USE PoolAssumption DEF IInv, TypeOK, Ending
<1>0. 1..joined \subseteq Threads
    BY DEF Threads
<1>1. ASSUME NEW t \in Threads, Enter(t) \/ Wake(t) PROVE Ending'
    <2>1. Sleeps(t) \/ Leaves(t) \/ Takes(t)
        BY <1>1, Outcomes, Zenon DEF Enter, Wake
    <2>2. \A u \in Threads : /\ pc[u] = "exited" => pc'[u] = "exited"
                             /\ pc'[u] = "exited" => pc[u] = "exited" \/ finished
        BY <1>1, <2>1 DEF Enter, Wake, Sleeps, Leaves, Takes
    <2>3. UNCHANGED <<finished, joined>>
          /\ (upc' \in {"join", "gone"} <=> upc \in {"join", "gone"})
          /\ (upc' = "gone" => upc = "gone")
        BY <1>1 DEF Enter, Wake
    <2>. QED
        BY <1>0, <2>2, <2>3
<1>2. ASSUME NEW t \in Threads, RunJob(t) \/ Spurious(t) PROVE Ending'
    BY <1>0, <1>2 DEF RunJob, Spurious
<1>3. CASE CreateThread
    BY <1>0, <1>3 DEF CreateThread, Threads, Creation
<1>4. CASE AddJob
    BY <1>0, <1>4 DEF AddJob, Usable, Sleepers
<1>5. CASE JoinAll
    BY <1>0, <1>5 DEF JoinAll, Usable
<1>6. CASE JoinThread
    <2>1. joined' = joined + 1 /\ pc[joined + 1] = "exited"
          /\ UNCHANGED <<finished, upc, pc>> /\ upc = "join"
        BY <1>6, Zenon DEF JoinThread
    <2>2. \A t \in 1..joined' : t \in 1..joined \/ t = joined + 1
        BY <2>1
    <2>3. \A t \in 1..joined' : pc'[t] = "exited"
        BY <2>1, <2>2, Zenon
    <2>. QED
        BY <2>1, <2>3, Zenon
<1>7. CASE WaitAll \/ WaitWakes \/ WaitSpurious \/ Destroy \/ Terminated
    BY <1>7
    DEF WaitAll, WaitWakes, WaitTest, WaitSpurious, Destroy, Terminated, vars, Usable
<1>. QED
    BY <1>1, <1>2, <1>3, <1>4, <1>5, <1>6, <1>7, Zenon DEF Next, User, execute_thread

(***************************************************************************)
(* Jobs                                                                    *)
(***************************************************************************)
\* Nothing happens to the jobs when a step changes neither the queue, the jobs nor the
\* set of threads that run one.
LEMMA JobsFrame ==
    ASSUME JobsOnceInOrder, UNCHANGED <<queue, res, added, done, RunSet>>
    PROVE  JobsOnceInOrder' /\ Taken' = Taken /\ RunJobs' = RunJobs
BY DEF JobsOnceInOrder, Taken, RunJobs

\* A thread takes the oldest job in the queue: the next after all those taken.
LEMMA TakeStep ==
    ASSUME IInv, NEW t \in Threads \ RunSet, Takes(t), UNCHANGED <<added, done>>
    PROVE  /\ JobsOnceInOrder'
           /\ Taken' = Taken + 1 /\ Taken < added
           /\ RunJobs' = RunJobs \cup {Taken + 1}
<1>. USE DEF IInv, TypeOK
<1>1. /\ Len(queue) \in Nat /\ Len(queue) > 0 /\ Head(queue) = queue[1]
      /\ queue' = Tail(queue) /\ Len(queue') = Len(queue) - 1
      /\ \A i \in 1..Len(queue') : queue'[i] = queue[i + 1]
    BY HeadTailProperties, EmptySeq, LenProperties DEF Takes
<1>2. /\ Taken \in Nat /\ Taken' = Taken + 1 /\ Taken < added
      /\ Head(queue) = Taken + 1
    <2>1. Len(queue) <= added /\ queue[1] = Taken + 1
        BY <1>1 DEF JobsOnceInOrder
    <2>2. /\ added - Len(queue) \in Nat /\ added - Len(queue) < added
          /\ added - (Len(queue) - 1) = (added - Len(queue)) + 1
        BY <1>1, <2>1
    <2>3. Taken' = added - (Len(queue) - 1)
        BY <1>1, Zenon DEF Taken
    <2>. QED
        BY <1>1, <2>1, <2>2, <2>3, Zenon DEF Taken
<1>3. RunSet' = RunSet \cup {t} /\ res' = [res EXCEPT ![t] = Taken + 1]
    BY <1>2, Zenon DEF RunSet, Takes
<1>4. RunJobs' = RunJobs \cup {Taken + 1}
    <2>1. res'[t] = Taken + 1 /\ \A u \in RunSet : res'[u] = res[u]
        BY <1>3 DEF RunSet
    <2>. QED
        BY <1>3, <2>1, Zenon DEF RunJobs
<1>5. \A u \in RunSet : res[u] \in 1..Taken
    BY DEF JobsOnceInOrder, RunJobs
<1>6. Len(queue') <= added' /\ \A i \in 1..Len(queue') : queue'[i] = Taken' + i
    BY <1>1, <1>2 DEF JobsOnceInOrder
<1>7. done' \cup RunJobs' = 1..Taken' /\ done' \cap RunJobs' = {}
    BY <1>2, <1>4 DEF JobsOnceInOrder
<1>8. \A u, v \in RunSet' : res'[u] = res'[v] => u = v
    BY <1>2, <1>3, <1>5 DEF JobsOnceInOrder, RunSet
<1>. QED
    BY <1>2, <1>4, <1>6, <1>7, <1>8 DEF JobsOnceInOrder

\* A job that ends was taken and not done, and no other thread runs it.
LEMMA EndStep ==
    ASSUME IInv, NEW t \in Threads, RunJob(t)
    PROVE  /\ JobsOnceInOrder' /\ Taken' = Taken
           /\ res[t] \in 1..Taken \ done
           /\ RunJobs' = RunJobs \ {res[t]}
<1>. USE DEF IInv, TypeOK
<1>1. Taken' = Taken /\ t \in RunSet /\ RunSet' = RunSet \ {t}
    BY DEF RunJob, Taken, RunSet
<1>2. res[t] \in RunJobs /\ RunJobs' = RunJobs \ {res[t]}
    BY <1>1 DEF RunJob, RunJobs, JobsOnceInOrder
<1>. QED
    BY <1>1, <1>2 DEF RunJob, JobsOnceInOrder

\* The job added is the last in the queue.
LEMMA AddStep ==
    ASSUME IInv, AddJob
    PROVE  JobsOnceInOrder' /\ Taken' = Taken
<1>. USE DEF IInv, TypeOK
<1>1. /\ Len(queue) \in Nat /\ Len(queue') = Len(queue) + 1
      /\ \A i \in 1..Len(queue) : queue'[i] = queue[i]
      /\ queue'[Len(queue) + 1] = added + 1
    BY AppendProperties, LenProperties DEF AddJob
<1>2. Taken \in Nat /\ Taken' = Taken
    BY <1>1 DEF AddJob, Taken, JobsOnceInOrder
<1>3. UNCHANGED <<RunSet, res, done>>
    BY DEF AddJob, RunSet, Sleepers
<1>4. RunJobs' = RunJobs
    BY <1>3 DEF RunJobs
<1>5. \A i \in 1..Len(queue') : queue'[i] = Taken' + i
    <2>1. \A i \in 1..Len(queue') : i \in 1..Len(queue) \/ i = Len(queue) + 1
        BY <1>1
    <2>2. Taken + (Len(queue) + 1) = added + 1
        BY <1>1 DEF Taken
    <2>3. \A i \in 1..Len(queue) : queue'[i] = Taken + i
        BY <1>1, Zenon DEF JobsOnceInOrder
    <2>. QED
        BY <1>1, <1>2, <2>1, <2>2, <2>3, Zenon
<1>6. Len(queue') <= added'
    BY <1>1 DEF AddJob, JobsOnceInOrder
<1>. QED
    BY <1>2, <1>3, <1>4, <1>5, <1>6 DEF JobsOnceInOrder

\* Every step keeps the jobs in order and runs each once.
LEMMA JobsStep ==
    ASSUME IInv, Next PROVE JobsOnceInOrder'
<1>. USE DEF IInv
<1>1. ASSUME NEW t \in Threads, Enter(t) \/ Wake(t) PROVE JobsOnceInOrder'
    <2>1. Sleeps(t) \/ Leaves(t) \/ Takes(t)
        BY <1>1, Outcomes, Zenon DEF Enter, Wake
    <2>2. t \in Threads \ RunSet /\ UNCHANGED <<added, done>>
        BY <1>1 DEF Enter, Wake, RunSet
    <2>3. CASE Sleeps(t) \/ Leaves(t)
        <3>1. RunSet' = RunSet /\ UNCHANGED <<queue, res>>
            BY <2>2, <2>3 DEF Sleeps, Leaves, RunSet, TypeOK
        <3>. QED
            BY <2>2, <3>1, JobsFrame
    <2>4. CASE Takes(t)
        BY <2>2, <2>4, TakeStep
    <2>. QED
        BY <2>1, <2>3, <2>4
<1>2. ASSUME NEW t \in Threads, Spurious(t) PROVE JobsOnceInOrder'
    <2>1. RunSet' = RunSet /\ UNCHANGED <<queue, res, added, done>>
        BY <1>2 DEF Spurious, RunSet, TypeOK
    <2>. QED
        BY <2>1, JobsFrame
<1>3. CASE CreateThread
    <2>1. created + 1 \in Threads /\ pc[created + 1] = "none"
        BY <1>3, PoolAssumption DEF CreateThread, Creation, Threads, TypeOK
    <2>2. RunSet' = RunSet /\ UNCHANGED <<queue, res, added, done>>
        BY <1>3, <2>1 DEF CreateThread, RunSet, TypeOK
    <2>. QED
        BY <2>2, JobsFrame
<1>4. CASE JoinAll
    <2>1. RunSet' = RunSet /\ UNCHANGED <<queue, res, added, done>>
        BY <1>4 DEF JoinAll, RunSet, TypeOK
    <2>. QED
        BY <2>1, JobsFrame
<1>5. CASE WaitAll \/ WaitWakes \/ WaitSpurious \/ JoinThread \/ Destroy \/ Terminated
    <2>1. UNCHANGED <<queue, res, added, done, RunSet>>
        BY <1>5, Zenon
        DEF WaitAll, WaitWakes, WaitTest, WaitSpurious, JoinThread, Destroy, Terminated,
            vars, RunSet
    <2>. QED
        BY <2>1, JobsFrame
<1>. QED
    BY <1>1, <1>2, <1>3, <1>4, <1>5, EndStep, AddStep, Zenon
    DEF Next, User, execute_thread

\* When nobody is busy and the queue is empty every job is done.
LEMMA IdleMeansDone ==
    ASSUME IInv, busyThreads = 0, queue = <<>>
    PROVE  done = 1..added
<1>1. BusySet = {}
    <2>1. BusySet \in SUBSET Threads
        BY DEF BusySet
    <2>. QED
        BY <2>1, ThreadSets, FS_EmptySet, Zenon DEF IInv, BusyCount
<1>2. RunJobs = {}
    BY <1>1 DEF BusySet, RunSet, RunJobs
<1>3. Taken = added
    BY EmptySeq DEF IInv, TypeOK, Taken
<1>. QED
    BY <1>2, <1>3 DEF IInv, JobsOnceInOrder

\* WaitAll returns with every job done, and that lasts until the next AddJob.
LEMMA WaitedStep ==
    ASSUME IInv, Next PROVE WaitedMeansDone'
<1>. USE DEF IInv, WaitedMeansDone
<1>1. CASE WaitAll \/ WaitWakes
    <2>1. UNCHANGED <<queue, added, done>>
          /\ upc' = IF busyThreads > 0 \/ queue # <<>> THEN "asleep" ELSE "waited"
        BY <1>1, Zenon DEF WaitAll, WaitWakes, WaitTest
    <2>2. upc' = "waited" => busyThreads = 0 /\ queue = <<>>
        BY <2>1 DEF TypeOK
    <2>. QED
        BY <2>1, <2>2, IdleMeansDone, Zenon
<1>2. ASSUME NEW t \in Threads, Enter(t) \/ Wake(t) PROVE WaitedMeansDone'
    <2>1. (upc' = "waited" => upc = "waited") /\ UNCHANGED <<added, done>>
        BY <1>2 DEF Enter, Wake
    <2>2. queue = <<>> => queue' = queue
        BY <1>2, Outcomes, Zenon DEF Enter, Wake, Sleeps, Leaves, Takes
    <2>. QED
        BY <2>1, <2>2, Zenon
<1>3. ASSUME NEW t \in Threads, RunJob(t) PROVE WaitedMeansDone'
    <2>1. res[t] \in 1..Taken \ done
        BY <1>3, EndStep
    <2>2. upc = "waited" => Taken = added /\ done = 1..added
        BY EmptySeq DEF Taken, TypeOK
    <2>3. upc # "waited" /\ upc' = upc
        BY <1>3, <2>1, <2>2, Zenon DEF RunJob
    <2>. QED
        BY <2>3, Zenon
<1>4. CASE AddJob \/ JoinAll \/ WaitSpurious \/ Destroy \/ CreateThread
    BY <1>4 DEF AddJob, JoinAll, WaitSpurious, Destroy, CreateThread
<1>5. ASSUME NEW t \in Threads, Spurious(t) PROVE WaitedMeansDone'
    BY <1>5, Zenon DEF Spurious
<1>6. CASE JoinThread \/ Terminated
    BY <1>6, Zenon DEF JoinThread, Terminated, vars
<1>. QED
    BY <1>1, <1>2, <1>3, <1>4, <1>5, <1>6, Zenon DEF Next, User, execute_thread

(***************************************************************************)
(* Safety                                                                  *)
(***************************************************************************)
LEMMA InitInv == Init => IInv
<1>. SUFFICES ASSUME Init PROVE IInv
    OBVIOUS
<1>bounds. 0 \in 0..N /\ N \in 0..N /\ 0 \in Nat /\ 0 - 0 = 0
    BY PoolAssumption
<1>. USE PoolAssumption DEF Init
<1>0. queue \in Seq(Nat) /\ Len(queue) = 0
    BY EmptySeq, Zenon
<1>1. TypeOK
    BY <1>0, <1>bounds, Zenon DEF TypeOK
<1>2. BusyCount
    <2>1. BusySet = 1..N
        BY DEF BusySet, Threads
    <2>. QED
        BY <2>1, FS_Interval DEF BusyCount
<1>3. JobsOnceInOrder
    <2>1. RunSet = {} /\ Taken = 0
        BY <1>0, <1>bounds, Zenon DEF RunSet, Taken
    <2>. QED
        BY <1>0, <2>1 DEF JobsOnceInOrder, RunJobs
<1>. QED
    BY <1>1, <1>2, <1>3 DEF IInv, Creation, Ending, WaitedMeansDone, Threads

LEMMA InductiveStep == IInv /\ [Next]_vars => IInv'
<1>1. ASSUME IInv, Next PROVE IInv'
    BY <1>1, BusyStep, TypeStep, CreationStep, EndingStep, JobsStep, WaitedStep, Zenon
    DEF IInv
<1>2. ASSUME IInv, UNCHANGED vars PROVE IInv'
    BY <1>2
    DEF vars, IInv, TypeOK, BusyCount, BusySet, Creation, Ending, JobsOnceInOrder, Taken,
        RunSet, RunJobs, WaitedMeansDone
<1>. QED
    BY <1>1, <1>2, Zenon

\* The inductive invariant holds for any number of threads and jobs.
THEOREM Invariance == Spec => []IInv
BY InitInv, InductiveStep, PTL DEF Spec

\* Types are kept and busyThreads never wraps around.
THEOREM TypeCorrectness == Spec => []TypeOK
<1>1. IInv => TypeOK
    BY Zenon DEF IInv
<1>. QED
    BY <1>1, Invariance, PTL

\* busyThreads is the number of threads that run a job or have yet to look for one.
THEOREM BusyThreadsExact == Spec => []BusyCount
<1>1. IInv => BusyCount
    BY Zenon DEF IInv
<1>. QED
    BY <1>1, Invariance, PTL

\* Jobs are taken in the order of AddJob, each by one thread and once.
THEOREM EachJobOnce == Spec => []JobsOnceInOrder
<1>1. IInv => JobsOnceInOrder
    BY Zenon DEF IInv
<1>. QED
    BY <1>1, Invariance, PTL

\* WaitAll returns only when every job is done.
THEOREM WaitAllComplete == Spec => []WaitedMeansDone
<1>1. IInv => WaitedMeansDone
    BY Zenon DEF IInv
<1>. QED
    BY <1>1, Invariance, PTL

\* The pool is destroyed only after every thread has left it.
THEOREM DestroyedLast == Spec => []NoUseAfterDestroy
<1>1. IInv => NoUseAfterDestroy
    BY Zenon DEF IInv, Ending, NoUseAfterDestroy, Threads
<1>. QED
    BY <1>1, Invariance, PTL

(***************************************************************************)
(* The thread pool implements JobPool                                      *)
(***************************************************************************)
\* What JobPool calls running are the jobs that threads run.
LEMMA RunningJobs ==
    ASSUME IInv PROVE Abstract!Running = RunJobs
BY Zenon DEF IInv, JobsOnceInOrder, Abstract!Running

\* JobPool counts with the same operator, under the name that its instance gives it.
LEMMA SameCardinality ==
    ASSUME NEW S PROVE Abstract!Cardinality(S) = Cardinality(S)
BY Zenon DEF Cardinality, Abstract!Cardinality, IsFiniteSet, Abstract!IsFiniteSet

\* A thread that is not running leaves room for one more job.
LEMMA RoomForOne ==
    ASSUME IInv, NEW t \in Threads \ RunSet
    PROVE  Cardinality(RunJobs) < N
<1>1. /\ RunSet \in SUBSET Threads /\ RunSet \cup {t} \in SUBSET Threads
      /\ t \notin RunSet
    BY Zenon DEF RunSet
<1>2. IsFiniteSet(RunSet) /\ Cardinality(RunSet) \in Nat /\ Cardinality(RunSet) + 1 <= N
    <2>1. /\ IsFiniteSet(RunSet) /\ Cardinality(RunSet) \in 0..N
          /\ Cardinality(RunSet \cup {t}) \in 0..N
        BY <1>1, ThreadSets, Zenon
    <2>2. Cardinality(RunSet \cup {t}) = Cardinality(RunSet) + 1
        BY <1>1, <2>1, FS_AddElement, Zenon
    <2>. QED
        BY <2>1, <2>2, PoolAssumption
<1>3. [u \in RunSet |-> res[u]] \in Surjection(RunSet, RunJobs)
    BY Zenon DEF RunJobs, Surjection
<1>4. IsFiniteSet(RunJobs) /\ Cardinality(RunJobs) <= Cardinality(RunSet)
    BY <1>2, <1>3, FS_Surjection
<1>. QED
    BY <1>2, <1>4, FS_CardinalityType, PoolAssumption

\* The user's program point determines the phase.
LEMMA Phases ==
    /\ upc \in {"ctor", "ready"}   => Phase = "open"
    /\ upc \in {"asleep", "awake"} => Phase = "waiting"
    /\ upc = "waited"              => Phase = "waited"
    /\ upc = "join"                => Phase = "closing"
    /\ upc = "gone"                => Phase = "closed"
BY DEF Phase

LEMMA PhasesNext ==
    /\ upc' \in {"ctor", "ready"}   => Phase' = "open"
    /\ upc' \in {"asleep", "awake"} => Phase' = "waiting"
    /\ upc' = "waited"              => Phase' = "waited"
    /\ upc' = "join"                => Phase' = "closing"
    /\ upc' = "gone"                => Phase' = "closed"
BY DEF Phase

\* A step of a thread is the start or the end of a job, or invisible.
LEMMA ThreadRefines ==
    ASSUME IInv, NEW t \in Threads, execute_thread(t)
    PROVE  Abstract!Start \/ (\E j \in Abstract!Running : Abstract!Finish(j))
           \/ UNCHANGED Abstract!vars
<1>. USE DEF IInv
<1>1. CASE RunJob(t)
    <2>1. res[t] \in Abstract!Running /\ Taken' = Taken
        BY <1>1, EndStep, Zenon DEF Abstract!Running
    <2>2. Phase' = Phase /\ added' = added /\ done' = done \cup {res[t]}
        BY <1>1, Zenon DEF RunJob, Phase
    <2>3. Abstract!Finish(res[t])
        BY <2>1, <2>2, Zenon DEF Abstract!Finish
    <2>. QED
        BY <2>1, <2>3, Zenon
<1>2. CASE Enter(t) \/ Wake(t)
    <2>1. Sleeps(t) \/ Leaves(t) \/ Takes(t)
        BY <1>2, Outcomes, Zenon DEF Enter, Wake
    <2>2. t \in Threads \ RunSet /\ UNCHANGED <<added, done>>
        BY <1>2 DEF Enter, Wake, RunSet
    <2>3. Phase' = Phase
        <3>1. upc' = upc \/ (upc = "asleep" /\ upc' = "awake")
            BY <1>2, Zenon DEF Enter, Wake
        <3>2. CASE upc' = upc
            BY <3>2, Zenon DEF Phase
        <3>3. CASE upc = "asleep" /\ upc' = "awake"
            BY <3>3, Phases, PhasesNext
        <3>. QED
            BY <3>1, <3>2, <3>3, Zenon
    <2>4. CASE Sleeps(t) \/ Leaves(t)
        BY <2>2, <2>3, <2>4, Zenon DEF Sleeps, Leaves, Taken, Abstract!vars
    <2>5. CASE Takes(t)
        <3>1. Taken' = Taken + 1 /\ Taken < added
            BY <2>2, <2>5, TakeStep
        <3>2. Abstract!Cardinality(Abstract!Running) < N
            BY <2>2, RunningJobs, RoomForOne, SameCardinality, Zenon
        <3>3. upc \in {"ctor", "ready", "asleep", "awake", "waited"}
            BY <2>5 DEF Takes, Ending, TypeOK
        <3>4. Phase \in {"open", "waited", "waiting"}
            BY <3>3, Phases
        <3>. QED
            BY <2>2, <2>3, <3>1, <3>2, <3>4, Zenon DEF Abstract!Start
    <2>. QED
        BY <2>1, <2>4, <2>5, Zenon
<1>. QED
    BY <1>1, <1>2, Zenon DEF execute_thread

\* A step of the user is the step of JobPool of the same name, or invisible.
LEMMA UserRefines ==
    ASSUME IInv, User \/ AddJob \/ WaitAll \/ WaitSpurious \/ JoinAll
    PROVE  Abstract!Next \/ UNCHANGED Abstract!vars
<1>. USE DEF IInv
<1>1. CASE AddJob
    <2>1. Usable /\ upc' = "ready" /\ added' = added + 1 /\ done' = done /\ Taken' = Taken
        BY <1>1, AddStep, Zenon DEF AddJob
    <2>2. Phase \in {"open", "waited"} /\ Phase' = "open"
        BY <2>1, Phases, PhasesNext DEF Usable
    <2>3. Abstract!Add
        BY <2>1, <2>2, Zenon DEF Abstract!Add, Abstract!Usable
    <2>. QED
        BY <2>3, Zenon DEF Abstract!Next
<1>2. CASE WaitAll \/ WaitWakes
    <2>1. /\ upc \in {"ready", "waited", "awake"}
          /\ upc' = IF busyThreads > 0 \/ queue # <<>> THEN "asleep" ELSE "waited"
          /\ UNCHANGED <<added, done, Taken>>
        BY <1>2, Zenon DEF WaitAll, WaitWakes, WaitTest, Usable, Taken
    <2>2. Phase \in {"open", "waited"} \/ Phase = "waiting"
        BY <2>1, Phases
    <2>3. CASE upc' = "asleep"
        <3>1. Phase' = "waiting"
            BY <2>3, PhasesNext
        <3>. QED
            BY <2>1, <2>2, <3>1, Zenon
            DEF Abstract!Next, Abstract!Wait, Abstract!Usable, Abstract!vars
    <2>4. CASE upc' = "waited"
        <3>1. busyThreads = 0 /\ queue = <<>>
            BY <2>1, <2>4 DEF TypeOK
        <3>2. Phase' = "waited" /\ done = 1..added
            BY <2>4, <3>1, PhasesNext, IdleMeansDone, Zenon
        <3>. QED
            BY <2>1, <2>2, <3>2, Zenon
            DEF Abstract!Next, Abstract!WaitReturns, Abstract!Usable
    <2>. QED
        BY <2>1, <2>3, <2>4, Zenon
<1>3. CASE JoinAll
    <2>1. Usable /\ upc' = "join" /\ UNCHANGED <<added, done, Taken>>
        BY <1>3, Zenon DEF JoinAll, Taken
    <2>2. Phase \in {"open", "waited"} /\ Phase' = "closing"
        BY <2>1, Phases, PhasesNext DEF Usable
    <2>. QED
        BY <2>1, <2>2, Zenon DEF Abstract!Next, Abstract!Close, Abstract!Usable
<1>4. CASE Destroy
    <2>1. upc = "join" /\ upc' = "gone" /\ UNCHANGED <<added, done, Taken>>
        BY <1>4, Zenon DEF Destroy, Taken
    <2>2. RunSet = {}
        BY <1>4, Zenon DEF Destroy, Ending, RunSet, Threads
    <2>3. Abstract!Running = {}
        BY <2>2, RunningJobs, Zenon DEF RunJobs
    <2>4. Phase = "closing" /\ Phase' = "closed"
        BY <2>1, Phases, PhasesNext
    <2>. QED
        BY <2>1, <2>3, <2>4, Zenon DEF Abstract!Next, Abstract!Closed
<1>5. CASE CreateThread \/ WaitSpurious \/ JoinThread
    <2>1. UNCHANGED <<added, done, Taken>>
        BY <1>5, Zenon DEF CreateThread, WaitSpurious, JoinThread, Taken
    <2>2. Phase' = Phase
        <3>1. \/ upc' = upc
              \/ upc = "ctor" /\ upc' \in {"ctor", "ready"}
              \/ upc = "asleep" /\ upc' = "awake"
            BY <1>5, Zenon DEF CreateThread, WaitSpurious, JoinThread
        <3>2. CASE upc' = upc
            BY <3>2, Zenon DEF Phase
        <3>3. CASE upc # upc'
            BY <3>1, <3>3, Phases, PhasesNext
        <3>. QED
            BY <3>2, <3>3, Zenon
    <2>. QED
        BY <2>1, <2>2, Zenon DEF Abstract!vars
<1>. QED
    BY <1>1, <1>2, <1>3, <1>4, <1>5, Zenon DEF User

\* Every behaviour of the pool's threads and of the user is one of JobPool.
THEOREM Refinement == Spec => ImplementsPool
<1>1. Init => Abstract!Init
    <2>. SUFFICES ASSUME Init PROVE Abstract!Init
        OBVIOUS
    <2>1. upc = "ctor" /\ added = 0 /\ done = {} /\ Len(queue) = 0
        BY EmptySeq, Zenon DEF Init
    <2>2. Taken = 0 /\ Phase = "open"
        BY <2>1, Phases DEF Taken
    <2>. QED
        BY <2>1, <2>2, Zenon DEF Abstract!Init
<1>2. IInv /\ [Next]_vars => [Abstract!Next]_(Abstract!vars)
    <2>. SUFFICES ASSUME IInv, [Next]_vars PROVE Abstract!Next \/ UNCHANGED Abstract!vars
        BY Zenon
    <2>1. ASSUME NEW t \in Threads, execute_thread(t)
          PROVE  Abstract!Next \/ UNCHANGED Abstract!vars
        BY <2>1, ThreadRefines, Zenon DEF Abstract!Next
    <2>2. ASSUME NEW t \in Threads, Spurious(t) PROVE UNCHANGED Abstract!vars
        BY <2>2, Zenon DEF Spurious, Phase, Taken, Abstract!vars
    <2>3. CASE Terminated \/ UNCHANGED vars
        BY <2>3, Zenon DEF Terminated, vars, Phase, Taken, Abstract!vars
    <2>. QED
        BY <2>1, <2>2, <2>3, UserRefines, Zenon DEF Next
<1>. QED
    BY <1>1, <1>2, Invariance, PTL DEF Spec, ImplementsPool, Abstract!Spec

(***************************************************************************)
(* No wait without an end                                                  *)
(***************************************************************************)
\* A thread that can take its next step: execute_thread blocks only in _cond_wait.
CanRun(t) == pc[t] \in {"start", "run", "awake"}

\* Whoever sleeps has a reason to: the user of the pool has something to wait for, a job in
\* the queue has a thread that will look at it, and no thread sleeps once it is told to end.
SleepHasReason ==
    /\ upc = "asleep" => busyThreads > 0 \/ queue # <<>>
    /\ queue # <<>> /\ ~finished => \E t \in Threads : pc[t] = "none" \/ CanRun(t)
    /\ finished => \A t \in Threads : pc[t] # "asleep"

\* WaitAll, the destructor and a queued job depend on a thread that can run.
NoLostWakeup ==
    /\ upc = "asleep" => \E t \in Threads : CanRun(t)
    /\ upc = "join" => joined = N \/ pc[joined + 1] = "exited" \/ CanRun(joined + 1)
    /\ queue # <<>> /\ Usable => \E t \in Threads : CanRun(t)

\* A thread sleeps only when the queue is empty and before the end, and the one that makes
\* busyThreads zero wakes the user.
LEMMA ReasonThread ==
    ASSUME IInv, SleepHasReason, NEW t \in Threads, execute_thread(t) \/ Spurious(t) PROVE SleepHasReason'
<1>. USE DEF IInv, TypeOK, SleepHasReason, CanRun
<1>1. CASE Enter(t)
    <2>1. /\ TakeOrSleep(t, busyThreads - 1) /\ finished' = finished
          /\ upc' = IF busyThreads = 1 /\ upc = "asleep" THEN "awake" ELSE upc
        BY <1>1 DEF Enter
    <2>2. busyThreads >= 1
        <3>1. BusySet \in SUBSET Threads /\ t \in BusySet
            BY <1>1 DEF Enter, BusySet
        <3>2. IsFiniteSet(BusySet) /\ Cardinality(BusySet) \in Nat
            BY <3>1, ThreadSets
        <3>. QED
            BY <3>1, <3>2, FS_EmptySet DEF BusyCount
    <2>3. CASE Sleeps(t) /\ busyThreads' = busyThreads - 1
        BY <2>1, <2>2, <2>3, PoolAssumption DEF Sleeps
    <2>4. CASE Leaves(t) /\ busyThreads' = busyThreads - 1
        BY <2>1, <2>2, <2>4, PoolAssumption DEF Leaves, Ending
    <2>5. CASE Takes(t) /\ busyThreads' = busyThreads - 1 + 1
        BY <2>1, <2>2, <2>5, PoolAssumption DEF Takes
    <2>. QED
        BY <2>1, <2>3, <2>4, <2>5, Outcomes, SMTT(30)
<1>2. CASE Wake(t)
    <2>1. TakeOrSleep(t, busyThreads) /\ UNCHANGED <<finished, upc>>
        BY <1>2 DEF Wake
    <2>2. CASE Sleeps(t) /\ busyThreads' = busyThreads
        BY <2>1, <2>2 DEF Sleeps
    <2>3. CASE Leaves(t) /\ busyThreads' = busyThreads
        BY <2>1, <2>3 DEF Leaves, Ending
    <2>4. CASE Takes(t) /\ busyThreads' = busyThreads + 1
        BY <2>1, <2>4, PoolAssumption DEF Takes
    <2>. QED
        BY <2>1, <2>2, <2>3, <2>4, Outcomes
<1>3. CASE RunJob(t) \/ Spurious(t)
    BY <1>3 DEF RunJob, Spurious
<1>. QED
    BY <1>1, <1>2, <1>3 DEF execute_thread

\* The other steps: AddJob wakes a thread, WaitAll tests before it sleeps, JoinAll wakes all.
LEMMA ReasonStep ==
    ASSUME IInv, SleepHasReason, [Next]_vars PROVE SleepHasReason'
<1>. USE DEF IInv, TypeOK, SleepHasReason, CanRun
<1>1. CASE CreateThread
    BY <1>1 DEF CreateThread, Creation
<1>2. CASE AddJob
    <2>1. /\ UNCHANGED <<busyThreads, finished>> /\ upc' = "ready" /\ ~finished
          /\ IF Sleepers = {} THEN pc' = pc ELSE \E t \in Sleepers : pc' = [pc EXCEPT ![t] = "awake"]
        BY <1>2 DEF AddJob, Usable, Ending
    <2>2. CASE Sleepers = {}
        <3>1. 1 \in Threads
            BY PoolAssumption DEF Threads
        <3>2. pc[1] \in {"none", "start", "run", "awake"}
            BY <2>1, <2>2, <3>1 DEF Sleepers, Ending
        <3>. QED
            BY <2>1, <2>2, <3>1, <3>2
    <2>3. CASE Sleepers # {}
        <3>1. PICK t \in Sleepers : pc' = [pc EXCEPT ![t] = "awake"]
            BY <2>1, <2>3
        <3>. QED
            BY <2>1, <3>1 DEF Sleepers
    <2>. QED
        BY <2>2, <2>3
<1>3. CASE JoinAll
    BY <1>3 DEF JoinAll
<1>4. CASE WaitAll \/ WaitWakes \/ WaitSpurious
    BY <1>4 DEF WaitAll, WaitWakes, WaitTest, WaitSpurious
<1>5. CASE JoinThread \/ Destroy \/ Terminated \/ UNCHANGED vars
    BY <1>5 DEF JoinThread, Destroy, Terminated, vars
<1>. QED
    BY <1>1, <1>2, <1>3, <1>4, <1>5, ReasonThread DEF Next, User

\* While WaitAll or the destructor blocks, the thread that it waits for can run, and a job
\* in the queue always has a thread awake: no signal of the pool is lost, whatever the
\* order in which threads are created, woken and put to sleep.
THEOREM WakeupsArrive == Spec => []NoLostWakeup
<1>1. Init => SleepHasReason
    BY DEF Init, SleepHasReason
<1>2. IInv /\ SleepHasReason => NoLostWakeup
    <2>. SUFFICES ASSUME IInv, SleepHasReason PROVE NoLostWakeup
        OBVIOUS
    <2>. USE DEF IInv, TypeOK, SleepHasReason
    <2>1. upc # "ctor" => \A t \in Threads : pc[t] # "none"
        BY PoolAssumption DEF Creation, Threads
    <2>2. ASSUME upc = "asleep" PROVE \E t \in Threads : CanRun(t)
        <3>1. ~finished
            BY <2>2 DEF Ending
        <3>2. CASE busyThreads > 0
            <4>1. BusySet # {}
                <5>. SUFFICES ASSUME BusySet = {} PROVE FALSE
                    OBVIOUS
                <5>1. Cardinality(BusySet) = 0
                    BY FS_EmptySet, Zenon
                <5>. QED
                    BY <3>2, <5>1 DEF BusyCount
            <4>. QED
                BY <2>1, <2>2, <4>1 DEF BusySet, CanRun
        <3>. QED
            BY <2>1, <2>2, <3>1, <3>2
    <2>3. ASSUME upc = "join", joined # N PROVE pc[joined + 1] = "exited" \/ CanRun(joined + 1)
        <3>1. joined + 1 \in Threads
            BY <2>3, PoolAssumption DEF Threads
        <3>. QED
            BY <2>1, <2>3, <3>1 DEF CanRun, Ending
    <2>4. ASSUME queue # <<>>, Usable PROVE \E t \in Threads : CanRun(t)
        BY <2>1, <2>4 DEF Usable, Ending
    <2>. QED
        BY <2>2, <2>3, <2>4 DEF NoLostWakeup
<1>. QED
    BY <1>1, <1>2, InitInv, InductiveStep, ReasonStep, PTL DEF Spec

=============================================================================
