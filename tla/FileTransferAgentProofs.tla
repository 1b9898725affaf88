---------------------- MODULE FileTransferAgentProofs ----------------------
(***************************************************************************)
(* Renewals, ownership, listing and reporting in FileTransferAgent, for    *)
(* any number of threads, commands and files and any lifetime of a token   *)
(* longer than the ten minutes of renewToken.                              *)
(***************************************************************************)
EXTENDS FileTransferAgent, FiniteSetTheorems, TLAPS

(***************************************************************************)
(* The inductive invariant                                                 *)
(***************************************************************************)
Points == {"idle", "call", "transfer", "expired", "renew"}

Types ==
    /\ now \in Int /\ token \in Int /\ m_lastRefreshTokenSec \in Int
    /\ clients \in Seq(Int) /\ m_storageClient \in 0..Len(clients)
    /\ results \in Nat /\ m_executionResults \in 0..results
    /\ mpc \in {"idle", "list", "large", "add", "waiting", "returned", "destroyed", "terminated"}
    /\ added \in Nat /\ started \in Nat /\ started <= added /\ done \subseteq 1..started
    /\ tpc \in [Threads -> Points] /\ job \in [Threads -> Int]
    /\ client \in [Threads -> Int] /\ renewNow \in [Threads -> Int]

\* The token of the client is not older than the last renewal, which is past.
TokenFresh ==
    /\ m_lastRefreshTokenSec <= now
    /\ m_storageClient # 0 /\ ~parseFailed => clients[m_storageClient] >= m_lastRefreshTokenSec

\* A thread that is not idle has a job of its own, which is not done; outside the
\* parallel part of a transfer all jobs are done, unless the process was terminated in it.
Jobs ==
    /\ \A t \in Threads : tpc[t] # "idle" => job[t] \in 1..started /\ job[t] \notin done
    /\ \A t, u \in Threads :
        t # u /\ tpc[t] # "idle" /\ tpc[u] # "idle" => job[t] # job[u]
    /\ mpc \notin {"add", "waiting", "terminated"} => done = 1..added

\* A thread that renews holds the mutex, and what it has tested is still true.
Renewing ==
    \A t \in Threads : tpc[t] = "renew" =>
        /\ m_parallelTokRenewMutex = t
        /\ renewNow[t] <= now /\ renewNow[t] - m_lastRefreshTokenSec > Recent

\* Where the client and the result set are alive.
Alive ==
    /\ deletedClients \subseteq 1..Len(clients) /\ deletedResults \subseteq 1..results
    /\ mpc \in {"list", "large", "add", "waiting"} => m_storageClient \notin deletedClients
    /\ mpc \in {"large", "add", "waiting"} => m_executionResults \notin deletedResults
    /\ mpc \in {"idle", "returned"} /\ ~threw =>
        m_storageClient \notin deletedClients /\ m_executionResults \notin deletedResults

IInv == Types /\ TokenFresh /\ Jobs /\ Renewing /\ Alive /\ ClientsAlive /\ DeletedOnce

(***************************************************************************)
(* What the steps do to the variables of the invariant                     *)
(***************************************************************************)
Still ==
    UNCHANGED <<added, started, done, tpc, job, client, renewNow, m_parallelTokRenewMutex>>
SameClient == UNCHANGED <<token, m_storageClient, clients, m_lastRefreshTokenSec, parseFailed>>
SameOwned  ==
    UNCHANGED <<m_executionResults, results, deletedResults, deletedClients, deletedTwice>>

\* Steps that neither replace nor delete a client or a result set.
Kept == SameClient /\ SameOwned /\ UNCHANGED <<now, threw>>

Deletes ==
    /\ deletedResults' = deletedResults \cup ({m_executionResults} \ {0})
    /\ deletedClients' = deletedClients \cup ({m_storageClient} \ {0})
    /\ deletedTwice' = (deletedTwice \/ m_executionResults \in deletedResults
                                     \/ m_storageClient \in deletedClients)
    /\ UNCHANGED <<m_executionResults, results>>

Renews(at) ==
    /\ GetClient /\ m_lastRefreshTokenSec' = at
    /\ token' = now \/ (token' = token /\ parseFailed')

\* The calling thread and the user
Begins ==
    /\ Waiting /\ Still /\ Deletes /\ UNCHANGED <<now, m_lastRefreshTokenSec>>
    /\ \/ token' = now /\ GetClient /\ mpc' = "list" /\ threw' = threw
       \/ /\ token' \in {token, now} /\ mpc' = "idle" /\ threw'
          /\ UNCHANGED <<m_storageClient, clients, parseFailed>>

Ends == Waiting /\ mpc' = "destroyed" /\ Still /\ Deletes /\ SameClient /\ UNCHANGED <<now, threw>>

Loops ==
    /\ mpc \in {"list", "large"} /\ mpc' = mpc /\ Still /\ SameOwned /\ UNCHANGED <<now, threw>>
    /\ SameClient \/ (~RenewedRecently /\ Renews(now))

Throws ==
    /\ mpc \in {"list", "large"} /\ mpc' = "idle" /\ threw' /\ Still /\ SameClient /\ now' = now
    /\ UNCHANGED <<deletedClients, deletedResults, deletedTwice>>
    /\ \/ UNCHANGED <<m_executionResults, results>>
       \/ results' = results + 1 /\ m_executionResults' = results + 1

Opens ==
    /\ mpc = "list" /\ mpc' = "large" /\ Still /\ SameClient /\ UNCHANGED <<now, threw>>
    /\ UNCHANGED <<deletedClients, deletedResults, deletedTwice>>
    /\ results' = results + 1 /\ m_executionResults' = results + 1

Fans ==
    /\ mpc = "large" /\ mpc' \in {"returned", "add"} /\ Kept
    /\ added' = 0 /\ started' = 0 /\ done' = {}
    /\ UNCHANGED <<tpc, job, client, renewNow, m_parallelTokRenewMutex>>

Adds ==
    /\ mpc = "add" /\ mpc' = mpc /\ Kept /\ added' = added + 1
    /\ UNCHANGED <<started, done, tpc, job, client, renewNow, m_parallelTokRenewMutex>>

Waits == mpc = "add" /\ mpc' = "waiting" /\ Kept /\ Still

Joins ==
    /\ mpc = "waiting" /\ mpc' = "returned" /\ Kept /\ done = 1..added
    /\ job' = [t \in Threads |-> 0] /\ client' = [t \in Threads |-> 0]
    /\ renewNow' = [t \in Threads |-> 0]
    /\ UNCHANGED <<added, started, done, tpc, m_parallelTokRenewMutex>>

Ticks == now' = now + 1 /\ Still /\ SameClient /\ SameOwned /\ UNCHANGED <<threw, mpc>>

Crashes == mpc' = "terminated" /\ Still /\ Kept

Calls ==
    \/ Begins \/ Ends \/ Loops \/ Throws \/ Opens \/ Fans \/ Adds \/ Waits \/ Joins \/ Ticks
    \/ Crashes

LEMMA RenewCases ==
    ASSUME NEW at, Renew(at) PROVE Renews(at)
BY Zenon DEF Renew, Parse, response, Renews

LEMMA RenewTokenCases ==
    ASSUME RenewToken PROVE SameClient \/ (~RenewedRecently /\ Renews(now))
BY RenewCases, Zenon DEF RenewToken, renewal, SameClient

LEMMA CallCases ==
    ASSUME \/ Tick \/ Destroy \/ (\E c \in Commands : Execute(c)) \/ Main
           \/ \E t \in Threads : JobThrows(t)
    PROVE  Calls
<1>1. CASE Tick
    BY <1>1, Zenon DEF Tick, renewal, ownership, pool, workers, Ticks, Calls, Still, SameClient, SameOwned
<1>2. CASE Destroy
    BY <1>2, Zenon
    DEF Destroy, Reset, renewal, pool, workers, Ends, Calls, Still, SameClient, Deletes
<1>3. ASSUME NEW c \in Commands, Execute(c) PROVE Calls
    <2>1. /\ Waiting /\ Still /\ Deletes /\ UNCHANGED <<now, m_lastRefreshTokenSec>>
        BY <1>3, Zenon DEF Execute, Reset, pool, workers, Still, Deletes
    <2>2. \/ token' = now /\ GetClient /\ mpc' = "list" /\ threw' = threw
          \/ /\ token' \in {token, now} /\ mpc' = "idle" /\ threw'
             /\ UNCHANGED <<m_storageClient, clients, parseFailed>>
        BY <1>3, Zenon DEF Execute, Parse, Throw, response
    <2>. QED
        BY <2>1, <2>2, Zenon DEF Begins, Calls
<1>4. CASE ListUpload
    BY <1>4, Zenon
    DEF ListUpload, Throw, renewal, ownership, pool, workers, Loops, Throws, Calls, Still, SameClient,
        SameOwned
<1>5. CASE ListDownload \/ TransferLarge
    <2>1. /\ mpc \in {"list", "large"} /\ mpc' = mpc /\ Still /\ SameOwned /\ UNCHANGED <<now, threw>>
        BY <1>5, Zenon DEF ListDownload, TransferLarge, ownership, pool, workers, Still, SameOwned
    <2>2. RenewToken \/ UNCHANGED renewal
        BY <1>5, Zenon DEF ListDownload, TransferLarge
    <2>. QED
        BY <2>1, <2>2, RenewTokenCases, Zenon DEF renewal, SameClient, Loops, Calls
<1>6. CASE StartTransfer
    BY <1>6, Zenon
    DEF StartTransfer, Throw, renewal, pool, workers, Opens, Throws, Calls, Still, SameClient
<1>7. CASE StartSmall
    BY <1>7, Zenon
    DEF StartSmall, renewal, ownership, workers, Fans, Calls, Kept, SameClient, SameOwned
<1>8. CASE AddJob \/ WaitAll
    BY <1>8, Zenon
    DEF AddJob, WaitAll, Pool!Add, Pool!Wait, renewal, ownership, workers, Adds, Waits, Calls, Kept,
        Still, SameClient, SameOwned
<1>9. CASE WaitAllReturns
    BY <1>9, Zenon
    DEF WaitAllReturns, Pool!WaitReturns, renewal, ownership, Joins, Calls, Kept, SameClient, SameOwned
<1>10. CASE ListDownloadThrows \/ UploadThrows
    BY <1>10, Zenon
    DEF ListDownloadThrows, UploadThrows, Throw, renewal, ownership, pool, workers, Throws, Calls,
        Still, SameClient
<1>11. ASSUME NEW t \in Threads, JobThrows(t) PROVE Calls
    BY <1>11, Zenon
    DEF JobThrows, renewal, ownership, pool, workers, Crashes, Calls, Still, Kept, SameClient, SameOwned
<1>. QED
    BY <1>1, <1>2, <1>3, <1>4, <1>5, <1>6, <1>7, <1>8, <1>9, <1>10, <1>11, Zenon DEF Main

\* The pool threads
Takes(t) ==
    /\ tpc[t] = "idle" /\ tpc' = [tpc EXCEPT ![t] = "call"]
    /\ started < added /\ started' = started + 1 /\ job' = [job EXCEPT ![t] = started + 1]
    /\ SameClient /\ UNCHANGED <<done, client, renewNow, m_parallelTokRenewMutex>>

Picks(t) ==
    /\ tpc[t] = "call" /\ tpc' = [tpc EXCEPT ![t] = "transfer"]
    /\ client' = [client EXCEPT ![t] = m_storageClient]
    /\ SameClient /\ UNCHANGED <<started, done, job, renewNow, m_parallelTokRenewMutex>>

Repeats(t) ==
    /\ tpc[t] \in {"transfer", "expired"}
    /\ \E pc \in {"expired", "call"} : tpc' = [tpc EXCEPT ![t] = pc]
    /\ SameClient /\ UNCHANGED <<started, done, job, client, renewNow, m_parallelTokRenewMutex>>

Leaves(t) ==
    /\ tpc[t] = "transfer" /\ tpc' = [tpc EXCEPT ![t] = "idle"] /\ done' = done \cup {job[t]}
    /\ SameClient /\ UNCHANGED <<started, job, client, renewNow, m_parallelTokRenewMutex>>

Enters(t) ==
    /\ tpc[t] = "expired" /\ tpc' = [tpc EXCEPT ![t] = "renew"]
    /\ m_parallelTokRenewMutex = 0 /\ m_parallelTokRenewMutex' = t
    /\ ~RenewedRecently /\ renewNow' = [renewNow EXCEPT ![t] = now]
    /\ SameClient /\ UNCHANGED <<started, done, job, client>>

Renewed(t) ==
    /\ tpc[t] = "renew" /\ tpc' = [tpc EXCEPT ![t] = "call"]
    /\ m_parallelTokRenewMutex' = 0 /\ Renews(renewNow[t])
    /\ UNCHANGED <<started, done, job, client, renewNow>>

LEMMA WorkCases ==
    ASSUME NEW t \in Threads, Work(t)
    PROVE  /\ SameOwned /\ UNCHANGED <<now, threw, mpc, added>> /\ mpc # "terminated"
           /\ \/ Takes(t) \/ Picks(t) \/ Repeats(t) \/ Leaves(t) \/ Enters(t) \/ Renewed(t)
<1>0. mpc # "terminated"
    BY Zenon DEF Work
<1>1. CASE TakeJob(t)
    BY <1>0, <1>1, Zenon DEF TakeJob, Pool!Start, renewal, ownership, SameOwned, SameClient, Takes
<1>2. CASE CallClient(t)
    BY <1>0, <1>2, Zenon DEF CallClient, pool, renewal, ownership, SameOwned, SameClient, Picks
<1>3. CASE TransferSmall(t)
    BY <1>0, <1>3, Zenon
    DEF TransferSmall, Pool!Finish, pool, renewal, ownership, SameOwned, SameClient, Repeats, Leaves
<1>4. CASE EnterRenew(t)
    BY <1>0, <1>4, Zenon DEF EnterRenew, pool, renewal, ownership, SameOwned, SameClient, Repeats, Enters
<1>5. CASE RenewAndUnlock(t)
    BY <1>0, <1>5, RenewCases, Zenon DEF RenewAndUnlock, pool, ownership, SameOwned, Renewed
<1>. QED
    BY <1>1, <1>2, <1>3, <1>4, <1>5, Zenon DEF Work

(***************************************************************************)
(* Every step keeps the invariant                                          *)
(***************************************************************************)
\* Outside the parallel part of a transfer no pool thread moves.
LEMMA Quiet ==
    ASSUME IInv, mpc \notin {"add", "waiting", "terminated"}
    PROVE  /\ \A t \in Threads : tpc[t] = "idle"
           /\ ~ \E t \in Threads : Work(t)
<1>1. /\ started \in Nat /\ added \in Nat /\ started <= added
      /\ done \subseteq 1..started /\ done = 1..added
      /\ \A t \in Threads : tpc[t] # "idle" => job[t] \in 1..started /\ job[t] \notin done
    BY Zenon DEF IInv, Types, Jobs
<1>2. 1..started \subseteq 1..added
    BY <1>1
<1>3. \A t \in Threads : tpc[t] = "idle"
    BY <1>1, <1>2, Zenon
<1>4. ASSUME NEW t \in Threads, Work(t) PROVE FALSE
    <2>1. started < added
        BY <1>3, <1>4, WorkCases DEF Takes, Picks, Repeats, Leaves, Enters, Renewed
    <2>2. added \in 1..added /\ added \notin 1..started
        BY <1>1, <2>1
    <2>. QED
        BY <1>1, <2>2, Zenon
<1>. QED
    BY <1>3, <1>4, Zenon

LEMMA Busy ==
    ASSUME IInv, NEW t \in Threads, Work(t) PROVE mpc \in {"add", "waiting"}
<1>1. mpc \in {"add", "waiting", "terminated"}
    BY Quiet, Zenon
<1>. QED
    BY <1>1, WorkCases, Zenon

\* A new client is the last one and has the token of the response.
LEMMA NewClient ==
    ASSUME Types, GetClient, token' \in Int
    PROVE  /\ clients' \in Seq(Int) /\ m_storageClient' \in 1..Len(clients')
           /\ clients'[m_storageClient'] = token'
           /\ m_storageClient' \notin 1..Len(clients)
           /\ 1..Len(clients) \subseteq 1..Len(clients')
BY DEF Types, GetClient

ClientTypes ==
    /\ now \in Int /\ token \in Int /\ m_lastRefreshTokenSec \in Int
    /\ clients \in Seq(Int) /\ m_storageClient \in 0..Len(clients)

LEMMA ClientStep ==
    ASSUME IInv, Next PROVE ClientTypes' /\ TokenFresh'
<1>0. ClientTypes /\ TokenFresh /\ Types
    BY Zenon DEF IInv, Types, ClientTypes
<1>1. ASSUME SameClient, now' = now \/ now' = now + 1 PROVE ClientTypes' /\ TokenFresh'
    <2>1. now' \in Int /\ m_lastRefreshTokenSec' <= now'
        BY <1>0, <1>1 DEF ClientTypes, TokenFresh, SameClient
    <2>. QED
        BY <1>0, <1>1, <2>1, Zenon DEF ClientTypes, TokenFresh, SameClient
<1>2. ASSUME NEW at \in Int, at <= now, Renews(at), now' = now PROVE ClientTypes' /\ TokenFresh'
    <2>1. token' \in Int
        BY <1>0, <1>2 DEF ClientTypes, Renews
    <2>2. /\ clients' \in Seq(Int) /\ m_storageClient' \in 1..Len(clients')
          /\ clients'[m_storageClient'] = token'
        BY <1>0, <1>2, <2>1, NewClient, Zenon DEF Renews
    <2>3. m_lastRefreshTokenSec' = at /\ (~parseFailed' => token' = now)
        BY <1>2, Zenon DEF Renews
    <2>4. m_storageClient' \in 0..Len(clients')
        BY <2>2
    <2>5. ClientTypes'
        BY <1>0, <1>2, <2>1, <2>2, <2>3, <2>4, Zenon DEF ClientTypes
    <2>6. m_lastRefreshTokenSec' <= now' /\ (~parseFailed' => token' >= m_lastRefreshTokenSec')
        BY <1>0, <1>2, <2>3 DEF ClientTypes
    <2>. QED
        BY <2>2, <2>5, <2>6, Zenon DEF TokenFresh
<1>3. CASE Begins
    <2>1. token' \in Int /\ now' = now /\ m_lastRefreshTokenSec' = m_lastRefreshTokenSec
        BY <1>0, <1>3 DEF ClientTypes, Begins
    <2>2. CASE token' = now /\ GetClient
        BY <1>0, <1>2, <2>1, <2>2, Zenon DEF ClientTypes, TokenFresh, Renews
    <2>3. CASE UNCHANGED <<m_storageClient, clients, parseFailed>>
        BY <1>0, <2>1, <2>3, Zenon DEF ClientTypes, TokenFresh
    <2>. QED
        BY <1>3, <2>2, <2>3, Zenon DEF Begins
<1>4. CASE Loops
    <2>1. now' = now /\ now \in Int /\ now <= now
        BY <1>0, <1>4 DEF Loops, ClientTypes
    <2>. QED
        BY <1>1, <1>2, <1>4, <2>1, Zenon DEF Loops
<1>5. CASE Ends \/ Throws \/ Opens \/ Fans \/ Adds \/ Waits \/ Joins \/ Ticks \/ Crashes
    BY <1>1, <1>5, Zenon DEF Ends, Throws, Opens, Fans, Adds, Waits, Joins, Ticks, Crashes, Kept
<1>6. ASSUME NEW t \in Threads, Work(t) PROVE ClientTypes' /\ TokenFresh'
    <2>1. now' = now /\ (SameClient \/ Renewed(t))
        BY <1>6, WorkCases, Zenon DEF Takes, Picks, Repeats, Leaves, Enters
    <2>2. tpc[t] = "renew" => renewNow[t] \in Int /\ renewNow[t] <= now
        BY DEF IInv, Types, Renewing
    <2>. QED
        BY <1>1, <1>2, <2>1, <2>2, Zenon DEF Renewed
<1>. QED
    BY <1>3, <1>4, <1>5, <1>6, CallCases, Zenon DEF Calls, Next

LEMMA ResultsStep ==
    ASSUME IInv, Next PROVE results' \in Nat /\ m_executionResults' \in 0..results'
<1>0. results \in Nat /\ m_executionResults \in 0..results
    BY Zenon DEF IInv, Types
<1>1. \/ UNCHANGED <<m_executionResults, results>>
      \/ results' = results + 1 /\ m_executionResults' = results + 1
    <2>1. Calls \/ \E t \in Threads : Work(t)
        BY CallCases, Zenon DEF Next
    <2>2. CASE Calls
        BY <2>2, Zenon
        DEF Calls, Begins, Ends, Loops, Throws, Opens, Fans, Adds, Waits, Joins, Ticks, Crashes, Kept,
            Deletes, SameOwned
    <2>. QED
        BY <2>1, <2>2, WorkCases, Zenon DEF SameOwned
<1>. QED
    BY <1>0, <1>1

PoolTypes ==
    /\ mpc \in {"idle", "list", "large", "add", "waiting", "returned", "destroyed", "terminated"}
    /\ added \in Nat /\ started \in Nat /\ started <= added /\ done \subseteq 1..started
    /\ tpc \in [Threads -> Points] /\ job \in [Threads -> Int]
    /\ client \in [Threads -> Int] /\ renewNow \in [Threads -> Int]

LEMMA PoolStep ==
    ASSUME IInv, Next PROVE PoolTypes'
<1>0. PoolTypes /\ m_storageClient \in Int /\ now \in Int
    BY DEF IInv, Types, PoolTypes
<1>1. CASE Still /\ mpc' \in {"idle", "list", "large", "waiting", "destroyed", "terminated", mpc}
    BY <1>0, <1>1, Zenon DEF PoolTypes, Still
<1>2. CASE Begins \/ Ends \/ Loops \/ Throws \/ Opens \/ Waits \/ Ticks \/ Crashes
    BY <1>1, <1>2, Zenon DEF Begins, Ends, Loops, Throws, Opens, Waits, Ticks, Crashes
<1>3. CASE Fans \/ Adds \/ Joins
    <2>1. CASE Fans
        BY <1>0, <2>1 DEF PoolTypes, Fans
    <2>2. CASE Adds
        BY <1>0, <2>2 DEF PoolTypes, Adds
    <2>3. CASE Joins
        BY <1>0, <2>3, SMTT(30) DEF PoolTypes, Joins
    <2>. QED
        BY <1>3, <2>1, <2>2, <2>3, Zenon
<1>4. ASSUME NEW t \in Threads, Work(t) PROVE PoolTypes'
    <2>1. mpc' = mpc /\ added' = added
        BY <1>4, WorkCases, Zenon
    <2>2. CASE Takes(t)
        BY <1>0, <2>1, <2>2 DEF PoolTypes, Points, Takes
    <2>3. CASE Picks(t) \/ Enters(t)
        BY <1>0, <2>1, <2>3, ZenonT(30) DEF PoolTypes, Points, Picks, Enters
    <2>4. CASE Repeats(t) \/ Renewed(t)
        BY <1>0, <2>1, <2>4, Zenon DEF PoolTypes, Points, Repeats, Renewed
    <2>5. CASE Leaves(t)
        <3>1. job[t] \in 1..started
            BY <2>5 DEF IInv, Jobs, Leaves
        <3>2. done' \subseteq 1..started
            BY <1>0, <2>5, <3>1, Zenon DEF PoolTypes, Leaves
        <3>. QED
            BY <1>0, <2>1, <2>5, <3>2 DEF PoolTypes, Points, Leaves
    <2>. QED
        BY <1>4, <2>2, <2>3, <2>4, <2>5, WorkCases, Zenon
<1>. QED
    BY <1>2, <1>3, <1>4, CallCases, Zenon DEF Calls, Next

LEMMA JobsStep ==
    ASSUME IInv, Next PROVE Jobs'
<1>0. PoolTypes /\ Jobs
    BY Zenon DEF IInv, Types, PoolTypes
<1> DEFINE Parallel == {"add", "waiting", "terminated"}
<1>1. CASE Still /\ (mpc' \in Parallel \/ mpc \notin Parallel)
    BY <1>0, <1>1, Zenon DEF Jobs, Still
<1>2. CASE Begins \/ Ends \/ Loops \/ Throws \/ Opens \/ Waits \/ Ticks \/ Crashes
    <2>1. Still /\ (mpc' \in Parallel \/ mpc \notin Parallel)
        BY <1>2 DEF Begins, Ends, Loops, Throws, Opens, Waits, Ticks, Crashes, Waiting
    <2>. QED
        BY <1>1, <2>1, Zenon
<1>3. CASE Fans
    <2>1. \A t \in Threads : tpc'[t] = "idle"
        BY <1>3, Quiet DEF Fans
    <2>2. done' = 1..added'
        BY <1>3 DEF Fans
    <2>. QED
        BY <2>1, <2>2, Zenon DEF Jobs
<1>4. CASE Adds
    BY <1>0, <1>4, Zenon DEF Adds, Jobs
<1>5. CASE Joins
    <2>1. \A t \in Threads : tpc'[t] = "idle"
        <3>1. 1..started \subseteq 1..added
            BY <1>0 DEF PoolTypes
        <3>. QED
            BY <1>0, <1>5, <3>1, Zenon DEF Joins, Jobs
    <2>. QED
        BY <1>5, <2>1, Zenon DEF Joins, Jobs
<1>6. ASSUME NEW t \in Threads, Work(t) PROVE Jobs'
    <2>0. mpc \in {"add", "waiting"} /\ mpc' = mpc
        BY <1>6, Busy, WorkCases, Zenon
    <2>1. CASE Takes(t)
        <3>1. /\ tpc[t] = "idle" /\ job'[t] = started + 1 /\ started' = started + 1 /\ done' = done
              /\ \A u \in Threads : u # t => tpc'[u] = tpc[u] /\ job'[u] = job[u]
            BY <1>0, <2>1 DEF PoolTypes, Takes
        <3>2. \A u \in Threads : u # t /\ tpc'[u] # "idle" =>
                job'[u] \in 1..started /\ job'[u] \notin done
            BY <1>0, <3>1, Zenon DEF Jobs
        <3>3. /\ started + 1 \in 1..started' /\ started + 1 \notin 1..started
              /\ 1..started \subseteq 1..started'
            BY <1>0, <3>1 DEF PoolTypes
        <3>4. started + 1 \notin done
            BY <1>0, <3>3, Zenon DEF PoolTypes
        <3>5. \A u \in Threads : tpc'[u] # "idle" => job'[u] \in 1..started' /\ job'[u] \notin done'
            <4>. TAKE u \in Threads
            <4>1. CASE u = t
                BY <3>1, <3>3, <3>4, <4>1, Zenon
            <4>2. CASE u # t
                BY <3>1, <3>2, <3>3, <4>2, Zenon
            <4>. QED
                BY <4>1, <4>2, Zenon
        <3>6. ASSUME NEW u \in Threads, NEW v \in Threads, u # v, tpc'[u] # "idle", tpc'[v] # "idle"
              PROVE  job'[u] # job'[v]
            <4>1. CASE u = t
                BY <3>1, <3>2, <3>3, <3>6, <4>1, Zenon
            <4>2. CASE v = t
                BY <3>1, <3>2, <3>3, <3>6, <4>2, Zenon
            <4>3. CASE u # t /\ v # t
                BY <1>0, <3>1, <3>6, <4>3, Zenon DEF Jobs
            <4>. QED
                BY <4>1, <4>2, <4>3, Zenon
        <3>. QED
            BY <2>0, <3>5, <3>6, Zenon DEF Jobs
    <2>2. CASE Picks(t) \/ Repeats(t) \/ Enters(t) \/ Renewed(t)
        <3>1. /\ UNCHANGED <<started, done, job>> /\ tpc[t] # "idle"
              /\ \A u \in Threads : u # t => tpc'[u] = tpc[u]
            BY <1>0, <2>2 DEF PoolTypes, Picks, Repeats, Enters, Renewed
        <3>2. \A u \in Threads : tpc'[u] # "idle" => tpc[u] # "idle"
            BY <3>1, Zenon
        <3>. QED
            BY <1>0, <2>0, <3>1, <3>2, Zenon DEF Jobs
    <2>3. CASE Leaves(t)
        <3>1. /\ UNCHANGED <<started, job>> /\ tpc[t] # "idle" /\ tpc'[t] = "idle"
              /\ \A u \in Threads : u # t => tpc'[u] = tpc[u]
              /\ done' = done \cup {job[t]}
            BY <1>0, <2>3 DEF PoolTypes, Leaves
        <3>2. \A u \in Threads : tpc'[u] # "idle" => u # t /\ tpc[u] # "idle"
            BY <3>1, Zenon
        <3>3. \A u \in Threads : tpc'[u] # "idle" => job'[u] \in 1..started' /\ job'[u] \notin done'
            BY <1>0, <3>1, <3>2, Zenon DEF Jobs
        <3>. QED
            BY <1>0, <2>0, <3>1, <3>2, <3>3, Zenon DEF Jobs
    <2>. QED
        BY <1>6, <2>1, <2>2, <2>3, WorkCases, Zenon
<1>. QED
    BY <1>2, <1>3, <1>4, <1>5, <1>6, CallCases, Zenon DEF Calls, Next

LEMMA RenewingStep ==
    ASSUME IInv, Next PROVE Renewing'
<1>0. /\ PoolTypes /\ Renewing /\ now \in Int /\ m_lastRefreshTokenSec \in Int
    BY Zenon DEF IInv, Types, PoolTypes
<1>2. CASE Ticks
    <2>1. \A t \in Threads : renewNow[t] \in Int
        BY <1>0, Zenon DEF PoolTypes
    <2>2. \A t \in Threads : renewNow[t] <= now => renewNow[t] <= now'
        BY <1>0, <1>2, <2>1 DEF Ticks
    <2>. QED
        BY <1>0, <1>2, <2>2, Zenon DEF Renewing, Ticks, Still, SameClient
<1>3. CASE \A t \in Threads : tpc'[t] = "idle"
    BY <1>3 DEF Renewing
<1>4. CASE Begins \/ Ends \/ Loops \/ Throws \/ Opens
    <2>1. mpc \notin {"add", "waiting", "terminated"} /\ tpc' = tpc
        BY <1>4 DEF Begins, Ends, Loops, Throws, Opens, Still, Waiting
    <2>. QED
        BY <1>3, <2>1, Quiet, Zenon
<1>5. CASE Fans
    BY <1>3, <1>5, Quiet DEF Fans
<1>6. CASE Adds \/ Waits \/ Crashes
    BY <1>0, <1>6, Zenon DEF Adds, Waits, Crashes, Kept, SameClient, Still, Renewing
<1>7. CASE Joins
    <2>1. 1..started \subseteq 1..added
        BY <1>0 DEF PoolTypes
    <2>2. \A t \in Threads : tpc'[t] = "idle"
        BY <1>7, <2>1, Zenon DEF Joins, Jobs, IInv
    <2>. QED
        BY <1>3, <2>2, Zenon
<1>8. ASSUME NEW t \in Threads, Work(t) PROVE Renewing'
    <2>0. now' = now
        BY <1>8, WorkCases, Zenon
    <2>1. ASSUME NEW pc \in Points \ {"renew"}, tpc' = [tpc EXCEPT ![t] = pc],
                 UNCHANGED <<renewNow, m_parallelTokRenewMutex, m_lastRefreshTokenSec>>
          PROVE  Renewing'
        <3>1. \A u \in Threads : tpc'[u] = "renew" => tpc[u] = "renew"
            BY <1>0, <2>1 DEF PoolTypes
        <3>. QED
            BY <1>0, <2>0, <2>1, <3>1, Zenon DEF Renewing
    <2>2. CASE Takes(t) \/ Picks(t) \/ Repeats(t) \/ Leaves(t)
        <3>1. /\ UNCHANGED <<renewNow, m_parallelTokRenewMutex, m_lastRefreshTokenSec>>
              /\ \E pc \in {"call", "transfer", "expired", "idle"} : tpc' = [tpc EXCEPT ![t] = pc]
            BY <2>2, Zenon DEF Takes, Picks, Repeats, Leaves, SameClient
        <3>2. {"call", "transfer", "expired", "idle"} \subseteq Points \ {"renew"}
            BY DEF Points
        <3>. QED
            BY <2>1, <3>1, <3>2, Zenon
    <2>3. CASE Enters(t)
        <3>1. \A u \in Threads : tpc[u] # "renew"
            <4>1. \A u \in Threads : u # 0
                BY DEF Threads
            <4>. QED
                BY <1>0, <2>3, <4>1, Zenon DEF Enters, Renewing
        <3>2. \A u \in Threads : tpc'[u] = "renew" => u = t
            BY <1>0, <2>3, <3>1 DEF PoolTypes, Enters
        <3>3. renewNow'[t] = now /\ m_parallelTokRenewMutex' = t
            BY <1>0, <2>3 DEF PoolTypes, Enters
        <3>4. now <= now /\ now - m_lastRefreshTokenSec > Recent
            BY <1>0, <2>3, AgentAssumption DEF Enters, RenewedRecently
        <3>5. m_lastRefreshTokenSec' = m_lastRefreshTokenSec
            BY <2>3, Zenon DEF Enters, SameClient
        <3>. QED
            BY <2>0, <3>2, <3>3, <3>4, <3>5, Zenon DEF Renewing
    <2>4. CASE Renewed(t)
        <3>1. \A u \in Threads : u # t => tpc[u] # "renew"
            BY <1>0, <2>4, Zenon DEF Renewed, Renewing
        <3>2. \A u \in Threads : tpc'[u] # "renew"
            BY <1>0, <2>4, <3>1 DEF PoolTypes, Renewed
        <3>. QED
            BY <3>2, Zenon DEF Renewing
    <2>. QED
        BY <1>8, <2>2, <2>3, <2>4, WorkCases, Zenon
<1>. QED
    BY <1>2, <1>4, <1>5, <1>6, <1>7, <1>8, CallCases, Zenon DEF Calls, Next

LEMMA AliveStep ==
    ASSUME IInv, Next PROVE Alive' /\ DeletedOnce'
<1>0. Types /\ Alive /\ DeletedOnce
    BY Zenon DEF IInv
<1>1. CASE Begins \/ Ends
    <2>1. Waiting /\ Deletes
        BY <1>1, Zenon DEF Begins, Ends
    <2>2. deletedClients' \subseteq 1..Len(clients) /\ deletedResults' \subseteq 1..results
        <3>1. {m_storageClient} \ {0} \subseteq 1..Len(clients)
            BY <1>0 DEF Types
        <3>2. {m_executionResults} \ {0} \subseteq 1..results
            BY <1>0 DEF Types
        <3>. QED
            BY <1>0, <2>1, <3>1, <3>2, Zenon DEF Alive, Deletes
    <2>3. deletedTwice' => threw
        BY <1>0, <2>1, Zenon DEF Waiting, Deletes, Alive, DeletedOnce
    <2>4. threw => threw'
        BY <1>1, Zenon DEF Begins, Ends
    <2>5. results' = results
        BY <2>1, Zenon DEF Deletes
    <2>6. CASE token' = now /\ GetClient /\ mpc' = "list"
        <3>1. m_storageClient' \notin 1..Len(clients) /\ 1..Len(clients) \subseteq 1..Len(clients')
            BY <1>0, <2>6, NewClient DEF Types
        <3>2. m_storageClient' \notin deletedClients' /\ deletedClients' \subseteq 1..Len(clients')
            BY <2>2, <3>1, Zenon
        <3>. QED
            BY <2>2, <2>3, <2>4, <2>5, <2>6, <3>2 DEF Alive, DeletedOnce
    <2>7. CASE clients' = clients /\ (mpc' = "destroyed" \/ (mpc' = "idle" /\ threw'))
        BY <2>2, <2>3, <2>4, <2>5, <2>7 DEF Alive, DeletedOnce
    <2>. QED
        BY <1>1, <2>6, <2>7, Zenon DEF Begins, Ends, SameClient
<1>2. CASE Loops
    <2>1. mpc' = mpc /\ mpc \in {"list", "large"} /\ SameOwned /\ threw' = threw
        BY <1>2, Zenon DEF Loops
    <2>2. CASE SameClient
        BY <1>0, <2>1, <2>2, Zenon DEF SameClient, SameOwned, Alive, DeletedOnce
    <2>3. CASE Renews(now)
        <3>1. m_storageClient' \notin 1..Len(clients) /\ 1..Len(clients) \subseteq 1..Len(clients')
            <4>1. GetClient /\ token' \in Int
                BY <1>0, <2>3 DEF Renews, Types
            <4>. QED
                BY <1>0, <4>1, NewClient, Zenon
        <3>2. m_storageClient' \notin deletedClients' /\ deletedClients' \subseteq 1..Len(clients')
            BY <1>0, <2>1, <3>1, Zenon DEF Alive, SameOwned
        <3>3. mpc \notin {"idle", "returned"}
            BY <2>1
        <3>. QED
            BY <1>0, <2>1, <3>2, <3>3, Zenon DEF SameOwned, Alive, DeletedOnce
    <2>. QED
        BY <1>2, <2>2, <2>3, Zenon DEF Loops
<1>3. CASE Throws \/ Opens
    <2>1. results' \in Nat /\ 1..results \subseteq 1..results'
        BY <1>0, <1>3 DEF Types, Throws, Opens
    <2>2. deletedResults' \subseteq 1..results' /\ deletedClients' \subseteq 1..Len(clients')
        BY <1>0, <1>3, <2>1, Zenon DEF Throws, Opens, SameClient, Alive
    <2>3. deletedTwice' => threw'
        BY <1>0, <1>3, Zenon DEF Throws, Opens, DeletedOnce
    <2>4. CASE Throws
        BY <2>2, <2>3, <2>4 DEF Throws, Alive, DeletedOnce
    <2>5. CASE Opens
        <3>1. results + 1 \notin 1..results
            BY <1>0 DEF Types
        <3>2. /\ m_executionResults' \notin deletedResults' /\ m_storageClient' \notin deletedClients'
              /\ mpc' = "large"
            BY <1>0, <2>5, <3>1, Zenon DEF Opens, SameClient, Alive
        <3>. QED
            BY <2>2, <2>3, <3>2 DEF Alive, DeletedOnce
    <2>. QED
        BY <1>3, <2>4, <2>5, Zenon
<1>4. CASE Kept /\ mpc \in {"large", "add", "waiting"}
    <2>1. /\ m_storageClient' \notin deletedClients' /\ m_executionResults' \notin deletedResults'
          /\ deletedClients' \subseteq 1..Len(clients') /\ deletedResults' \subseteq 1..results'
          /\ deletedTwice' => threw'
        BY <1>0, <1>4, Zenon DEF Kept, SameClient, SameOwned, Alive, DeletedOnce
    <2>. QED
        BY <2>1, Zenon DEF Alive, DeletedOnce
<1>5. CASE Fans \/ Adds \/ Waits \/ Joins
    BY <1>4, <1>5, Zenon DEF Fans, Adds, Waits, Joins
<1>6. CASE Ticks
    BY <1>0, <1>6, Zenon DEF Ticks, SameClient, SameOwned, Alive, DeletedOnce
<1>7. ASSUME NEW t \in Threads, Work(t) PROVE Alive' /\ DeletedOnce'
    <2>1. /\ mpc \in {"add", "waiting"} /\ UNCHANGED <<now, threw, mpc>> /\ SameOwned
        BY <1>7, Busy, WorkCases, Zenon
    <2>2. CASE SameClient
        BY <1>4, <2>1, <2>2, Zenon DEF Kept
    <2>3. CASE Renewed(t)
        <3>1. GetClient /\ token' \in Int
            BY <1>0, <2>3 DEF Renewed, Renews, Types
        <3>2. m_storageClient' \notin 1..Len(clients) /\ 1..Len(clients) \subseteq 1..Len(clients')
            BY <1>0, <3>1, NewClient, Zenon
        <3>3. m_storageClient' \notin deletedClients' /\ deletedClients' \subseteq 1..Len(clients')
            BY <1>0, <2>1, <3>2, Zenon DEF Alive, SameOwned
        <3>4. mpc \notin {"idle", "returned"}
            BY <2>1
        <3>. QED
            BY <1>0, <2>1, <3>3, <3>4, Zenon DEF SameOwned, Alive, DeletedOnce
    <2>. QED
        BY <1>7, <2>2, <2>3, WorkCases, Zenon DEF Takes, Picks, Repeats, Leaves, Enters
<1>8. CASE Crashes
    <2>1. mpc' \notin {"idle", "list", "large", "add", "waiting", "returned"}
        BY <1>8 DEF Crashes
    <2>. QED
        BY <1>0, <1>8, <2>1, Zenon DEF Crashes, Kept, SameClient, SameOwned, Alive, DeletedOnce
<1>. QED
    BY <1>1, <1>2, <1>3, <1>5, <1>6, <1>7, <1>8, CallCases, Zenon DEF Calls, Next

LEMMA ClientsAliveStep ==
    ASSUME IInv, Next PROVE ClientsAlive'
<1>0. PoolTypes /\ Alive /\ ClientsAlive
    BY Zenon DEF IInv, Types, PoolTypes
<1>1. CASE UNCHANGED <<tpc, client, deletedClients>>
    BY <1>0, <1>1, Zenon DEF ClientsAlive
<1>2. CASE Begins \/ Ends
    <2>1. mpc \notin {"add", "waiting", "terminated"} /\ tpc' = tpc
        BY <1>2 DEF Begins, Ends, Waiting, Still
    <2>. QED
        BY <2>1, Quiet DEF ClientsAlive
<1>3. CASE Loops \/ Throws \/ Opens \/ Fans \/ Adds \/ Waits \/ Ticks \/ Crashes
    BY <1>1, <1>3, Zenon
    DEF Loops, Throws, Opens, Fans, Adds, Waits, Ticks, Crashes, Kept, Still, SameOwned
<1>4. CASE Joins
    <2>1. 0 \notin deletedClients
        BY <1>0 DEF Alive
    <2>2. \A t \in Threads : client'[t] = 0
        BY <1>4, Zenon DEF Joins
    <2>. QED
        BY <1>4, <2>1, <2>2, Zenon DEF Joins, Kept, SameOwned, ClientsAlive
<1>5. ASSUME NEW t \in Threads, Work(t) PROVE ClientsAlive'
    <2>0. mpc \in {"add", "waiting"} /\ deletedClients' = deletedClients
        BY <1>5, Busy, WorkCases, Zenon DEF SameOwned
    <2>1. CASE Picks(t)
        <3>1. /\ client'[t] = m_storageClient
              /\ \A u \in Threads : u # t => client'[u] = client[u] /\ tpc'[u] = tpc[u]
            BY <1>0, <2>1 DEF PoolTypes, Picks
        <3>2. m_storageClient \notin deletedClients
            BY <1>0, <2>0, Zenon DEF Alive
        <3>. QED
            BY <1>0, <2>0, <3>1, <3>2, Zenon DEF ClientsAlive
    <2>2. ASSUME client' = client,
                 \E pc \in Points \ {"transfer"} : tpc' = [tpc EXCEPT ![t] = pc]
          PROVE  ClientsAlive'
        <3>1. \A u \in Threads : tpc'[u] = "transfer" => tpc[u] = "transfer"
            BY <1>0, <2>2 DEF PoolTypes
        <3>. QED
            BY <1>0, <2>0, <2>2, <3>1, Zenon DEF ClientsAlive
    <2>3. CASE Takes(t) \/ Repeats(t) \/ Leaves(t) \/ Enters(t) \/ Renewed(t)
        <3>1. /\ client' = client
              /\ \E pc \in {"call", "expired", "idle", "renew"} : tpc' = [tpc EXCEPT ![t] = pc]
            BY <2>3, Zenon DEF Takes, Repeats, Leaves, Enters, Renewed
        <3>2. {"call", "expired", "idle", "renew"} \subseteq Points \ {"transfer"}
            BY DEF Points
        <3>. QED
            BY <2>2, <3>1, <3>2, Zenon
    <2>. QED
        BY <1>5, <2>1, <2>3, WorkCases, Zenon
<1>. QED
    BY <1>2, <1>3, <1>4, <1>5, CallCases, Zenon DEF Calls, Next

(***************************************************************************)
(* What is listed and reported                                             *)
(***************************************************************************)
F == Large \cup Small

\* How often f is in the lists.
Listed(f) == Count(f, m_largeFilesMeta) + Count(f, m_smallFilesMeta) + Count(f, lost)

\* The locations before i are listed or lost, as often as they occur.
Listing ==
    /\ command.files \in Seq(F) /\ srcLocations \in Seq(F) /\ i \in Nat \ {0}
    /\ m_largeFilesMeta \in Seq(F) /\ m_smallFilesMeta \in Seq(F) /\ lost \in Seq(F)
    /\ mpc = "list" =>
        /\ i <= Len(srcLocations) + 1
        /\ \A f \in F : Listed(f) = Count(f, SubSeq(srcLocations, 1, i - 1))

\* The places of the result set: that of large file k is k, that of job j comes j places
\* after the large files.
Place(j)    == Len(m_largeFilesMeta) + j
Answered(k) == outcomes[k] \in Outcomes

\* The large files before i, then all of them and the jobs that are done, have an outcome.
Reporting ==
    /\ mpc \in {"large", "add", "waiting", "returned"} =>
        DOMAIN outcomes = 1..(Len(m_largeFilesMeta) + Len(m_smallFilesMeta))
    /\ mpc = "large" => i <= Len(m_largeFilesMeta) + 1 /\ \A k \in 1..(i - 1) : Answered(k)
    /\ mpc \in {"add", "waiting"} =>
        /\ added <= Len(m_smallFilesMeta)
        /\ \A k \in 1..Len(m_largeFilesMeta) : Answered(k)
        /\ \A j \in done : Answered(Place(j))
    /\ mpc = "waiting" => added = Len(m_smallFilesMeta)
    /\ mpc = "returned" => \A k \in DOMAIN outcomes : Answered(k)

\* Facts about sequences.
LEMMA SeqElement ==
    ASSUME NEW S, NEW s \in Seq(S)
    PROVE  /\ Len(s) \in Nat /\ DOMAIN s = 1..Len(s)
           /\ \A k \in 1..Len(s) : s[k] \in S
OBVIOUS

LEMMA SeqConcat ==
    ASSUME NEW S, NEW s \in Seq(S), NEW t \in Seq(S)
    PROVE  /\ s \o t \in Seq(S) /\ Len(s \o t) = Len(s) + Len(t)
           /\ \A k \in 1..(Len(s) + Len(t)) :
                (s \o t)[k] = IF k <= Len(s) THEN s[k] ELSE t[k - Len(s)]
OBVIOUS

LEMMA SeqAppend ==
    ASSUME NEW S, NEW s \in Seq(S), NEW e \in S
    PROVE  Append(s, e) \in Seq(S) /\ Append(s, e) = s \o <<e>>
OBVIOUS

LEMMA SeqEmpty == \A S : <<>> \in Seq(S) /\ Len(<<>>) = 0
OBVIOUS

LEMMA SeqPrefix ==
    ASSUME NEW S, NEW s \in Seq(S), NEW k \in 0..Len(s)
    PROVE  /\ SubSeq(s, 1, k) \in Seq(S)
           /\ k = 0 => SubSeq(s, 1, k) = <<>>
           /\ k = Len(s) => SubSeq(s, 1, k) = s
           /\ k < Len(s) => SubSeq(s, 1, k + 1) = Append(SubSeq(s, 1, k), s[k + 1])
           /\ \A t \in Seq(S) : SubSeq(s \o t, 1, k) = SubSeq(s, 1, k)
<1>1. SubSeq(s, 1, k) \in Seq(S)
    OBVIOUS
<1>2. k = 0 => SubSeq(s, 1, k) = <<>>
    OBVIOUS
<1>3. k = Len(s) => SubSeq(s, 1, k) = s
    OBVIOUS
<1>4. k < Len(s) => SubSeq(s, 1, k + 1) = Append(SubSeq(s, 1, k), s[k + 1])
    OBVIOUS
<1>5. \A t \in Seq(S) : SubSeq(s \o t, 1, k) = SubSeq(s, 1, k)
    OBVIOUS
<1>. QED
    BY <1>1, <1>2, <1>3, <1>4, <1>5

\* A place in s \o t is one of s, or one of t shifted by the length of s.
LEMMA CountConcat ==
    ASSUME NEW S, NEW f, NEW s \in Seq(S), NEW t \in Seq(S)
    PROVE  Count(f, s \o t) = Count(f, s) + Count(f, t)
<1> DEFINE A == {k \in 1..Len(s) : s[k] = f}
           B == {k \in 1..Len(t) : t[k] = f}
           C == {k \in (Len(s) + 1)..(Len(s) + Len(t)) : t[k - Len(s)] = f}
           shift == [k \in B |-> k + Len(s)]
<1>0. Len(s) \in Nat /\ Len(t) \in Nat
    OBVIOUS
<1>1. /\ DOMAIN s = 1..Len(s) /\ DOMAIN t = 1..Len(t)
      /\ DOMAIN (s \o t) = 1..(Len(s) + Len(t))
    OBVIOUS
<1>2. {k \in DOMAIN (s \o t) : (s \o t)[k] = f} = A \cup C
    <2>1. \A k \in 1..(Len(s) + Len(t)) :
            (s \o t)[k] = IF k <= Len(s) THEN s[k] ELSE t[k - Len(s)]
        BY SeqConcat
    <2>2. \A k \in 1..(Len(s) + Len(t)) :
            (s \o t)[k] = f <=> k \in A \cup C
        BY <1>0, <2>1
    <2>3. A \cup C \subseteq 1..(Len(s) + Len(t))
        BY <1>0
    <2>. QED
        BY <1>1, <2>2, <2>3, Zenon
<1>3. IsFiniteSet(A) /\ IsFiniteSet(B)
    <2>1. IsFiniteSet(1..Len(s)) /\ IsFiniteSet(1..Len(t))
        BY <1>0, FS_Interval
    <2>. QED
        BY <2>1, FS_Subset, Zenon
<1>4. shift \in Bijection(B, C)
    <2>1. shift \in [B -> C]
        BY <1>0
    <2>2. \A j, k \in B : shift[j] = shift[k] => j = k
        BY <1>0
    <2>3. \A c \in C : \E k \in B : shift[k] = c
        <3>. TAKE c \in C
        <3>1. c - Len(s) \in B /\ shift[c - Len(s)] = c
            BY <1>0
        <3>. QED
            BY <3>1, Zenon
    <2>. QED
        BY <2>1, <2>2, <2>3, Zenon DEF Bijection, Injection, Surjection, IsInjective
<1>5. IsFiniteSet(C) /\ Cardinality(C) = Cardinality(B)
    BY <1>3, <1>4, FS_Bijection, ZenonT(30) DEF ExistsBijection
<1>6. A \cap C = {}
    BY <1>0
<1>7. Cardinality(A) \in Nat /\ Cardinality(B) \in Nat
    BY <1>3, FS_CardinalityType, Zenon
<1> HIDE DEF A, B, C
<1>8. Cardinality(A \cup C) = Cardinality(A) + Cardinality(C) - Cardinality(A \cap C)
    BY <1>3, <1>5, FS_Union
<1>9. Cardinality(A \cap C) = 0
    BY <1>6, FS_EmptySet, Zenon
<1>10. Count(f, s \o t) = Cardinality(A \cup C) /\ Count(f, s) = Cardinality(A) /\ Count(f, t) = Cardinality(B)
    BY <1>1, <1>2, Zenon DEF Count, A, B
<1>. QED
    BY <1>5, <1>7, <1>8, <1>9, <1>10

LEMMA CountType ==
    ASSUME NEW S, NEW f, NEW s \in Seq(S)
    PROVE  Count(f, s) \in Nat
<1>1. IsFiniteSet(DOMAIN s)
    BY FS_Interval
<1>2. IsFiniteSet({k \in DOMAIN s : s[k] = f})
    BY <1>1, FS_Subset, Zenon
<1>. QED
    BY <1>2, FS_CardinalityType, Zenon DEF Count

LEMMA CountEmpty == \A f : Count(f, <<>>) = 0
<1>. TAKE f
<1>1. {k \in DOMAIN <<>> : <<>>[k] = f} = {}
    OBVIOUS
<1>. QED
    BY <1>1, FS_EmptySet, Zenon DEF Count

Hit(f, e) == IF e = f THEN 1 ELSE 0

LEMMA CountAppend ==
    ASSUME NEW S, NEW f, NEW s \in Seq(S), NEW e \in S
    PROVE  Count(f, Append(s, e)) = Count(f, s) + Hit(f, e)
<1>1. <<e>> \in Seq(S) /\ Append(s, e) = s \o <<e>>
    BY SeqAppend
<1>2. {k \in DOMAIN <<e>> : <<e>>[k] = f} = IF e = f THEN {1} ELSE {}
    OBVIOUS
<1>3. Count(f, <<e>>) = Hit(f, e)
    BY <1>2, FS_EmptySet, FS_Singleton, Zenon DEF Count, Hit
<1>4. Count(f, s \o <<e>>) = Count(f, s) + Count(f, <<e>>)
    BY <1>1, CountConcat, Zenon
<1>. QED
    BY <1>1, <1>3, <1>4

\* What the steps do to the lists: nothing but parse the command again, or add a location.
Parsed == srcLocations' = srcLocations \/ srcLocations' = srcLocations \o command'.files

Goes ==
    /\ command' = command /\ UNCHANGED metas /\ Parsed
    /\ \/ mpc' = mpc /\ i' = i
       \/ mpc' # "list" /\ (i' = i \/ i' = 1 \/ i' = i + 1)

Clears ==
    /\ command' \in Commands \cup {command} /\ Parsed
    /\ m_largeFilesMeta' = <<>> /\ m_smallFilesMeta' = <<>> /\ lost' = <<>>
    /\ i' = 1 \/ (i' = i /\ mpc' # "list")

Lists ==
    /\ mpc = "list" /\ mpc' = "list" /\ command' = command /\ srcLocations' = srcLocations
    /\ i <= Len(srcLocations) /\ i' = i + 1
    /\ \/ AddMeta(srcLocations[i]) /\ lost' = lost
       \/ /\ UNCHANGED <<m_largeFilesMeta, m_smallFilesMeta>>
          /\ lost' = Append(lost, srcLocations[i])

LEMMA RenewTokenParses ==
    ASSUME RenewToken, command' = command PROVE Parsed
BY Zenon DEF RenewToken, Renew, Parse, Parsed, renewal, response

LEMMA ListCases ==
    ASSUME Next PROVE Goes \/ Clears \/ Lists
<1>1. CASE Tick \/ StartSmall \/ AddJob \/ WaitAll \/ WaitAllReturns
    <2>1. /\ command' = command /\ UNCHANGED metas /\ srcLocations' = srcLocations /\ i' = i
        BY <1>1, Zenon
        DEF Tick, StartSmall, AddJob, WaitAll, WaitAllReturns, metas, renewal
    <2>2. mpc' = mpc \/ mpc' \in {"returned", "add", "waiting"}
        BY <1>1, Zenon DEF Tick, StartSmall, AddJob, WaitAll, WaitAllReturns
    <2>3. mpc' = mpc \/ mpc' # "list"
        BY <2>2
    <2>. QED
        BY <2>1, <2>3, Zenon DEF Goes, Parsed
<1>2. CASE Destroy
    <2>1. /\ command' = command /\ srcLocations' = srcLocations /\ i' = i /\ mpc' = "destroyed"
          /\ m_largeFilesMeta' = <<>> /\ m_smallFilesMeta' = <<>> /\ lost' = <<>>
        BY <1>2, Zenon DEF Destroy, Reset, renewal
    <2>2. mpc' # "list"
        BY <2>1
    <2>. QED
        BY <2>1, <2>2, Zenon DEF Clears, Parsed
<1>3. ASSUME NEW c \in Commands, Execute(c) PROVE Clears
    <2>1. command' = c /\ m_largeFilesMeta' = <<>> /\ m_smallFilesMeta' = <<>> /\ lost' = <<>>
        BY <1>3, Zenon DEF Execute, Reset
    <2>2. Parsed
        BY <1>3, Zenon DEF Execute, Parse, response, Parsed
    <2>3. i' = 1 \/ (i' = i /\ mpc' = "idle")
        BY <1>3, Zenon DEF Execute, Throw
    <2>4. i' = 1 \/ (i' = i /\ mpc' # "list")
        BY <2>3
    <2>. QED
        BY <2>1, <2>2, <2>4, Zenon DEF Clears
<1>4. CASE ListUpload
    <2>1. mpc = "list" /\ command' = command /\ srcLocations' = srcLocations /\ lost' = lost /\ i <= Len(srcLocations)
        BY <1>4, Zenon DEF ListUpload, renewal
    <2>2. \/ AddMeta(srcLocations[i]) /\ i' = i + 1 /\ mpc' = mpc
          \/ /\ mpc' = "idle" /\ i' = i /\ UNCHANGED <<m_largeFilesMeta, m_smallFilesMeta>>
        BY <1>4, Zenon DEF ListUpload, Throw
    <2>3. "idle" # "list"
        OBVIOUS
    <2>. QED
        BY <2>1, <2>2, <2>3, Zenon DEF Goes, Lists, metas, Parsed
<1>5. CASE ListDownload
    <2>1. mpc = "list" /\ mpc' = mpc /\ command' = command /\ i <= Len(srcLocations)
        BY <1>5, Zenon DEF ListDownload
    <2>2. CASE /\ AddMeta(srcLocations[i]) /\ i' = i + 1 /\ UNCHANGED <<renewal, lost>>
        BY <2>1, <2>2, Zenon DEF Lists, renewal
    <2>3. CASE /\ lost' = Append(lost, srcLocations[i]) /\ i' = i + 1
               /\ UNCHANGED <<renewal, m_largeFilesMeta, m_smallFilesMeta>>
        BY <2>1, <2>3, Zenon DEF Lists, renewal
    <2>4. CASE RenewToken /\ UNCHANGED <<i, metas>>
        BY <2>1, <2>4, RenewTokenParses, Zenon DEF Goes, metas
    <2>. QED
        BY <1>5, <2>2, <2>3, <2>4, Zenon DEF ListDownload
<1>6. CASE StartTransfer
    <2>1. command' = command /\ UNCHANGED metas /\ srcLocations' = srcLocations
        BY <1>6, Zenon DEF StartTransfer, metas, renewal
    <2>2. (mpc' = "large" /\ i' = 1) \/ (mpc' = "idle" /\ i' = i)
        BY <1>6, Zenon DEF StartTransfer, Throw
    <2>3. mpc' # "list" /\ (i' = 1 \/ i' = i)
        BY <2>2
    <2>. QED
        BY <2>1, <2>3, Zenon DEF Goes, Parsed
<1>7. CASE TransferLarge
    <2>1. mpc = "large" /\ mpc' = mpc /\ command' = command /\ UNCHANGED metas
        BY <1>7, Zenon DEF TransferLarge, metas
    <2>2. \/ i' = i + 1 /\ srcLocations' = srcLocations
          \/ i' = i /\ RenewToken
        BY <1>7, Zenon DEF TransferLarge, renewal
    <2>3. mpc' # "list"
        BY <2>1
    <2>. QED
        BY <2>1, <2>2, <2>3, RenewTokenParses, Zenon DEF Goes, Parsed
<1>8. ASSUME NEW t \in Threads, Work(t) PROVE Goes
    <2>1. command' = command /\ UNCHANGED metas /\ mpc' = mpc /\ i' = i
        BY <1>8, Zenon
        DEF Work, TakeJob, CallClient, TransferSmall, EnterRenew, RenewAndUnlock, metas
    <2>2. srcLocations' = srcLocations \/ \E at : Renew(at)
        BY <1>8, Zenon
        DEF Work, TakeJob, CallClient, TransferSmall, EnterRenew, RenewAndUnlock, renewal
    <2>3. Parsed
        BY <2>1, <2>2, Zenon DEF Renew, Parse, Parsed, response
    <2>. QED
        BY <2>1, <2>3, Zenon DEF Goes
<1>9. CASE ListDownloadThrows \/ UploadThrows \/ \E t \in Threads : JobThrows(t)
    <2>1. /\ command' = command /\ UNCHANGED metas /\ srcLocations' = srcLocations /\ i' = i
          /\ mpc' \in {"idle", "terminated"}
        BY <1>9, Zenon DEF ListDownloadThrows, UploadThrows, JobThrows, Throw, metas, renewal
    <2>2. mpc' # "list"
        BY <2>1
    <2>. QED
        BY <2>1, <2>2, Zenon DEF Goes, Parsed
<1>. QED
    BY <1>1, <1>2, <1>3, <1>4, <1>5, <1>6, <1>7, <1>8, <1>9, Zenon DEF Next, Main

LEMMA ListingTypes ==
    ASSUME Listing, Next
    PROVE  /\ command'.files \in Seq(F) /\ srcLocations' \in Seq(F) /\ i' \in Nat \ {0}
           /\ m_largeFilesMeta' \in Seq(F) /\ m_smallFilesMeta' \in Seq(F) /\ lost' \in Seq(F)
<1>0. /\ command.files \in Seq(F) /\ srcLocations \in Seq(F) /\ i \in Nat \ {0}
      /\ m_largeFilesMeta \in Seq(F) /\ m_smallFilesMeta \in Seq(F) /\ lost \in Seq(F)
    BY Zenon DEF Listing
<1>1. command'.files \in Seq(F)
    <2>1. command' = command \/ command' \in Commands
        BY ListCases, Zenon DEF Goes, Clears, Lists
    <2>. QED
        BY <1>0, <2>1, AgentAssumption, Zenon DEF F
<1>2. i' \in Nat \ {0}
    <2>1. i' = i \/ i' = 1 \/ i' = i + 1
        BY ListCases, Zenon DEF Goes, Clears, Lists
    <2>. QED
        BY <1>0, <2>1
<1>3. srcLocations' \in Seq(F)
    <2>1. Parsed
        BY ListCases, Zenon DEF Goes, Clears, Lists, Parsed
    <2>2. srcLocations \o command'.files \in Seq(F)
        BY <1>0, <1>1, SeqConcat, Zenon
    <2>. QED
        BY <1>0, <2>1, <2>2, Zenon DEF Parsed
<1>4. m_largeFilesMeta' \in Seq(F) /\ m_smallFilesMeta' \in Seq(F) /\ lost' \in Seq(F)
    <2>1. CASE Goes
        BY <1>0, <2>1, Zenon DEF Goes, metas
    <2>2. CASE Clears
        BY <2>2, SeqEmpty, Zenon DEF Clears
    <2>3. CASE Lists
        <3>1. srcLocations[i] \in F
            <4>1. i \in 1..Len(srcLocations)
                BY <1>0, <2>3 DEF Lists
            <4>. QED
                BY <1>0, <4>1, SeqElement, Zenon
        <3>2. \A s \in Seq(F) : Append(s, srcLocations[i]) \in Seq(F)
            BY <3>1, SeqAppend, Zenon
        <3>. QED
            BY <1>0, <2>3, <3>2, Zenon DEF Lists, AddMeta
    <2>. QED
        BY <2>1, <2>2, <2>3, ListCases, Zenon
<1>. QED
    BY <1>1, <1>2, <1>3, <1>4, Zenon

LEMMA ListingStep ==
    ASSUME Listing, Next PROVE Listing'
<1>0. /\ command.files \in Seq(F) /\ srcLocations \in Seq(F) /\ i \in Nat \ {0}
      /\ m_largeFilesMeta \in Seq(F) /\ m_smallFilesMeta \in Seq(F) /\ lost \in Seq(F)
      /\ mpc = "list" =>
            i <= Len(srcLocations) + 1 /\ \A f \in F : Listed(f) = Count(f, SubSeq(srcLocations, 1, i - 1))
    BY Zenon DEF Listing, Listed
<1>1. SUFFICES ASSUME mpc' = "list"
      PROVE  /\ i' <= Len(srcLocations') + 1
             /\ \A f \in F : Listed(f)' = Count(f, SubSeq(srcLocations', 1, i' - 1))
    BY ListingTypes, Zenon DEF Listing, Listed
<1>2. Len(srcLocations) \in Nat
    BY <1>0, SeqElement, Zenon
<1>3. CASE Goes
    <2>1. /\ mpc = "list" /\ i' = i /\ UNCHANGED metas
          /\ srcLocations' = srcLocations \/ srcLocations' = srcLocations \o command.files
        BY <1>1, <1>3, Zenon DEF Goes, Parsed
    <2>2. i - 1 \in 0..Len(srcLocations)
        BY <1>0, <1>2, <2>1
    <2>3. /\ Len(srcLocations') \in Nat /\ Len(srcLocations') >= Len(srcLocations)
        BY <1>0, <2>1, SeqConcat
    <2>4. SubSeq(srcLocations', 1, i - 1) = SubSeq(srcLocations, 1, i - 1)
        BY <1>0, <2>1, <2>2, SeqPrefix
    <2>5. \A f \in F : Listed(f)' = Listed(f)
        BY <2>1, Zenon DEF metas, Listed
    <2>6. i' <= Len(srcLocations') + 1
        BY <1>0, <1>2, <2>1, <2>2, <2>3
    <2>. QED
        BY <1>0, <2>1, <2>4, <2>5, <2>6, Zenon
<1>4. CASE Clears
    <2>1. i' = 1
        BY <1>1, <1>4, Zenon DEF Clears
    <2>2. Len(srcLocations') \in Nat
        BY ListingTypes, SeqElement, Zenon
    <2>3. SubSeq(srcLocations', 1, i' - 1) = <<>>
        BY <2>1, <2>2, ListingTypes, SeqPrefix
    <2>4. ASSUME NEW f \in F PROVE Listed(f)' = 0 + 0 + 0
        BY <1>4, CountEmpty, Zenon DEF Clears, Listed
    <2>5. i' <= Len(srcLocations') + 1
        BY <2>1, <2>2
    <2>6. 0 + 0 + 0 = 0
        OBVIOUS
    <2>. QED
        BY <2>3, <2>4, <2>5, <2>6, CountEmpty, Zenon
<1>5. CASE Lists
    <2>1. /\ mpc = "list" /\ i' = i + 1 /\ srcLocations' = srcLocations /\ i <= Len(srcLocations)
        BY <1>5, Zenon DEF Lists
    <2>2. i \in 1..Len(srcLocations) /\ i' <= Len(srcLocations') + 1 /\ i' - 1 = i
        BY <1>0, <1>2, <2>1
    <2> DEFINE e == srcLocations[i]
               pre == SubSeq(srcLocations, 1, i - 1)
    <2>3. e \in F
        BY <1>0, <2>2, SeqElement, Zenon
    <2>4. i - 1 \in 0..Len(srcLocations) /\ i - 1 < Len(srcLocations) /\ i - 1 + 1 = i
        BY <1>0, <1>2, <2>1
    <2>5. pre \in Seq(F) /\ SubSeq(srcLocations, 1, i) = Append(pre, e)
        BY <1>0, <2>4, SeqPrefix
    <2>6. ASSUME NEW f \in F PROVE Listed(f)' = Listed(f) + Hit(f, e)
        <3>1. /\ Count(f, m_largeFilesMeta) \in Nat /\ Count(f, m_smallFilesMeta) \in Nat
              /\ Count(f, lost) \in Nat /\ Hit(f, e) \in Nat
            BY <1>0, CountType DEF Hit
        <3>2. \A s \in Seq(F) : Count(f, Append(s, e)) = Count(f, s) + Hit(f, e)
            BY <2>3, CountAppend, Zenon
        <3>3. CASE AddMeta(e) /\ lost' = lost
            <4>1. CASE e \in Large
                <5>1. e \notin Small
                    BY <4>1, AgentAssumption, Zenon
                <5>2. /\ Count(f, m_largeFilesMeta') = Count(f, m_largeFilesMeta) + Hit(f, e)
                      /\ Count(f, m_smallFilesMeta') = Count(f, m_smallFilesMeta)
                      /\ Count(f, lost') = Count(f, lost)
                    BY <1>0, <3>2, <3>3, <4>1, <5>1, Zenon DEF AddMeta
                <5>. QED
                    BY <3>1, <5>2 DEF Listed
            <4>2. CASE e \notin Large
                <5>1. e \in Small
                    BY <2>3, <4>2, Zenon DEF F
                <5>2. /\ Count(f, m_smallFilesMeta') = Count(f, m_smallFilesMeta) + Hit(f, e)
                      /\ Count(f, m_largeFilesMeta') = Count(f, m_largeFilesMeta)
                      /\ Count(f, lost') = Count(f, lost)
                    BY <1>0, <3>2, <3>3, <4>2, <5>1, Zenon DEF AddMeta
                <5>. QED
                    BY <3>1, <5>2 DEF Listed
            <4>. QED
                BY <4>1, <4>2, Zenon
        <3>4. CASE UNCHANGED <<m_largeFilesMeta, m_smallFilesMeta>> /\ lost' = Append(lost, e)
            <4>1. /\ Count(f, m_smallFilesMeta') = Count(f, m_smallFilesMeta)
                  /\ Count(f, m_largeFilesMeta') = Count(f, m_largeFilesMeta)
                  /\ Count(f, lost') = Count(f, lost) + Hit(f, e)
                BY <1>0, <3>2, <3>4, Zenon
            <4>. QED
                BY <3>1, <4>1 DEF Listed
        <3>. QED
            BY <1>5, <3>3, <3>4, Zenon DEF Lists
    <2>7. \A f \in F : Count(f, SubSeq(srcLocations', 1, i' - 1)) = Count(f, pre) + Hit(f, e)
        BY <2>1, <2>2, <2>3, <2>5, CountAppend, Zenon
    <2>. QED
        BY <1>0, <2>1, <2>2, <2>6, <2>7, Zenon
<1>. QED
    BY <1>3, <1>4, <1>5, ListCases, Zenon

LEMMA ListingMeans ==
    ASSUME Listing PROVE ListedOnce
<1>. SUFFICES ASSUME mpc = "list", i > Len(srcLocations), NEW f \in F
              PROVE  Count(f, Files \o lost) = Count(f, srcLocations)
    BY Zenon DEF ListedOnce, F
<1>1. /\ srcLocations \in Seq(F) /\ i \in Nat
      /\ m_largeFilesMeta \in Seq(F) /\ m_smallFilesMeta \in Seq(F) /\ lost \in Seq(F)
      /\ i <= Len(srcLocations) + 1
      /\ Listed(f) = Count(f, SubSeq(srcLocations, 1, i - 1))
    BY Zenon DEF Listing, Listed
<1>2. i - 1 = Len(srcLocations) /\ i - 1 \in 0..Len(srcLocations)
    BY <1>1
<1>3. SubSeq(srcLocations, 1, i - 1) = srcLocations
    BY <1>1, <1>2, SeqPrefix, Zenon
<1>4. Files \in Seq(F)
    BY <1>1, SeqConcat, Zenon DEF Files
<1>5. Count(f, Files \o lost) = Count(f, Files) + Count(f, lost)
    BY <1>1, <1>4, CountConcat, Zenon
<1>6. Count(f, Files) = Count(f, m_largeFilesMeta) + Count(f, m_smallFilesMeta)
    BY <1>1, CountConcat, Zenon DEF Files
<1>. QED
    BY <1>1, <1>3, <1>5, <1>6, Zenon DEF Listed

Over == {"large", "add", "waiting", "returned"}     \* there is a result set

LEMMA ReportingOff ==
    ASSUME mpc' \notin Over PROVE Reporting'
BY DEF Over, Reporting

LEMMA ReportingStep ==
    ASSUME IInv, Listing, Reporting, Next PROVE Reporting'
<1> DEFINE nL == Len(m_largeFilesMeta)
           nS == Len(m_smallFilesMeta)
<1>0. nL \in Nat /\ nS \in Nat /\ i \in Nat \ {0}
    BY SeqElement, Zenon DEF Listing
<1>1. CASE Tick
    BY <1>1, Zenon DEF Tick, metas, pool, Reporting, Answered, Place
<1>2. CASE \/ Destroy \/ (\E c \in Commands : Execute(c)) \/ ListUpload \/ ListDownload
           \/ ListDownloadThrows \/ UploadThrows \/ \E t \in Threads : JobThrows(t)
    <2>1. mpc' \in {"destroyed", "list", "idle", "terminated"}
        BY <1>2, Zenon
        DEF Destroy, Execute, ListUpload, ListDownload, ListDownloadThrows, UploadThrows, JobThrows, Throw
    <2>2. mpc' \notin Over
        BY <2>1 DEF Over
    <2>. QED
        BY <2>2, ReportingOff, Zenon
<1>3. CASE StartTransfer
    <2>1. mpc' = "idle" \/ (mpc' = "large" /\ i' = 1)
        BY <1>3, Zenon DEF StartTransfer, Throw
    <2>2. Len(Files) = nL + nS
        BY SeqConcat, Zenon DEF Listing, Files
    <2>3. DOMAIN outcomes' = 1..(nL + nS) /\ UNCHANGED metas
        BY <1>3, <2>2, Zenon DEF StartTransfer
    <2>. QED
        BY <1>0, <2>1, <2>3 DEF Reporting, metas
<1>4. CASE TransferLarge
    <2>1. mpc = "large" /\ mpc' = "large" /\ i <= nL /\ UNCHANGED metas
        BY <1>4, Zenon DEF TransferLarge
    <2>2. PICK o : /\ outcomes' = [outcomes EXCEPT ![i] = o]
                   /\ i' = i \/ (i' = i + 1 /\ o \in Outcomes)
        BY <1>4, Zenon DEF TransferLarge, Answers
    <2>3. DOMAIN outcomes = 1..(nL + nS) /\ \A k \in 1..(i - 1) : Answered(k)
        BY <2>1 DEF Reporting
    <2>4. DOMAIN outcomes' = 1..(nL + nS)
        BY <2>2, <2>3
    <2>5. \A k \in 1..(i - 1) : k # i /\ k \in 1..(nL + nS)
        BY <1>0, <2>1
    <2>6. \A k \in 1..(i - 1) : Answered(k)'
        BY <2>2, <2>3, <2>5, Zenon DEF Answered
    <2>7. i \in 1..(nL + nS)
        BY <1>0, <2>1
    <2>8. outcomes'[i] = o
        BY <2>2, <2>3, <2>7, Zenon
    <2>9. CASE i' = i
        <3>1. i' <= nL + 1
            BY <1>0, <2>1, <2>9
        <3>. QED
            BY <2>1, <2>4, <2>6, <2>9, <3>1 DEF Reporting, metas
    <2>10. CASE i' = i + 1 /\ o \in Outcomes
        <3>1. i' <= nL + 1 /\ \A k \in 1..(i' - 1) : k \in 1..(i - 1) \/ k = i
            BY <1>0, <2>1, <2>10
        <3>2. \A k \in 1..(i' - 1) : Answered(k)'
            BY <2>6, <2>8, <2>10, <3>1, Zenon DEF Answered
        <3>. QED
            BY <2>1, <2>4, <3>1, <3>2 DEF Reporting, metas
    <2>. QED
        BY <2>2, <2>9, <2>10, Zenon
<1>5. CASE StartSmall
    <2>1. /\ mpc = "large" /\ i > nL /\ UNCHANGED metas /\ outcomes' = outcomes
          /\ added' = 0 /\ done' = {}
          /\ mpc' = IF m_smallFilesMeta = <<>> THEN "returned" ELSE "add"
        BY <1>5, Zenon DEF StartSmall
    <2>2. /\ DOMAIN outcomes = 1..(nL + nS) /\ i <= nL + 1 /\ \A k \in 1..(i - 1) : Answered(k)
        BY <2>1 DEF Reporting
    <2>3. i - 1 = nL
        BY <1>0, <2>1, <2>2
    <2>4. \A k \in 1..nL : Answered(k)'
        BY <2>1, <2>2, <2>3, Zenon DEF Answered
    <2>5. CASE m_smallFilesMeta = <<>>
        <3>1. nS = 0
            BY <2>5
        <3>2. nL + nS = nL
            BY <1>0, <3>1
        <3>3. \A k \in DOMAIN outcomes' : Answered(k)'
            BY <2>1, <2>2, <2>4, <3>2, Zenon
        <3>. QED
            BY <2>1, <2>2, <2>5, <3>3 DEF Reporting, metas
    <2>6. CASE m_smallFilesMeta # <<>>
        BY <1>0, <2>1, <2>2, <2>4, <2>6 DEF Reporting, metas
    <2>. QED
        BY <2>5, <2>6, Zenon
<1>6. CASE AddJob
    <2>1. /\ mpc = "add" /\ mpc' = mpc /\ UNCHANGED <<metas, outcomes, done>>
          /\ added < nS /\ added' = added + 1
        BY <1>6, Zenon DEF AddJob, Pool!Add
    <2>2. added \in Nat
        BY Zenon DEF IInv, Types
    <2>3. added' <= nS
        BY <1>0, <2>1, <2>2
    <2>4. /\ DOMAIN outcomes' = 1..(nL + nS) /\ \A k \in 1..nL : Answered(k)'
          /\ \A j \in done' : Answered(Place(j))'
        BY <2>1, Zenon DEF Reporting, metas, Answered, Place
    <2>. QED
        BY <2>1, <2>3, <2>4 DEF Reporting, metas
<1>7. CASE WaitAll
    <2>1. /\ mpc = "add" /\ mpc' = "waiting" /\ UNCHANGED <<metas, outcomes, done, added>> /\ added = nS
        BY <1>7, Zenon DEF WaitAll, Pool!Wait
    <2>2. /\ DOMAIN outcomes' = 1..(nL + nS) /\ \A k \in 1..nL : Answered(k)'
          /\ \A j \in done' : Answered(Place(j))'
        BY <2>1, Zenon DEF Reporting, metas, Answered, Place
    <2>. QED
        BY <1>0, <2>1, <2>2 DEF Reporting, metas
<1>8. CASE WaitAllReturns
    <2>1. /\ mpc = "waiting" /\ mpc' = "returned" /\ UNCHANGED <<metas, outcomes>> /\ done = 1..added
        BY <1>8, Zenon DEF WaitAllReturns, Pool!WaitReturns
    <2>2. /\ DOMAIN outcomes = 1..(nL + nS) /\ added = nS
          /\ \A k \in 1..nL : Answered(k)
          /\ \A j \in done : Answered(Place(j))
        BY <2>1 DEF Reporting
    <2>3. ASSUME NEW k \in 1..(nL + nS) PROVE Answered(k)
        <3>1. CASE k \in 1..nL
            BY <2>2, <3>1
        <3>2. CASE k \notin 1..nL
            <4>1. k - nL \in 1..nS /\ nL + (k - nL) = k
                BY <1>0, <3>2
            <4>. QED
                BY <2>1, <2>2, <4>1, Zenon DEF Place
        <3>. QED
            BY <3>1, <3>2
    <2>4. \A k \in DOMAIN outcomes' : Answered(k)'
        BY <2>1, <2>2, <2>3, Zenon DEF Answered
    <2>. QED
        BY <2>1, <2>2, <2>4 DEF Reporting, metas
<1>9. ASSUME NEW t \in Threads, Work(t) PROVE Reporting'
    <2>1. mpc \in {"add", "waiting"} /\ UNCHANGED <<mpc, added>>
        BY <1>9, Busy, WorkCases, Zenon
    <2>2. UNCHANGED metas
        BY <1>9, Zenon
        DEF Work, TakeJob, CallClient, TransferSmall, EnterRenew, RenewAndUnlock
    <2>3. /\ DOMAIN outcomes = 1..(nL + nS) /\ added <= nS
          /\ mpc = "waiting" => added = nS
          /\ \A k \in 1..nL : Answered(k)
          /\ \A j \in done : Answered(Place(j))
        BY <2>1, Zenon DEF Reporting
    <2>4. SUFFICES /\ DOMAIN outcomes' = 1..(nL + nS)
                   /\ \A k \in 1..nL : Answered(k)'
                   /\ \A j \in done' : Answered(Place(j))'
        BY <2>1, <2>2, <2>3 DEF Reporting, metas
    <2>5. CASE UNCHANGED <<outcomes, done>>
        BY <2>2, <2>3, <2>5, Zenon DEF Answered, Place, metas
    <2>6. CASE TransferSmall(t)
        <3>1. PICK o : /\ outcomes' = [outcomes EXCEPT ![Place(job[t])] = o]
                       /\ \/ done' = done
                          \/ done' = done \cup {job[t]} /\ o \in Outcomes
            BY <2>6, Zenon DEF TransferSmall, Answers, ResultIndex, Place, pool, Pool!Finish
        <3>2. job[t] \in 1..started /\ job[t] \notin done
            BY <2>6 DEF IInv, Jobs, TransferSmall
        <3>3. started \in Nat /\ added \in Nat /\ started <= added /\ done \subseteq 1..started
            BY Zenon DEF IInv, Types
        <3>4. Place(job[t]) \in 1..(nL + nS)
            BY <1>0, <2>3, <3>2, <3>3 DEF Place
        <3>5. /\ DOMAIN outcomes' = 1..(nL + nS) /\ outcomes'[Place(job[t])] = o
              /\ \A k \in 1..(nL + nS) : k # Place(job[t]) => outcomes'[k] = outcomes[k]
            BY <2>3, <3>1, <3>4, Zenon
        <3>6. \A k \in 1..nL : k \in 1..(nL + nS) /\ k # Place(job[t])
            BY <1>0, <3>2, <3>3 DEF Place
        <3>7. \A k \in 1..nL : Answered(k)'
            BY <2>3, <3>5, <3>6, Zenon DEF Answered
        <3>8. \A j \in done : j \in Int /\ Place(j) \in 1..(nL + nS) /\ Place(j) # Place(job[t])
            <4>. TAKE j \in done
            <4>1. j \in 1..started /\ j # job[t]
                BY <3>2, <3>3, Zenon
            <4>. QED
                BY <1>0, <2>3, <3>2, <3>3, <4>1 DEF Place
        <3>9. \A j \in 1..started : Place(j)' = Place(j)
            BY <2>2, Zenon DEF Place, metas
        <3>10. \A j \in done : Answered(Place(j))'
            BY <2>3, <3>3, <3>5, <3>8, <3>9, Zenon DEF Answered
        <3>11. o \in Outcomes => \A j \in {job[t]} : Answered(Place(j))'
            BY <2>2, <3>5, Zenon DEF Answered, Place, metas
        <3>. QED
            BY <3>1, <3>5, <3>7, <3>10, <3>11, Zenon
    <2>7. TransferSmall(t) \/ UNCHANGED <<outcomes, done>>
        BY <1>9, Zenon
        DEF Work, TakeJob, CallClient, EnterRenew, RenewAndUnlock, pool, Pool!Start
    <2>. QED
        BY <2>5, <2>6, <2>7, Zenon
<1>. QED
    BY <1>1, <1>2, <1>3, <1>4, <1>5, <1>6, <1>7, <1>8, <1>9, Zenon DEF Next, Main

LEMMA ReportingMeans ==
    ASSUME Listing, Reporting PROVE EveryFileReported
<1>1. DOMAIN Files = 1..(Len(m_largeFilesMeta) + Len(m_smallFilesMeta))
    <2>1. /\ Files \in Seq(F) /\ Len(Files) = Len(m_largeFilesMeta) + Len(m_smallFilesMeta)
        BY SeqConcat, Zenon DEF Listing, Files
    <2>. QED
        BY <2>1, SeqElement, Zenon
<1>. QED
    BY <1>1 DEF Reporting, EveryFileReported, Answered

(***************************************************************************)
(* The theorems                                                            *)
(***************************************************************************)
LEMMA InitInv ==
    ASSUME Init PROVE IInv
<1>1. Types
    BY AgentAssumption DEF Init, Pool!Init, Types, Points
<1>2. TokenFresh
    BY AgentAssumption DEF Init, TokenFresh
<1>3. Jobs /\ Renewing
    <2>1. \A t \in Threads : tpc[t] = "idle"
        BY Zenon DEF Init
    <2>2. done = 1..added
        BY DEF Init, Pool!Init
    <2>. QED
        BY <2>1, <2>2 DEF Jobs, Renewing
<1>4. Alive /\ ClientsAlive /\ DeletedOnce
    BY Zenon DEF Init, Alive, ClientsAlive, DeletedOnce
<1>. QED
    BY <1>1, <1>2, <1>3, <1>4, Zenon DEF IInv

LEMMA StutterInv ==
    ASSUME IInv, UNCHANGED vars PROVE IInv'
BY Zenon
DEF vars, renewal, ownership, pool, workers, IInv, Types, TokenFresh, Jobs, Renewing, Alive,
    ClientsAlive, DeletedOnce

LEMMA InductiveStep ==
    ASSUME IInv, [Next]_vars PROVE IInv'
<1>1. CASE Next
    <2>1. Types'
        BY <1>1, ClientStep, ResultsStep, PoolStep, Zenon DEF Types, ClientTypes, PoolTypes
    <2>. QED
        BY <1>1, <2>1, ClientStep, JobsStep, RenewingStep, AliveStep, ClientsAliveStep, Zenon DEF IInv
<1>. QED
    BY <1>1, StutterInv, Zenon

\* IInv holds in every reachable state of FileTransferAgent.
THEOREM Invariance == Spec => []IInv
BY InitInv, InductiveStep, PTL DEF Spec

\* No transfer uses a client that reset has deleted, however often renewToken
\* replaces m_storageClient under the threads that read it.
THEOREM TransfersUseLiveClients == Spec => []ClientsAlive
<1>1. IInv => ClientsAlive
    BY Zenon DEF IInv
<1>. QED
    BY <1>1, Invariance, PTL

\* Without an exception, reset deletes each client and each result set once.
THEOREM ResetDeletesOnce == Spec => []DeletedOnce
<1>1. IInv => DeletedOnce
    BY Zenon DEF IInv
<1>. QED
    BY <1>1, Invariance, PTL

\* renewToken may leave the client alone when the last renewal is recent.
THEOREM RecentTokensValid == Spec => []RecentMeansValid
<1>1. ASSUME IInv PROVE RecentMeansValid
    <2>. SUFFICES ASSUME m_storageClient # 0, ~parseFailed, RenewedRecently
                  PROVE  ~Expired(m_storageClient)
        BY Zenon DEF RecentMeansValid
    <2>1. clients[m_storageClient] >= m_lastRefreshTokenSec
        BY <1>1, Zenon DEF IInv, TokenFresh
    <2>2. clients[m_storageClient] \in Int /\ now \in Int /\ m_lastRefreshTokenSec \in Int
        BY <1>1 DEF IInv, Types
    <2>. QED
        BY <2>1, <2>2, AgentAssumption DEF RenewedRecently, Expired
<1>. QED
    BY <1>1, Invariance, PTL

\* The mutex and the test of renewToken keep renewals more than ten minutes apart.
THEOREM RenewalsTenMinutesApart == Spec => RenewalsApart
<1>1. ASSUME IInv, [Next]_vars
      PROVE  [m_lastRefreshTokenSec' # m_lastRefreshTokenSec =>
                m_lastRefreshTokenSec' - m_lastRefreshTokenSec > Recent]_vars
    <2>. SUFFICES ASSUME Next, m_lastRefreshTokenSec' # m_lastRefreshTokenSec
                  PROVE  m_lastRefreshTokenSec' - m_lastRefreshTokenSec > Recent
        BY <1>1, Zenon
    <2>1. CASE Calls
        <3>1. ~RenewedRecently /\ m_lastRefreshTokenSec' = now
            BY <2>1, Zenon
            DEF Calls, Begins, Ends, Loops, Throws, Opens, Fans, Adds, Waits, Joins, Ticks, Crashes,
                Kept, SameClient, Renews
        <3>2. now \in Int /\ m_lastRefreshTokenSec \in Int
            BY <1>1, Zenon DEF IInv, Types
        <3>. QED
            BY <3>1, <3>2, AgentAssumption DEF RenewedRecently
    <2>2. ASSUME NEW t \in Threads, Work(t)
          PROVE  m_lastRefreshTokenSec' - m_lastRefreshTokenSec > Recent
        <3>1. tpc[t] = "renew" /\ m_lastRefreshTokenSec' = renewNow[t]
            BY <2>2, WorkCases, Zenon
            DEF Takes, Picks, Repeats, Leaves, Enters, Renewed, SameClient, Renews
        <3>. QED
            BY <1>1, <3>1, Zenon DEF IInv, Renewing
    <2>. QED
        BY <2>1, <2>2, CallCases, Zenon DEF Next
<1>. QED
    BY <1>1, Invariance, PTL DEF Spec, RenewalsApart

LEMMA InitReporting ==
    ASSUME Init PROVE Listing /\ Reporting
<1>1. <<>> \in Seq(F) /\ Len(<<>>) = 0
    BY SeqEmpty, Zenon
<1>2. command.files = <<>>
    BY DEF Init
<1>3. mpc = "idle"
    BY Zenon DEF Init
<1>4. Listing
    BY <1>1, <1>2, <1>3 DEF Init, Listing
<1>. QED
    BY <1>3, <1>4 DEF Reporting

LEMMA ReportingInductive ==
    ASSUME IInv, Listing /\ Reporting, [Next]_vars PROVE (Listing /\ Reporting)'
<1>1. CASE UNCHANGED vars
    BY <1>1, Zenon DEF vars, renewal, metas, pool, Listing, Listed, Reporting, Answered, Place
<1>. QED
    BY <1>1, ListingStep, ReportingStep, Zenon

\* However often renewToken parses the command again in the middle of initFileMetadata, each
\* source location is listed as often as it occurs, or lost because its metadata were refused.
THEOREM LocationsListedOnce == Spec => []ListedOnce
<1>1. Listing /\ Reporting => ListedOnce
    BY ListingMeans
<1>. QED
    BY <1>1, InitReporting, ReportingInductive, Invariance, PTL DEF Spec

\* When execute returns, the transfer of each listed file, large or small, has ended with an
\* outcome of its own: none was left out, or left with the outcome of an expired token.
THEOREM FilesReported == Spec => []EveryFileReported
<1>1. Listing /\ Reporting => EveryFileReported
    BY ReportingMeans
<1>. QED
    BY <1>1, InitReporting, ReportingInductive, Invariance, PTL DEF Spec

====
