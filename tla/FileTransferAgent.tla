------------------------- MODULE FileTransferAgent -------------------------
(***************************************************************************)
(* FileTransferAgent: a sequence of put and get commands on one agent.     *)
(* Each is parsed by the server, which also hands out a token for the      *)
(* storage service; large files are transferred one after the other, small *)
(* ones on a thread pool.  Transfers whose token has expired are repeated  *)
(* after renewToken, which parses the command again.                       *)
(*                                                                         *)
(* A token is the time at which it was issued.  Parsing is that of         *)
(* StatementPutGet; a source location stands for the one file it names.    *)
(* Clients and result sets are numbered in the order of their creation.    *)
(***************************************************************************)
EXTENDS Integers, Sequences, FiniteSets

CONSTANTS
    N,              \* response.parallel
    Large, Small,   \* files above and up to DATA_SIZE_THRESHOLD
    Commands,       \* [kind, files, supported]: what the user may ask for
    MaxCommands,    \* bound on the commands of one agent
    MaxFiles,       \* bound on the files with which a command is started
    Lifetime,       \* how long a token is valid
    Recent,         \* the ten minutes of renewToken
    Epoch, MaxTime, \* the clock's range; unix time is far from 0
    Outcomes,       \* the answers of the storage service that end a transfer
    Faults          \* subset of {"parse", "list", "mkdir", "upload"}: what may fail locally

ASSUME AgentAssumption ==
    /\ N \in Nat \ {0} /\ Large \cap Small = {} /\ MaxCommands \in Nat /\ MaxFiles \in Nat
    /\ \A c \in Commands :
        /\ c.kind \in {"UPLOAD", "DOWNLOAD"} /\ c.supported \in BOOLEAN
        /\ c.files \in Seq(Large \cup Small)
    /\ Recent \in Nat /\ Lifetime \in Nat /\ Epoch \in Nat /\ MaxTime \in Nat
    /\ Recent < Lifetime /\ Recent < Epoch
    /\ Outcomes \subseteq {"SUCCESS", "FAILED", "SKIP_UPLOAD_FILE"}

Threads == 1..N

VARIABLES
    now,
    command,                    \* the command that is executed
    srcLocations, token,        \* of response
    encryptionMaterials,        \* how many response has
    m_storageClient,            \* number of a client, 0 for nullptr
    clients, deletedClients,    \* the token of each client; the deleted ones
    m_executionResults, results, deletedResults,
    deletedTwice, threw,        \* a second delete; execute has thrown an exception
    m_largeFilesMeta, m_smallFilesMeta, lost,
    outcomes,                   \* m_outcomes of the result set
    m_lastRefreshTokenSec, parseFailed,
    mpc, i, executed,           \* the calling thread
    phase, added, started, done,    \* the thread pool
    tpc, job, client, renewNow, \* the pool threads
    m_parallelTokRenewMutex     \* the thread that holds it, 0 if none

pool      == <<phase, added, started, done>>
workers   == <<tpc, job, client, renewNow, m_parallelTokRenewMutex>>
response  == <<srcLocations, encryptionMaterials, token>>
metas     == <<m_largeFilesMeta, m_smallFilesMeta, lost>>
ownership == <<deletedClients, m_executionResults, results, deletedResults, deletedTwice>>
renewal   ==
    <<srcLocations, encryptionMaterials, token, m_storageClient, clients, m_lastRefreshTokenSec,
      parseFailed>>
vars == <<now, command, renewal, ownership, threw, metas, outcomes, mpc, i, executed, pool, workers>>

Pool == INSTANCE JobPool

Expired(c) == now - clients[c] >= Lifetime
Files      == m_largeFilesMeta \o m_smallFilesMeta

Init ==
    /\ now = Epoch
    /\ command = [kind |-> "UNKNOWN", files |-> <<>>, supported |-> FALSE]
    /\ srcLocations = <<>> /\ encryptionMaterials = 0 /\ token = 0
    /\ m_storageClient = 0 /\ clients = <<>> /\ deletedClients = {}
    /\ m_executionResults = 0 /\ results = 0 /\ deletedResults = {}
    /\ deletedTwice = FALSE /\ threw = FALSE
    /\ m_largeFilesMeta = <<>> /\ m_smallFilesMeta = <<>> /\ lost = <<>>
    /\ outcomes = <<>>
    /\ m_lastRefreshTokenSec = 0 /\ parseFailed = FALSE
    /\ mpc = "idle" /\ i = 1 /\ executed = 0
    /\ Pool!Init
    /\ tpc = [t \in Threads |-> "idle"] /\ job = [t \in Threads |-> 0]
    /\ client = [t \in Threads |-> 0] /\ renewNow = [t \in Threads |-> 0]
    /\ m_parallelTokRenewMutex = 0

Tick ==
    /\ now < MaxTime /\ now' = now + 1
    /\ UNCHANGED <<command, renewal, ownership, threw, metas, outcomes, mpc, i, executed, pool, workers>>

(***************************************************************************)
(* execute                                                                 *)
(***************************************************************************)
\* reset deletes both objects and keeps the pointers.
Reset ==
    /\ deletedResults' = deletedResults \cup ({m_executionResults} \ {0})
    /\ deletedClients' = deletedClients \cup ({m_storageClient} \ {0})
    /\ deletedTwice' = (deletedTwice \/ m_executionResults \in deletedResults
                                     \/ m_storageClient \in deletedClients)
    /\ m_largeFilesMeta' = <<>> /\ m_smallFilesMeta' = <<>> /\ lost' = <<>>
    /\ outcomes' = <<>>

\* parsePutGetCommand appends the source locations to the response, and the encryption
\* materials: one for an upload, one for each file of a download.
Parse(c) ==
    /\ srcLocations' = srcLocations \o c.files
    /\ encryptionMaterials' =
        encryptionMaterials + (IF c.kind = "UPLOAD" THEN 1 ELSE Len(c.files))
    /\ token' = now

\* getClient: a new client with the token of the response.
GetClient ==
    /\ clients' = Append(clients, token')
    /\ m_storageClient' = Len(clients) + 1

Waiting == mpc \in {"idle", "returned"}     \* for the user

Throw == threw' = TRUE /\ mpc' = "idle" /\ UNCHANGED i

Execute(c) ==
    /\ Waiting /\ executed < MaxCommands /\ Len(srcLocations \o c.files) <= MaxFiles
    /\ executed' = executed + 1 /\ command' = c
    /\ Reset
    /\ \/ /\ Parse(c) /\ c.supported /\ GetClient /\ parseFailed' = FALSE
          /\ mpc' = "list" /\ i' = 1 /\ UNCHANGED threw
       \/ /\ Parse(c) /\ ~c.supported /\ Throw
          /\ UNCHANGED <<m_storageClient, clients, parseFailed>>
       \/ /\ "parse" \in Faults /\ Throw
          /\ UNCHANGED <<response, m_storageClient, clients, parseFailed>>
    /\ UNCHANGED <<now, m_executionResults, results, m_lastRefreshTokenSec, pool, workers>>

\* The destructor of the agent
Destroy ==
    /\ Waiting /\ mpc' = "destroyed"
    /\ Reset
    /\ UNCHANGED <<now, command, renewal, m_executionResults, results, threw, i, executed, pool, workers>>

\* Mutant: the client keeps the token that has expired.
RenewKeepsToken(at) ==
    /\ \/ Parse(command) /\ parseFailed' = FALSE
       \/ "parse" \in Faults /\ parseFailed' = TRUE /\ UNCHANGED response
    /\ clients' = Append(clients, clients[m_storageClient])
    /\ m_storageClient' = Len(clients) + 1
    /\ m_lastRefreshTokenSec' = at

\* renewToken when the last renewal is not recent; a failed parse goes unnoticed.
Renew(at) ==
    /\ \/ Parse(command) /\ parseFailed' = FALSE
       \/ "parse" \in Faults /\ parseFailed' = TRUE /\ UNCHANGED response
    /\ GetClient
    /\ m_lastRefreshTokenSec' = at

RenewedRecently == now - m_lastRefreshTokenSec <= Recent

\* renewToken called by the only thread
RenewToken == IF RenewedRecently THEN UNCHANGED renewal ELSE Renew(now)

AddMeta(f) ==
    /\ m_largeFilesMeta' = IF f \in Large THEN Append(m_largeFilesMeta, f) ELSE m_largeFilesMeta
    /\ m_smallFilesMeta' = IF f \in Small THEN Append(m_smallFilesMeta, f) ELSE m_smallFilesMeta

\* initFileMetadata, populateSrcLocUploadMetadata
ListUpload ==
    /\ mpc = "list" /\ command.kind = "UPLOAD" /\ i <= Len(srcLocations)
    /\ \/ AddMeta(srcLocations[i]) /\ i' = i + 1 /\ UNCHANGED <<mpc, threw>>
       \/ "list" \in Faults /\ Throw /\ UNCHANGED <<m_largeFilesMeta, m_smallFilesMeta>>
    /\ UNCHANGED <<now, command, renewal, ownership, lost, outcomes, executed, pool, workers>>

\* Mutant: the loop goes on to the next location after a renewal.
ListDownloadSkips ==
    /\ mpc = "list" /\ command.kind = "DOWNLOAD" /\ i <= Len(srcLocations)
    /\ i <= encryptionMaterials
    /\ \/ "SUCCESS" \in Outcomes /\ AddMeta(srcLocations[i]) /\ i' = i + 1
          /\ UNCHANGED <<renewal, lost>>
       \/ /\ "FAILED" \in Outcomes /\ lost' = Append(lost, srcLocations[i]) /\ i' = i + 1
          /\ UNCHANGED <<renewal, m_largeFilesMeta, m_smallFilesMeta>>
       \/ Expired(m_storageClient) /\ RenewToken /\ i' = i + 1 /\ UNCHANGED metas
    /\ UNCHANGED <<now, command, ownership, threw, outcomes, mpc, executed, pool, workers>>

\* initFileMetadata, populateSrcLocDownloadMetadata: a refusal loses the file.
ListDownload ==
    /\ mpc = "list" /\ command.kind = "DOWNLOAD" /\ i <= Len(srcLocations)
    /\ i <= encryptionMaterials
    /\ \/ "SUCCESS" \in Outcomes /\ AddMeta(srcLocations[i]) /\ i' = i + 1
          /\ UNCHANGED <<renewal, lost>>
       \/ /\ "FAILED" \in Outcomes /\ lost' = Append(lost, srcLocations[i]) /\ i' = i + 1
          /\ UNCHANGED <<renewal, m_largeFilesMeta, m_smallFilesMeta>>
       \/ Expired(m_storageClient) /\ RenewToken /\ UNCHANGED <<i, metas>>
    /\ UNCHANGED <<now, command, ownership, threw, outcomes, mpc, executed, pool, workers>>

\* encryptionMaterials.at(i) throws before the request is made, or the answer of the storage
\* service lacks the metadata of the encryption.
ListDownloadThrows ==
    /\ mpc = "list" /\ command.kind = "DOWNLOAD" /\ i <= Len(srcLocations)
    /\ i > encryptionMaterials \/ "list" \in Faults
    /\ Throw
    /\ UNCHANGED <<now, command, renewal, ownership, metas, outcomes, executed, pool, workers>>

\* Mutant: no result set is made when there is nothing to transfer.
StartTransferIfAny ==
    /\ mpc = "list" /\ i > Len(srcLocations)
    /\ IF Files = <<>> THEN UNCHANGED <<m_executionResults, results>>
       ELSE results' = results + 1 /\ m_executionResults' = results + 1
    /\ outcomes' = [k \in 1..Len(Files) |-> "none"]
    /\ \/ mpc' = "large" /\ i' = 1 /\ UNCHANGED threw
       \/ "mkdir" \in Faults /\ command.kind = "DOWNLOAD" /\ Throw
    /\ UNCHANGED <<now, command, renewal, deletedClients, deletedResults, deletedTwice, metas,
                   executed, pool, workers>>

\* upload or download up to the loop over the large files
StartTransfer ==
    /\ mpc = "list" /\ i > Len(srcLocations)
    /\ results' = results + 1 /\ m_executionResults' = results + 1
    /\ outcomes' = [k \in 1..Len(Files) |-> "none"]
    /\ \/ mpc' = "large" /\ i' = 1 /\ UNCHANGED threw
       \/ "mkdir" \in Faults /\ command.kind = "DOWNLOAD" /\ Throw
    /\ UNCHANGED <<now, command, renewal, deletedClients, deletedResults, deletedTwice, metas,
                   executed, pool, workers>>

\* What a transfer with client c may return.
Answers(c) == IF Expired(c) THEN Outcomes \cup {"TOKEN_EXPIRED"} ELSE Outcomes

\* One turn of the loop over the large files; an expired token repeats it.
TransferLarge ==
    /\ mpc = "large" /\ i <= Len(m_largeFilesMeta)
    /\ \E outcome \in Answers(m_storageClient) :
        /\ outcomes' = [outcomes EXCEPT ![i] = outcome]
        /\ IF outcome = "TOKEN_EXPIRED" THEN RenewToken /\ UNCHANGED i
                                        ELSE i' = i + 1 /\ UNCHANGED renewal
    /\ UNCHANGED <<now, command, ownership, threw, metas, mpc, executed, pool, workers>>

\* uploadSingleFile throws: the file cannot be compressed, or upload finds an object
\* without a digest.
UploadThrows ==
    /\ mpc = "large" /\ i <= Len(m_largeFilesMeta)
    /\ command.kind = "UPLOAD" /\ "upload" \in Faults /\ Throw
    /\ UNCHANGED <<now, command, renewal, ownership, metas, outcomes, executed, pool, workers>>

\* The loop is over; a pool is made if there are small files.
StartSmall ==
    /\ mpc = "large" /\ i > Len(m_largeFilesMeta)
    /\ mpc' = IF m_smallFilesMeta = <<>> THEN "returned" ELSE "add"
    /\ phase' = "open" /\ added' = 0 /\ started' = 0 /\ done' = {}
    /\ UNCHANGED <<now, command, renewal, ownership, threw, metas, outcomes, i, executed, workers>>

AddJob ==
    /\ mpc = "add" /\ added < Len(m_smallFilesMeta)
    /\ Pool!Add
    /\ UNCHANGED <<now, command, renewal, ownership, threw, metas, outcomes, mpc, i, executed, workers>>

WaitAll ==
    /\ mpc = "add" /\ added = Len(m_smallFilesMeta)
    /\ Pool!Wait /\ mpc' = "waiting"
    /\ UNCHANGED <<now, command, renewal, ownership, threw, metas, outcomes, i, executed, workers>>

\* WaitAll returns, the pool is destroyed and execute returns.
WaitAllReturns ==
    /\ mpc = "waiting"
    /\ Pool!WaitReturns /\ mpc' = "returned"
    /\ job' = [t \in Threads |-> 0] /\ client' = [t \in Threads |-> 0]
    /\ renewNow' = [t \in Threads |-> 0]
    /\ UNCHANGED <<now, command, renewal, ownership, threw, metas, outcomes, i, executed,
                   tpc, m_parallelTokRenewMutex>>

(***************************************************************************)
(* The jobs of uploadFilesInParallel and downloadFilesInParallel           *)
(***************************************************************************)
TakeJob(t) ==
    /\ tpc[t] = "idle"
    /\ Pool!Start
    /\ job' = [job EXCEPT ![t] = started + 1]
    /\ tpc' = [tpc EXCEPT ![t] = "call"]
    /\ UNCHANGED <<now, command, renewal, ownership, threw, metas, outcomes, mpc, i, executed,
                   client, renewNow, m_parallelTokRenewMutex>>

\* The argument m_storageClient is read without the mutex.
CallClient(t) ==
    /\ tpc[t] = "call"
    /\ client' = [client EXCEPT ![t] = m_storageClient]
    /\ tpc' = [tpc EXCEPT ![t] = "transfer"]
    /\ UNCHANGED <<now, command, renewal, ownership, threw, metas, outcomes, mpc, i, executed, pool,
                   job, renewNow, m_parallelTokRenewMutex>>

ResultIndex(t) == Len(m_largeFilesMeta) + job[t]

\* Mutant: an expired token ends the job like any other outcome.
TransferSmallNoRetry(t) ==
    /\ tpc[t] = "transfer"
    /\ \E outcome \in Answers(client[t]) :
        /\ outcomes' = [outcomes EXCEPT ![ResultIndex(t)] = outcome]
        /\ tpc' = [tpc EXCEPT ![t] = "idle"] /\ Pool!Finish(job[t])
    /\ UNCHANGED <<now, command, renewal, ownership, threw, metas, mpc, i, executed,
                   job, client, renewNow, m_parallelTokRenewMutex>>

\* uploadSingleFile or downloadSingleFile returns.
TransferSmall(t) ==
    /\ tpc[t] = "transfer"
    /\ \E outcome \in Answers(client[t]) :
        /\ outcomes' = [outcomes EXCEPT ![ResultIndex(t)] = outcome]
        /\ IF outcome = "TOKEN_EXPIRED"
           THEN tpc' = [tpc EXCEPT ![t] = "expired"] /\ UNCHANGED pool
           ELSE tpc' = [tpc EXCEPT ![t] = "idle"] /\ Pool!Finish(job[t])
    /\ UNCHANGED <<now, command, renewal, ownership, threw, metas, mpc, i, executed,
                   job, client, renewNow, m_parallelTokRenewMutex>>

\* uploadSingleFile throws on a pool thread, where nothing catches the exception: the
\* process is terminated.
JobThrows(t) ==
    /\ mpc # "terminated" /\ tpc[t] = "transfer"
    /\ command.kind = "UPLOAD" /\ "upload" \in Faults
    /\ mpc' = "terminated"
    /\ UNCHANGED <<now, command, renewal, ownership, threw, metas, outcomes, i, executed, pool, workers>>

\* Mutant: the mutex is not taken.
EnterRenewNoLock(t) ==
    /\ tpc[t] = "expired"
    /\ IF RenewedRecently
       THEN tpc' = [tpc EXCEPT ![t] = "call"] /\ UNCHANGED <<renewNow, m_parallelTokRenewMutex>>
       ELSE /\ tpc' = [tpc EXCEPT ![t] = "renew"]
            /\ renewNow' = [renewNow EXCEPT ![t] = now]
            /\ UNCHANGED m_parallelTokRenewMutex
    /\ UNCHANGED <<now, command, renewal, ownership, threw, metas, outcomes, mpc, i, executed, pool,
                   job, client>>

\* The mutex, the time and the test of renewToken
EnterRenew(t) ==
    /\ tpc[t] = "expired" /\ m_parallelTokRenewMutex = 0
    /\ IF RenewedRecently
       THEN tpc' = [tpc EXCEPT ![t] = "call"] /\ UNCHANGED <<renewNow, m_parallelTokRenewMutex>>
       ELSE /\ tpc' = [tpc EXCEPT ![t] = "renew"]
            /\ renewNow' = [renewNow EXCEPT ![t] = now]
            /\ m_parallelTokRenewMutex' = t
    /\ UNCHANGED <<now, command, renewal, ownership, threw, metas, outcomes, mpc, i, executed, pool,
                   job, client>>

\* Mutant: the client that is replaced is deleted.
RenewAndUnlockDeletes(t) ==
    /\ tpc[t] = "renew"
    /\ Renew(renewNow[t])
    /\ deletedClients' = deletedClients \cup {m_storageClient}
    /\ m_parallelTokRenewMutex' = 0
    /\ tpc' = [tpc EXCEPT ![t] = "call"]
    /\ UNCHANGED <<now, command, m_executionResults, results, deletedResults, deletedTwice, threw,
                   metas, outcomes, mpc, i, executed, pool, job, client, renewNow>>

\* Mutant: the mutex is not released after a renewal.
RenewNoUnlock(t) ==
    /\ tpc[t] = "renew"
    /\ Renew(renewNow[t])
    /\ tpc' = [tpc EXCEPT ![t] = "call"]
    /\ UNCHANGED <<now, command, ownership, threw, metas, outcomes, mpc, i, executed, pool,
                   job, client, renewNow, m_parallelTokRenewMutex>>

\* The rest of renewToken, the unlock and the next turn of the loop
RenewAndUnlock(t) ==
    /\ tpc[t] = "renew"
    /\ Renew(renewNow[t])
    /\ m_parallelTokRenewMutex' = 0
    /\ tpc' = [tpc EXCEPT ![t] = "call"]
    /\ UNCHANGED <<now, command, ownership, threw, metas, outcomes, mpc, i, executed, pool,
                   job, client, renewNow>>

(***************************************************************************)
(* The specification                                                       *)
(***************************************************************************)
Main ==
    \/ ListUpload \/ ListDownload \/ ListDownloadThrows
    \/ StartTransfer \/ TransferLarge \/ UploadThrows \/ StartSmall \/ AddJob \/ WaitAll \/ WaitAllReturns

\* A process that is terminated does nothing more.
Work(t) ==
    /\ mpc # "terminated"
    /\ \/ TakeJob(t) \/ CallClient(t) \/ TransferSmall(t) \/ EnterRenew(t) \/ RenewAndUnlock(t)

Next ==
    \/ Tick \/ Destroy \/ (\E c \in Commands : Execute(c))
    \/ Main \/ (\E t \in Threads : Work(t) \/ JobThrows(t))

Spec == Init /\ [][Next]_vars

\* Requests are answered and threads scheduled; nobody has to give commands.
FairSpec == Spec /\ WF_vars(Main) /\ \A t \in Threads : WF_vars(Work(t))

(***************************************************************************)
(* Properties                                                              *)
(***************************************************************************)
Count(f, s) == Cardinality({k \in DOMAIN s : s[k] = f})

\* initFileMetadata lists every source location exactly once, however often
\* the token expires meanwhile, but for those whose metadata were refused.
ListedOnce ==
    mpc = "list" /\ i > Len(srcLocations) =>
        \A f \in Large \cup Small : Count(f, Files \o lost) = Count(f, srcLocations)

\* When execute returns, every file of the result set has the outcome of a
\* transfer that was not cut short by an expired token.
EveryFileReported ==
    mpc = "returned" => DOMAIN outcomes = DOMAIN Files /\ \A k \in DOMAIN outcomes : outcomes[k] \in Outcomes

\* A transfer never uses a client that has been deleted.
ClientsAlive == \A t \in Threads : tpc[t] = "transfer" => client[t] \notin deletedClients

\* While the last renewal is recent, the client has a valid token, so that
\* renewToken may leave it alone; unless the server could not be asked.
RecentMeansValid ==
    m_storageClient # 0 /\ ~parseFailed /\ RenewedRecently => ~Expired(m_storageClient)

\* However many threads find the token expired, renewals are ten minutes apart.
RenewalsApart ==
    [][m_lastRefreshTokenSec' # m_lastRefreshTokenSec =>
        m_lastRefreshTokenSec' - m_lastRefreshTokenSec > Recent]_vars

\* reset deletes an object twice only if an execute has ended with an exception.
DeletedOnce == deletedTwice => threw

\* execute returns or throws, on whichever thread: the retries end once the token stops
\* expiring, unless the server could not be asked for a new one.
ExecuteReturns == mpc = "list" ~> Waiting \/ mpc = "terminated" \/ parseFailed

\* The result set lists the files of the command that was executed, once each.
ResultsAreCommands ==
    mpc = "returned" =>
        \A f \in Large \cup Small : Count(f, Files) = Count(f, command.files)

====
