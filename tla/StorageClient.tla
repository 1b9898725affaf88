--------------------------- MODULE StorageClient ---------------------------
(***************************************************************************)
(* One upload or download by SnowflakeS3Client: skipping a file that is    *)
(* already stored, transfers in one request, and transfers in parts on the *)
(* client's thread pool, with the StreamSplitter that cuts the input and   *)
(* the StreamAppender that puts the output together.  The input is read,   *)
(* and the output written, through the agent's CipherStreamBuf.            *)
(*                                                                         *)
(* The pool is represented by its promise (JobPool, which ThreadPool       *)
(* implements).  A byte is its place in the file that is transferred; the  *)
(* storage service is external and may refuse any request.                 *)
(***************************************************************************)
EXTENDS FiniteSets, CipherStreamBuf

CONSTANTS
    N,          \* m_parallel
    Threshold,  \* DATA_SIZE_THRESHOLD
    Chunk,      \* CHUNK_SIZE of updateFileDigest
    Wrap,       \* 2^32, where unsigned int wraps around
    Sizes,      \* the sizes of local files
    Errors,     \* what a request may fail with
    MaxRepeats  \* bound: requests repeated after part of an answer

Refused == {"FAILED", "TOKEN_EXPIRED"}     \* what handleError returns

ASSUME TransferAssumption ==
    /\ N \in Nat \ {0} /\ Threshold \in Nat \ {0} /\ Wrap \in Nat
    /\ 2 * Threshold <= Wrap /\ Chunk \in Nat \ {0} /\ MaxRepeats \in Nat
    /\ Sizes \subseteq Nat
    /\ Errors \subseteq Refused

Threads  == 1..N
NoByte   == -1   \* what memset leaves in a buffer
NoDigest == -2  \* an object that was stored without sfc-digest

VARIABLES
    op,                 \* "upload" or "download"
    large,              \* srcFileSize > DATA_SIZE_THRESHOLD
    plain,              \* srcFileToUploadSize
    size,               \* cipherStreamSize, or srcFileSize of a download
    stored,             \* the leading bytes that the object of that name has in
                        \* common with the file; -1 if there is no such object, or NoDigest
    mpc, outcome,       \* the calling thread and what it returns
    phase, added, started, done,    \* the thread pool
    tpc, job, part,     \* each pool thread, its job and part
    data, len,          \* the buffer of each pool thread
    pptr,               \* where the next byte received goes in it
    junk, repeats,      \* some of an answer that was not used is in a stream; how often
    cipher,             \* the stream through which the file is read or written
    cur,                \* m_currentPartIndex of the splitter or appender
    m_outcome,          \* the outcome of each part
    remote, object      \* parts received by the service, the object made of them

file    == <<op, large, plain, size, stored>>
pool    == <<phase, added, started, done>>
buffers == <<data, len, pptr, junk, repeats>>
stream  == <<cipher, cur>>
service == <<remote, object>>
vars    == <<file, mpc, outcome, pool, tpc, job, part, buffers, stream, m_outcome, service>>

Pool == INSTANCE JobPool

\* getTotalParts, partNum
PartsOf(n) == n \div Threshold + 1

Parts   == PartsOf(size)
PartIds == 0..(Parts - 1)

\* The parts one after the other.
Joined(parts) ==
    LET upTo[n \in 0..Parts] == IF n = 0 THEN <<>> ELSE upTo[n - 1] \o parts[n - 1]
    IN upTo[Parts]

\* The leading bytes that updateFileDigest hashes: a short read ends its loop.
HashedBytes(n) == n - (n % Chunk)

\* The byte range requested for part p, computed in unsigned int.
RangeOf(p) ==
    [first |-> (p * Threshold) % Wrap,
     last  |-> IF p = Parts - 1 THEN size - 1 ELSE ((p + 1) * Threshold - 1) % Wrap]

\* partSize: the last one is the difference of a long and an unsigned int, cast to int.
PartSize(p) ==
    IF p = Parts - 1 THEN (size - ((p * Threshold) % Wrap)) % Wrap ELSE Threshold

Init ==
    /\ op \in {"upload", "download"}
    /\ plain \in Sizes /\ size = CipherSize(plain)
    /\ large \in IF op = "upload" THEN BOOLEAN ELSE {size > Threshold}
    /\ stored \in IF op = "upload" THEN {NoDigest, -1, plain - 1, plain} ELSE {plain}
    /\ mpc = "start" /\ outcome = "none"
    /\ Pool!Init
    /\ tpc = [t \in Threads |-> "idle"]
    /\ job = [t \in Threads |-> 0] /\ part = [t \in Threads |-> 0]
    /\ data = [t \in Threads |-> [k \in 1..Threshold |-> NoByte]]
    /\ len = [t \in Threads |-> 0] /\ pptr = [t \in Threads |-> 0]
    /\ junk = FALSE /\ repeats = 0
    /\ cipher = NewStream(IF op = "upload" THEN "ENCRYPT" ELSE "DECRYPT")
    /\ cur = IF op = "upload" THEN -1 ELSE 0
    /\ m_outcome = [p \in PartIds |-> "none"]
    /\ remote = [p \in PartIds |-> <<>>] /\ object = <<>>

Return(result) == mpc' = "returned" /\ outcome' = result

(***************************************************************************)
(* The calling thread                                                      *)
(***************************************************************************)
\* upload: the stored object's sfc-digest equals that of the file.
UploadSkips ==
    /\ mpc = "start" /\ op = "upload"
    /\ stored >= HashedBytes(plain)
    /\ Return("SKIP_UPLOAD_FILE")
    /\ UNCHANGED <<file, pool, tpc, job, part, buffers, stream, m_outcome, service>>

\* The metadata of the stored object have no sfc-digest: at throws std::out_of_range.
UploadThrows ==
    /\ mpc = "start" /\ op = "upload"
    /\ stored = NoDigest
    /\ mpc' = "threw"
    /\ UNCHANGED <<file, outcome, pool, tpc, job, part, buffers, stream, m_outcome, service>>

\* The digests differ, there is no object, or the request for it failed.
UploadGoesOn ==
    /\ mpc = "start" /\ op = "upload"
    /\ (stored # NoDigest /\ stored < HashedBytes(plain)) \/ Errors # {}
    /\ mpc' = "transfer"
    /\ UNCHANGED <<file, outcome, pool, tpc, job, part, buffers, stream, m_outcome, service>>

\* The request reads cipherStreamSize bytes from the stream.
DoSingleUpload ==
    /\ mpc = "transfer" /\ ~large
    /\ \/ Return("SUCCESS") /\ \E r \in Reads(cipher, size, plain) : object' = r.bytes
       \/ \E e \in Errors : Return(e) /\ UNCHANGED object
    /\ UNCHANGED <<file, pool, tpc, job, part, buffers, stream, m_outcome, remote>>

\* doMultiPartUpload up to the jobs
CreateMultipartUpload ==
    /\ mpc = "transfer" /\ large
    /\ \/ mpc' = "add" /\ UNCHANGED outcome
       \/ \E e \in Errors : Return(e)
    /\ UNCHANGED <<file, pool, tpc, job, part, buffers, stream, m_outcome, service>>

\* The SDK repeats a request of which the answer broke off: what has come so far has been
\* written to the stream and is not flushed.
RepeatSingleRequest ==
    /\ mpc = "start" /\ op = "download" /\ ~large /\ repeats < MaxRepeats
    /\ repeats' = repeats + 1 /\ junk' = TRUE
    /\ \E k \in 1..(size - 1) : cipher' \in Writes(cipher, Bytes(0, k - 1), plain)
    /\ UNCHANGED <<file, mpc, outcome, pool, tpc, job, part, data, len, pptr, cur, m_outcome, service>>

\* A complete answer is written to the stream, which the SDK then flushes, also if it is an
\* error; only an error without a body leaves the stream alone.
DoSingleDownload ==
    /\ mpc = "start" /\ op = "download" /\ ~large
    /\ \/ /\ \E s \in Writes(cipher, Bytes(0, size - 1), plain) : cipher' = Sync(s, plain)
          /\ IF Terminated(cipher') THEN mpc' = "terminated" /\ UNCHANGED outcome
                                    ELSE Return("SUCCESS")
          /\ UNCHANGED junk
       \/ \E e \in Errors : Return(e) /\ UNCHANGED <<cipher, junk>>
       \/ /\ Errors # {} /\ junk' = TRUE
          /\ \E s \in Writes(cipher, <<NoByte>>, plain) : cipher' = Sync(s, plain)
          /\ mpc' = "terminated" /\ UNCHANGED outcome
    /\ UNCHANGED <<file, pool, tpc, job, part, data, len, pptr, repeats, cur, m_outcome, service>>

\* doMultiPartDownload up to the jobs
StartDownload ==
    /\ mpc = "start" /\ op = "download" /\ large
    /\ mpc' = "add"
    /\ UNCHANGED <<file, outcome, pool, tpc, job, part, buffers, stream, m_outcome, service>>

AddJob ==
    /\ mpc = "add" /\ added < Parts
    /\ Pool!Add
    /\ UNCHANGED <<file, mpc, outcome, tpc, job, part, buffers, stream, m_outcome, service>>

WaitAll ==
    /\ mpc = "add" /\ added = Parts
    /\ Pool!Wait
    /\ mpc' = "waiting"
    /\ UNCHANGED <<file, outcome, tpc, job, part, buffers, stream, m_outcome, service>>

Unsuccessful(p) == m_outcome[p] # "SUCCESS"

\* Mutant: only the last part is looked at.
CheckLastPart ==
    LET last == Parts - 1 IN
    IF Unsuccessful(last) THEN Return(m_outcome[last])
    ELSE IF op = "upload" THEN mpc' = "complete" /\ UNCHANGED outcome
    ELSE Return("SUCCESS")

\* The loop over the outcomes returns the first that is not SUCCESS.
CheckParts ==
    \/ \E p \in PartIds :
        /\ Unsuccessful(p) /\ \A q \in 0..(p - 1) : ~Unsuccessful(q)
        /\ Return(m_outcome[p])
    \/ /\ \A p \in PartIds : ~Unsuccessful(p)
       /\ IF op = "upload" THEN mpc' = "complete" /\ UNCHANGED outcome
                           ELSE Return("SUCCESS")

\* Mutant: does not wait for the jobs, but for the first failure.
WaitAllUntilFailure ==
    /\ mpc = "waiting"
    /\ \/ Pool!WaitReturns
       \/ \E p \in PartIds : m_outcome[p] \in Errors /\ UNCHANGED pool
    /\ CheckParts
    /\ UNCHANGED <<file, tpc, job, part, buffers, stream, m_outcome, service>>

WaitAllReturns ==
    /\ mpc = "waiting"
    /\ Pool!WaitReturns
    /\ CheckParts
    /\ UNCHANGED <<file, tpc, job, part, buffers, stream, m_outcome, service>>

CompleteMultipartUpload ==
    /\ mpc = "complete"
    /\ \/ Return("SUCCESS") /\ object' = Joined(remote)
       \/ \E e \in Errors : Return(e) /\ UNCHANGED object
    /\ UNCHANGED <<file, pool, tpc, job, part, buffers, stream, m_outcome, remote>>

(***************************************************************************)
(* The jobs                                                                *)
(***************************************************************************)
\* A pool thread calls its next job.
TakeJob(t) ==
    /\ tpc[t] = "idle"
    /\ Pool!Start
    /\ job' = [job EXCEPT ![t] = started + 1]
    /\ tpc' = [tpc EXCEPT ![t] = IF op = "upload" THEN "fill" ELSE "get"]
    /\ UNCHANGED <<file, mpc, outcome, part, buffers, stream, m_outcome, service>>

EndJob(t) ==
    /\ Pool!Finish(job[t])
    /\ tpc' = [tpc EXCEPT ![t] = "idle"]

\* The buffer after bytes have been stored in it from place k on; it takes no more than fit.
Filled(buffer, k, bytes) ==
    [j \in 1..Threshold |-> IF j - k \in DOMAIN bytes THEN bytes[j - k] ELSE buffer[j]]

Content(t) == SubSeq(data[t], 1, len[t])

\* Reads the next bytes into the buffer as part p.
ReadPart(t, p) ==
    /\ tpc[t] = "fill"
    /\ \E r \in Reads(cipher, Threshold, plain) :
        /\ data' = [data EXCEPT ![t] = Filled([k \in 1..Threshold |-> NoByte], 0, r.bytes)]
        /\ len' = [len EXCEPT ![t] = Len(r.bytes)]
        /\ cipher' = r.stream
    /\ cur' = cur + 1 /\ part' = [part EXCEPT ![t] = p]
    /\ tpc' = [tpc EXCEPT ![t] = "put"]
    /\ UNCHANGED <<file, mpc, outcome, pool, job, pptr, junk, repeats, m_outcome, service>>

\* Mutant: the part is numbered by the job, apart from the read.
FillAndGetBufByJob(t) == ReadPart(t, job[t] - 1)

\* Mutant: the number is read before it is advanced.
FillAndGetBufEarly(t) == ReadPart(t, cur)

\* Reads the next bytes and numbers them, under streamMutex.
FillAndGetBuf(t) == ReadPart(t, cur + 1)

\* uploadParts
UploadPart(t) ==
    /\ tpc[t] = "put"
    /\ \/ /\ m_outcome' = [m_outcome EXCEPT ![part[t]] = "SUCCESS"]
          /\ remote' = [remote EXCEPT ![part[t]] = Content(t)]
       \/ \E e \in Errors :
            m_outcome' = [m_outcome EXCEPT ![part[t]] = e] /\ UNCHANGED remote
    /\ EndJob(t)
    /\ UNCHANGED <<file, mpc, outcome, job, part, buffers, stream, object>>

\* What the service may answer: a range that is not one is refused or ignored.
Bodies(r) ==
    IF r.first <= r.last /\ r.first < size
    THEN {Bytes(r.first, MinOf(r.last, size - 1))}
    ELSE {Bytes(0, size - 1)}

Refusals(r) ==
    IF r.first <= r.last /\ r.first < size THEN Errors ELSE Errors \cup {"FAILED"}

\* The SDK repeats a request of which the answer broke off, or was an error that it retries:
\* what has come so far stays in the buffer.
RepeatRequest(t) ==
    /\ tpc[t] = "get" /\ repeats < MaxRepeats /\ pptr[t] < Threshold
    /\ repeats' = repeats + 1 /\ junk' = TRUE
    /\ data' = [data EXCEPT ![t] = Filled(@, pptr[t], <<NoByte>>)]
    /\ pptr' = [pptr EXCEPT ![t] = @ + 1]
    /\ UNCHANGED <<file, mpc, outcome, pool, tpc, job, part, len, stream, m_outcome, service>>

\* The request of a part and updateSize: the buffer keeps what does not come.
GetObject(t) ==
    LET p == job[t] - 1 IN
    /\ tpc[t] = "get"
    /\ part' = [part EXCEPT ![t] = p]
    /\ len' = [len EXCEPT ![t] = PartSize(p)] /\ pptr' = [pptr EXCEPT ![t] = 0]
    /\ \/ /\ \E body \in Bodies(RangeOf(p)) :
                data' = [data EXCEPT ![t] = Filled(@, pptr[t], body)]
          /\ m_outcome' = [m_outcome EXCEPT ![p] = "SUCCESS"]
          /\ tpc' = [tpc EXCEPT ![t] = "write"]
          /\ UNCHANGED pool
       \/ /\ \E e \in Refusals(RangeOf(p)) : m_outcome' = [m_outcome EXCEPT ![p] = e]
          /\ EndJob(t)
          /\ UNCHANGED data
    /\ UNCHANGED <<file, mpc, outcome, job, junk, repeats, stream, service>>

\* Writes the part to the stream, and flushes it if it is the last one.
WriteTo(t, last) ==
    /\ tpc[t] = "write"
    /\ \E s \in Writes(cipher, Content(t), plain) :
        cipher' = IF last THEN Sync(s, plain) ELSE s
    /\ mpc' = IF Terminated(cipher') THEN "terminated" ELSE mpc
    /\ EndJob(t)
    /\ UNCHANGED <<file, outcome, job, part, buffers, m_outcome, service>>

\* Mutant: a part is written when it arrives.
WritePartAtOnce(t) == cur' = cur + 1 /\ WriteTo(t, part[t] = Parts - 1)

\* Mutant: m_currentPartIndex is not advanced.
WritePartNoAdvance(t) == ~(part[t] > cur) /\ cur' = cur /\ WriteTo(t, part[t] = Parts - 1)

\* Mutant: every part is flushed.
WritePartFlushes(t) == ~(part[t] > cur) /\ cur' = cur + 1 /\ WriteTo(t, TRUE)

\* WritePartToOutputStream; every write broadcasts, so the wait is a guard.
WritePartToOutputStream(t) ==
    ~(part[t] > cur) /\ cur' = cur + 1 /\ WriteTo(t, part[t] = Parts - 1)

(***************************************************************************)
(* The specification                                                       *)
(***************************************************************************)
Main ==
    \/ UploadSkips \/ UploadThrows \/ UploadGoesOn \/ DoSingleUpload \/ CreateMultipartUpload
    \/ RepeatSingleRequest \/ DoSingleDownload \/ StartDownload \/ AddJob \/ WaitAll
    \/ WaitAllReturns \/ CompleteMultipartUpload

\* A process that is terminated does nothing more.
Work(t) ==
    /\ mpc # "terminated"
    /\ \/ TakeJob(t) \/ FillAndGetBuf(t) \/ UploadPart(t)
       \/ RepeatRequest(t) \/ GetObject(t) \/ WritePartToOutputStream(t)

Next == Main \/ \E t \in Threads : Work(t)

Spec == Init /\ [][Next]_vars

\* Requests end with an answer or time out, and threads are scheduled.
Fairness == WF_vars(Main) /\ \A t \in Threads : WF_vars(Work(t))

FairSpec == Spec /\ Fairness

(***************************************************************************)
(* Properties                                                              *)
(***************************************************************************)
Outcomes == {"SUCCESS", "FAILED", "TOKEN_EXPIRED", "SKIP_UPLOAD_FILE"}
Byte     == NoByte..(size - 1)

\* Every variable has its type; in particular every buffer holds at most
\* DATA_SIZE_THRESHOLD bytes and every part number has a context.
TypeOK ==
    /\ op \in {"upload", "download"} /\ large \in BOOLEAN
    /\ plain \in Sizes /\ size \in Nat /\ stored \in NoDigest..plain
    /\ mpc \in {"start", "transfer", "add", "waiting", "complete", "returned", "threw", "terminated"}
    /\ outcome \in Outcomes \cup {"none"}
    /\ phase \in {"open", "waiting", "waited"}
    /\ added \in 0..Parts /\ started \in 0..added /\ done \subseteq 1..started
    /\ tpc \in [Threads -> {"idle", "fill", "put", "get", "write"}]
    /\ job \in [Threads -> 0..Parts] /\ part \in [Threads -> PartIds]
    /\ data \in [Threads -> [1..Threshold -> Byte]]
    /\ len \in [Threads -> 0..Threshold] /\ pptr \in [Threads -> 0..Threshold]
    /\ junk \in BOOLEAN /\ repeats \in 0..MaxRepeats
    /\ cipher.read \in 0..plain /\ cur \in -1..Parts
    /\ m_outcome \in [PartIds -> Outcomes \cup {"none"}]
    /\ DOMAIN remote = PartIds

\* At every moment the local file of a download is a prefix of the file, unless the SDK had
\* to repeat a request (WritePartToOutputStream, CipherStreamBuf::overflow).
OutputIsPrefix == ~junk => cipher.dst = Bytes(0, Len(cipher.dst) - 1)

\* A transfer that reports success has moved the whole file, its bytes in order, whichever
\* threads read, sent, received and wrote its parts, however parts and batches overlap and
\* with the padding put on or taken off; unless the SDK had to repeat a request.
TransferredIsFile ==
    outcome = "SUCCESS" /\ ~junk =>
        IF op = "upload" THEN object = Bytes(0, size - 1) ELSE cipher.dst = Bytes(0, plain - 1)

\* The context of the cipher is used as OpenSSL asks for, and the process goes on, as long as
\* nothing but the object has been written to the stream: nothing is encrypted or decrypted
\* after finalize, and finalize comes after the last byte (CipherContext).
CipherEndsLast == mpc = "terminated" => junk

\* When upload or download returns, no job uses the splitter, the appender or
\* the contexts any more, which are local variables of the function.
NoUseAfterReturn == mpc = "returned" => \A t \in Threads : tpc[t] = "idle"

\* A part that was refused makes the transfer fail.
FailedPartReported ==
    mpc = "returned" /\ (\E p \in PartIds : m_outcome[p] \in Refused) =>
        outcome \in Refused

\* A job of a download waits for a part that was refused and will not be written.
Blocked ==
    \E t \in Threads, p \in PartIds :
        tpc[t] = "write" /\ p < part[t] /\ m_outcome[p] \in Refused

\* A transfer returns or throws, unless a later part of a download has arrived when an
\* earlier one is refused, or the process was terminated.
ReturnsOrBlocked == <>(mpc \in {"returned", "threw", "terminated"} \/ Blocked)

\* A file is skipped only if the stored object has the same content.
SkippedIsStored == outcome = "SKIP_UPLOAD_FILE" => stored = plain

====
