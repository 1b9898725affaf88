------------------------ MODULE StorageClientBytes ------------------------
(***************************************************************************)
(* The bytes of a transfer, for any number of threads, sizes and errors:   *)
(* an object is the encrypted file, and a file the decrypted object, when  *)
(* upload or download reports success.                                     *)
(***************************************************************************)
EXTENDS StorageClientProofs

(***************************************************************************)
(* The inductive invariant, together with IInv                             *)
(***************************************************************************)
\* The bytes of part p.
PartBytes(p) == Run(p * Threshold, MinOf((p + 1) * Threshold, size))

\* The file, the outcome and the pool
Known ==
    /\ large \in BOOLEAN /\ plain \in Sizes /\ size = CipherSize(plain) /\ stored \in NoDigest..plain
    /\ outcome \in Outcomes \cup {"none"} /\ (outcome # "none" => mpc = "returned")
    /\ mpc \in {"transfer", "complete"} => op = "upload"
    /\ mpc = "terminated" => op = "download"
    /\ phase \in {"open", "waiting", "waited"}

\* The buffers of the pool threads, and the parts at the service
Buffered ==
    /\ job \in [Threads -> 0..Parts] /\ part \in [Threads -> PartIds]
    /\ data \in [Threads -> [1..Threshold -> Byte]]
    /\ len \in [Threads -> 0..Threshold] /\ pptr \in [Threads -> 0..Threshold]
    /\ junk \in BOOLEAN /\ repeats \in 0..MaxRepeats
    /\ remote \in [PartIds -> Seq(Int)]

\* The stream; that of an upload has been read up to the splitter's place.
Streamed ==
    /\ cipher.read \in 0..plain /\ HasRead(cipher, cipher.read)
    /\ op = "upload" => Encrypts(cipher, MinOf((cur + 1) * Threshold, size), plain)

Typed == Known /\ Buffered /\ Streamed

\* Every part that is being sent, or has been, is its part of the encrypted file.
Sent ==
    op = "upload" =>
        /\ \A t \in Threads : tpc[t] = "put" => Content(t) = PartBytes(part[t])
        /\ \A p \in PartIds : m_outcome[p] = "SUCCESS" => remote[p] = PartBytes(p)
        /\ outcome = "SUCCESS" => object = Run(0, size)

\* Every part that is about to be written is its part of the encrypted file.
Fetched ==
    op = "download" /\ ~junk =>
        \A t \in Threads :
            pptr[t] = 0 /\ (tpc[t] = "write" => Content(t) = PartBytes(part[t]))

\* The parts below cur have been written, and all of them once the transfer has succeeded;
\* no part that has arrived is left out.
Placed ==
    op = "download" /\ ~junk =>
        /\ mpc # "terminated"
        /\ \A p \in PartIds : m_outcome[p] = "SUCCESS" /\ p + 1 \in done => p < cur
        /\ cur # Parts /\ outcome # "SUCCESS" => Decrypts(cipher, cur * Threshold, plain)
        /\ cur = Parts \/ outcome = "SUCCESS" => cipher.dst = Run(0, plain)

\* No file is so large that unsigned int arithmetic wraps around (2^32 bytes).
SmallFiles == \A n \in Sizes : CipherSize(n) < Wrap

(***************************************************************************)
(* Sizes and places of parts                                               *)
(***************************************************************************)
\* Products grow with their factors.
LEMMA Monotone ==
    ASSUME NEW p \in Nat, NEW q \in Nat, NEW d \in Nat, p <= q
    PROVE  p * d <= q * d /\ p * d \in Nat /\ q * d \in Nat
<1>1. PICK k \in Nat : q = p + k
    <2>1. q - p \in Nat /\ q = p + (q - p)
        OBVIOUS
    <2>. QED
        BY <2>1, Zenon
<1>2. q * d = p * d + k * d /\ k * d \in Nat /\ p * d \in Nat
    BY <1>1
<1>. QED
    BY <1>2

\* The last part begins within the file and ends it.
LEMMA PartsCover ==
    ASSUME size \in Nat
    PROVE  /\ Parts \in Nat \ {0} /\ (Parts - 1) * Threshold \in Nat
           /\ (Parts - 1) * Threshold <= size
           /\ size < (Parts - 1) * Threshold + Threshold
<1>1. Threshold \in Nat \ {0}
    BY TransferAssumption
<1>2. /\ size \div Threshold \in Nat /\ size % Threshold \in 0..(Threshold - 1)
      /\ size = Threshold * (size \div Threshold) + (size % Threshold)
    BY <1>1, DivMod, Zenon
<1>3. PICK q \in Nat : q = size \div Threshold
    BY <1>2, Zenon
<1>4. Parts = q + 1
    BY <1>3, Zenon DEF Parts, PartsOf
<1>5. Parts - 1 = q
    BY <1>4
<1>6. q * Threshold \in Nat /\ Threshold * q = q * Threshold
    BY <1>1, Multiple
<1>7. q * Threshold <= size /\ size < q * Threshold + Threshold
    BY <1>1, <1>2, <1>3, <1>6
<1>. QED
    BY <1>4, <1>5, <1>6, <1>7

\* Where a part begins and ends.
LEMMA PartPlace ==
    ASSUME size \in Nat, NEW p \in PartIds
    PROVE  /\ p \in Nat /\ p * Threshold \in Nat /\ p * Threshold <= size
           /\ (p + 1) * Threshold = p * Threshold + Threshold
           /\ p # Parts - 1 => (p + 1) * Threshold <= size
           /\ p = Parts - 1 => size < (p + 1) * Threshold
<1>1. /\ Parts \in Nat \ {0} /\ (Parts - 1) * Threshold \in Nat
      /\ (Parts - 1) * Threshold <= size
      /\ size < (Parts - 1) * Threshold + Threshold
    BY PartsCover
<1>2. Threshold \in Nat
    BY TransferAssumption
<1>3. PICK l \in Nat : l = Parts - 1
    BY <1>1
<1>4. p \in Nat /\ p <= l /\ (p # l => p + 1 <= l) /\ p + 1 \in Nat
    BY <1>1, <1>3 DEF PartIds
<1>5. p * Threshold <= l * Threshold /\ p * Threshold \in Nat
    BY <1>2, <1>3, <1>4, Monotone
<1>6. p # l => (p + 1) * Threshold <= l * Threshold
    BY <1>2, <1>3, <1>4, Monotone
<1>7. (p + 1) * Threshold = p * Threshold + Threshold
    BY <1>2, <1>4
<1>8. l * Threshold \in Nat /\ l * Threshold <= size /\ size < l * Threshold + Threshold
    BY <1>1, <1>3, Zenon
<1>9. p * Threshold <= size
    BY <1>5, <1>8
<1>10. p # l => (p + 1) * Threshold <= size
    <2>1. SUFFICES ASSUME p # l PROVE (p + 1) * Threshold <= size
        OBVIOUS
    <2>2. p * Threshold + Threshold <= l * Threshold
        BY <1>6, <1>7, <2>1, Zenon
    <2>3. p * Threshold + Threshold <= size
        BY <1>2, <1>5, <1>8, <2>2
    <2>. QED
        BY <1>7, <2>3, Zenon
<1>11. p = l => size < (p + 1) * Threshold
    BY <1>7, <1>8, Zenon
<1>. QED
    BY <1>3, <1>4, <1>5, <1>7, <1>9, <1>10, <1>11, Zenon

\* The encrypted file is larger than the file.
LEMMA SizeIs ==
    ASSUME plain \in Sizes, size = CipherSize(plain)
    PROVE  plain \in Nat /\ size \in Nat /\ plain < size
BY TransferAssumption, SizePadded

\* A remainder is what is left over, and a small number its own.
LEMMA Remainder ==
    ASSUME NEW d \in Nat \ {0}, NEW q \in Nat, NEW r \in Nat, r < d
    PROVE  (q * d + r) % d = r
<1>. DEFINE x == q * d + r
<1>1. x \in Nat /\ q * d \in Nat
    BY Multiple
<1>2. PICK y \in Nat, z \in Nat : y = x \div d /\ z = x % d /\ z < d /\ x = y * d + z
    <2>1. x \div d \in Nat /\ x % d \in 0..(d - 1) /\ x = d * (x \div d) + (x % d)
        <3>. HIDE DEF x
        <3>. QED
            BY <1>1, DivMod, Zenon
    <2>2. x % d \in Nat /\ x % d < d
        <3>. HIDE DEF x
        <3>. QED
            BY <2>1
    <2>3. d * (x \div d) = (x \div d) * d
        BY <2>1, Multiple
    <2>. QED
        BY <2>1, <2>2, <2>3, Zenon
<1>3. q * d + r = y * d + z
    BY <1>2, Zenon
<1>4. y = q
    <2>1. CASE y < q
        <3>1. (y + 1) * d <= q * d
            BY <2>1, Monotone
        <3>2. (y + 1) * d = y * d + d /\ y * d \in Nat
            BY Multiple
        <3>. QED
            BY <1>1, <1>2, <1>3, <3>1, <3>2
    <2>2. CASE q < y
        <3>1. (q + 1) * d <= y * d
            BY <2>2, Monotone
        <3>2. (q + 1) * d = q * d + d /\ y * d \in Nat
            BY Multiple
        <3>. QED
            BY <1>1, <1>2, <1>3, <3>1, <3>2
    <2>. QED
        BY <2>1, <2>2
<1>5. z = r
    BY <1>1, <1>3, <1>4
<1>. QED
    BY <1>2, <1>5, Zenon

\* Whatever wraps around, a part fits into a buffer.
LEMMA PartSizeFits ==
    ASSUME size \in Nat, NEW p \in PartIds
    PROVE  PartSize(p) \in 0..Threshold
<1>1. Threshold \in Nat \ {0} /\ Wrap \in Nat \ {0} /\ Threshold < Wrap
    BY TransferAssumption
<1>2. CASE p # Parts - 1
    BY <1>1, <1>2 DEF PartSize
<1>3. CASE p = Parts - 1
    <2>1. PICK x \in Nat : x = p * Threshold /\ x <= size /\ size < x + Threshold
        BY <1>3, PartPlace, Zenon
    <2>2. PICK q \in Nat, r \in Nat : r = x % Wrap /\ r < Wrap /\ x = q * Wrap + r
        <3>1. x \div Wrap \in Nat /\ x % Wrap \in 0..(Wrap - 1) /\ x = Wrap * (x \div Wrap) + (x % Wrap)
            BY <1>1, DivMod, Zenon
        <3>2. Wrap * (x \div Wrap) = (x \div Wrap) * Wrap
            BY <1>1, <3>1, Multiple
        <3>3. x % Wrap \in Nat /\ x % Wrap < Wrap
            BY <1>1, <3>1
        <3>. QED
            BY <3>1, <3>2, <3>3, Zenon
    <2>3. PICK k \in Nat : k = size - x /\ k < Threshold /\ k < Wrap
        BY <1>1, <2>1
    <2>4. size - r = q * Wrap + k
        BY <1>1, <2>2, <2>3
    <2>5. (q * Wrap + k) % Wrap = k
        BY <1>1, <2>3, Remainder
    <2>6. PartSize(p) = (size - r) % Wrap
        BY <1>3, <2>1, <2>2, Zenon DEF PartSize
    <2>. QED
        BY <1>1, <2>3, <2>4, <2>5, <2>6, SMTT(30)
<1>. QED
    BY <1>2, <1>3, Zenon

(***************************************************************************)
(* What the steps do to the file, the buffers and the stream               *)
(***************************************************************************)
\* No step changes the file that is transferred.
LEMMA FileKept ==
    ASSUME Next PROVE UNCHANGED <<op, large, plain, size, stored>>
<1>1. CASE Main
    BY <1>1, Zenon
    DEF Main, UploadSkips, UploadThrows, UploadGoesOn, DoSingleUpload, CreateMultipartUpload,
        RepeatSingleRequest, DoSingleDownload, StartDownload, AddJob, WaitAll, WaitAllReturns,
        CompleteMultipartUpload, file
<1>2. ASSUME NEW t \in Threads, Work(t) PROVE UNCHANGED file
    BY <1>2, Zenon
    DEF Work, TakeJob, FillAndGetBuf, ReadPart, UploadPart, RepeatRequest, GetObject,
        WritePartToOutputStream, WriteTo
<1>. QED
    BY <1>1, <1>2, Zenon DEF Next, file

\* A step that touches neither the buffers nor the stream.
Aside == UNCHANGED <<part, data, len, pptr, junk, repeats, cipher, cur, remote>>

\* The result of a request that is not made in parts.
Downloads ==
    /\ mpc = "start" /\ op = "download" /\ ~large
    /\ UNCHANGED <<part, data, len, pptr, cur, remote, object, phase, done, job, tpc, m_outcome>>
    /\ repeats' = repeats \/ (repeats < MaxRepeats /\ repeats' = repeats + 1)
    /\ \/ /\ \E s \in Writes(cipher, Bytes(0, size - 1), plain) : cipher' = Sync(s, plain)
          /\ IF Terminated(cipher') THEN mpc' = "terminated" /\ outcome' = outcome
                                    ELSE mpc' = "returned" /\ outcome' = "SUCCESS"
          /\ junk' = junk
       \/ mpc' = "returned" /\ outcome' \in Refused /\ cipher' = cipher /\ junk' = junk
       \/ /\ junk' = TRUE /\ mpc' = "terminated" /\ outcome' = outcome
          /\ \E s \in Writes(cipher, <<NoByte>>, plain) : cipher' = Sync(s, plain)
       \/ /\ junk' = TRUE /\ mpc' = mpc /\ outcome' = outcome
          /\ \E k \in 1..(size - 1) : cipher' \in Writes(cipher, Bytes(0, k - 1), plain)

\* Only doSingleDownload uses the stream in the calling thread.
LEMMA MainAside ==
    ASSUME Main PROVE job' = job /\ (Aside \/ Downloads)
<1>1. CASE \/ UploadSkips \/ UploadThrows \/ UploadGoesOn \/ DoSingleUpload \/ CreateMultipartUpload
           \/ StartDownload \/ AddJob \/ WaitAll \/ WaitAllReturns \/ CompleteMultipartUpload
    BY <1>1, Zenon
    DEF UploadSkips, UploadThrows, UploadGoesOn, DoSingleUpload, CreateMultipartUpload,
        StartDownload, AddJob, WaitAll, WaitAllReturns, CompleteMultipartUpload,
        buffers, stream, service, Aside
<1>2. CASE DoSingleDownload
    BY <1>2, TransferAssumption, Zenon DEF DoSingleDownload, Return, pool, service, Downloads
<1>3. CASE RepeatSingleRequest
    BY <1>3, Zenon DEF RepeatSingleRequest, pool, service, Downloads
<1>. QED
    BY <1>1, <1>2, <1>3, Zenon DEF Main

\* What an outcome may be.
LEMMA OutcomeStep ==
    ASSUME IInv, Typed, Next
    PROVE  /\ outcome' \in Outcomes \cup {"none"}
           /\ outcome' # "none" => mpc' = "returned"
           /\ phase' \in {"open", "waiting", "waited"}
<1>0. /\ outcome \in Outcomes \cup {"none"} /\ (outcome # "none" => mpc = "returned")
      /\ phase \in {"open", "waiting", "waited"}
      /\ m_outcome \in [PartIds -> {"none", "SUCCESS"} \cup Refused]
    BY Zenon DEF Typed, Known, Streamed, IInv, Types
<1>1. Refused \subseteq Outcomes \ {"SUCCESS"} /\ "SUCCESS" \in Outcomes /\ "SKIP_UPLOAD_FILE" \in Outcomes
    BY DEF Refused, Outcomes
<1>2. CASE \/ UploadSkips \/ UploadThrows \/ UploadGoesOn \/ DoSingleUpload \/ CreateMultipartUpload
           \/ StartDownload
    <2>1. outcome = "none"
        <3>1. mpc \in {"start", "transfer"}
            BY <1>2, Zenon
            DEF UploadSkips, UploadThrows, UploadGoesOn, DoSingleUpload, CreateMultipartUpload, StartDownload
        <3>. QED
            BY <1>0, <3>1
    <2>. QED
        BY <1>0, <1>1, <1>2, <2>1, TransferAssumption, Zenon
        DEF UploadSkips, UploadThrows, UploadGoesOn, DoSingleUpload, CreateMultipartUpload, StartDownload,
            Return, pool
<1>3. CASE RepeatSingleRequest \/ DoSingleDownload
    <2>1. phase' = phase /\ Downloads
        BY <1>3, TransferAssumption, Zenon
        DEF RepeatSingleRequest, DoSingleDownload, Return, pool, service, Downloads
    <2>. QED
        BY <1>0, <1>1, <2>1 DEF Downloads
<1>4. CASE AddJob \/ WaitAll
    BY <1>0, <1>4 DEF AddJob, WaitAll, Pool!Add, Pool!Wait
<1>5. CASE WaitAllReturns
    <2>1. mpc = "waiting" /\ CheckParts /\ phase' = "waited"
        BY <1>5, Zenon DEF WaitAllReturns, Pool!WaitReturns
    <2>2. outcome = "none"
        BY <1>0, <2>1
    <2>3. outcome' \in Outcomes \cup {"none"}
        BY <1>0, <1>1, <2>1, <2>2, Zenon DEF CheckParts, Return, Unsuccessful
    <2>4. outcome' # "none" => mpc' = "returned"
        BY <2>1, <2>2, Zenon DEF CheckParts, Return
    <2>. QED
        BY <2>1, <2>3, <2>4, Zenon
<1>6. CASE CompleteMultipartUpload
    BY <1>0, <1>1, <1>6, TransferAssumption, Zenon DEF CompleteMultipartUpload, Return, pool
<1>7. ASSUME NEW t \in Threads, Work(t)
      PROVE  /\ outcome' \in Outcomes \cup {"none"} /\ (outcome' # "none" => mpc' = "returned")
             /\ phase' \in {"open", "waiting", "waited"}
    <2>1. outcome' = outcome /\ mpc # "returned"
        BY <1>7, WorkCases, WorkInTime, Zenon
    <2>2. phase' = phase
        BY <1>7, Zenon
        DEF Work, TakeJob, FillAndGetBuf, ReadPart, UploadPart, RepeatRequest, GetObject,
            WritePartToOutputStream, WriteTo, EndJob, Pool!Start, Pool!Finish, pool
    <2>. QED
        BY <1>0, <2>1, <2>2, Zenon
<1>. QED
    BY <1>2, <1>3, <1>4, <1>5, <1>6, <1>7, Zenon DEF Next, Main

\* A job that is not done has its part.
LEMMA JobPart ==
    ASSUME IInv, NEW t \in Threads, tpc[t] # "idle"
    PROVE  job[t] \in Nat /\ job[t] - 1 \in PartIds
<1>1. /\ job[t] \in 1..started /\ started \in Nat /\ added \in Nat /\ started <= added
      /\ added <= Parts /\ size \in Nat
    BY Zenon DEF IInv, Types, Jobs
<1>. QED
    BY <1>1, PartsType DEF PartIds

\* Where the splitter or the appender is.
LEMMA Current ==
    ASSUME IInv
    PROVE  cur \in -1..Parts /\ (op = "upload" => cur \in -1..(Parts - 1))
<1>0. /\ Parts \in Nat \ {0} /\ cur \in Int /\ started \in Nat /\ added \in Nat
      /\ started <= added /\ added <= Parts /\ done \subseteq 1..started
      /\ op \in {"upload", "download"}
    BY PartsType, Zenon DEF IInv, Types
<1>1. CASE op = "upload"
    <2>1. cur >= -1 /\ Cardinality(Fillers) = started - (cur + 1)
        BY <1>1, Zenon DEF IInv, Splitter
    <2>. QED
        BY <1>0, <2>1, FillersFinite
<1>2. CASE op = "download"
    <2>1. cur >= 0 /\ \A p \in 0..(cur - 1) : p + 1 \in done
        BY <1>2, Zenon DEF IInv, Appender
    <2>2. CASE cur = 0
        BY <1>0, <1>2, <2>2
    <2>3. CASE cur # 0
        <3>1. cur - 1 \in 0..(cur - 1) /\ (cur - 1) + 1 = cur
            BY <1>0, <2>1, <2>3
        <3>2. cur \in done
            BY <2>1, <3>1, Zenon
        <3>. QED
            BY <1>0, <1>2, <3>2
    <2>. QED
        BY <2>2, <2>3, Zenon
<1>. QED
    BY <1>0, <1>1, <1>2, Zenon

\* The buffer holds what is stored in it from its start on.
LEMMA FilledStart ==
    ASSUME NEW buffer \in [1..Threshold -> Int], NEW a \in Nat, NEW b \in Nat, a <= b,
           NEW l \in Nat, l <= Threshold, l <= b - a
    PROVE  SubSeq(Filled(buffer, 0, Run(a, b)), 1, l) = Run(a, a + l)
<1>0. Threshold \in Nat
    BY TransferAssumption
<1>. DEFINE f == Filled(buffer, 0, Run(a, b))
<1>1. DOMAIN Run(a, b) = 1..(b - a) /\ \A k \in 1..(b - a) : Run(a, b)[k] = a + k - 1
    BY DEF Run, Bytes
<1>2. f = [k \in 1..Threshold |-> IF k - 0 \in 1..(b - a) THEN Run(a, b)[k - 0] ELSE buffer[k]]
    BY <1>1, Zenon DEF Filled
<1>3. \A k \in 1..l : f[k] = a + k - 1
    BY <1>0, <1>1, <1>2
<1>4. f \in Seq(Int) /\ Len(f) = Threshold
    BY <1>0, <1>1, <1>2
<1>. HIDE DEF f
<1>5. SubSeq(f, 1, l) = [k \in 1..l |-> a + k - 1]
    BY <1>0, <1>3, <1>4
<1>6. Run(a, a + l) = [k \in 1..l |-> a + k - 1]
    BY DEF Run, Bytes
<1>. QED
    BY <1>5, <1>6, Zenon DEF f

\* What a buffer may hold after something has been stored in it.
LEMMA FilledType ==
    ASSUME NEW T, NEW buffer \in [1..Threshold -> T], NEW k \in Int, NEW bytes,
           \A i \in DOMAIN bytes : bytes[i] \in T
    PROVE  Filled(buffer, k, bytes) \in [1..Threshold -> T]
BY DEF Filled

\* Bytes of the encrypted file are bytes.
LEMMA RunByte ==
    ASSUME NEW a \in Nat, NEW b \in Nat, b <= size, size \in Nat
    PROVE  \A i \in DOMAIN Run(a, b) : Run(a, b)[i] \in Byte
BY DEF Run, Bytes, Byte, NoByte

\* The splitter reads the part it numbers.
LEMMA FillsPart ==
    ASSUME IInv, Typed, NEW t \in Threads, FillAndGetBuf(t)
    PROVE  /\ op = "upload" /\ cur + 1 \in PartIds
           /\ \E a, b \in Nat :
                /\ a <= b /\ b <= size /\ b - a <= Threshold /\ Run(a, b) = PartBytes(cur + 1)
                /\ data' = [data EXCEPT ![t] = Filled([k \in 1..Threshold |-> NoByte], 0, Run(a, b))]
                /\ len' = [len EXCEPT ![t] = b - a]
           /\ Encrypts(cipher', MinOf((cur' + 1) * Threshold, size), plain)
<1>0. /\ op = "upload" /\ plain \in Sizes /\ size = CipherSize(plain) /\ op' = op /\ size' = size
      /\ cur' = cur + 1 /\ cur \in Int
      /\ Encrypts(cipher, MinOf((cur + 1) * Threshold, size), plain)
    <2>1. tpc[t] = "fill" /\ cur' = cur + 1 /\ op' = op /\ size' = size
        BY Zenon DEF FillAndGetBuf, ReadPart, file
    <2>2. op = "upload"
        BY <2>1 DEF IInv, Jobs
    <2>. QED
        BY <2>1, <2>2, Zenon DEF Typed, Known, Streamed, IInv, Types
<1>1. plain \in Nat /\ size \in Nat /\ Threshold \in Nat \ {0}
    BY <1>0, SizeIs, TransferAssumption
<1>2. cur + 1 \in PartIds
    <2>1. t \in Fillers
        BY Zenon DEF FillAndGetBuf, ReadPart, Fillers
    <2>2. Cardinality(Fillers) \in Nat /\ Cardinality(Fillers) # 0
        BY <2>1, FillersFinite, FS_EmptySet
    <2>3. /\ cur >= -1 /\ Cardinality(Fillers) = started - (cur + 1) /\ started \in Nat
          /\ added \in Nat /\ started <= added /\ added <= Parts
        BY <1>0, Zenon DEF IInv, Splitter, Types
    <2>. QED
        BY <1>0, <1>1, <2>2, <2>3, PartsType, SMTT(30) DEF PartIds
<1>3. PICK p \in PartIds : p = cur + 1
    BY <1>2, Zenon
<1>4. /\ p \in Nat /\ p * Threshold \in Nat /\ p * Threshold <= size
      /\ (p + 1) * Threshold = p * Threshold + Threshold
    BY <1>1, PartPlace, Zenon
<1>5. PICK a \in Nat : a = p * Threshold /\ a <= size /\ a = MinOf((cur + 1) * Threshold, size)
    BY <1>1, <1>3, <1>4 DEF MinOf
<1>6. PICK r, b :
        /\ Reads(cipher, Threshold, plain) = {r} /\ r.bytes = Run(a, b) /\ Encrypts(r.stream, b, plain)
        /\ b = MinOf(a + Threshold, CipherSize(plain))
    <2>1. Encrypts(cipher, a, plain) /\ Threshold \in Nat
        BY <1>0, <1>1, <1>5, SMTT(30)
    <2>. QED
        BY <1>1, <2>1, ReadsNextBytes, Zenon
<1>7. b \in Nat /\ a <= b /\ b <= size /\ b - a <= Threshold /\ b = MinOf((p + 1) * Threshold, size)
    BY <1>0, <1>1, <1>4, <1>5, <1>6, SMTT(30) DEF MinOf
<1>8. Run(a, b) = PartBytes(cur + 1)
    BY <1>3, <1>5, <1>7, Zenon DEF PartBytes
<1>9. Len(r.bytes) = b - a
    BY <1>6, <1>7, RunLen, Zenon
<1>10. /\ data' = [data EXCEPT ![t] = Filled([k \in 1..Threshold |-> NoByte], 0, Run(a, b))]
       /\ len' = [len EXCEPT ![t] = b - a] /\ cipher' = r.stream
    <2>1. \E x \in {r} :
            /\ data' = [data EXCEPT ![t] = Filled([k \in 1..Threshold |-> NoByte], 0, x.bytes)]
            /\ len' = [len EXCEPT ![t] = Len(x.bytes)]
            /\ cipher' = x.stream
        BY <1>6, Zenon DEF FillAndGetBuf, ReadPart
    <2>. QED
        BY <1>6, <1>9, <2>1, Zenon
<1>11. Encrypts(cipher', MinOf((cur' + 1) * Threshold, size), plain)
    BY <1>0, <1>3, <1>6, <1>7, <1>10, Zenon
<1>. QED
    BY <1>0, <1>2, <1>7, <1>8, <1>10, <1>11, ZenonT(30)

\* An answer is a run of bytes of the object.
LEMMA BodyType ==
    ASSUME size \in Nat, NEW p \in PartIds
    PROVE  \E a, b \in Nat : a <= b /\ b <= size /\ Bodies(RangeOf(p)) = {Run(a, b)}
<1>0. Threshold \in Nat \ {0} /\ Wrap \in Nat \ {0} /\ Parts \in Nat \ {0}
    BY TransferAssumption, PartsType
<1>1. PICK r : r = RangeOf(p)
    OBVIOUS
<1>2. r.first \in Nat /\ r.last \in Int
    <2>0. p * Threshold \in Nat /\ (p + 1) * Threshold \in Nat
        BY <1>0 DEF PartIds
    <2>1. (p * Threshold) % Wrap \in Nat
        BY <1>0, <2>0, DivMod, SMTT(30)
    <2>2. ((p + 1) * Threshold - 1) % Wrap \in Int /\ size - 1 \in Int
        BY <1>0, <2>0
    <2>. QED
        BY <1>1, <2>1, <2>2 DEF RangeOf
<1>3. CASE r.first <= r.last /\ r.first < size
    <2>1. PICK b \in Nat : b = MinOf(r.last, size - 1) + 1 /\ r.first <= b /\ b <= size
        BY <1>2, <1>3 DEF MinOf
    <2>2. b - 1 = MinOf(r.last, size - 1)
        BY <1>2, <2>1 DEF MinOf
    <2>3. Bodies(r) = {Run(r.first, b)}
        BY <1>3, <2>2, Zenon DEF Bodies, Run
    <2>. QED
        BY <1>1, <1>2, <2>1, <2>3, Zenon
<1>4. CASE ~(r.first <= r.last /\ r.first < size)
    <2>1. Bodies(r) = {Run(0, size)}
        BY <1>4, Zenon DEF Bodies, Run
    <2>2. 0 \in Nat /\ 0 <= size /\ size <= size
        OBVIOUS
    <2>. QED
        BY <1>1, <2>1, <2>2, Zenon
<1>. QED
    BY <1>3, <1>4, Zenon

\* Below Wrap, the answer to the request of a part begins with the part, which is as long as
\* its buffer is said to be.
LEMMA BodyOfPart ==
    ASSUME size \in Nat, size < Wrap, NEW p \in PartIds
    PROVE  \E a, b, l \in Nat :
            /\ a <= b /\ Bodies(RangeOf(p)) = {Run(a, b)}
            /\ l = PartSize(p) /\ l <= Threshold /\ l <= b - a
            /\ Run(a, a + l) = PartBytes(p)
<1>0. Threshold \in Nat \ {0} /\ Wrap \in Nat \ {0} /\ Parts \in Nat \ {0} /\ Threshold < Wrap
    BY TransferAssumption, PartsType
<1>1. PICK x, y \in Nat :
        /\ x = p * Threshold /\ x <= size /\ y = (p + 1) * Threshold /\ y = x + Threshold
        /\ (p # Parts - 1 => y <= size) /\ (p = Parts - 1 => size < y)
    <2>1. p * Threshold + Threshold \in Nat /\ p * Threshold \in Nat
        BY <1>0, PartPlace
    <2>. QED
        BY <2>1, PartPlace, Zenon
<1>2. x % Wrap = x /\ (p # Parts - 1 => (y - 1) % Wrap = y - 1)
    <2>1. \A k \in Nat : k < Wrap => k % Wrap = k
        <3>1. ASSUME NEW k \in Nat, k < Wrap PROVE k % Wrap = k
            <4>1. (0 * Wrap + k) % Wrap = k
                BY <1>0, <3>1, Remainder
            <4>2. 0 * Wrap + k = k
                BY <1>0
            <4>. QED
                BY <4>1, <4>2, Zenon
        <3>. QED
            BY <3>1, Zenon
    <2>2. x < Wrap
        BY <1>0, <1>1
    <2>3. p # Parts - 1 => y - 1 \in Nat /\ y - 1 < Wrap
        BY <1>0, <1>1
    <2>. QED
        BY <2>1, <2>2, <2>3, Zenon
<1>. DEFINE e == IF p = Parts - 1 THEN size ELSE y
<1>3. e \in Nat /\ e = MinOf((p + 1) * Threshold, size) /\ x <= e /\ e - x <= Threshold /\ e <= size
    BY <1>0, <1>1 DEF MinOf
<1>4. PartBytes(p) = Run(x, e)
    BY <1>1, <1>3, Zenon DEF PartBytes
<1>5. PartSize(p) = e - x
    <2>1. CASE p = Parts - 1
        <3>1. PartSize(p) = (size - x) % Wrap
            BY <1>1, <1>2, <2>1, Zenon DEF PartSize
        <3>2. PICK k \in Nat : k = size - x /\ k < Wrap
            BY <1>0, <1>1
        <3>3. (0 * Wrap + k) % Wrap = k /\ 0 * Wrap + k = k
            BY <1>0, <3>2, Remainder
        <3>. QED
            BY <2>1, <3>1, <3>2, <3>3
    <2>2. CASE p # Parts - 1
        BY <1>0, <1>1, <2>2 DEF PartSize
    <2>. QED
        BY <2>1, <2>2, Zenon
<1>6. PICK r : r = RangeOf(p) /\ r.first = x /\ r.last = e - 1
    <2>1. CASE p = Parts - 1
        <3>1. RangeOf(p) = [first |-> x, last |-> size - 1]
            BY <1>1, <1>2, <2>1, Zenon DEF RangeOf
        <3>. QED
            BY <2>1, <3>1
    <2>2. CASE p # Parts - 1
        <3>1. RangeOf(p) = [first |-> x, last |-> y - 1]
            BY <1>1, <1>2, <2>2, Zenon DEF RangeOf
        <3>. QED
            BY <2>2, <3>1
    <2>. QED
        BY <2>1, <2>2, Zenon
<1>. HIDE DEF e
<1>7. PICK l \in Nat : l = e - x /\ x + l = e
    BY <1>3
<1>8. CASE x < e
    <2>1. r.first <= r.last /\ r.first < size /\ MinOf(r.last, size - 1) = e - 1
        BY <1>3, <1>6, <1>8 DEF MinOf
    <2>2. Bodies(r) = {Run(x, e)}
        BY <1>6, <2>1, Zenon DEF Bodies, Run
    <2>3. l <= Threshold /\ l <= e - x
        BY <1>3, <1>7
    <2>. QED
        BY <1>3, <1>4, <1>5, <1>6, <1>7, <2>2, <2>3, ZenonT(30)
<1>9. CASE x = e
    <2>1. ~(r.first <= r.last)
        BY <1>3, <1>6, <1>9
    <2>2. Bodies(r) = {Run(0, size)}
        BY <2>1, Zenon DEF Bodies, Run
    <2>3. 0 \in Nat /\ 0 <= size /\ l = 0 /\ l <= Threshold /\ l <= size - 0
        BY <1>0, <1>3, <1>7, <1>9
    <2>4. Run(0, 0 + l) = PartBytes(p)
        <3>1. 0 + l = 0 /\ 0 <= 0 /\ x <= x
            BY <2>3
        <3>2. Run(0, 0) = <<>> /\ Run(x, x) = <<>>
            BY <2>3, <3>1, RunNone, Zenon
        <3>. QED
            BY <1>4, <1>9, <3>1, <3>2, Zenon
    <2>. QED
        BY <1>5, <1>6, <1>7, <2>2, <2>3, <2>4, Zenon
<1>. QED
    BY <1>3, <1>8, <1>9, SMTT(30)

\* Every step keeps Known.
LEMMA KnownStep ==
    ASSUME IInv, Typed, Next PROVE Known'
<1>1. UNCHANGED <<op, large, plain, size, stored>> /\ Known
    BY FileKept, Zenon DEF Typed
<1>2. /\ outcome' \in Outcomes \cup {"none"} /\ (outcome' # "none" => mpc' = "returned")
      /\ phase' \in {"open", "waiting", "waited"}
    BY OutcomeStep, Zenon
<1>3. /\ mpc' \in {"transfer", "complete"} => op = "upload"
      /\ mpc' = "terminated" => op = "download"
    <2>1. CASE UploadSkips \/ UploadThrows \/ UploadGoesOn \/ DoSingleUpload \/ CreateMultipartUpload
        BY <1>1, <2>1
        DEF UploadSkips, UploadThrows, UploadGoesOn, DoSingleUpload, CreateMultipartUpload, Return, Known
    <2>2. CASE RepeatSingleRequest \/ DoSingleDownload
        BY <2>2 DEF RepeatSingleRequest, DoSingleDownload, Return
    <2>3. CASE StartDownload \/ AddJob \/ WaitAll
        BY <2>3 DEF StartDownload, AddJob, WaitAll
    <2>4. CASE WaitAllReturns
        BY <2>4 DEF WaitAllReturns, CheckParts, Return
    <2>5. CASE CompleteMultipartUpload
        BY <2>5 DEF CompleteMultipartUpload, Return
    <2>6. ASSUME NEW t \in Threads, Work(t)
          PROVE  /\ mpc' \in {"transfer", "complete"} => op = "upload"
                 /\ mpc' = "terminated" => op = "download"
        <3>1. mpc' = mpc \/ (mpc' = "terminated" /\ tpc[t] = "write")
            BY <2>6, WorkCases, Zenon DEF Takes, Fills, Sends, Gets, Appends
        <3>2. CASE mpc' = mpc
            BY <1>1, <3>2 DEF Known
        <3>3. CASE mpc' = "terminated" /\ tpc[t] = "write"
            BY <3>3 DEF IInv, Jobs
        <3>. QED
            BY <3>1, <3>2, <3>3, Zenon
    <2>. QED
        BY <2>1, <2>2, <2>3, <2>4, <2>5, <2>6, ZenonT(30) DEF Next, Main
<1>. QED
    BY <1>1, <1>2, <1>3, Zenon DEF Known

\* What is sent is a sequence of bytes.
LEMMA ContentType ==
    ASSUME Typed, NEW t \in Threads PROVE Content(t) \in Seq(Int)
<1>1. data[t] \in [1..Threshold -> Byte] /\ len[t] \in 0..Threshold /\ size \in Nat
    BY SizeIs DEF Typed, Known, Buffered
<1>2. data[t] \in Seq(Int) /\ Len(data[t]) = Threshold
    BY <1>1, TransferAssumption DEF Byte, NoByte
<1>. QED
    BY <1>1, <1>2 DEF Content

\* Every step keeps Buffered.
LEMMA BuffersStep ==
    ASSUME IInv, Typed, Next PROVE Buffered'
<1>0. /\ plain \in Nat /\ size \in Nat /\ Threshold \in Nat \ {0} /\ MaxRepeats \in Nat
      /\ Parts \in Nat \ {0} /\ NoByte \in Byte
    <2>1. plain \in Nat /\ size \in Nat
        BY SizeIs DEF Typed, Known
    <2>. QED
        BY <2>1, TransferAssumption, PartsType, SMTT(30) DEF NoByte, Byte
<1>1. Buffered
    BY Zenon DEF Typed
<1>2. Parts' = Parts /\ PartIds' = PartIds /\ Byte' = Byte
    BY FileKept, SameParts, Zenon DEF Byte
<1>3. CASE Main
    <2>1. /\ UNCHANGED <<job, part, data, len, pptr, remote>> /\ junk' \in BOOLEAN
          /\ repeats' = repeats \/ (repeats < MaxRepeats /\ repeats' = repeats + 1)
        BY <1>1, <1>3, MainAside, Zenon DEF Aside, Downloads, Buffered
    <2>2. repeats' \in 0..MaxRepeats
        BY <1>0, <1>1, <2>1 DEF Buffered
    <2>. QED
        BY <1>1, <1>2, <2>1, <2>2, Zenon DEF Buffered
<1>4. ASSUME NEW t \in Threads, TakeJob(t) PROVE Buffered'
    <2>1. /\ UNCHANGED <<part, data, len, pptr, repeats, remote, junk>>
          /\ job' = [job EXCEPT ![t] = started + 1] /\ started < added
        BY <1>4, Zenon DEF TakeJob, Pool!Start, buffers, service
    <2>2. started + 1 \in 0..Parts
        BY <1>0, <2>1 DEF IInv, Types
    <2>3. job' \in [Threads -> 0..Parts]
        BY <1>1, <2>1, <2>2, SMTT(30) DEF Buffered
    <2>. QED
        BY <1>1, <1>2, <2>1, <2>3, Zenon DEF Buffered
<1>5. ASSUME NEW t \in Threads, FillAndGetBuf(t) PROVE Buffered'
    <2>1. /\ UNCHANGED <<job, pptr, repeats, remote, junk>>
          /\ part' = [part EXCEPT ![t] = cur + 1]
        BY <1>5, Zenon DEF FillAndGetBuf, ReadPart, service
    <2>2. cur + 1 \in PartIds
        BY <1>5, FillsPart, Zenon
    <2>3. PICK a, b \in Nat :
                /\ a <= b /\ b <= size /\ b - a <= Threshold
                /\ data' = [data EXCEPT ![t] = Filled([k \in 1..Threshold |-> NoByte], 0, Run(a, b))]
                /\ len' = [len EXCEPT ![t] = b - a]
        BY <1>5, FillsPart, Zenon
    <2>4. part' \in [Threads -> PartIds]
        BY <1>1, <2>1, <2>2, SMTT(30) DEF Buffered
    <2>5. len' \in [Threads -> 0..Threshold]
        BY <1>0, <1>1, <2>3, SMTT(30) DEF Buffered
    <2>6. Filled([k \in 1..Threshold |-> NoByte], 0, Run(a, b)) \in [1..Threshold -> Byte]
        <3>1. \A i \in DOMAIN Run(a, b) : Run(a, b)[i] \in Byte
            BY <1>0, <2>3, RunByte, Zenon
        <3>2. [k \in 1..Threshold |-> NoByte] \in [1..Threshold -> Byte] /\ 0 \in Int
            BY <1>0
        <3>. QED
            BY <3>1, <3>2, FilledType, Zenon
    <2>7. data' \in [Threads -> [1..Threshold -> Byte]]
        BY <1>1, <2>3, <2>6, Zenon DEF Buffered
    <2>. QED
        BY <1>1, <1>2, <2>1, <2>4, <2>5, <2>7, ZenonT(30) DEF Buffered
<1>6. ASSUME NEW t \in Threads, UploadPart(t) PROVE Buffered'
    <2>1. /\ UNCHANGED <<job, part, data, len, pptr, repeats, junk>>
          /\ remote' = [remote EXCEPT ![part[t]] = Content(t)] \/ remote' = remote
        BY <1>6, Zenon DEF UploadPart, buffers
    <2>2. Content(t) \in Seq(Int)
        BY ContentType
    <2>3. remote' \in [PartIds -> Seq(Int)]
        BY <1>1, <2>1, <2>2, Zenon DEF Buffered
    <2>. QED
        BY <1>1, <1>2, <2>1, <2>3, Zenon DEF Buffered
<1>7. ASSUME NEW t \in Threads, RepeatRequest(t) PROVE Buffered'
    <2>1. /\ UNCHANGED <<job, part, len, remote>> /\ junk' = TRUE
          /\ repeats < MaxRepeats /\ pptr[t] < Threshold /\ repeats' = repeats + 1
          /\ data' = [data EXCEPT ![t] = Filled(data[t], pptr[t], <<NoByte>>)]
          /\ pptr' = [pptr EXCEPT ![t] = pptr[t] + 1]
        BY <1>7, Zenon DEF RepeatRequest, service
    <2>2. pptr[t] \in 0..Threshold /\ data[t] \in [1..Threshold -> Byte] /\ repeats \in 0..MaxRepeats
        BY <1>1 DEF Buffered
    <2>3. repeats' \in 0..MaxRepeats /\ pptr[t] + 1 \in 0..Threshold /\ pptr[t] \in Int
        BY <1>0, <2>1, <2>2, SMTT(30)
    <2>4. pptr' \in [Threads -> 0..Threshold]
        BY <1>1, <2>1, <2>3, SMTT(30) DEF Buffered
    <2>5. Filled(data[t], pptr[t], <<NoByte>>) \in [1..Threshold -> Byte]
        <3>1. \A i \in DOMAIN <<NoByte>> : <<NoByte>>[i] \in Byte
            BY <1>0
        <3>. QED
            BY <2>2, <2>3, <3>1, FilledType, Zenon
    <2>6. data' \in [Threads -> [1..Threshold -> Byte]]
        BY <1>1, <2>1, <2>5, Zenon DEF Buffered
    <2>. QED
        BY <1>1, <1>2, <2>1, <2>3, <2>4, <2>6, Zenon DEF Buffered
<1>8. ASSUME NEW t \in Threads, GetObject(t) PROVE Buffered'
    <2>. DEFINE p == job[t] - 1
    <2>1. /\ UNCHANGED <<job, junk, repeats, remote>> /\ tpc[t] = "get"
          /\ part' = [part EXCEPT ![t] = p] /\ len' = [len EXCEPT ![t] = PartSize(p)]
          /\ pptr' = [pptr EXCEPT ![t] = 0]
          /\ \/ data' = data
             \/ \E body \in Bodies(RangeOf(p)) :
                    data' = [data EXCEPT ![t] = Filled(data[t], pptr[t], body)]
        BY <1>8, Zenon DEF GetObject, service
    <2>2. p \in PartIds
        <3>1. tpc[t] # "idle"
            BY <2>1
        <3>. QED
            BY <3>1, JobPart, SMTT(30)
    <2>. HIDE DEF p
    <2>3. PartSize(p) \in 0..Threshold
        BY <1>0, <2>2, PartSizeFits, SMTT(30)
    <2>4. part' \in [Threads -> PartIds] /\ len' \in [Threads -> 0..Threshold]
          /\ pptr' \in [Threads -> 0..Threshold]
        BY <1>0, <1>1, <2>1, <2>2, <2>3, SMTT(30) DEF Buffered
    <2>5. data' \in [Threads -> [1..Threshold -> Byte]]
        <3>1. CASE data' = data
            BY <1>1, <3>1, Zenon DEF Buffered
        <3>2. CASE \E body \in Bodies(RangeOf(p)) :
                    data' = [data EXCEPT ![t] = Filled(data[t], pptr[t], body)]
            <4>1. PICK a, b \in Nat : b <= size /\ Bodies(RangeOf(p)) = {Run(a, b)}
                BY <1>0, <2>2, BodyType, Zenon
            <4>2. data' = [data EXCEPT ![t] = Filled(data[t], pptr[t], Run(a, b))]
                BY <3>2, <4>1, Zenon
            <4>3. \A i \in DOMAIN Run(a, b) : Run(a, b)[i] \in Byte
                BY <1>0, <4>1, RunByte, Zenon
            <4>4. data[t] \in [1..Threshold -> Byte] /\ pptr[t] \in Int
                BY <1>0, <1>1 DEF Buffered
            <4>5. Filled(data[t], pptr[t], Run(a, b)) \in [1..Threshold -> Byte]
                BY <4>3, <4>4, FilledType, Zenon
            <4>. QED
                BY <1>1, <4>2, <4>5, SMTT(30) DEF Buffered
        <3>. QED
            BY <2>1, <3>1, <3>2, Zenon
    <2>. QED
        BY <1>1, <1>2, <2>1, <2>4, <2>5, Zenon DEF Buffered
<1>9. ASSUME NEW t \in Threads, WritePartToOutputStream(t) PROVE Buffered'
    <2>1. UNCHANGED <<job, part, data, len, pptr, repeats, remote, junk>>
        BY <1>9, Zenon DEF WritePartToOutputStream, WriteTo, buffers, service
    <2>. QED
        BY <1>1, <1>2, <2>1, Zenon DEF Buffered
<1>. QED
    BY <1>3, <1>4, <1>5, <1>6, <1>7, <1>8, <1>9, ZenonT(30) DEF Next, Work

\* Writing to a stream reads nothing from it.
LEMMA WrittenReadsNothing ==
    ASSUME NEW k, HasRead(cipher, k), NEW bytes, Len(bytes) \in Nat,
           NEW s \in Writes(cipher, bytes, plain)
    PROVE  HasRead(s, k) /\ HasRead(Sync(s, plain), k)
<1>1. HasRead(s, k)
    <2>1. \E x : Writes(cipher, bytes, plain) = {x} /\ HasRead(x, k)
        BY WritesReadNothing
    <2>2. PICK x : Writes(cipher, bytes, plain) = {x} /\ HasRead(x, k)
        BY <2>1, Zenon
    <2>3. s = x
        BY <2>2, Zenon
    <2>. QED
        BY <2>2, <2>3, Zenon
<1>2. HasRead(Overflow(s, <<>>, plain), k)
    BY <1>1, OverflowReadsNothing, Zenon
<1>. QED
    BY <1>1, <1>2, Zenon DEF Sync

\* Every step keeps Streamed.
LEMMA StreamStep ==
    ASSUME IInv, Typed, Next PROVE Streamed'
<1>0. /\ plain \in Nat /\ size \in Nat
      /\ Streamed /\ UNCHANGED <<op, plain, size>>
    BY SizeIs, FileKept, Zenon DEF Typed, Known
<1>1. CASE cipher' = cipher /\ cur' = cur
    BY <1>0, <1>1, Zenon DEF Streamed
<1>2. ASSUME op # "upload", HasRead(cipher', cipher.read) PROVE Streamed'
    BY <1>0, <1>2, Zenon DEF Streamed, HasRead
<1>3. CASE Main /\ Downloads
    <2>1. op # "upload"
        BY <1>3 DEF Downloads
    <2>2. HasRead(cipher, cipher.read)
        BY <1>0, Zenon DEF Streamed
    <2>3. /\ Len(Bytes(0, size - 1)) \in Nat /\ Len(<<NoByte>>) \in Nat
          /\ \A k \in 1..(size - 1) : Len(Bytes(0, k - 1)) \in Nat
        BY <1>0 DEF Bytes
    <2>4. \/ cipher' = cipher
          \/ \E s \in Writes(cipher, Bytes(0, size - 1), plain) : cipher' = Sync(s, plain)
          \/ \E s \in Writes(cipher, <<NoByte>>, plain) : cipher' = Sync(s, plain)
          \/ \E k \in 1..(size - 1) : cipher' \in Writes(cipher, Bytes(0, k - 1), plain)
        BY <1>3, Zenon DEF Downloads
    <2>5. HasRead(cipher', cipher.read)
        BY <2>2, <2>3, <2>4, WrittenReadsNothing, Zenon
    <2>. QED
        BY <1>2, <2>1, <2>5, Zenon
<1>4. CASE Main /\ Aside
    BY <1>1, <1>4, Zenon DEF Aside
<1>5. ASSUME NEW t \in Threads,
             TakeJob(t) \/ UploadPart(t) \/ RepeatRequest(t) \/ GetObject(t)
      PROVE  Streamed'
    BY <1>1, <1>5, Zenon DEF TakeJob, UploadPart, RepeatRequest, GetObject, stream
<1>6. ASSUME NEW t \in Threads, FillAndGetBuf(t) PROVE Streamed'
    <2>1. Encrypts(cipher', MinOf((cur' + 1) * Threshold, size), plain)
        BY <1>6, FillsPart, Zenon
    <2>2. cipher' \in Streams /\ cipher'.read <= plain
        BY <2>1, Zenon DEF Encrypts
    <2>3. "read" \in DOMAIN cipher' /\ cipher'.read \in Nat
        BY <2>2 DEF Streams
    <2>4. cipher'.read \in 0..plain
        BY <1>0, <2>2, <2>3
    <2>. QED
        BY <1>0, <2>1, <2>3, <2>4, Zenon DEF Streamed, HasRead
<1>7. ASSUME NEW t \in Threads, WritePartToOutputStream(t) PROVE Streamed'
    <2>1. tpc[t] = "write" /\
          \E s \in Writes(cipher, Content(t), plain) : cipher' = Sync(s, plain) \/ cipher' = s
        BY <1>7, Zenon DEF WritePartToOutputStream, WriteTo
    <2>2. op # "upload"
        BY <2>1 DEF IInv, Jobs
    <2>3. Len(Content(t)) \in Nat
        BY ContentType
    <2>4. HasRead(cipher, cipher.read)
        BY <1>0, Zenon DEF Streamed
    <2>5. HasRead(cipher', cipher.read)
        BY <2>1, <2>3, <2>4, WrittenReadsNothing, Zenon
    <2>. QED
        BY <1>2, <2>2, <2>5, Zenon
<1>. QED
    BY <1>3, <1>4, <1>5, <1>6, <1>7, MainAside, Zenon DEF Next, Work

\* Every step keeps Typed.
LEMMA TypedStep ==
    ASSUME IInv, Typed, Next PROVE Typed'
BY KnownStep, BuffersStep, StreamStep, Zenon DEF Typed

(***************************************************************************)
(* The object is the encrypted file                                        *)
(***************************************************************************)
\* f is the function "upTo" of Joined.
Joins(f, parts) ==
    f = [j \in 0..Parts |-> IF j = 0 THEN <<>> ELSE f[j - 1] \o parts[j - 1]]

\* There is such a function.
LEMMA JoinedUnfold ==
    ASSUME size \in Nat, NEW parts
    PROVE  \E f : Joins(f, parts) /\ Joined(parts) = f[Parts]
<1>. DEFINE Is(f, m) == f = [j \in 0..m |-> IF j = 0 THEN <<>> ELSE f[j - 1] \o parts[j - 1]]
            S == {m \in 0..Parts : \E f : Is(f, m)}
<1>1. Parts \in Nat
    BY PartsType
<1>2. 0 \in S
    <2>. DEFINE f == [j \in 0..0 |-> <<>>]
    <2>1. Is(f, 0)
        OBVIOUS
    <2>2. 0 \in 0..Parts
        BY <1>1
    <2>. QED
        BY <2>1, <2>2, Zenon
<1>3. ASSUME NEW m \in 0..(Parts - 1), m \in S PROVE m + 1 \in S
    <2>1. PICK f : Is(f, m)
        BY <1>3, Zenon
    <2>. DEFINE g == [j \in 0..(m + 1) |-> IF j = m + 1 THEN f[m] \o parts[m] ELSE f[j]]
    <2>2. \A j \in 0..m : g[j] = f[j]
        BY <1>1
    <2>3. ASSUME NEW j \in 0..(m + 1)
          PROVE  g[j] = IF j = 0 THEN <<>> ELSE g[j - 1] \o parts[j - 1]
        <3>1. CASE j = m + 1
            <4>1. j # 0 /\ j - 1 = m /\ g[m] = f[m]
                BY <1>1, <2>2, <3>1
            <4>. QED
                BY <3>1, <4>1, Zenon
        <3>2. CASE j \in 0..m
            <4>1. g[j] = IF j = 0 THEN <<>> ELSE f[j - 1] \o parts[j - 1]
                BY <2>1, <2>2, <3>2, Zenon
            <4>2. j # 0 => g[j - 1] = f[j - 1]
                BY <1>1, <2>2, <3>2, SMTT(30)
            <4>. QED
                BY <4>1, <4>2, Zenon
        <3>. QED
            BY <1>1, <3>1, <3>2
    <2>4. Is(g, m + 1)
        BY <2>3, Zenon
    <2>5. m + 1 \in 0..Parts
        BY <1>1
    <2>. QED
        BY <2>4, <2>5, Zenon
<1>4. Parts \in S
    <2>. HIDE DEF S
    <2>1. 0..Parts \subseteq S
        BY <1>1, <1>2, <1>3, Induction, SMTT(30)
    <2>. QED
        BY <1>1, <2>1
<1>5. \E f : Is(f, Parts)
    BY <1>4, Zenon
<1>. DEFINE upTo == CHOOSE f : Is(f, Parts)
<1>6. Is(upTo, Parts)
    BY <1>5, Zenon
<1>7. Joined(parts) = upTo[Parts]
    BY Zenon DEF Joined
<1>. HIDE DEF upTo
<1>. QED
    BY <1>6, <1>7, Zenon DEF Joins

\* The parts of the file, joined, are the file.
LEMMA JoinedWhole ==
    ASSUME size \in Nat, NEW parts, \A p \in PartIds : parts[p] = PartBytes(p)
    PROVE  Joined(parts) = Run(0, size)
<1>0. Parts \in Nat \ {0} /\ Threshold \in Nat \ {0}
    BY PartsType, TransferAssumption
<1>1. PICK f : Joins(f, parts) /\ Joined(parts) = f[Parts]
    BY JoinedUnfold, Zenon
<1>2. f = [j \in 0..Parts |-> IF j = 0 THEN <<>> ELSE f[j - 1] \o parts[j - 1]]
    BY <1>1, Zenon DEF Joins
<1>. DEFINE Good == {j \in 0..Parts : f[j] = Run(0, MinOf(j * Threshold, size))}
<1>3. 0 \in Good
    <2>1. f[0] = <<>> /\ 0 \in 0..Parts /\ MinOf(0 * Threshold, size) = 0
        BY <1>0, <1>2 DEF MinOf
    <2>2. Run(0, 0) = <<>>
        BY RunNone
    <2>. QED
        BY <2>1, <2>2
<1>4. ASSUME NEW j \in 0..(Parts - 1), j \in Good PROVE j + 1 \in Good
    <2>1. j \in PartIds
        BY Zenon DEF PartIds
    <2>2. j + 1 \in 0..Parts /\ j + 1 # 0 /\ (j + 1) - 1 = j
        BY <1>0
    <2>3. j * Threshold \in Nat /\ j * Threshold <= size /\ (j + 1) * Threshold = j * Threshold + Threshold
        BY <2>1, PartPlace, Zenon
    <2>4. PICK x, b \in Nat :
            /\ x = j * Threshold /\ x = MinOf(j * Threshold, size)
            /\ b = MinOf((j + 1) * Threshold, size) /\ x <= b
        BY <1>0, <2>3 DEF MinOf
    <2>5. f[j + 1] = f[j] \o parts[j]
        BY <1>2, <2>2, Zenon
    <2>6. f[j] = Run(0, x) /\ parts[j] = Run(x, b)
        BY <1>4, <2>1, <2>4, Zenon DEF PartBytes
    <2>7. Run(0, x) \o Run(x, b) = Run(0, b)
        <3>1. 0 \in Nat /\ 0 <= x
            OBVIOUS
        <3>. QED
            BY <2>4, <3>1, RunConcat, Zenon
    <2>. QED
        BY <2>2, <2>4, <2>5, <2>6, <2>7, Zenon
<1>5. Parts \in Good
    <2>. HIDE DEF Good
    <2>1. 0..Parts \subseteq Good
        BY <1>0, <1>3, <1>4, Induction, SMTT(30)
    <2>. QED
        BY <1>0, <2>1
<1>6. MinOf(Parts * Threshold, size) = size
    <2>1. Parts - 1 \in PartIds /\ (Parts - 1) + 1 = Parts
        BY <1>0 DEF PartIds
    <2>2. size < Parts * Threshold
        BY <2>1, PartPlace, Zenon
    <2>3. PICK y : y = Parts * Threshold
        OBVIOUS
    <2>4. y \in Nat /\ size < y
        BY <1>0, <2>2, <2>3, SMTT(30)
    <2>. QED
        BY <2>3, <2>4, SMTT(30) DEF MinOf
<1>. QED
    BY <1>1, <1>5, <1>6, Zenon

\* A transfer in one request begins at the start of the stream.
LEMMA SplitterStart ==
    ASSUME IInv, Typed, op = "upload", mpc = "transfer"
    PROVE  Encrypts(cipher, 0, plain)
<1>1. /\ added = 0 /\ started \in Nat /\ started <= added /\ cur \in Int /\ cur >= -1
      /\ Cardinality(Fillers) = started - (cur + 1)
    BY Zenon DEF IInv, Types, Caller, Splitter
<1>2. cur = -1
    BY <1>1, FillersFinite, SMTT(30)
<1>3. size \in Nat /\ Threshold \in Nat
    BY SizeIs, TransferAssumption DEF Typed, Known
<1>4. MinOf((cur + 1) * Threshold, size) = 0
    BY <1>2, <1>3 DEF MinOf
<1>5. Encrypts(cipher, MinOf((cur + 1) * Threshold, size), plain)
    BY Zenon DEF Typed, Streamed
<1>. QED
    BY <1>4, <1>5, Zenon

\* What the calling thread does to the object.
LEMMA ObjectStep ==
    ASSUME IInv, Typed, Sent, op = "upload", Main, outcome' = "SUCCESS"
    PROVE  object' = Run(0, size)
<1>0. /\ plain \in Nat /\ size \in Nat /\ size = CipherSize(plain)
      /\ outcome = "SUCCESS" => object = Run(0, size)
    BY SizeIs, Zenon DEF Typed, Known, Sent
<1>1. "SUCCESS" \notin Errors
    BY TransferAssumption DEF Refused
<1>2. CASE UploadSkips
    BY <1>2 DEF UploadSkips, Return
<1>3. CASE UploadThrows \/ UploadGoesOn \/ StartDownload \/ AddJob \/ WaitAll
    BY <1>0, <1>3, Zenon DEF UploadThrows, UploadGoesOn, StartDownload, AddJob, WaitAll, service
<1>4. CASE CreateMultipartUpload
    BY <1>0, <1>1, <1>4, Zenon DEF CreateMultipartUpload, Return, service
<1>5. CASE RepeatSingleRequest \/ DoSingleDownload
    BY <1>5 DEF RepeatSingleRequest, DoSingleDownload
<1>6. CASE WaitAllReturns
    <2>1. outcome' = outcome /\ object' = object
        BY <1>6, Zenon DEF WaitAllReturns, CheckParts, Return, Unsuccessful, service
    <2>. QED
        BY <1>0, <2>1, Zenon
<1>7. CASE DoSingleUpload
    <2>1. mpc = "transfer" /\ \E r \in Reads(cipher, size, plain) : object' = r.bytes
        BY <1>1, <1>7, Zenon DEF DoSingleUpload, Return
    <2>2. Encrypts(cipher, 0, plain)
        BY <2>1, SplitterStart, Zenon
    <2>3. PICK z \in Nat : z = 0
        OBVIOUS
    <2>4. PICK r, b :
            /\ Reads(cipher, size, plain) = {r} /\ r.bytes = Run(z, b) /\ Encrypts(r.stream, b, plain)
            /\ b = MinOf(z + size, CipherSize(plain))
        <3>1. Encrypts(cipher, z, plain) /\ plain \in Nat /\ size \in Nat
            BY <1>0, <2>2, <2>3, Zenon
        <3>. QED
            BY <3>1, ReadsNextBytes, Zenon
    <2>5. b = size
        BY <1>0, <2>3, <2>4, SMTT(30) DEF MinOf
    <2>. QED
        BY <2>1, <2>3, <2>4, <2>5, Zenon
<1>8. CASE CompleteMultipartUpload
    <2>1. mpc = "complete" /\ object' = Joined(remote)
        BY <1>1, <1>8, Zenon DEF CompleteMultipartUpload, Return
    <2>2. \A p \in PartIds : remote[p] = PartBytes(p)
        BY <2>1, Zenon DEF IInv, Caller, Sent
    <2>. QED
        BY <1>0, <2>1, <2>2, JoinedWhole, Zenon
<1>. QED
    BY <1>2, <1>3, <1>4, <1>5, <1>6, <1>7, <1>8, ZenonT(30) DEF Main

\* Every step keeps Sent.
LEMMA SentStep ==
    ASSUME IInv, Typed, Sent, Next PROVE Sent'
<1>0. UNCHANGED <<op, plain, size>> /\ PartIds' = PartIds
    BY FileKept, SameParts, Zenon
<1>. SUFFICES ASSUME op = "upload"
              PROVE /\ \A u \in Threads : tpc'[u] = "put" =>
                            SubSeq(data'[u], 1, len'[u]) = PartBytes(part'[u])
                    /\ \A p \in PartIds : m_outcome'[p] = "SUCCESS" => remote'[p] = PartBytes(p)
                    /\ outcome' = "SUCCESS" => object' = Run(0, size)
    BY <1>0, Zenon DEF Sent, Content, PartBytes
<1>1. /\ size \in Nat /\ Threshold \in Nat
      /\ \A u \in Threads : tpc[u] = "put" => SubSeq(data[u], 1, len[u]) = PartBytes(part[u])
      /\ \A p \in PartIds : m_outcome[p] = "SUCCESS" => remote[p] = PartBytes(p)
    BY SizeIs, TransferAssumption, Zenon DEF Typed, Known, Sent, Content
<1>2. CASE Main
    <2>1. Aside /\ Unmoved
        <3>1. ~Downloads
            BY DEF Downloads
        <3>. QED
            BY <1>2, <3>1, MainAside, MainCases, Zenon
    <2>2. outcome' = "SUCCESS" => object' = Run(0, size)
        BY <1>2, ObjectStep, Zenon
    <2>. QED
        BY <1>1, <2>1, <2>2, Zenon DEF Aside, Unmoved
<1>3. ASSUME NEW t \in Threads, Work(t) PROVE outcome' # "SUCCESS" /\ mpc # "terminated"
    <2>1. outcome' = outcome /\ mpc # "returned" /\ mpc # "terminated"
        BY <1>3, WorkCases, WorkInTime, Zenon DEF Work
    <2>2. outcome # "none" => mpc = "returned"
        BY Zenon DEF Typed, Known
    <2>. QED
        BY <2>1, <2>2
<1>4. ASSUME NEW t \in Threads, TakeJob(t)
      PROVE  /\ \A u \in Threads : tpc'[u] = "put" =>
                            SubSeq(data'[u], 1, len'[u]) = PartBytes(part'[u])
             /\ \A p \in PartIds : m_outcome'[p] = "SUCCESS" => remote'[p] = PartBytes(p)
    <2>1. /\ tpc' = [tpc EXCEPT ![t] = "fill"] /\ UNCHANGED <<data, len, part, m_outcome, remote>>
        BY <1>4, Zenon DEF TakeJob, buffers, service
    <2>2. \A u \in Threads : tpc'[u] = "put" => tpc[u] = "put"
        BY <2>1 DEF IInv, Types
    <2>. QED
        BY <1>1, <2>1, <2>2, Zenon
<1>5. ASSUME NEW t \in Threads, FillAndGetBuf(t)
      PROVE  /\ \A u \in Threads : tpc'[u] = "put" =>
                            SubSeq(data'[u], 1, len'[u]) = PartBytes(part'[u])
             /\ \A p \in PartIds : m_outcome'[p] = "SUCCESS" => remote'[p] = PartBytes(p)
    <2>. DEFINE none == [k \in 1..Threshold |-> NoByte]
    <2>1. /\ tpc' = [tpc EXCEPT ![t] = "put"] /\ UNCHANGED <<m_outcome, remote>>
          /\ part' = [part EXCEPT ![t] = cur + 1]
        BY <1>5, Zenon DEF FillAndGetBuf, ReadPart, service
    <2>2. PICK a, b \in Nat :
                /\ a <= b /\ b <= size /\ b - a <= Threshold /\ Run(a, b) = PartBytes(cur + 1)
                /\ data' = [data EXCEPT ![t] = Filled(none, 0, Run(a, b))]
                /\ len' = [len EXCEPT ![t] = b - a]
        BY <1>5, FillsPart, Zenon
    <2>3. none \in [1..Threshold -> Int]
        BY DEF NoByte
    <2>. HIDE DEF none
    <2>4. PICK l \in Nat : l = b - a /\ a + l = b /\ l <= Threshold /\ l <= b - a
        BY <1>1, <2>2, SMTT(30)
    <2>5. SubSeq(Filled(none, 0, Run(a, b)), 1, l) = Run(a, a + l)
        BY <2>2, <2>3, <2>4, FilledStart, SMTT(30)
    <2>6. /\ data'[t] = Filled(none, 0, Run(a, b)) /\ len'[t] = l /\ part'[t] = cur + 1
          /\ \A u \in Threads : u # t => /\ data'[u] = data[u] /\ len'[u] = len[u]
                                         /\ part'[u] = part[u] /\ tpc'[u] = tpc[u]
        BY <2>1, <2>2, <2>4, SMTT(30) DEF Typed, Buffered, IInv, Types
    <2>. QED
        BY <1>1, <2>1, <2>2, <2>4, <2>5, <2>6, Zenon
<1>6. ASSUME NEW t \in Threads, UploadPart(t)
      PROVE  /\ \A u \in Threads : tpc'[u] = "put" =>
                            SubSeq(data'[u], 1, len'[u]) = PartBytes(part'[u])
             /\ \A p \in PartIds : m_outcome'[p] = "SUCCESS" => remote'[p] = PartBytes(p)
    <2>1. /\ tpc[t] = "put" /\ tpc' = [tpc EXCEPT ![t] = "idle"] /\ UNCHANGED <<data, len, part>>
          /\ \/ /\ m_outcome' = [m_outcome EXCEPT ![part[t]] = "SUCCESS"]
                /\ remote' = [remote EXCEPT ![part[t]] = Content(t)]
             \/ \E e \in Refused :
                    m_outcome' = [m_outcome EXCEPT ![part[t]] = e] /\ remote' = remote
        BY <1>6, TransferAssumption, Zenon DEF UploadPart, EndJob, buffers
    <2>2. /\ part[t] \in PartIds /\ remote \in [PartIds -> Seq(Int)]
          /\ DOMAIN m_outcome = PartIds /\ tpc \in [Threads -> {"idle", "fill", "put", "get", "write"}]
        BY DEF Typed, Buffered, IInv, Types
    <2>3. Content(t) = PartBytes(part[t])
        BY <1>1, <2>1, Zenon DEF Content
    <2>4. \A u \in Threads : tpc'[u] = "put" => tpc[u] = "put"
        BY <2>1, <2>2
    <2>5. \A p \in PartIds : m_outcome'[p] = "SUCCESS" => remote'[p] = PartBytes(p)
        <3>1. ASSUME NEW p \in PartIds, m_outcome'[p] = "SUCCESS", p # part[t]
              PROVE  remote'[p] = PartBytes(p)
            <4>1. m_outcome[p] = "SUCCESS" /\ remote'[p] = remote[p]
                BY <2>1, <2>2, <3>1, SMTT(30)
            <4>. QED
                BY <1>1, <4>1, Zenon
        <3>2. m_outcome'[part[t]] = "SUCCESS" => remote'[part[t]] = Content(t)
            BY <2>1, <2>2, SMTT(30) DEF Refused
        <3>. QED
            BY <2>2, <2>3, <3>1, <3>2, Zenon
    <2>. QED
        BY <1>1, <2>1, <2>4, <2>5, Zenon
<1>7. ASSUME NEW t \in Threads, RepeatRequest(t) \/ GetObject(t) \/ WritePartToOutputStream(t)
      PROVE  FALSE
    <2>1. tpc[t] \in {"get", "write"}
        BY <1>7, Zenon DEF RepeatRequest, GetObject, WritePartToOutputStream, WriteTo
    <2>. QED
        BY <2>1 DEF IInv, Jobs
<1>. QED
    BY <1>2, <1>3, <1>4, <1>5, <1>6, <1>7, ZenonT(30) DEF Next, Work

(***************************************************************************)
(* The local file is the decrypted object                                  *)
(***************************************************************************)
\* What has come with an answer that was not used is not forgotten.
LEMMA JunkStays ==
    ASSUME Typed, Next, ~junk' PROVE ~junk
<1>1. CASE Main
    BY <1>1, MainAside, Zenon DEF Aside, Downloads
<1>2. ASSUME NEW t \in Threads, Work(t) PROVE ~junk
    BY <1>2, Zenon
    DEF Work, TakeJob, FillAndGetBuf, ReadPart, UploadPart, RepeatRequest, GetObject,
        WritePartToOutputStream, WriteTo, buffers
<1>. QED
    BY <1>1, <1>2, Zenon DEF Next

\* Every step keeps Fetched.
LEMMA FetchedStep ==
    ASSUME SmallFiles, IInv, Typed, Fetched, Next PROVE Fetched'
<1>0. UNCHANGED <<op, plain, size>>
    BY FileKept, Zenon
<1>. SUFFICES ASSUME op = "download", ~junk'
              PROVE \A u \in Threads :
                        /\ pptr'[u] = 0
                        /\ tpc'[u] = "write" => SubSeq(data'[u], 1, len'[u]) = PartBytes(part'[u])
    BY <1>0, Zenon DEF Fetched, Content, PartBytes
<1>1. \A u \in Threads :
        /\ pptr[u] = 0
        /\ tpc[u] = "write" => SubSeq(data[u], 1, len[u]) = PartBytes(part[u])
    BY JunkStays, Zenon DEF Fetched, Content
<1>2. /\ size \in Nat /\ size < Wrap
      /\ tpc \in [Threads -> {"idle", "fill", "put", "get", "write"}]
      /\ part \in [Threads -> PartIds] /\ DOMAIN data = Threads
      /\ DOMAIN len = Threads /\ DOMAIN pptr = Threads
    <2>1. size \in Nat /\ size < Wrap
        BY SizeIs, Zenon DEF Typed, Known, SmallFiles
    <2>2. /\ tpc \in [Threads -> {"idle", "fill", "put", "get", "write"}]
          /\ part \in [Threads -> PartIds]
        BY Zenon DEF Typed, Buffered, IInv, Types
    <2>3. DOMAIN data = Threads /\ DOMAIN len = Threads /\ DOMAIN pptr = Threads
        BY DEF Typed, Buffered
    <2>. QED
        BY <2>1, <2>2, <2>3, Zenon
<1>3. CASE UNCHANGED <<pptr, data, len, part>> /\ \A u \in Threads : tpc'[u] = "write" => tpc[u] = "write"
    BY <1>1, <1>3, Zenon
<1>4. CASE Main
    <2>1. UNCHANGED <<pptr, data, len, part, tpc>>
        BY <1>4, MainAside, MainCases, Zenon DEF Aside, Downloads, Unmoved
    <2>. QED
        BY <1>1, <2>1, Zenon
<1>5. ASSUME NEW t \in Threads, TakeJob(t) \/ WritePartToOutputStream(t)
      PROVE  UNCHANGED <<pptr, data, len, part>> /\ \A u \in Threads : tpc'[u] = "write" => tpc[u] = "write"
    <2>1. UNCHANGED <<pptr, data, len, part>>
        BY <1>5, Zenon DEF TakeJob, WritePartToOutputStream, WriteTo, buffers
    <2>2. PICK x \in {"fill", "get", "idle"} : tpc' = [tpc EXCEPT ![t] = x]
        BY <1>5 DEF TakeJob, WritePartToOutputStream, WriteTo, EndJob
    <2>. QED
        BY <1>2, <2>1, <2>2
<1>6. ASSUME NEW t \in Threads, FillAndGetBuf(t) \/ UploadPart(t) PROVE FALSE
    <2>1. tpc[t] \in {"fill", "put"}
        BY <1>6, Zenon DEF FillAndGetBuf, ReadPart, UploadPart
    <2>. QED
        BY <2>1 DEF IInv, Jobs
<1>7. ASSUME NEW t \in Threads, RepeatRequest(t) PROVE FALSE
    BY <1>7, Zenon DEF RepeatRequest
<1>8. ASSUME NEW t \in Threads, GetObject(t)
      PROVE  \A u \in Threads :
                /\ pptr'[u] = 0
                /\ tpc'[u] = "write" => SubSeq(data'[u], 1, len'[u]) = PartBytes(part'[u])
    <2>. DEFINE p == job[t] - 1
    <2>1. /\ tpc[t] = "get" /\ part' = [part EXCEPT ![t] = p] /\ len' = [len EXCEPT ![t] = PartSize(p)]
          /\ pptr' = [pptr EXCEPT ![t] = 0]
          /\ \/ data' = data /\ tpc' = [tpc EXCEPT ![t] = "idle"]
             \/ /\ \E body \in Bodies(RangeOf(p)) :
                    data' = [data EXCEPT ![t] = Filled(data[t], pptr[t], body)]
                /\ tpc' = [tpc EXCEPT ![t] = "write"]
        BY <1>8, Zenon DEF GetObject, EndJob
    <2>2. p \in PartIds
        <3>1. tpc[t] # "idle"
            BY <2>1, SMTT(30)
        <3>. QED
            BY <3>1, JobPart, SMTT(30)
    <2>. HIDE DEF p
    <2>3. \A u \in Threads : pptr'[u] = 0
        BY <1>1, <1>2, <2>1, SMTT(30)
    <2>4. \A u \in Threads : u # t =>
            /\ len'[u] = len[u] /\ part'[u] = part[u] /\ tpc'[u] = tpc[u] /\ data'[u] = data[u]
        BY <1>2, <2>1
    <2>5. ASSUME tpc'[t] = "write" PROVE SubSeq(data'[t], 1, len'[t]) = PartBytes(part'[t])
        <3>1. PICK a, b, l \in Nat :
                /\ a <= b /\ Bodies(RangeOf(p)) = {Run(a, b)}
                /\ l = PartSize(p) /\ l <= Threshold /\ l <= b - a
                /\ Run(a, a + l) = PartBytes(p)
            BY <1>2, <2>2, BodyOfPart, Zenon
        <3>2. \E body \in Bodies(RangeOf(p)) :
                    data' = [data EXCEPT ![t] = Filled(data[t], pptr[t], body)]
            BY <1>2, <2>1, <2>5, SMTT(30)
        <3>3. data' = [data EXCEPT ![t] = Filled(data[t], 0, Run(a, b))]
            BY <1>1, <3>1, <3>2, Zenon
        <3>4. data'[t] = Filled(data[t], 0, Run(a, b)) /\ len'[t] = l /\ part'[t] = p
            BY <1>2, <2>1, <3>1, <3>3, SMTT(30)
        <3>5. data[t] \in [1..Threshold -> Int]
            <4>1. data[t] \in [1..Threshold -> Byte] /\ Byte \subseteq Int
                BY DEF Typed, Buffered, Byte
            <4>. QED
                BY <4>1, Zenon
        <3>6. SubSeq(Filled(data[t], 0, Run(a, b)), 1, l) = Run(a, a + l)
            BY <3>1, <3>5, FilledStart, SMTT(30)
        <3>. QED
            BY <3>1, <3>4, <3>6, Zenon
    <2>. QED
        BY <1>1, <2>3, <2>4, <2>5, Zenon
<1>. QED
    BY <1>3, <1>4, <1>5, <1>6, <1>7, <1>8, ZenonT(30) DEF Next, Work

\* A stream that is written in order has not been terminated.
LEMMA DecryptsOn ==
    ASSUME NEW s, NEW w, NEW n, Decrypts(s, w, n) PROVE ~Terminated(s)
<1>1. PICK h : s.ctx = [op |-> "DECRYPT", held |-> h]
    BY Zenon DEF Decrypts
<1>. QED
    BY <1>1 DEF Terminated

\* The whole object, written and flushed.
LEMMA WholeWritten ==
    ASSUME Known, NEW b \in Nat, b <= size, Decrypts(cipher, b, plain),
           NEW s \in Writes(cipher, Run(b, size), plain)
    PROVE  Sync(s, plain).dst = Run(0, plain) /\ ~Terminated(Sync(s, plain))
<1>1. plain \in Nat /\ size \in Nat /\ size = CipherSize(plain) /\ size <= CipherSize(plain)
    BY SizeIs DEF Known
<1>2. PICK x : Writes(cipher, Run(b, size), plain) = {x} /\ Decrypts(x, size, plain)
    BY <1>1, WritesNextBytes
<1>3. s = x
    BY <1>2, Zenon
<1>. QED
    BY <1>1, <1>2, <1>3, SyncEndsFile, Zenon

\* The calling thread keeps Placed.
LEMMA CallerPlaces ==
    ASSUME IInv, Typed, Placed, Main, op = "download", ~junk, ~junk'
    PROVE  /\ mpc' # "terminated"
           /\ \A p \in PartIds : m_outcome'[p] = "SUCCESS" /\ p + 1 \in done' => p < cur'
           /\ cur' # Parts /\ outcome' # "SUCCESS" => Decrypts(cipher', cur' * Threshold, plain)
           /\ cur' = Parts \/ outcome' = "SUCCESS" => cipher'.dst = Run(0, plain)
<1>0. /\ Known /\ size \in Nat /\ Parts \in Nat \ {0} /\ Threshold \in Nat
      /\ mpc \notin {"transfer", "complete"}
    <2>1. Known /\ size \in Nat
        BY SizeIs, Zenon DEF Typed, Known
    <2>. QED
        BY <2>1, PartsType, TransferAssumption DEF Known
<1>1. /\ mpc # "terminated"
      /\ \A p \in PartIds : m_outcome[p] = "SUCCESS" /\ p + 1 \in done => p < cur
      /\ cur # Parts /\ outcome # "SUCCESS" => Decrypts(cipher, cur * Threshold, plain)
      /\ cur = Parts \/ outcome = "SUCCESS" => cipher.dst = Run(0, plain)
    BY Zenon DEF Placed
<1>2. UNCHANGED <<m_outcome, done, cur>>
    BY MainCases, Zenon DEF Unmoved
<1>3. CASE \/ UploadSkips \/ UploadThrows \/ UploadGoesOn \/ DoSingleUpload \/ CreateMultipartUpload
           \/ CompleteMultipartUpload \/ RepeatSingleRequest
    BY <1>0, <1>3
    DEF UploadSkips, UploadThrows, UploadGoesOn, DoSingleUpload, CreateMultipartUpload,
        CompleteMultipartUpload, RepeatSingleRequest
<1>4. CASE StartDownload \/ AddJob \/ WaitAll
    <2>1. outcome' = outcome /\ cipher' = cipher
        BY <1>4, Zenon DEF StartDownload, AddJob, WaitAll, stream
    <2>2. mpc' # "terminated"
        BY <1>4 DEF StartDownload, AddJob, WaitAll
    <2>. QED
        BY <1>1, <1>2, <2>1, <2>2, Zenon
<1>5. CASE WaitAllReturns
    <2>1. mpc = "waiting" /\ CheckParts /\ done = 1..added /\ cipher' = cipher
        BY <1>5, Zenon DEF WaitAllReturns, Pool!WaitReturns, stream
    <2>2. mpc' # "terminated"
        BY <2>1 DEF CheckParts, Return
    <2>3. ASSUME outcome' = "SUCCESS" PROVE cipher.dst = Run(0, plain)
        <3>1. \A p \in PartIds : m_outcome[p] = "SUCCESS"
            <4>1. outcome # "SUCCESS"
                BY <1>0, <2>1 DEF Known
            <4>. QED
                BY <2>1, <2>3, <4>1, Zenon DEF CheckParts, Return, Unsuccessful
        <3>2. added = Parts
            BY <2>1 DEF IInv, Caller
        <3>3. Parts - 1 \in PartIds /\ (Parts - 1) + 1 \in done
            BY <1>0, <2>1, <3>2 DEF PartIds
        <3>4. Parts - 1 < cur /\ cur \in -1..Parts
            BY <1>1, <3>1, <3>3, Current, Zenon
        <3>5. cur = Parts
            BY <1>0, <3>4
        <3>. QED
            BY <1>1, <3>5, Zenon
    <2>4. cur # Parts /\ outcome' # "SUCCESS" => Decrypts(cipher, cur * Threshold, plain)
        <3>1. outcome # "SUCCESS"
            BY <1>0, <2>1 DEF Known
        <3>. QED
            BY <1>1, <3>1, Zenon
    <2>. QED
        BY <1>1, <1>2, <2>1, <2>2, <2>3, <2>4, Zenon
<1>6. CASE DoSingleDownload
    <2>1. Downloads
        BY <1>6, TransferAssumption, Zenon DEF DoSingleDownload, Return, pool, service, Downloads
    <2>2. outcome # "SUCCESS" /\ mpc = "start"
        BY <1>0, <2>1, SMTT(30) DEF Known, Downloads
    <2>3. cur = 0 /\ cur # Parts /\ cur * Threshold = 0
        <3>1. /\ started \in Nat /\ started <= added /\ added = 0 /\ done \subseteq 1..started
              /\ cur \in Int /\ cur >= 0 /\ \A p \in 0..(cur - 1) : p + 1 \in done
            BY <2>2 DEF IInv, Types, Caller, Appender
        <3>2. cur = 0
            <4>1. SUFFICES ASSUME cur > 0 PROVE FALSE
                BY <3>1
            <4>2. 0 \in 0..(cur - 1) /\ 0 + 1 = 1
                BY <3>1, <4>1
            <4>3. 1 \in 1..started
                BY <3>1, <4>2, Zenon
            <4>. QED
                BY <3>1, <4>3
        <3>. QED
            BY <1>0, <3>2, SMTT(30)
    <2>4. Decrypts(cipher, 0, plain)
        BY <1>1, <2>2, <2>3, Zenon
    <2>5. CASE cipher' = cipher /\ mpc' = "returned" /\ outcome' \in Refused
        <3>1. mpc' # "terminated" /\ outcome' # "SUCCESS"
            BY <2>5 DEF Refused
        <3>. QED
            BY <1>1, <1>2, <2>2, <2>5, <3>1, ZenonT(30)
    <2>6. CASE /\ \E s \in Writes(cipher, Bytes(0, size - 1), plain) : cipher' = Sync(s, plain)
               /\ IF Terminated(cipher') THEN mpc' = "terminated" /\ outcome' = outcome
                                         ELSE mpc' = "returned" /\ outcome' = "SUCCESS"
        <3>1. PICK s \in Writes(cipher, Run(0, size), plain) : cipher' = Sync(s, plain)
            BY <2>6, Zenon DEF Run
        <3>2. cipher'.dst = Run(0, plain) /\ ~Terminated(cipher')
            <4>1. 0 \in Nat /\ 0 <= size
                BY <1>0, SMTT(30)
            <4>2. Sync(s, plain).dst = Run(0, plain) /\ ~Terminated(Sync(s, plain))
                BY <1>0, <2>4, <4>1, WholeWritten, SMTT(30)
            <4>. QED
                BY <3>1, <4>2, Zenon
        <3>3. mpc' = "returned" /\ outcome' = "SUCCESS"
            BY <2>6, <3>2, Zenon
        <3>4. mpc' # "terminated"
            BY <3>3
        <3>. QED
            BY <1>1, <1>2, <3>2, <3>3, <3>4, ZenonT(30)
    <2>. QED
        BY <2>1, <2>5, <2>6, Zenon DEF Downloads
<1>. QED
    BY <1>3, <1>4, <1>5, <1>6, Zenon DEF Main

\* The appender writes part cur after the parts below it, and ends the file with the last one.
LEMMA AppenderPlaces ==
    ASSUME IInv, Typed, Fetched, Placed, op = "download", ~junk,
           NEW t \in Threads, WritePartToOutputStream(t), mpc # "returned"
    PROVE  /\ mpc' # "terminated"
           /\ \A p \in PartIds : m_outcome'[p] = "SUCCESS" /\ p + 1 \in done' => p < cur'
           /\ cur' # Parts => Decrypts(cipher', cur' * Threshold, plain)
           /\ cur' = Parts => cipher'.dst = Run(0, plain)
<1>0. /\ Known /\ plain \in Nat /\ size \in Nat /\ size = CipherSize(plain)
      /\ Parts \in Nat \ {0} /\ Threshold \in Nat \ {0}
    <2>1. Known /\ plain \in Nat /\ size \in Nat /\ size = CipherSize(plain)
        BY SizeIs, Zenon DEF Typed, Known
    <2>. QED
        BY <2>1, PartsType, TransferAssumption, SMTT(30)
<1>1. /\ mpc # "terminated"
      /\ \A p \in PartIds : m_outcome[p] = "SUCCESS" /\ p + 1 \in done => p < cur
      /\ cur # Parts /\ outcome # "SUCCESS" => Decrypts(cipher, cur * Threshold, plain)
    BY Zenon DEF Placed
<1>2. /\ tpc[t] = "write" /\ ~(part[t] > cur) /\ cur' = cur + 1 /\ m_outcome' = m_outcome
      /\ \E s \in Writes(cipher, Content(t), plain) :
            cipher' = IF part[t] = Parts - 1 THEN Sync(s, plain) ELSE s
      /\ mpc' = IF Terminated(cipher') THEN "terminated" ELSE mpc
      /\ done' = done \cup {job[t]}
    BY ZenonT(30) DEF WritePartToOutputStream, WriteTo, EndJob, Pool!Finish
<1>3. part[t] = cur /\ cur \in PartIds /\ job[t] = cur + 1
    <2>1. part[t] \in PartIds /\ cur \in Int /\ job[t] \in Int /\ part[t] = job[t] - 1
        BY <1>2 DEF Typed, Buffered, IInv, Types, Appender
    <2>2. part[t] >= cur
        BY <1>2, InOrder, Zenon DEF WrittenInOrder
    <2>3. ~(part[t] > cur) /\ Parts \in Nat
        BY <1>0, <1>2, Zenon
    <2>. QED
        BY <2>1, <2>2, <2>3, SMTT(30) DEF PartIds
<1>4. PICK x, y, b \in Nat :
        /\ x = cur * Threshold /\ y = (cur + 1) * Threshold /\ b = MinOf(y, size) /\ x <= b /\ b <= size
        /\ (cur # Parts - 1 => y = b) /\ (cur = Parts - 1 => b = size)
    <2>1. PICK c \in PartIds : c = cur
        BY <1>3, Zenon
    <2>2. /\ c * Threshold \in Nat /\ c * Threshold <= size
          /\ (c + 1) * Threshold = c * Threshold + Threshold
          /\ c # Parts - 1 => (c + 1) * Threshold <= size
          /\ c = Parts - 1 => size < (c + 1) * Threshold
        BY <1>0, PartPlace, Zenon
    <2>3. PICK x, y \in Nat : x = c * Threshold /\ y = (c + 1) * Threshold /\ y = x + Threshold
        BY <1>0, <2>2, SMTT(30)
    <2>4. PICK b \in Nat :
            /\ b = MinOf(y, size) /\ x <= b /\ b <= size
            /\ (c # Parts - 1 => y = b) /\ (c = Parts - 1 => b = size)
        <3>1. x <= size /\ (c # Parts - 1 => y <= size) /\ (c = Parts - 1 => size < y)
            BY <2>2, <2>3, Zenon
        <3>. QED
            BY <1>0, <2>3, <3>1, SMTT(30) DEF MinOf
    <2>. QED
        BY <2>1, <2>3, <2>4, Zenon
<1>5. Content(t) = Run(x, b)
    BY <1>2, <1>3, <1>4, Zenon DEF Fetched, PartBytes
<1>6. Decrypts(cipher, x, plain)
    <2>1. cur # Parts
        BY <1>0, <1>3, SMTT(30) DEF PartIds
    <2>2. outcome # "SUCCESS"
        BY <1>0 DEF Known
    <2>. QED
        BY <1>1, <1>4, <2>1, <2>2, ZenonT(30)
<1>7. \A p \in PartIds : m_outcome'[p] = "SUCCESS" /\ p + 1 \in done' => p < cur'
    <2>1. SUFFICES ASSUME NEW p \in PartIds, m_outcome[p] = "SUCCESS", p + 1 \in done \/ p + 1 = cur + 1
                   PROVE  p < cur + 1
        <3>1. m_outcome' = m_outcome /\ cur' = cur + 1 /\ done' = done \cup {cur + 1}
            BY <1>2, <1>3, Zenon
        <3>. QED
            BY <3>1, Zenon
    <2>2. p \in Int /\ cur \in Int
        BY <1>0, <1>3, SMTT(30) DEF PartIds
    <2>3. p + 1 \in done => p < cur
        BY <1>1, <2>1, Zenon
    <2>. QED
        BY <2>1, <2>2, <2>3, SMTT(30)
<1>8. CASE cur = Parts - 1
    <2>1. PICK s \in Writes(cipher, Run(x, size), plain) : cipher' = Sync(s, plain)
        BY <1>2, <1>3, <1>4, <1>5, <1>8, Zenon
    <2>2. x <= size
        BY <1>4, <1>8, SMTT(30)
    <2>3. Sync(s, plain).dst = Run(0, plain) /\ ~Terminated(Sync(s, plain))
        BY <1>0, <1>6, <2>2, WholeWritten, SMTT(30)
    <2>4. cur' = Parts
        BY <1>0, <1>2, <1>8, SMTT(30)
    <2>5. mpc' # "terminated" /\ cipher'.dst = Run(0, plain)
        BY <1>1, <1>2, <2>1, <2>3, Zenon
    <2>. QED
        BY <1>7, <2>4, <2>5, Zenon
<1>9. CASE cur # Parts - 1
    <2>1. PICK s \in Writes(cipher, Run(x, b), plain) : cipher' = s
        BY <1>2, <1>3, <1>5, <1>9, Zenon
    <2>2. PICK z : Writes(cipher, Run(x, b), plain) = {z} /\ Decrypts(z, b, plain)
        <3>1. b <= CipherSize(plain) /\ x <= b
            BY <1>0, <1>4
        <3>. QED
            BY <1>0, <1>6, <3>1, WritesNextBytes, SMTT(30)
    <2>3. Decrypts(cipher', b, plain)
        BY <2>1, <2>2, Zenon
    <2>4. ~Terminated(cipher')
        BY <2>3, DecryptsOn, Zenon
    <2>5. b = cur' * Threshold
        BY <1>2, <1>4, <1>9, Zenon
    <2>6. cur' # Parts
        BY <1>0, <1>2, <1>3, <1>9, SMTT(30) DEF PartIds
    <2>7. mpc' # "terminated"
        BY <1>1, <1>2, <2>4, Zenon
    <2>. QED
        BY <1>7, <2>3, <2>5, <2>6, <2>7, Zenon
<1>. QED
    BY <1>8, <1>9, Zenon

\* Every step keeps Placed.
LEMMA PlacedStep ==
    ASSUME IInv, Typed, Fetched, Placed, Next PROVE Placed'
<1>0. UNCHANGED <<op, plain, size>> /\ Parts' = Parts /\ PartIds' = PartIds
    BY FileKept, SameParts, Zenon
<1>. SUFFICES ASSUME op = "download", ~junk'
              PROVE  /\ mpc' # "terminated"
                     /\ \A p \in PartIds : m_outcome'[p] = "SUCCESS" /\ p + 1 \in done' => p < cur'
                     /\ cur' # Parts /\ outcome' # "SUCCESS" => Decrypts(cipher', cur' * Threshold, plain)
                     /\ cur' = Parts \/ outcome' = "SUCCESS" => cipher'.dst = Run(0, plain)
    BY <1>0, Zenon DEF Placed
<1>1. ~junk
    BY JunkStays, Zenon
<1>2. /\ mpc # "terminated"
      /\ \A p \in PartIds : m_outcome[p] = "SUCCESS" /\ p + 1 \in done => p < cur
      /\ cur # Parts /\ outcome # "SUCCESS" => Decrypts(cipher, cur * Threshold, plain)
      /\ cur = Parts \/ outcome = "SUCCESS" => cipher.dst = Run(0, plain)
    BY <1>1, Zenon DEF Placed
<1>3. CASE Main
    BY <1>1, <1>3, CallerPlaces, Zenon
<1>4. ASSUME NEW t \in Threads, Work(t)
      PROVE  outcome' = outcome /\ outcome' # "SUCCESS" /\ mpc # "returned"
    <2>1. outcome' = outcome /\ mpc # "returned"
        BY <1>4, WorkCases, WorkInTime, Zenon
    <2>2. outcome # "none" => mpc = "returned"
        BY Zenon DEF Typed, Known
    <2>. QED
        BY <2>1, <2>2
<1>5. ASSUME NEW t \in Threads, TakeJob(t)
      PROVE  UNCHANGED <<mpc, m_outcome, done, cur, cipher>>
    BY <1>5, Zenon DEF TakeJob, Pool!Start, stream
<1>6. ASSUME NEW t \in Threads, FillAndGetBuf(t) \/ UploadPart(t) \/ RepeatRequest(t) PROVE FALSE
    <2>1. tpc[t] \in {"fill", "put"}
        BY <1>6, Zenon DEF FillAndGetBuf, ReadPart, UploadPart, RepeatRequest
    <2>. QED
        BY <2>1 DEF IInv, Jobs
<1>7. ASSUME NEW t \in Threads, GetObject(t)
      PROVE  /\ UNCHANGED <<mpc, cur, cipher>>
             /\ \A p \in PartIds : m_outcome'[p] = "SUCCESS" /\ p + 1 \in done' => p < cur'
    <2>. DEFINE q == job[t] - 1
    <2>1. /\ tpc[t] = "get" /\ UNCHANGED <<mpc, cur, cipher>>
          /\ \/ m_outcome' = [m_outcome EXCEPT ![q] = "SUCCESS"] /\ done' = done
             \/ /\ \E e \in Refusals(RangeOf(q)) : m_outcome' = [m_outcome EXCEPT ![q] = e]
                /\ done' = done \cup {job[t]}
        BY <1>7, Zenon DEF GetObject, EndJob, Pool!Finish, pool, stream
    <2>2. tpc[t] # "idle"
        BY <2>1
    <2>3. q \in PartIds /\ q + 1 = job[t] /\ job[t] \notin done /\ DOMAIN m_outcome = PartIds
        BY <2>2, JobPart DEF IInv, Jobs, Types
    <2>4. "SUCCESS" \notin Refusals(RangeOf(q))
        <3>1. Refusals(RangeOf(q)) \subseteq Refused
            BY TransferAssumption, Zenon DEF Refusals, Refused
        <3>. QED
            BY <3>1 DEF Refused
    <2>. HIDE DEF q
    <2>5. ASSUME NEW p \in PartIds, m_outcome'[p] = "SUCCESS", p + 1 \in done'
          PROVE  p < cur'
        <3>1. p # q
            BY <2>1, <2>3, <2>4, <2>5, SMTT(30)
        <3>2. m_outcome[p] = "SUCCESS"
            BY <2>1, <2>3, <2>5, <3>1, SMTT(30)
        <3>3. p + 1 # job[t]
            BY <2>3, <3>1 DEF PartIds
        <3>4. p + 1 \in done
            BY <2>1, <2>5, <3>3, Zenon
        <3>. QED
            BY <1>2, <2>1, <3>2, <3>4, ZenonT(30)
    <2>. QED
        BY <2>1, <2>5, Zenon
<1>8. ASSUME NEW t \in Threads, WritePartToOutputStream(t), mpc # "returned"
      PROVE  /\ mpc' # "terminated"
             /\ \A p \in PartIds : m_outcome'[p] = "SUCCESS" /\ p + 1 \in done' => p < cur'
             /\ cur' # Parts => Decrypts(cipher', cur' * Threshold, plain)
             /\ cur' = Parts => cipher'.dst = Run(0, plain)
    BY <1>1, <1>8, AppenderPlaces, SMTT(30)
<1>9. ASSUME NEW t \in Threads, Work(t)
      PROVE  /\ mpc' # "terminated"
             /\ \A p \in PartIds : m_outcome'[p] = "SUCCESS" /\ p + 1 \in done' => p < cur'
             /\ cur' # Parts /\ outcome' # "SUCCESS" => Decrypts(cipher', cur' * Threshold, plain)
             /\ cur' = Parts \/ outcome' = "SUCCESS" => cipher'.dst = Run(0, plain)
    <2>1. outcome' = outcome /\ outcome' # "SUCCESS" /\ mpc # "returned"
        BY <1>4, <1>9, Zenon
    <2>2. CASE TakeJob(t)
        BY <1>2, <1>5, <2>1, <2>2, Zenon
    <2>3. CASE GetObject(t)
        BY <1>2, <1>7, <2>1, <2>3, Zenon
    <2>4. CASE WritePartToOutputStream(t)
        BY <1>8, <2>1, <2>4, Zenon
    <2>. QED
        BY <1>6, <1>9, <2>2, <2>3, <2>4, Zenon DEF Work
<1>. QED
    BY <1>3, <1>9, Zenon DEF Next

(***************************************************************************)
(* Results about the bytes                                                 *)
(***************************************************************************)
\* Nothing happens to the file before the first step.
LEMMA InitBytes == Init => Typed /\ Sent /\ Fetched /\ Placed
<1>. SUFFICES ASSUME Init PROVE Typed /\ Sent /\ Fetched /\ Placed
    OBVIOUS
<1>1. /\ op \in {"upload", "download"} /\ plain \in Sizes /\ size = CipherSize(plain)
      /\ large \in IF op = "upload" THEN BOOLEAN ELSE {size > Threshold}
      /\ stored \in IF op = "upload" THEN {NoDigest, -1, plain - 1, plain} ELSE {plain}
      /\ mpc = "start" /\ outcome = "none" /\ phase = "open" /\ done = {}
      /\ tpc = [t \in Threads |-> "idle"]
      /\ job = [t \in Threads |-> 0] /\ part = [t \in Threads |-> 0]
      /\ data = [t \in Threads |-> [k \in 1..Threshold |-> NoByte]]
      /\ len = [t \in Threads |-> 0] /\ pptr = [t \in Threads |-> 0]
      /\ junk = FALSE /\ repeats = 0
      /\ cipher = NewStream(IF op = "upload" THEN "ENCRYPT" ELSE "DECRYPT")
      /\ cur = (IF op = "upload" THEN -1 ELSE 0)
      /\ m_outcome = [p \in PartIds |-> "none"]
      /\ remote = [p \in PartIds |-> <<>>]
    BY Zenon DEF Init, Pool!Init
<1>2. /\ plain \in Nat /\ size \in Nat /\ Parts \in Nat \ {0} /\ Threshold \in Nat \ {0}
      /\ MaxRepeats \in Nat /\ 0 \in PartIds /\ NoByte \in Byte
    <2>1. plain \in Nat /\ size \in Nat
        BY <1>1, SizeIs, Zenon
    <2>2. Parts \in Nat \ {0} /\ Threshold \in Nat \ {0} /\ MaxRepeats \in Nat
        BY <2>1, PartsType, TransferAssumption, SMTT(30)
    <2>. QED
        BY <2>1, <2>2 DEF PartIds, NoByte, Byte
<1>3. Known
    <2>1. large \in BOOLEAN
        <3>1. (size > Threshold) \in BOOLEAN
            BY <1>2
        <3>. QED
            BY <1>1, <3>1, Zenon
    <2>2. stored \in {NoDigest, -1, plain - 1, plain}
        BY <1>1, Zenon
    <2>3. stored \in NoDigest..plain
        BY <1>2, <2>2 DEF NoDigest
    <2>. QED
        BY <1>1, <2>1, <2>3, SMTT(30) DEF Known
<1>4. Buffered
    <2>1. [k \in 1..Threshold |-> NoByte] \in [1..Threshold -> Byte]
        BY <1>2
    <2>2. PICK none : none = [k \in 1..Threshold |-> NoByte]
        BY Zenon
    <2>3. data = [t \in Threads |-> none] /\ none \in [1..Threshold -> Byte]
        BY <1>1, <2>1, <2>2, Zenon
    <2>4. data \in [Threads -> [1..Threshold -> Byte]]
        BY <2>3
    <2>5. /\ job \in [Threads -> 0..Parts] /\ part \in [Threads -> PartIds]
          /\ len \in [Threads -> 0..Threshold] /\ pptr \in [Threads -> 0..Threshold]
          /\ repeats \in 0..MaxRepeats /\ remote \in [PartIds -> Seq(Int)]
        BY <1>1, <1>2
    <2>. QED
        BY <1>1, <2>4, <2>5, Zenon DEF Buffered
<1>5. /\ Encrypts(NewStream("ENCRYPT"), 0, plain) /\ Decrypts(NewStream("DECRYPT"), 0, plain)
      /\ HasRead(cipher, 0)
    BY <1>1, <1>2, NewStreams, Zenon
<1>6. Streamed
    <2>1. cipher.read = 0 /\ 0 \in 0..plain
        BY <1>2, <1>5, SMTT(30) DEF HasRead
    <2>2. op = "upload" => MinOf((cur + 1) * Threshold, size) = 0
        BY <1>1, <1>2, SMTT(30) DEF MinOf
    <2>3. op = "upload" => Encrypts(cipher, 0, plain)
        BY <1>1, <1>5, Zenon
    <2>. QED
        BY <1>5, <2>1, <2>2, <2>3, ZenonT(30) DEF Streamed
<1>7. Sent /\ Fetched
    BY <1>1 DEF Sent, Fetched
<1>8. Placed
    <2>1. op = "download" => cur = 0 /\ cur * Threshold = 0 /\ cur # Parts
        BY <1>1, <1>2
    <2>2. op = "download" => Decrypts(cipher, 0, plain)
        <3>1. op = "download" => cipher = NewStream("DECRYPT")
            BY <1>1, SMTT(30)
        <3>. QED
            BY <1>5, <3>1, Zenon
    <2>3. mpc # "terminated" /\ outcome # "SUCCESS"
        BY <1>1
    <2>. QED
        BY <1>1, <2>1, <2>2, <2>3, ZenonT(30) DEF Placed
<1>. QED
    BY <1>3, <1>4, <1>6, <1>7, <1>8, Zenon DEF Typed

\* A step that changes nothing.
LEMMA Stutters ==
    ASSUME UNCHANGED vars
    PROVE  /\ Typed => Typed' /\ (Sent => Sent')
           /\ Fetched => Fetched' /\ (Placed => Placed')
<1>1. /\ UNCHANGED <<op, large, plain, size, stored, mpc, outcome, phase, done, tpc, job, part>>
      /\ UNCHANGED <<data, len, pptr, junk, repeats, cipher, cur, m_outcome, remote, object>>
    BY Zenon DEF vars, file, pool, buffers, stream, service
<1>2. Parts' = Parts /\ PartIds' = PartIds /\ Byte' = Byte
    BY <1>1, SameParts, Zenon DEF Byte
<1>3. Typed => Typed'
    BY <1>1, <1>2, Zenon DEF Typed, Known, Buffered, Streamed
<1>4. Sent => Sent'
    BY <1>1, <1>2, Zenon DEF Sent, Content, PartBytes
<1>5. Fetched => Fetched'
    BY <1>1, <1>2, Zenon DEF Fetched, Content, PartBytes
<1>6. Placed => Placed'
    BY <1>1, <1>2, Zenon DEF Placed
<1>. QED
    BY <1>3, <1>4, <1>5, <1>6, ZenonT(30)

\* Uploads, for files of any size.
THEOREM BytesSent == Spec => [](Typed /\ Sent)
<1>1. Init => Typed /\ Sent
    BY InitBytes, Zenon
<1>2. IInv /\ Typed /\ Sent /\ [Next]_vars => (Typed /\ Sent)'
    BY TypedStep, SentStep, Stutters, Zenon
<1>. QED
    BY <1>1, <1>2, Invariance, PTL DEF Spec

\* Downloads, for files below 2^32 bytes.
THEOREM BytesReceived ==
    ASSUME SmallFiles PROVE Spec => [](Fetched /\ Placed)
<1>1. Init => Fetched /\ Placed
    BY InitBytes, Zenon
<1>2. IInv /\ Typed /\ Fetched /\ Placed /\ [Next]_vars => (Fetched /\ Placed)'
    BY FetchedStep, PlacedStep, Stutters, Zenon
<1>. QED
    BY <1>1, <1>2, Invariance, BytesSent, PTL DEF Spec

\* Every variable keeps its type: buffers hold at most DATA_SIZE_THRESHOLD bytes.
THEOREM TypeCorrect == Spec => []TypeOK
<1>1. IInv /\ Typed => TypeOK
    <2>. SUFFICES ASSUME IInv, Typed PROVE TypeOK
        OBVIOUS
    <2>1. /\ op \in {"upload", "download"} /\ size \in Nat
          /\ mpc \in {"start", "transfer", "add", "waiting", "complete", "returned", "threw", "terminated"}
          /\ done \subseteq 1..started
          /\ tpc \in [Threads -> {"idle", "fill", "put", "get", "write"}]
        BY Zenon DEF IInv, Types
    <2>2. added \in 0..Parts /\ started \in 0..added
        BY <2>1, PartsType DEF IInv, Types
    <2>3. cur \in -1..Parts
        BY Current, Zenon
    <2>4. m_outcome \in [PartIds -> Outcomes \cup {"none"}]
        BY DEF IInv, Types, Refused, Outcomes
    <2>5. DOMAIN remote = PartIds
        BY DEF Typed, Buffered
    <2>. QED
        BY <2>1, <2>2, <2>3, <2>4, <2>5, ZenonT(30) DEF TypeOK, Typed, Known, Buffered, Streamed
<1>. QED
    BY <1>1, Invariance, BytesSent, PTL

\* For files below 2^32 bytes: nothing is encrypted or decrypted after finalize, finalize comes
\* after the last byte, and so the process goes on, unless something else than the object was
\* written to the stream.
THEOREM CipherUsedInOrder ==
    ASSUME SmallFiles PROVE Spec => []CipherEndsLast
<1>1. Typed /\ Placed => CipherEndsLast
    <2>. SUFFICES ASSUME Typed, Placed, mpc = "terminated" PROVE junk
        BY Zenon DEF CipherEndsLast
    <2>1. op = "download"
        BY Zenon DEF Typed, Known
    <2>. QED
        BY <2>1, Zenon DEF Placed
<1>. QED
    BY <1>1, BytesSent, BytesReceived, PTL

\* For files below 2^32 bytes: the local file of a download is always a prefix of the file,
\* in whatever order its parts arrive, unless a request was repeated.
THEOREM OutputInOrder ==
    ASSUME SmallFiles PROVE Spec => []OutputIsPrefix
<1>1. IInv /\ Typed /\ Placed => OutputIsPrefix
    <2>. SUFFICES ASSUME IInv, Typed, Placed, ~junk
                  PROVE  cipher.dst = Bytes(0, Len(cipher.dst) - 1)
        BY Zenon DEF OutputIsPrefix
    <2>1. PICK d \in Nat : cipher.dst = Run(0, d)
        <3>1. CASE op = "upload"
            <4>1. cipher.dst = <<>>
                BY <3>1, Zenon DEF Typed, Streamed, Encrypts
            <4>2. Run(0, 0) = <<>> /\ 0 \in Nat
                BY RunNone
            <4>. QED
                BY <4>1, <4>2, Zenon
        <3>2. CASE op = "download"
            <4>1. plain \in Nat
                BY SizeIs, Zenon DEF Typed, Known
            <4>2. cipher.dst = Run(0, plain) \/ Decrypts(cipher, cur * Threshold, plain)
                BY <3>2, Zenon DEF Placed
            <4>. QED
                BY <4>1, <4>2, OutputSoFar, Zenon
        <3>. QED
            BY <3>1, <3>2, Zenon DEF IInv, Types
    <2>2. Len(Run(0, d)) = d
        BY DEF Run, Bytes
    <2>. QED
        BY <2>1, <2>2, Zenon DEF Run
<1>. QED
    BY <1>1, Invariance, BytesSent, BytesReceived, PTL

\* For files below 2^32 bytes: success is reported only when the object is the encrypted file,
\* or the local file the decrypted object, byte for byte, unless a request was repeated.
THEOREM WholeFileMoved ==
    ASSUME SmallFiles PROVE Spec => []TransferredIsFile
<1>1. IInv /\ Sent /\ Placed => TransferredIsFile
    <2>. SUFFICES ASSUME IInv, Sent, Placed, outcome = "SUCCESS", ~junk
                  PROVE  IF op = "upload" THEN object = Bytes(0, size - 1)
                                          ELSE cipher.dst = Bytes(0, plain - 1)
        BY Zenon DEF TransferredIsFile
    <2>1. op \in {"upload", "download"}
        BY Zenon DEF IInv, Types
    <2>2. op = "upload" => object = Run(0, size)
        BY Zenon DEF Sent
    <2>3. op = "download" => cipher.dst = Run(0, plain)
        BY Zenon DEF Placed
    <2>. QED
        BY <2>1, <2>2, <2>3, Zenon DEF Run
<1>. QED
    BY <1>1, Invariance, BytesSent, BytesReceived, PTL

====
