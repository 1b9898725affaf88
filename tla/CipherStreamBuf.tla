-------------------------- MODULE CipherStreamBuf --------------------------
(***************************************************************************)
(* The stream buffer that encrypts what is read from a file, and decrypts  *)
(* what is written to one, as operators on its state, and the cipher       *)
(* context under it (AES in CBC mode, with padding).                       *)
(*                                                                         *)
(* A byte is its place in the file; encrypted and decrypted bytes in the   *)
(* same place are the same number, and padding takes the places after the  *)
(* last byte.  n is the size of the plain file.                            *)
(***************************************************************************)
EXTENDS Integers, Sequences

CONSTANTS
    Block,      \* the block size of the cipher
    Batch       \* m_blockSize: the size of m_srcBuffer

ASSUME CipherAssumption == Block \in Nat \ {0} /\ Batch \in Nat /\ Block <= Batch

MinOf(a, b) == IF a < b THEN a ELSE b

\* The bytes first..last of the file.
Bytes(first, last) == [k \in 1..(last - first + 1) |-> first + k - 1]

\* The size of an encrypted file: padding adds at least one byte.
CipherSize(n) == ((n + Block) \div Block) * Block

(***************************************************************************)
(* The context: op and the bytes it holds back.  A call that OpenSSL       *)
(* refuses, or one without an operation, runs into "throw;" without an     *)
(* exception, which ends the process: op is then "terminated".             *)
(***************************************************************************)
Refuse(ctx) == [ctx |-> [ctx EXCEPT !.op = "terminated"], out |-> <<>>]

\* next: whole blocks come out, but decryption keeps the last one.
CtxNext(ctx, in) ==
    LET all == ctx.held \o in
        k   == CASE ctx.op = "ENCRYPT" -> (Len(all) \div Block) * Block
                 [] ctx.op # "ENCRYPT" /\ all # <<>> -> ((Len(all) - 1) \div Block) * Block
                 [] OTHER -> 0
    IN  IF ctx.op \in {"ENCRYPT", "DECRYPT"}
        THEN [ctx |-> [ctx EXCEPT !.held = SubSeq(all, k + 1, Len(all))], out |-> SubSeq(all, 1, k)]
        ELSE Refuse(ctx)

\* finalize: padding is added, or found at the end of the block that was kept and taken off.
CtxFinalize(ctx, n) ==
    LET last   == CipherSize(n) - 1
        padded == Len(ctx.held) = Block /\ ctx.held[Block] = last
        done   == [op |-> "INVALID", held |-> <<>>]
    IN  CASE ctx.op = "ENCRYPT" -> [ctx |-> done, out |-> ctx.held \o Bytes(n, last)]
          [] ctx.op = "DECRYPT" /\ padded ->
                [ctx |-> done, out |-> SubSeq(ctx.held, 1, Block - (last + 1 - n))]
          [] OTHER -> Refuse(ctx)

(***************************************************************************)
(* The buffer.  get: from gptr to egptr; put: from pbase to pptr; read and *)
(* dst: what has been taken from m_streambuf, or written to it.            *)
(***************************************************************************)
NewStream(op) ==
    [ctx |-> [op |-> op, held |-> <<>>], get |-> <<>>, put |-> <<>>, read |-> 0, dst |-> <<>>,
     m_readReachEnds |-> FALSE, m_finalized |-> FALSE]

Terminated(s) == s.ctx.op = "terminated"

\* The body of underflow's loop.  A full batch holds a block, so once is enough.
Refill(s, n) ==
    LET got == MinOf(Batch, n - s.read)
        nxt == CtxNext(s.ctx, Bytes(s.read, s.read + got - 1))
    IN  [s EXCEPT !.ctx = nxt.ctx, !.get = nxt.out, !.read = @ + got,
                  !.m_readReachEnds = got < Batch]

Underflow(s, n) ==
    LET t   == IF s.get = <<>> /\ ~s.m_readReachEnds THEN Refill(s, n) ELSE s
        fin == CtxFinalize(t.ctx, n)
    IN  IF t.get = <<>> /\ t.m_readReachEnds /\ ~t.m_finalized
        THEN [t EXCEPT !.ctx = fin.ctx, !.get = fin.out, !.m_finalized = TRUE]
        ELSE t

\* One round of xsgetn: r.bytes have been read, and as many as are there follow, up to k.
ReadRound(r, k, n) ==
    LET u == Underflow(r.stream, n)
        m == MinOf(k - Len(r.bytes), Len(u.get))
    IN  IF Len(r.bytes) = k THEN r
        ELSE [stream |-> [u EXCEPT !.get = SubSeq(@, m + 1, Len(@))],
              bytes  |-> r.bytes \o SubSeq(u.get, 1, m)]

\* The one result of reading up to k characters, in a set.  An underflow yields a block at
\* least, until the input ends.
Reads(s, k, n) ==
    LET after[j \in 0..(k \div Block + 2)] ==
            IF j = 0 THEN {[stream |-> s, bytes |-> <<>>]}
            ELSE {ReadRound(r, k, n) : r \in after[j - 1]}
    IN  after[k \div Block + 2]

\* overflow: ch is a sequence of one character, or empty for EOF.
Overflow(s, ch, n) ==
    LET nxt == CtxNext(s.ctx, s.put)
        fin == IF ch = <<>> THEN CtxFinalize(nxt.ctx, n) ELSE [nxt EXCEPT !.out = <<>>]
    IN  IF s.put = <<>> THEN s
        ELSE [s EXCEPT !.ctx = fin.ctx, !.put = ch, !.dst = @ \o nxt.out \o fin.out]

\* sputc: a full buffer overflows.
Put(s, ch, n) ==
    IF Len(s.put) < Batch THEN [s EXCEPT !.put = @ \o ch] ELSE Overflow(s, ch, n)

\* The one result of writing characters one after the other, in a set.
Writes(s, bytes, n) ==
    LET after[j \in 0..Len(bytes)] ==
            IF j = 0 THEN {s} ELSE {Put(w, <<bytes[j]>>, n) : w \in after[j - 1]}
    IN  after[Len(bytes)]

Sync(s, n) == Overflow(s, <<>>, n)

====
