------------------------ MODULE StorageClientProofs ------------------------
(***************************************************************************)
(* First what CipherStreamBuf promises to those who read from it and write *)
(* to it, for any sizes of block, batch, file and request: reading gives   *)
(* the encrypted file from where the last read ended, writing the          *)
(* encrypted file in pieces of any size and flushing gives the file.       *)
(*                                                                         *)
(* Then transfers in parts, for any number of threads, sizes and errors:   *)
(* the calling thread returns last and reports a refused part, the         *)
(* splitter numbers every part once, and the appender writes them in       *)
(* order.                                                                  *)
(***************************************************************************)
EXTENDS StorageClient, FiniteSetTheorems, WellFoundedInduction, TLAPS

\* Every nonempty set of natural numbers has a least element.
LEMMA Least ==
    ASSUME NEW T, T \subseteq Nat, T # {}
    PROVE  \E x \in T : \A y \in T : x <= y
<1>. DEFINE R == {ss \in Nat \X Nat : ss[1] < ss[2]}
<1>1. IsWellFoundedOn(R, Nat)
    BY NatLessThanWellFounded DEF OpToRel
<1>. HIDE DEF R
<1>2. PICK x \in T : \A y \in T : ~(<<y, x>> \in R)
    BY <1>1, WFMin, Zenon
<1>3. ASSUME NEW y \in T, y < x PROVE FALSE
    <2>1. <<y, x>> \in Nat \X Nat /\ <<y, x>>[1] < <<y, x>>[2]
        BY <1>3
    <2>2. <<y, x>> \in R
        BY <2>1, Zenon DEF R
    <2>. QED
        BY <1>2, <2>2, Zenon
<1>. QED
    BY <1>3

\* Induction up to m.
LEMMA Induction ==
    ASSUME NEW m \in Nat, NEW S, 0 \in S, \A j \in 0..(m - 1) : j \in S => j + 1 \in S
    PROVE  0..m \subseteq S
<1>. DEFINE T == (0..m) \ S
<1>1. SUFFICES ASSUME T # {} PROVE FALSE
    OBVIOUS
<1>2. T \subseteq Nat
    OBVIOUS
<1>3. PICK x \in T : \A y \in T : x <= y
    BY <1>1, <1>2, Least, Zenon
<1>4. x - 1 \in 0..(m - 1) /\ x - 1 \notin T /\ x - 1 + 1 = x
    BY <1>3
<1>5. x - 1 \in 0..m
    BY <1>4
<1>6. x \in S
    BY <1>4, <1>5
<1>. QED
    BY <1>6

\* Division of natural numbers.
LEMMA DivMod ==
    ASSUME NEW x \in Nat, NEW d \in Nat \ {0}
    PROVE  /\ x \div d \in Nat /\ x % d \in 0..(d - 1) /\ x = d * (x \div d) + (x % d)
OBVIOUS

LEMMA Multiple ==
    ASSUME NEW q \in Nat, NEW d \in Nat \ {0}
    PROVE /\ q * d \in Nat /\ d * q = q * d /\ (q # 0 => q * d >= d) /\ (q + 1) * d = q * d + d
OBVIOUS

\* Padding adds between one byte and a block.
LEMMA SizePadded ==
    ASSUME NEW n \in Nat
    PROVE  /\ CipherSize(n) \in Nat /\ n < CipherSize(n) /\ CipherSize(n) <= n + Block
BY CipherAssumption, DivMod DEF CipherSize

\* The bytes from a up to b, without b.
Run(a, b) == Bytes(a, b - 1)

\* Runs as sequences: their length, elements, concatenation and parts.
LEMMA RunLen == \A a, b \in Nat : a <= b => Len(Run(a, b)) = b - a
BY DEF Run, Bytes

LEMMA RunType == \A a, b \in Nat : a <= b => Run(a, b) \in Seq(Int)
BY DEF Run, Bytes

LEMMA RunNone == \A a, b \in Nat : a <= b => (Run(a, b) = <<>> <=> a = b)
BY DEF Run, Bytes

LEMMA RunAt == \A a, b \in Nat : \A k \in 1..(b - a) : Run(a, b)[k] = a + k - 1
BY DEF Run, Bytes

LEMMA RunConcat == \A a, b, c \in Nat : a <= b /\ b <= c => Run(a, b) \o Run(b, c) = Run(a, c)
BY DEF Run, Bytes

LEMMA RunHead ==
    ASSUME NEW a \in Nat, NEW c \in Nat, NEW k \in Nat, a + k <= c
    PROVE  SubSeq(Run(a, c), 1, k) = Run(a, a + k)
BY DEF Run, Bytes

LEMMA RunSplit ==
    \A a, c, k \in Nat :
        k <= c - a =>
            /\ SubSeq(Run(a, c), 1, k) = Run(a, a + k)
            /\ SubSeq(Run(a, c), k + 1, c - a) = Run(a + k, c)
BY DEF Run, Bytes

\* f is the function "after" of Reads.
Rounds(f, s, k, n) ==
    f = [j \in 0..(k \div Block + 2) |->
            IF j = 0 THEN {[stream |-> s, bytes |-> <<>>]}
            ELSE {ReadRound(r, k, n) : r \in f[j - 1]}]

\* There is such a function.
LEMMA ReadsUnfold ==
    ASSUME NEW s, NEW k \in Nat, NEW n
    PROVE  \E f : Rounds(f, s, k, n) /\ Reads(s, k, n) = f[k \div Block + 2]
<1>. DEFINE K == k \div Block + 2
            One == {[stream |-> s, bytes |-> <<>>]}
            Is(f, m) == f = [j \in 0..m |->
                            IF j = 0 THEN One ELSE {ReadRound(r, k, n) : r \in f[j - 1]}]
            S == {m \in 0..K : \E f : Is(f, m)}
<1>1. K \in Nat
    BY CipherAssumption, DivMod
<1>2. 0 \in S
    <2>. DEFINE f == [j \in 0..0 |-> One]
    <2>1. Is(f, 0)
        OBVIOUS
    <2>2. 0 \in 0..K
        BY <1>1
    <2>. QED
        BY <2>1, <2>2, Zenon
<1>3. ASSUME NEW m \in 0..(K - 1), m \in S PROVE m + 1 \in S
    <2>1. PICK f : Is(f, m)
        BY <1>3
    <2>. DEFINE g == [j \in 0..(m + 1) |->
                        IF j = m + 1 THEN {ReadRound(r, k, n) : r \in f[m]} ELSE f[j]]
    <2>2. \A j \in 0..m : g[j] = f[j]
        BY <1>1
    <2>3. ASSUME NEW j \in 0..(m + 1)
          PROVE  g[j] = IF j = 0 THEN One ELSE {ReadRound(r, k, n) : r \in g[j - 1]}
        <3>1. CASE j = m + 1
            <4>1. j # 0 /\ j - 1 = m /\ g[m] = f[m]
                BY <1>1, <2>2, <3>1
            <4>. QED
                BY <3>1, <4>1, Zenon
        <3>2. CASE j \in 0..m
            <4>1. g[j] = IF j = 0 THEN One ELSE {ReadRound(r, k, n) : r \in f[j - 1]}
                BY <2>1, <2>2, <3>2, Zenon
            <4>2. j # 0 => g[j - 1] = f[j - 1]
                BY <1>1, <2>2, <3>2
            <4>. QED
                BY <4>1, <4>2, Zenon
        <3>. QED
            BY <1>1, <3>1, <3>2
    <2>4. Is(g, m + 1)
        BY <2>3, Zenon
    <2>5. m + 1 \in 0..K
        BY <1>1
    <2>. QED
        BY <2>4, <2>5, Zenon
<1>4. K \in S
    <2>. HIDE DEF S
    <2>1. 0..K \subseteq S
        BY <1>1, <1>2, <1>3, Induction
    <2>. QED
        BY <1>1, <2>1
<1>5. \E f : Is(f, K)
    BY <1>4, Zenon
<1>. DEFINE after == CHOOSE f : Is(f, K)
<1>6. Is(after, K)
    BY <1>5, Zenon
<1>7. Reads(s, k, n) = after[K]
    BY Zenon DEF Reads
<1>. HIDE DEF after
<1>. QED
    BY <1>6, <1>7, Zenon DEF Rounds

\* f is the function "after" of Writes.
Puts(f, s, bytes, n) ==
    f = [j \in 0..Len(bytes) |->
            IF j = 0 THEN {s} ELSE {Put(w, <<bytes[j]>>, n) : w \in f[j - 1]}]

\* There is such a function.
LEMMA WritesUnfold ==
    ASSUME NEW s, NEW bytes, Len(bytes) \in Nat, NEW n
    PROVE  \E f : Puts(f, s, bytes, n) /\ Writes(s, bytes, n) = f[Len(bytes)]
<1>. DEFINE K == Len(bytes)
            One == {s}
            Is(f, m) == f = [j \in 0..m |->
                            IF j = 0 THEN One ELSE {Put(w, <<bytes[j]>>, n) : w \in f[j - 1]}]
            S == {m \in 0..K : \E f : Is(f, m)}
<1>1. K \in Nat
    OBVIOUS
<1>2. 0 \in S
    <2>. DEFINE f == [j \in 0..0 |-> One]
    <2>1. Is(f, 0)
        OBVIOUS
    <2>2. 0 \in 0..K
        BY <1>1
    <2>. QED
        BY <2>1, <2>2, Zenon
<1>3. ASSUME NEW m \in 0..(K - 1), m \in S PROVE m + 1 \in S
    <2>1. PICK f : Is(f, m)
        BY <1>3, Zenon
    <2>. DEFINE g == [j \in 0..(m + 1) |->
                        IF j = m + 1 THEN {Put(w, <<bytes[j]>>, n) : w \in f[m]} ELSE f[j]]
    <2>2. \A j \in 0..m : g[j] = f[j]
        BY <1>1
    <2>3. ASSUME NEW j \in 0..(m + 1)
          PROVE  g[j] = IF j = 0 THEN One ELSE {Put(w, <<bytes[j]>>, n) : w \in g[j - 1]}
        <3>1. CASE j = m + 1
            <4>1. j # 0 /\ j - 1 = m /\ g[m] = f[m]
                BY <1>1, <2>2, <3>1
            <4>. QED
                BY <3>1, <4>1, Zenon
        <3>2. CASE j \in 0..m
            <4>1. g[j] = IF j = 0 THEN One ELSE {Put(w, <<bytes[j]>>, n) : w \in f[j - 1]}
                BY <2>1, <2>2, <3>2, Zenon
            <4>2. j # 0 => g[j - 1] = f[j - 1]
                BY <1>1, <2>2, <3>2
            <4>. QED
                BY <4>1, <4>2, Zenon
        <3>. QED
            BY <1>1, <3>1, <3>2
    <2>4. Is(g, m + 1)
        BY <2>3, Zenon
    <2>5. m + 1 \in 0..K
        BY <1>1
    <2>. QED
        BY <2>4, <2>5, Zenon
<1>4. K \in S
    <2>. HIDE DEF S
    <2>1. 0..K \subseteq S
        BY <1>1, <1>2, <1>3, Induction, SMTT(30)
    <2>. QED
        BY <1>1, <2>1
<1>5. \E f : Is(f, K)
    BY <1>4, Zenon
<1>. DEFINE after == CHOOSE f : Is(f, K)
<1>6. Is(after, K)
    BY <1>5, Zenon
<1>7. Writes(s, bytes, n) = after[K]
    BY Zenon DEF Writes
<1>. HIDE DEF after
<1>. QED
    BY <1>6, <1>7, Zenon DEF Puts

(***************************************************************************)
(* The states of a stream                                                  *)
(***************************************************************************)
Operations == {"ENCRYPT", "DECRYPT", "INVALID", "terminated"}
Contexts   == [op : Operations, held : Seq(Int)]

Streams ==
    [ctx : Contexts, get : Seq(Int), put : Seq(Int), read : Nat,
     dst : Seq(Int), m_readReachEnds : BOOLEAN, m_finalized : BOOLEAN]

\* pos bytes have been read: the next ones are in get, and those after them are held.
Encrypts(s, pos, n) ==
    /\ s \in Streams /\ s.read <= n /\ pos \in Nat /\ s.dst = <<>>
    /\ \/ /\ s.m_finalized /\ s.m_readReachEnds /\ pos <= CipherSize(n)
          /\ s.get = Run(pos, CipherSize(n))
       \/ /\ ~s.m_finalized /\ (s.m_readReachEnds => s.read = n)
          /\ \E a \in pos..s.read :
                s.get = Run(pos, a) /\ s.ctx = [op |-> "ENCRYPT", held |-> Run(a, s.read)]

\* w bytes have been written: the first are in dst, those after them held, the last in put.
Decrypts(s, w, n) ==
    /\ s \in Streams /\ w \in Nat /\ w <= CipherSize(n)
    /\ Len(s.put) <= Batch /\ (w # 0 => s.put # <<>>)
    /\ \E q \in Nat, h \in 0..w :
        /\ q * Block <= h
        /\ s.dst = Run(0, q * Block)
        /\ s.ctx = [op |-> "DECRYPT", held |-> Run(q * Block, h)]
        /\ s.put = Run(h, w)

\* A context may hold any bytes.
LEMMA ContextType ==
    \A o \in Operations, h \in Seq(Int) : [op |-> o, held |-> h] \in Contexts
BY DEF Contexts

\* next of an encrypting context that holds a..r-1 gives out whole blocks from a on.
LEMMA CtxEncrypts ==
    ASSUME NEW a \in Nat, NEW r \in Nat, NEW c \in Nat, a <= r, r <= c
    PROVE  \E b \in a..c :
            /\ CtxNext([op |-> "ENCRYPT", held |-> Run(a, r)], Run(r, c)) =
                    [ctx |-> [op |-> "ENCRYPT", held |-> Run(b, c)], out |-> Run(a, b)]
            /\ b # a => b >= a + Block
            /\ c >= a + Block => b # a
<1>. DEFINE ctx == [op |-> "ENCRYPT", held |-> Run(a, r)]
            l   == c - a
            q   == l \div Block
            k   == q * Block
<1>1. l \in Nat /\ Block \in Nat \ {0}
    BY CipherAssumption
<1>2. /\ q \in Nat /\ k \in Nat /\ k <= l /\ l < k + Block
      /\ (q # 0 => k >= Block) /\ (q = 0 => k = 0)
    <2>1. q \in Nat /\ l % Block \in 0..(Block - 1) /\ l = Block * q + (l % Block)
        BY <1>1, DivMod, Zenon
    <2>2. Block * q = k /\ k \in Nat /\ (q # 0 => k >= Block) /\ (q = 0 => k = 0)
        BY <1>1, <2>1, Multiple
    <2>. HIDE DEF q, k, l
    <2>. QED
        BY <1>1, <2>1, <2>2
<1>3. Run(a, r) \o Run(r, c) = Run(a, c) /\ Len(Run(a, c)) = l
    <2>1. Run(a, r) \o Run(r, c) = Run(a, c)
        BY RunConcat, Zenon
    <2>2. a <= c
        OBVIOUS
    <2>3. Len(Run(a, c)) = l
        BY <2>2, RunLen, Zenon
    <2>. QED
        BY <2>1, <2>3
<1>4. CtxNext(ctx, Run(r, c)) =
        [ctx |-> [ctx EXCEPT !.held = SubSeq(Run(a, c), k + 1, l)], out |-> SubSeq(Run(a, c), 1, k)]
    <2>1. ctx.held = Run(a, r) /\ ctx.op = "ENCRYPT"
        OBVIOUS
    <2>. HIDE DEF ctx, l
    <2>. QED
        BY <1>3, <2>1, Zenon DEF CtxNext
<1>. HIDE DEF k, q
<1>5. SubSeq(Run(a, c), 1, k) = Run(a, a + k) /\ SubSeq(Run(a, c), k + 1, l) = Run(a + k, c)
    BY <1>2, RunSplit, ZenonT(30)
<1>6. /\ a + k \in a..c /\ (a + k # a => a + k >= a + Block) /\ (c >= a + Block => a + k # a)
    BY <1>1, <1>2
<1>7. [ctx EXCEPT !.held = Run(a + k, c)] = [op |-> "ENCRYPT", held |-> Run(a + k, c)]
    OBVIOUS
<1>. QED
    BY <1>4, <1>5, <1>6, <1>7, Zenon

\* next of a decrypting context gives out whole blocks, and keeps the last one.
LEMMA CtxDecrypts ==
    ASSUME NEW q \in Nat, NEW h \in Nat, NEW w \in Nat, q * Block <= h, h < w
    PROVE  \E e \in Nat :
            /\ q <= e /\ e * Block < w /\ w <= e * Block + Block
            /\ CtxNext([op |-> "DECRYPT", held |-> Run(q * Block, h)], Run(h, w)) =
                    [ctx |-> [op |-> "DECRYPT", held |-> Run(e * Block, w)],
                     out |-> Run(q * Block, e * Block)]
<1>. DEFINE d   == q * Block
            ctx == [op |-> "DECRYPT", held |-> Run(d, h)]
            l   == w - d
            j   == (l - 1) \div Block
            k   == j * Block
<1>1. l \in Nat \ {0} /\ Block \in Nat \ {0} /\ d \in Nat /\ d <= h
    BY CipherAssumption, Multiple
<1>2. j \in Nat /\ k \in Nat /\ k < l /\ l <= k + Block
    <2>1. /\ j \in Nat /\ (l - 1) % Block \in 0..(Block - 1)
          /\ l - 1 = Block * j + ((l - 1) % Block)
        <3>. DEFINE x == l - 1
        <3>1. x \in Nat
            BY <1>1
        <3>. HIDE DEF x
        <3>2. x \div Block \in Nat /\ x % Block \in 0..(Block - 1) /\ x = Block * (x \div Block) + (x % Block)
            BY <1>1, <3>1, DivMod, Zenon
        <3>. QED
            BY <3>2 DEF x
    <2>2. Block * j = k /\ k \in Nat
        BY <1>1, <2>1, Multiple
    <2>. HIDE DEF j, k, l
    <2>. QED
        BY <1>1, <2>1, <2>2
<1>. HIDE DEF d
<1>3. Run(d, h) \o Run(h, w) = Run(d, w) /\ Len(Run(d, w)) = l /\ Run(d, w) # <<>>
    <2>0. h <= w
        OBVIOUS
    <2>1. Run(d, h) \o Run(h, w) = Run(d, w)
        BY <1>1, <2>0, RunConcat, Zenon
    <2>2. d <= w /\ d # w
        BY <1>1
    <2>3. Len(Run(d, w)) = l /\ Run(d, w) # <<>>
        BY <1>1, <2>2, RunLen, RunNone, Zenon
    <2>. QED
        BY <2>1, <2>3
<1>4. CtxNext(ctx, Run(h, w)) =
        [ctx |-> [ctx EXCEPT !.held = SubSeq(Run(d, w), k + 1, l)], out |-> SubSeq(Run(d, w), 1, k)]
    <2>1. ctx.held = Run(d, h) /\ ctx.op = "DECRYPT" /\ ctx.op # "ENCRYPT"
        OBVIOUS
    <2>. HIDE DEF ctx, l
    <2>. QED
        BY <1>3, <2>1, Zenon DEF CtxNext
<1>. HIDE DEF k, j
<1>5. SubSeq(Run(d, w), 1, k) = Run(d, d + k) /\ SubSeq(Run(d, w), k + 1, l) = Run(d + k, w)
    <2>1. PICK x, y \in Nat : x = d /\ y = k
        BY <1>1, <1>2, Zenon
    <2>2. y <= w - x
        BY <1>1, <1>2, <2>1
    <2>3. SubSeq(Run(x, w), 1, y) = Run(x, x + y) /\ SubSeq(Run(x, w), y + 1, w - x) = Run(x + y, w)
        BY <2>2, RunSplit, Zenon
    <2>. QED
        BY <2>1, <2>3, Zenon
<1>6. (q + j) * Block = d + k
    BY <1>1, <1>2 DEF d, k
<1>7. q + j \in Nat /\ q <= q + j /\ d + k < w /\ w <= (d + k) + Block
    BY <1>1, <1>2
<1>8. [ctx EXCEPT !.held = Run(d + k, w)] = [op |-> "DECRYPT", held |-> Run(d + k, w)]
    OBVIOUS
<1>. QED
    BY <1>4, <1>5, <1>6, <1>7, <1>8, Zenon DEF d

(***************************************************************************)
(* Reading                                                                 *)
(***************************************************************************)
\* A call of underflow yields a block at least, or the last bytes.
LEMMA UnderflowEncrypts ==
    ASSUME NEW n \in Nat, NEW s, NEW pos, Encrypts(s, pos, n)
    PROVE  /\ Encrypts(Underflow(s, n), pos, n)
           /\ s.get # <<>> => Underflow(s, n) = s
           /\ s.get = <<>> =>
                Underflow(s, n).m_finalized \/ Len(Underflow(s, n).get) >= Block
<1>. DEFINE t   == IF s.get = <<>> /\ ~s.m_readReachEnds THEN Refill(s, n) ELSE s
            fin == CtxFinalize(t.ctx, n)
<1>0. /\ s \in Streams /\ s.read \in Nat /\ s.read <= n /\ pos \in Nat /\ s.dst = <<>>
      /\ CipherSize(n) \in Nat /\ n < CipherSize(n) /\ Block \in Nat \ {0} /\ Batch \in Nat
      /\ Block <= Batch
    BY SizePadded, CipherAssumption DEF Encrypts, Streams
<1>1. Underflow(s, n) =
        IF t.get = <<>> /\ t.m_readReachEnds /\ ~t.m_finalized
        THEN [t EXCEPT !.ctx = fin.ctx, !.get = fin.out, !.m_finalized = TRUE]
        ELSE t
    BY Zenon DEF Underflow
<1>2. ASSUME NEW a \in Nat, pos <= a, a <= s.read, s.get = Run(pos, a), ~s.m_finalized,
             s.ctx = [op |-> "ENCRYPT", held |-> Run(a, s.read)],
             s.get = <<>>, ~s.m_readReachEnds
      PROVE  /\ Encrypts(t, pos, n) /\ ~t.m_finalized
             /\ t.get = <<>> => t.m_readReachEnds
             /\ t.get # <<>> => Len(t.get) >= Block
    <2>. DEFINE got == MinOf(Batch, n - s.read)
                c   == s.read + got
    <2>1. /\ got \in Nat /\ c \in Nat /\ s.read <= c /\ c <= n
          /\ (got < Batch => c = n) /\ (~(got < Batch) => c >= s.read + Block)
        BY <1>0 DEF MinOf
    <2>. HIDE DEF got
    <2>2. Bytes(s.read, s.read + got - 1) = Run(s.read, c)
        <3>1. s.read \in Nat /\ got \in Nat
            BY <1>0, <2>1, Zenon
        <3>2. s.read + got - 1 = c - 1
            BY <3>1
        <3>. QED
            BY <3>2, Zenon DEF Run
    <2>. HIDE DEF c
    <2>3. PICK b \in a..c :
            /\ CtxNext([op |-> "ENCRYPT", held |-> Run(a, s.read)], Run(s.read, c)) =
                    [ctx |-> [op |-> "ENCRYPT", held |-> Run(b, c)], out |-> Run(a, b)]
            /\ b # a => b >= a + Block
            /\ c >= a + Block => b # a
        BY <1>0, <1>2, <2>1, CtxEncrypts, Zenon
    <2>4. t = [s EXCEPT !.ctx = [op |-> "ENCRYPT", held |-> Run(b, c)], !.get = Run(a, b),
                        !.read = @ + got, !.m_readReachEnds = got < Batch]
        <3>1. t = Refill(s, n)
            BY <1>2, Zenon
        <3>2. CtxNext(s.ctx, Bytes(s.read, s.read + got - 1)) =
                [ctx |-> [op |-> "ENCRYPT", held |-> Run(b, c)], out |-> Run(a, b)]
            BY <1>2, <2>2, <2>3, Zenon
        <3>. DEFINE nxt == CtxNext(s.ctx, Bytes(s.read, s.read + got - 1))
        <3>3. Refill(s, n) = [s EXCEPT !.ctx = nxt.ctx, !.get = nxt.out, !.read = @ + got,
                                       !.m_readReachEnds = got < Batch]
            BY Zenon DEF Refill, got
        <3>4. nxt.ctx = [op |-> "ENCRYPT", held |-> Run(b, c)] /\ nxt.out = Run(a, b)
            BY <3>2
        <3>. QED
            BY <3>1, <3>3, <3>4, Zenon
    <2>5. pos = a
        BY <1>0, <1>2, RunNone, Zenon
    <2>6. b \in Nat /\ a <= b /\ b <= c /\ b \in pos..c
        BY <1>0, <2>1, <2>3, <2>5
    <2>7. Run(a, b) \in Seq(Int) /\ Len(Run(a, b)) = b - a /\ (Run(a, b) = <<>> <=> a = b)
        BY <2>6, RunType, RunLen, RunNone, Zenon
    <2>8. /\ t \in Streams /\ t.ctx = [op |-> "ENCRYPT", held |-> Run(b, c)] /\ t.get = Run(a, b)
          /\ t.read = c /\ t.m_readReachEnds = (got < Batch) /\ t.m_finalized = s.m_finalized
          /\ t.dst = s.dst
        <3>1. Run(b, c) \in Seq(Int)
            BY <2>1, <2>6, RunType, Zenon
        <3>2. PICK x \in Contexts, g \in Seq(Int), y \in Nat, z \in BOOLEAN :
                /\ x = [op |-> "ENCRYPT", held |-> Run(b, c)] /\ g = Run(a, b)
                /\ y = c /\ z = (got < Batch)
            <4>1. "ENCRYPT" \in Operations /\ (got < Batch) \in BOOLEAN
                BY DEF Operations
            <4>. QED
                BY <2>1, <2>7, <3>1, <4>1, ContextType, Zenon
        <3>3. t = [s EXCEPT !.ctx = x, !.get = g, !.read = y, !.m_readReachEnds = z]
            BY <2>4, <3>2, Zenon DEF c
        <3>4. /\ t \in Streams /\ t.ctx = x /\ t.get = g
              /\ t.read = y /\ t.m_readReachEnds = z /\ t.m_finalized = s.m_finalized
              /\ t.dst = s.dst
            <4>1. s \in Streams
                BY <1>0, Zenon
            <4>. HIDE DEF t
            <4>. QED
                BY <3>3, <4>1, Zenon DEF Streams
        <3>. QED
            BY <3>2, <3>4, Zenon
    <2>9. Encrypts(t, pos, n)
        <3>. HIDE DEF t
        <3>. QED
            BY <1>0, <1>2, <2>1, <2>5, <2>6, <2>8, Zenon DEF Encrypts
    <2>10. t.get = <<>> => t.m_readReachEnds
        <3>1. b = a => got < Batch
            BY <1>0, <1>2, <2>1, <2>3
        <3>. QED
            BY <2>7, <2>8, <3>1, Zenon
    <2>11. t.get # <<>> => Len(t.get) >= Block
        BY <1>0, <2>3, <2>6, <2>7, <2>8
    <2>. QED
        BY <1>2, <2>8, <2>9, <2>10, <2>11, Zenon
<1>3. ASSUME NEW u, Encrypts(u, pos, n), u.get = <<>>, u.m_readReachEnds, ~u.m_finalized
      PROVE  /\ Encrypts([u EXCEPT !.ctx = CtxFinalize(u.ctx, n).ctx,
                                   !.get = CtxFinalize(u.ctx, n).out, !.m_finalized = TRUE], pos, n)
             /\ [u EXCEPT !.ctx = CtxFinalize(u.ctx, n).ctx,
                          !.get = CtxFinalize(u.ctx, n).out, !.m_finalized = TRUE].m_finalized
    <2>. DEFINE f == CtxFinalize(u.ctx, n)
                v == [u EXCEPT !.ctx = f.ctx, !.get = f.out, !.m_finalized = TRUE]
    <2>1. /\ u \in Streams /\ u.read = n /\ u.dst = <<>>
          /\ \E a \in pos..u.read :
                u.get = Run(pos, a) /\ u.ctx = [op |-> "ENCRYPT", held |-> Run(a, u.read)]
        BY <1>3, Zenon DEF Encrypts
    <2>2. PICK a \in pos..n : u.get = Run(pos, a) /\ u.ctx = [op |-> "ENCRYPT", held |-> Run(a, n)]
        BY <2>1, Zenon
    <2>3. a = pos /\ pos <= n
        <3>1. a \in Nat /\ pos \in Nat /\ pos <= a /\ a <= n
            BY <1>0, <2>2
        <3>2. a = pos
            BY <1>3, <2>2, <3>1, RunNone, Zenon
        <3>. QED
            BY <3>1, <3>2
    <2>4. u.ctx.op = "ENCRYPT" /\ u.ctx.held = Run(pos, n)
        BY <2>2, <2>3
    <2>5. Run(pos, n) \o Bytes(n, CipherSize(n) - 1) = Run(pos, CipherSize(n))
        <3>1. Bytes(n, CipherSize(n) - 1) = Run(n, CipherSize(n))
            BY Zenon DEF Run
        <3>2. n <= CipherSize(n) /\ CipherSize(n) \in Nat /\ pos \in Nat /\ pos <= n
            BY <1>0, <2>3
        <3>. QED
            BY <3>1, <3>2, RunConcat, ZenonT(30)
    <2>6. f.ctx = [op |-> "INVALID", held |-> <<>>] /\ f.out = Run(pos, CipherSize(n))
        <3>1. f = [ctx |-> [op |-> "INVALID", held |-> <<>>], out |-> u.ctx.held \o Bytes(n, CipherSize(n) - 1)]
            BY <2>4 DEF CtxFinalize
        <3>. QED
            BY <2>4, <2>5, <3>1
    <2>. HIDE DEF f
    <2>7. Run(pos, CipherSize(n)) \in Seq(Int) /\ pos <= CipherSize(n)
        <3>1. pos <= CipherSize(n)
            BY <1>0, <2>3
        <3>. QED
            BY <1>0, <3>1, RunType, Zenon
    <2>8. v \in Streams /\ v.get = Run(pos, CipherSize(n)) /\ v.m_finalized /\ v.m_readReachEnds
          /\ v.read = n /\ v.dst = <<>>
        <3>1. <<>> \in Seq(Int) /\ "INVALID" \in Operations
            BY DEF Operations
        <3>2. PICK x \in Contexts, g \in Seq(Int) : x = f.ctx /\ g = f.out
            BY <2>6, <2>7, <3>1, ContextType, Zenon
        <3>3. v = [u EXCEPT !.ctx = x, !.get = g, !.m_finalized = TRUE]
            BY <3>2, Zenon
        <3>4. /\ v \in Streams /\ v.get = g /\ v.m_finalized
              /\ v.read = u.read /\ v.m_readReachEnds = u.m_readReachEnds /\ v.dst = u.dst
            <4>1. u \in Streams
                BY <2>1, Zenon
            <4>. HIDE DEF v
            <4>. QED
                BY <3>3, <4>1, Zenon DEF Streams
        <3>. QED
            BY <1>3, <2>1, <2>6, <3>2, <3>4, Zenon
    <2>. HIDE DEF v
    <2>9. Encrypts(v, pos, n)
        BY <1>0, <2>7, <2>8 DEF Encrypts
    <2>. QED
        BY <2>8, <2>9, Zenon DEF f, v
<1>4. CASE s.get # <<>>
    <2>1. t = s
        BY <1>4, Zenon
    <2>. QED
        BY <1>1, <1>4, <2>1, Zenon
<1>5. CASE s.get = <<>> /\ s.m_finalized
    <2>1. s.m_readReachEnds
        BY <1>5, Zenon DEF Encrypts
    <2>2. t = s
        BY <2>1, Zenon
    <2>. QED
        BY <1>1, <1>5, <2>2, Zenon
<1>6. CASE s.get = <<>> /\ ~s.m_finalized /\ s.m_readReachEnds
    <2>1. t = s
        BY <1>6, Zenon
    <2>. QED
        BY <1>1, <1>3, <1>6, <2>1, Zenon
<1>7. CASE s.get = <<>> /\ ~s.m_finalized /\ ~s.m_readReachEnds
    <2>1. PICK a \in pos..s.read :
                s.get = Run(pos, a) /\ s.ctx = [op |-> "ENCRYPT", held |-> Run(a, s.read)]
        BY <1>7, Zenon DEF Encrypts
    <2>2. a \in Nat /\ pos <= a /\ a <= s.read
        BY <1>0, <2>1
    <2>3. /\ Encrypts(t, pos, n) /\ ~t.m_finalized
          /\ t.get = <<>> => t.m_readReachEnds
          /\ t.get # <<>> => Len(t.get) >= Block
        BY <1>2, <1>7, <2>1, <2>2, Zenon
    <2>. HIDE DEF t
    <2>4. CASE t.get = <<>>
        BY <1>1, <1>3, <1>7, <2>3, <2>4, Zenon
    <2>5. CASE t.get # <<>>
        BY <1>1, <1>7, <2>3, <2>5, Zenon
    <2>. QED
        BY <2>4, <2>5, Zenon
<1>. QED
    BY <1>4, <1>5, <1>6, <1>7, Zenon

\* m bytes have been read by j rounds of xsgetn: all k, or all there were, or a block a round.
Reading(r, k, pos, n, j) ==
    \E m \in 0..k :
        /\ r.bytes = Run(pos, pos + m) /\ Encrypts(r.stream, pos + m, n)
        /\ \/ m = k \/ j = 0
           \/ r.stream.get = <<>> /\ (r.stream.m_finalized \/ m >= (j - 1) * Block)

\* A round of xsgetn reads on.
LEMMA RoundReads ==
    ASSUME NEW n \in Nat, NEW k \in Nat, NEW j \in Nat, NEW r, NEW pos \in Nat,
           Reading(r, k, pos, n, j)
    PROVE  Reading(ReadRound(r, k, n), k, pos, n, j + 1)
<1>0. Block \in Nat \ {0}
    BY CipherAssumption
<1>1. PICK m \in 0..k :
        /\ r.bytes = Run(pos, pos + m) /\ Encrypts(r.stream, pos + m, n)
        /\ \/ m = k \/ j = 0
           \/ r.stream.get = <<>> /\ (r.stream.m_finalized \/ m >= (j - 1) * Block)
    BY Zenon DEF Reading
<1>2. pos + m \in Nat /\ m \in Nat /\ pos <= pos + m /\ m <= k
    OBVIOUS
<1>3. Len(r.bytes) = m
    <2>1. Len(Run(pos, pos + m)) = (pos + m) - pos
        BY <1>2, RunLen, Zenon
    <2>. QED
        BY <1>1, <1>2, <2>1
<1>4. CASE m = k
    <2>1. ReadRound(r, k, n) = r
        BY <1>3, <1>4, Zenon DEF ReadRound
    <2>. QED
        BY <1>1, <1>4, <2>1, Zenon DEF Reading
<1>5. CASE m # k
    <2>. DEFINE u == Underflow(r.stream, n)
                i == MinOf(k - m, Len(u.get))
                v == [u EXCEPT !.get = SubSeq(@, i + 1, Len(@))]
    <2>1. ReadRound(r, k, n) = [stream |-> v, bytes |-> r.bytes \o SubSeq(u.get, 1, i)]
        BY <1>3, <1>5, Zenon DEF ReadRound
    <2>2. /\ Encrypts(u, pos + m, n)
          /\ r.stream.get # <<>> => u = r.stream
          /\ r.stream.get = <<>> => u.m_finalized \/ Len(u.get) >= Block
        BY <1>1, UnderflowEncrypts
    <2>. HIDE DEF u
    <2>3. PICK e \in Nat :
            /\ pos + m <= e /\ u.get = Run(pos + m, e)
            /\ \/ u.m_finalized /\ e = CipherSize(n)
               \/ /\ ~u.m_finalized /\ e <= u.read
                  /\ u.ctx = [op |-> "ENCRYPT", held |-> Run(e, u.read)]
        <3>1. CipherSize(n) \in Nat /\ u.read \in Nat
            BY <2>2, SizePadded DEF Encrypts, Streams
        <3>. QED
            BY <1>2, <2>2, <3>1 DEF Encrypts
    <2>. DEFINE p == pos + m
    <2>4. p \in Nat /\ Len(u.get) = e - p
        BY <1>2, <2>3, RunLen, Zenon
    <2>5. i \in Nat /\ i <= k - m /\ i <= e - p /\ (i = k - m \/ i = e - p)
        BY <1>2, <2>4 DEF MinOf
    <2>. HIDE DEF i
    <2>6. /\ SubSeq(u.get, 1, i) = Run(p, p + i) /\ SubSeq(u.get, i + 1, e - p) = Run(p + i, e)
        <3>1. e \in Nat /\ p \in Nat /\ i \in Nat /\ i <= e - p
            BY <2>3, <2>4, <2>5
        <3>. HIDE DEF p
        <3>2. PICK x, y \in Nat : x = p /\ y = i
            BY <3>1, Zenon
        <3>3. y <= e - x
            BY <3>1, <3>2
        <3>4. SubSeq(Run(x, e), 1, y) = Run(x, x + y) /\ SubSeq(Run(x, e), y + 1, e - x) = Run(x + y, e)
            BY <3>3, RunSplit, Zenon
        <3>. QED
            BY <2>3, <3>2, <3>4, Zenon DEF p
    <2>7. /\ v \in Streams /\ v.get = Run(p + i, e) /\ v.m_finalized = u.m_finalized
          /\ v.read = u.read /\ v.ctx = u.ctx /\ v.m_readReachEnds = u.m_readReachEnds
          /\ v.dst = u.dst
        <3>1. u \in Streams
            BY <2>2, Zenon DEF Encrypts
        <3>2. Run(p + i, e) \in Seq(Int)
            <4>1. e \in Nat /\ p + i \in Nat /\ p + i <= e
                BY <2>3, <2>4, <2>5
            <4>. QED
                BY <4>1, RunType, Zenon
        <3>3. v = [u EXCEPT !.get = Run(p + i, e)]
            BY <2>4, <2>6, Zenon
        <3>. HIDE DEF v
        <3>. QED
            BY <3>1, <3>2, <3>3, Zenon DEF Streams
    <2>. HIDE DEF v
    <2>8. Encrypts(v, p + i, n)
        <3>1. p + i \in Nat /\ p + i <= e
            BY <2>3, <2>4, <2>5
        <3>2. CASE u.m_finalized
            BY <2>2, <2>3, <2>7, <3>1, <3>2, Zenon DEF Encrypts
        <3>3. CASE ~u.m_finalized
            <4>1. e \in (p + i)..v.read
                BY <2>2, <2>3, <2>7, <3>1, <3>3 DEF Encrypts, Streams
            <4>. QED
                BY <2>2, <2>3, <2>7, <3>1, <3>3, <4>1, Zenon DEF Encrypts
        <3>. QED
            BY <3>2, <3>3, Zenon
    <2>9. r.bytes \o SubSeq(u.get, 1, i) = Run(pos, pos + (m + i))
        <3>1. pos <= p /\ p <= p + i /\ p + i = pos + (m + i)
            BY <1>2, <2>5
        <3>2. Run(pos, p) \o Run(p, p + i) = Run(pos, p + i)
            <4>1. p \in Nat /\ p + i \in Nat /\ pos <= p /\ p <= p + i
                BY <2>4, <2>5, <3>1
            <4>. QED
                BY <4>1, RunConcat, Zenon
        <3>. QED
            BY <1>1, <2>6, <3>1, <3>2, Zenon
    <2>10. m + i \in 0..k /\ p + i = pos + (m + i)
        BY <1>2, <2>5
    <2>11. \/ m + i = k
           \/ v.get = <<>> /\ (v.m_finalized \/ m + i >= j * Block)
        <3>1. CASE i = k - m
            BY <1>2, <3>1
        <3>2. CASE i = e - p
            <4>1. v.get = <<>>
                BY <2>3, <2>4, <2>7, <3>2, RunNone
            <4>2. j = 0 => m + i >= j * Block
                BY <1>0, <1>2, <2>5
            <4>3. CASE j # 0 /\ ~u.m_finalized
                <5>1. r.stream.get = <<>>
                    BY <1>1, <1>5, <4>3, Zenon
                <5>2. m >= (j - 1) * Block \/ r.stream.m_finalized
                    BY <1>1, <1>5, <4>3, Zenon
                <5>3. r.stream.m_finalized => u.m_finalized
                    BY <1>1, <5>1 DEF u, Underflow, Encrypts
                <5>4. i >= Block
                    BY <2>2, <2>4, <3>2, <4>3, <5>1
                <5>5. j * Block = (j - 1) * Block + Block
                    BY <1>0
                <5>6. (j - 1) * Block \in Int
                    BY <1>0
                <5>. QED
                    BY <1>0, <1>2, <2>5, <4>1, <4>3, <5>2, <5>3, <5>4, <5>5, <5>6
            <4>. QED
                BY <2>7, <4>1, <4>2, <4>3, Zenon
        <3>. QED
            BY <2>5, <3>1, <3>2, Zenon
    <2>12. (j + 1) - 1 = j
        OBVIOUS
    <2>. DEFINE x == ReadRound(r, k, n)
    <2>13. x.stream = v /\ x.bytes = Run(pos, pos + (m + i))
        <3>. DEFINE y == r.bytes \o SubSeq(u.get, 1, i)
        <3>1. x = [stream |-> v, bytes |-> y] /\ y = Run(pos, pos + (m + i))
            BY <2>1, <2>9, Zenon
        <3>. HIDE DEF x, y
        <3>. QED
            BY <3>1
    <2>. HIDE DEF x
    <2>. QED
        BY <2>8, <2>10, <2>11, <2>12, <2>13, Zenon DEF Reading, x
<1>. QED
    BY <1>4, <1>5, Zenon

\* xsgetn reads the next k bytes of the encrypted file, or all that are left, however they
\* lie across batches and blocks.
THEOREM ReadsNextBytes ==
    ASSUME NEW n \in Nat, NEW k \in Nat, NEW s, NEW pos, Encrypts(s, pos, n)
    PROVE  \E r, b :
            /\ Reads(s, k, n) = {r} /\ r.bytes = Run(pos, b) /\ Encrypts(r.stream, b, n)
            /\ b = MinOf(pos + k, CipherSize(n))
<1>. DEFINE K == k \div Block + 2
<1>0. Block \in Nat \ {0} /\ pos \in Nat /\ CipherSize(n) \in Nat /\ n < CipherSize(n)
    BY CipherAssumption, SizePadded DEF Encrypts
<1>u. PICK f : Rounds(f, s, k, n) /\ Reads(s, k, n) = f[K]
    BY ReadsUnfold, Zenon
<1>1. /\ f = [j \in 0..K |-> IF j = 0 THEN {[stream |-> s, bytes |-> <<>>]}
                             ELSE {ReadRound(r, k, n) : r \in f[j - 1]}]
      /\ Reads(s, k, n) = f[K]
    BY <1>u, Zenon DEF Rounds
<1>2. K \in Nat /\ K # 0 /\ K - 1 \in Nat /\ (K - 1) * Block > k
    <2>1. k \div Block \in Nat /\ k % Block \in 0..(Block - 1) /\ k = Block * (k \div Block) + (k % Block)
        BY <1>0, DivMod, Zenon
    <2>2. PICK q \in Nat : q = k \div Block
        BY <2>1, Zenon
    <2>3. (q + 1) * Block = q * Block + Block /\ Block * q = q * Block
        BY <1>0, Multiple
    <2>4. (q + 1) * Block > k
        BY <1>0, <2>1, <2>2, <2>3
    <2>5. K - 1 = q + 1
        BY <2>2
    <2>. QED
        BY <2>2, <2>4, <2>5
<1>. HIDE DEF K
<1>. DEFINE Good == {j \in 0..K : \E r : f[j] = {r} /\ Reading(r, k, pos, n, j)}
<1>3. 0 \in Good
    <2>1. f[0] = {[stream |-> s, bytes |-> <<>>]} /\ 0 \in 0..K
        BY <1>1, <1>2
    <2>2. PICK r : r = [stream |-> s, bytes |-> <<>>]
        BY Zenon
    <2>3. r.stream = s /\ r.bytes = <<>>
        BY <2>2
    <2>4. Run(pos, pos + 0) = <<>> /\ 0 \in 0..k /\ pos + 0 = pos
        BY <1>0, RunNone
    <2>5. Reading(r, k, pos, n, 0)
        BY <2>3, <2>4, Zenon DEF Reading
    <2>. QED
        BY <2>1, <2>2, <2>5, Zenon
<1>4. ASSUME NEW j \in 0..(K - 1), j \in Good PROVE j + 1 \in Good
    <2>1. PICK r : f[j] = {r} /\ Reading(r, k, pos, n, j)
        BY <1>4, Zenon
    <2>2. j \in Nat /\ j + 1 \in 0..K /\ j + 1 # 0 /\ (j + 1) - 1 = j
        BY <1>2
    <2>3. f[j + 1] = {ReadRound(x, k, n) : x \in f[(j + 1) - 1]}
        BY <1>1, <2>2, Zenon
    <2>4. f[j + 1] = {ReadRound(r, k, n)}
        <3>1. f[j + 1] = {ReadRound(x, k, n) : x \in {r}}
            BY <2>1, <2>2, <2>3, Zenon
        <3>. QED
            BY <3>1
    <2>5. Reading(ReadRound(r, k, n), k, pos, n, j + 1)
        BY <1>0, <2>1, <2>2, RoundReads, Zenon
    <2>. QED
        BY <2>2, <2>4, <2>5, Zenon
<1>5. K \in Good
    <2>. HIDE DEF Good
    <2>1. 0..K \subseteq Good
        BY <1>2, <1>3, <1>4, Induction
    <2>. QED
        BY <1>2, <2>1
<1>6. PICK r : f[K] = {r} /\ Reading(r, k, pos, n, K)
    BY <1>5, Zenon
<1>7. PICK m \in 0..k :
        /\ r.bytes = Run(pos, pos + m) /\ Encrypts(r.stream, pos + m, n)
        /\ \/ m = k \/ K = 0
           \/ r.stream.get = <<>> /\ (r.stream.m_finalized \/ m >= (K - 1) * Block)
    BY <1>6, Zenon DEF Reading
<1>8. pos + m <= CipherSize(n)
    <2>1. \/ pos + m <= CipherSize(n)
          \/ \E a \in (pos + m)..r.stream.read : TRUE
        BY <1>7, Zenon DEF Encrypts
    <2>2. r.stream.read \in Nat /\ r.stream.read <= n
        BY <1>7 DEF Encrypts, Streams
    <2>. QED
        BY <1>0, <2>1, <2>2
<1>9. CASE m = k
    <2>1. pos + m = MinOf(pos + k, CipherSize(n))
        BY <1>0, <1>8, <1>9 DEF MinOf
    <2>. QED
        BY <1>1, <1>6, <1>7, <2>1, Zenon
<1>10. CASE m # k
    <2>0. ~(m >= (K - 1) * Block)
        <3>1. PICK x \in Nat : x = (K - 1) * Block
            BY <1>0, <1>2
        <3>. QED
            BY <1>2, <3>1
    <2>1. r.stream.get = <<>> /\ r.stream.m_finalized
        BY <1>2, <1>7, <1>10, <2>0, Zenon
    <2>2. r.stream.get = Run(pos + m, CipherSize(n))
        BY <1>7, <2>1, Zenon DEF Encrypts
    <2>3. pos + m \in Nat
        BY <1>0
    <2>4. pos + m = CipherSize(n)
        BY <1>0, <1>8, <2>1, <2>2, <2>3, RunNone, Zenon
    <2>5. pos + m = MinOf(pos + k, CipherSize(n))
        BY <1>0, <2>4 DEF MinOf
    <2>. QED
        BY <1>1, <1>6, <1>7, <2>5, Zenon
<1>. QED
    BY <1>9, <1>10, Zenon

(***************************************************************************)
(* Writing                                                                 *)
(***************************************************************************)
\* A character that follows the last one, with an overflow or without.
LEMMA PutDecrypts ==
    ASSUME NEW n \in Nat, NEW s, NEW w, Decrypts(s, w, n), w < CipherSize(n)
    PROVE  Decrypts(Put(s, <<w>>, n), w + 1, n)
<1>0. /\ Block \in Nat \ {0} /\ Batch \in Nat /\ Block <= Batch /\ CipherSize(n) \in Nat
      /\ w \in Nat /\ w + 1 \in Nat /\ w + 1 <= CipherSize(n) /\ s \in Streams
    <2>1. s \in Streams /\ w \in Nat
        BY Zenon DEF Decrypts
    <2>. QED
        BY <2>1, CipherAssumption, SizePadded
<1>1. PICK q \in Nat, h \in 0..w :
        /\ q * Block <= h
        /\ s.dst = Run(0, q * Block)
        /\ s.ctx = [op |-> "DECRYPT", held |-> Run(q * Block, h)]
        /\ s.put = Run(h, w)
    BY Zenon DEF Decrypts
<1>2. PICK d \in Nat : d = q * Block
    BY <1>0
<1>3. h \in Nat /\ h <= w /\ d <= h /\ w <= w + 1
    BY <1>0, <1>1, <1>2
<1>4. <<w>> = Run(w, w + 1)
    BY <1>0 DEF Run, Bytes
<1>5. CASE Len(s.put) < Batch
    <2>1. PICK p \in Seq(Int) : p = Run(h, w + 1)
        <3>1. h <= w + 1
            BY <1>0, <1>3
        <3>. QED
            BY <1>0, <1>3, <3>1, RunType, Zenon
    <2>2. s.put \o <<w>> = p
        <3>1. Run(h, w) \o Run(w, w + 1) = Run(h, w + 1)
            BY <1>0, <1>3, RunConcat, Zenon
        <3>. QED
            BY <1>1, <1>4, <2>1, <3>1, Zenon
    <2>. DEFINE t == Put(s, <<w>>, n)
    <2>3. t = [s EXCEPT !.put = p]
        BY <1>5, <2>2, Zenon DEF Put
    <2>4. t \in Streams /\ t.put = p /\ t.ctx = s.ctx /\ t.dst = s.dst
        <3>. HIDE DEF t
        <3>1. s \in Streams
            BY <1>0, Zenon
        <3>. QED
            BY <2>3, <3>1, Zenon DEF Streams
    <2>. HIDE DEF t
    <2>5. Len(t.put) <= Batch /\ t.put # <<>>
        <3>1. Len(Run(h, w)) = w - h
            BY <1>0, <1>3, RunLen, Zenon
        <3>2. h <= w + 1
            BY <1>0, <1>3
        <3>3. Len(Run(h, w + 1)) = (w + 1) - h
            BY <1>0, <1>3, <3>2, RunLen, Zenon
        <3>4. (w + 1) - h <= Batch /\ (w + 1) - h # 0
            BY <1>0, <1>1, <1>3, <1>5, <3>1
        <3>. QED
            BY <2>1, <2>4, <3>3, <3>4
    <2>6. h \in 0..(w + 1)
        BY <1>0, <1>3
    <2>. QED
        BY <1>0, <1>1, <2>1, <2>4, <2>5, <2>6, Zenon DEF Decrypts, t
<1>6. CASE ~(Len(s.put) < Batch)
    <2>1. h < w
        <3>1. Len(Run(h, w)) = w - h
            BY <1>0, <1>3, RunLen, Zenon
        <3>. QED
            BY <1>0, <1>1, <1>3, <1>6, <3>1
    <2>2. PICK e \in Nat :
            /\ q <= e /\ e * Block < w /\ w <= e * Block + Block
            /\ CtxNext([op |-> "DECRYPT", held |-> Run(q * Block, h)], Run(h, w)) =
                    [ctx |-> [op |-> "DECRYPT", held |-> Run(e * Block, w)],
                     out |-> Run(q * Block, e * Block)]
        BY <1>0, <1>1, <1>3, <2>1, CtxDecrypts, ZenonT(30)
    <2>3. PICK x \in Nat : x = e * Block /\ d <= x /\ x < w
        <3>1. q * Block <= e * Block
            BY <1>0, <2>2
        <3>2. e * Block \in Nat
            BY <1>0
        <3>. QED
            BY <1>2, <2>2, <3>1, <3>2
    <2>. DEFINE nxt == CtxNext(s.ctx, s.put)
                t   == Put(s, <<w>>, n)
    <2>4. nxt = [ctx |-> [op |-> "DECRYPT", held |-> Run(x, w)], out |-> Run(d, x)]
        BY <1>1, <1>2, <2>2, <2>3, Zenon
    <2>5. s.put # <<>> /\ <<w>> # <<>> /\ x <= w
        <3>1. h # w
            BY <1>3, <2>1
        <3>2. s.put # <<>>
            BY <1>0, <1>1, <1>3, <3>1, RunNone, Zenon
        <3>. QED
            BY <1>0, <2>3, <3>2
    <2>6. nxt.ctx = [op |-> "DECRYPT", held |-> Run(x, w)] /\ nxt.out = Run(d, x)
        BY <2>4
    <2>7. (s.dst \o nxt.out) \o <<>> = Run(0, x)
        <3>1. 0 <= d /\ 0 \in Nat /\ 0 <= x
            BY <2>3
        <3>0. Run(0, d) \o Run(d, x) = Run(0, x)
            BY <2>3, <3>1, RunConcat, Zenon
        <3>2. s.dst \o nxt.out = Run(0, x)
            BY <1>1, <1>2, <2>6, <3>0, Zenon
        <3>3. Run(0, x) \in Seq(Int)
            BY <2>3, <3>1, RunType, Zenon
        <3>4. Run(0, x) \o <<>> = Run(0, x)
            BY <3>3
        <3>. QED
            BY <3>2, <3>4, Zenon
    <2>8. t = [s EXCEPT !.ctx = nxt.ctx, !.put = <<w>>, !.dst = (s.dst \o nxt.out) \o <<>>]
        <3>1. t = Overflow(s, <<w>>, n)
            BY <1>6, Zenon DEF Put
        <3>. DEFINE y == [nxt EXCEPT !.out = <<>>]
        <3>2. y.ctx = nxt.ctx /\ y.out = <<>>
            BY <2>4
        <3>3. t = [s EXCEPT !.ctx = y.ctx, !.put = <<w>>, !.dst = (@ \o nxt.out) \o y.out]
            BY <2>5, <3>1, Zenon DEF Overflow
        <3>. QED
            BY <3>2, <3>3, Zenon
    <2>9. PICK c \in Contexts, p \in Seq(Int), o \in Seq(Int) :
            /\ c = [op |-> "DECRYPT", held |-> Run(x, w)] /\ p = Run(w, w + 1) /\ o = Run(0, x)
        <3>1. "DECRYPT" \in Operations /\ 0 \in Nat /\ 0 <= x
            BY <2>3 DEF Operations
        <3>2. Run(x, w) \in Seq(Int) /\ Run(w, w + 1) \in Seq(Int) /\ Run(0, x) \in Seq(Int)
            BY <1>0, <1>3, <2>3, <2>5, <3>1, RunType, Zenon
        <3>. QED
            BY <3>1, <3>2, ContextType, Zenon
    <2>10. t = [s EXCEPT !.ctx = c, !.put = p, !.dst = o]
        BY <1>4, <2>6, <2>7, <2>8, <2>9, Zenon
    <2>. HIDE DEF t, nxt
    <2>11. t \in Streams /\ t.ctx = c /\ t.put = p /\ t.dst = o
        <3>1. s \in Streams
            BY <1>0, Zenon
        <3>. QED
            BY <2>10, <3>1, Zenon DEF Streams
    <2>12. Len(t.put) <= Batch /\ t.put # <<>>
        <3>1. Len(<<w>>) = 1 /\ 1 <= Batch
            BY <1>0
        <3>. QED
            BY <1>4, <2>5, <2>9, <2>11, <3>1, Zenon
    <2>13. w \in 0..(w + 1) /\ e * Block <= w
        BY <1>0, <2>2
    <2>. QED
        BY <1>0, <2>3, <2>9, <2>11, <2>12, <2>13, Zenon DEF Decrypts, t
<1>. QED
    BY <1>5, <1>6, Zenon

\* Characters written one after the other are decrypted in their order.
THEOREM WritesNextBytes ==
    ASSUME NEW n \in Nat, NEW s, NEW w \in Nat, NEW b \in Nat, Decrypts(s, w, n),
           w <= b, b <= CipherSize(n)
    PROVE  \E t : Writes(s, Run(w, b), n) = {t} /\ Decrypts(t, b, n)
<1>. DEFINE bytes == Run(w, b)
<1>1. CipherSize(n) \in Nat /\ Len(bytes) = b - w /\ b - w \in Nat
    <2>1. Len(bytes) = b - w
        BY RunLen, Zenon
    <2>. HIDE DEF bytes
    <2>. QED
        BY <2>1, SizePadded
<1>2. PICK K \in Nat : K = b - w /\ K = Len(bytes)
    BY <1>1
<1>. HIDE DEF bytes
<1>3. PICK f : Puts(f, s, bytes, n) /\ Writes(s, bytes, n) = f[Len(bytes)]
    BY <1>1, WritesUnfold, Zenon
<1>4. f = [j \in 0..K |-> IF j = 0 THEN {s} ELSE {Put(x, <<bytes[j]>>, n) : x \in f[j - 1]}]
    BY <1>2, <1>3, Zenon DEF Puts
<1>. DEFINE Good == {j \in 0..K : \E t : f[j] = {t} /\ Decrypts(t, w + j, n)}
<1>5. 0 \in Good
    <2>1. f[0] = {s} /\ 0 \in 0..K /\ w + 0 = w
        BY <1>2, <1>4
    <2>. QED
        BY <2>1, Zenon
<1>6. ASSUME NEW j \in 0..(K - 1), j \in Good PROVE j + 1 \in Good
    <2>1. PICK t : f[j] = {t} /\ Decrypts(t, w + j, n)
        BY <1>6, Zenon
    <2>2. /\ j \in Nat /\ j + 1 \in 0..K /\ j + 1 # 0 /\ (j + 1) - 1 = j
          /\ w + j < CipherSize(n) /\ (w + j) + 1 = w + (j + 1) /\ j + 1 \in 1..(b - w)
        BY <1>1, <1>2
    <2>3. bytes[j + 1] = w + j
        <3>1. bytes[j + 1] = w + (j + 1) - 1
            BY <2>2, RunAt, Zenon DEF bytes
        <3>. QED
            BY <2>2, <3>1
    <2>4. f[j + 1] = {Put(x, <<bytes[j + 1]>>, n) : x \in f[(j + 1) - 1]}
        BY <1>4, <2>2, Zenon
    <2>5. f[j + 1] = {Put(t, <<w + j>>, n)}
        <3>1. f[j + 1] = {Put(x, <<w + j>>, n) : x \in {t}}
            BY <2>1, <2>2, <2>3, <2>4, Zenon
        <3>. QED
            BY <3>1
    <2>6. Decrypts(Put(t, <<w + j>>, n), (w + j) + 1, n)
        BY <2>1, <2>2, PutDecrypts, Zenon
    <2>. QED
        BY <2>2, <2>5, <2>6, Zenon
<1>7. K \in Good
    <2>. HIDE DEF Good
    <2>1. 0..K \subseteq Good
        BY <1>2, <1>5, <1>6, Induction, Zenon
    <2>. QED
        BY <1>2, <2>1
<1>8. PICK t : f[K] = {t} /\ Decrypts(t, w + K, n)
    BY <1>7, Zenon
<1>9. w + K = b
    BY <1>1, <1>2
<1>. QED
    BY <1>2, <1>3, <1>8, <1>9, Zenon DEF bytes

\* The multiple that is at most d away is the next one.
LEMMA NextMultiple ==
    ASSUME NEW e \in Nat, NEW z \in Nat, NEW d \in Nat \ {0},
           e * d < z * d, z * d <= e * d + d
    PROVE  z = e + 1
<1>1. e < z
    <2>. SUFFICES ASSUME z <= e PROVE FALSE
        OBVIOUS
    <2>1. PICK k \in Nat : e = z + k
        <3>1. e - z \in Nat /\ e = z + (e - z)
            OBVIOUS
        <3>. QED
            BY <3>1, Zenon
    <2>2. e * d = z * d + k * d /\ k * d \in Nat /\ z * d \in Nat
        BY <2>1
    <2>. QED
        BY <2>2
<1>2. z <= e + 1
    <2>. SUFFICES ASSUME z > e + 1 PROVE FALSE
        OBVIOUS
    <2>1. PICK k \in Nat : z = e + 2 + k
        <3>1. z - e - 2 \in Nat /\ z = e + 2 + (z - e - 2)
            OBVIOUS
        <3>. QED
            BY <3>1, Zenon
    <2>2. z * d = e * d + d + d + k * d /\ k * d \in Nat /\ e * d \in Nat
        BY <2>1
    <2>. QED
        BY <2>2
<1>. QED
    BY <1>1, <1>2

\* A flush after the last byte takes the padding off, and leaves the whole plain file.
THEOREM SyncEndsFile ==
    ASSUME NEW n \in Nat, NEW s, Decrypts(s, CipherSize(n), n)
    PROVE  Sync(s, n).dst = Run(0, n) /\ ~Terminated(Sync(s, n))
<1>. DEFINE w == CipherSize(n)
<1>0. /\ Block \in Nat \ {0} /\ Batch \in Nat /\ w \in Nat /\ n < w /\ w <= n + Block
      /\ s \in Streams /\ w # 0 /\ s.put # <<>>
    <2>1. s \in Streams /\ (w # 0 => s.put # <<>>)
        BY Zenon DEF Decrypts
    <2>2. Block \in Nat \ {0} /\ Batch \in Nat /\ w \in Nat /\ n < w /\ w <= n + Block
        BY CipherAssumption, SizePadded
    <2>3. w # 0
        BY <2>2
    <2>. QED
        BY <2>1, <2>2, <2>3, Zenon
<1>1. PICK q \in Nat, h \in 0..w :
        /\ q * Block <= h
        /\ s.dst = Run(0, q * Block)
        /\ s.ctx = [op |-> "DECRYPT", held |-> Run(q * Block, h)]
        /\ s.put = Run(h, w)
    BY Zenon DEF Decrypts
<1>2. PICK z \in Nat : w = z * Block
    <2>1. (n + Block) \div Block \in Nat
        <3>1. n + Block \in Nat
            BY <1>0
        <3>. QED
            BY <1>0, <3>1, DivMod, Zenon
    <2>. QED
        BY <2>1, Zenon DEF CipherSize
<1>. HIDE DEF w
<1>3. h \in Nat /\ h < w
    <2>1. h \in Nat /\ h <= w
        BY <1>0, <1>1
    <2>2. h # w
        BY <1>0, <1>1, <2>1, RunNone, Zenon
    <2>. QED
        BY <1>0, <2>1, <2>2
<1>4. PICK e \in Nat :
        /\ q <= e /\ e * Block < w /\ w <= e * Block + Block
        /\ CtxNext([op |-> "DECRYPT", held |-> Run(q * Block, h)], Run(h, w)) =
                [ctx |-> [op |-> "DECRYPT", held |-> Run(e * Block, w)],
                 out |-> Run(q * Block, e * Block)]
    BY <1>0, <1>1, <1>3, CtxDecrypts, ZenonT(60)
<1>5. PICK d, x \in Nat : d = q * Block /\ x = e * Block /\ d <= x /\ x + Block = w
    <2>1. q * Block <= e * Block /\ q * Block \in Nat /\ e * Block \in Nat
        BY <1>0, <1>4
    <2>2. z = e + 1
        BY <1>0, <1>2, <1>4, NextMultiple, Zenon
    <2>3. (e + 1) * Block = e * Block + Block
        BY <1>0, Multiple
    <2>. QED
        BY <1>2, <2>1, <2>2, <2>3, Zenon
<1>. DEFINE nxt == CtxNext(s.ctx, s.put)
            fin == CtxFinalize(nxt.ctx, n)
            t   == Sync(s, n)
<1>6. nxt.ctx = [op |-> "DECRYPT", held |-> Run(x, w)] /\ nxt.out = Run(d, x)
    <2>1. nxt = [ctx |-> [op |-> "DECRYPT", held |-> Run(x, w)], out |-> Run(d, x)]
        BY <1>1, <1>4, <1>5, Zenon
    <2>. HIDE DEF nxt
    <2>. QED
        BY <2>1
<1>. HIDE DEF nxt
<1>7. nxt.ctx.op = "DECRYPT" /\ nxt.ctx.op # "ENCRYPT" /\ nxt.ctx.held = Run(x, w)
    BY <1>6
<1>8. /\ Len(Run(x, w)) = Block /\ Run(x, w)[Block] = w - 1
      /\ SubSeq(Run(x, w), 1, Block - (w - 1 + 1 - n)) = Run(x, n)
    <2>1. x <= w /\ w - x = Block /\ Block \in 1..(w - x) /\ x + Block - 1 = w - 1
        BY <1>0, <1>5
    <2>2. Len(Run(x, w)) = w - x /\ Run(x, w)[Block] = x + Block - 1
        BY <1>0, <2>1, RunLen, RunAt, Zenon
    <2>3. PICK k \in Nat : k = Block - (w - 1 + 1 - n)
        BY <1>0
    <2>4. k <= w - x /\ x + k = n
        BY <1>0, <1>5, <2>3
    <2>5. SubSeq(Run(x, w), 1, k) = Run(x, x + k)
        <3>1. w \in Nat /\ x + k <= w
            BY <1>0, <2>4
        <3>. QED
            BY <3>1, RunHead
    <2>. QED
        BY <2>1, <2>2, <2>3, <2>4, <2>5, Zenon
<1>9. fin.ctx = [op |-> "INVALID", held |-> <<>>] /\ fin.out = Run(x, n)
    <2>1. fin = [ctx |-> [op |-> "INVALID", held |-> <<>>],
                 out |-> SubSeq(Run(x, w), 1, Block - (w - 1 + 1 - n))]
        BY <1>7, <1>8, Zenon DEF CtxFinalize, w
    <2>2. fin = [ctx |-> [op |-> "INVALID", held |-> <<>>], out |-> Run(x, n)]
        BY <1>8, <2>1, Zenon
    <2>. HIDE DEF fin
    <2>. QED
        BY <2>2
<1>10. (s.dst \o nxt.out) \o fin.out = Run(0, n)
    <2>1. 0 \in Nat /\ 0 <= d /\ 0 <= x /\ x <= n
        BY <1>0, <1>5
    <2>2. Run(0, d) \o Run(d, x) = Run(0, x) /\ Run(0, x) \o Run(x, n) = Run(0, n)
        BY <1>5, <2>1, RunConcat, Zenon
    <2>3. s.dst = Run(0, d)
        BY <1>1, <1>5, Zenon
    <2>. QED
        BY <1>6, <1>9, <2>2, <2>3, Zenon
<1>11. t = [s EXCEPT !.ctx = fin.ctx, !.put = <<>>, !.dst = (s.dst \o nxt.out) \o fin.out]
    BY <1>0, Zenon DEF Sync, Overflow, nxt
<1>12. t = [s EXCEPT !.ctx = [op |-> "INVALID", held |-> <<>>], !.put = <<>>, !.dst = Run(0, n)]
    BY <1>9, <1>10, <1>11, Zenon
<1>. HIDE DEF t
<1>13. t.dst = Run(0, n) /\ t.ctx = [op |-> "INVALID", held |-> <<>>]
    <2>1. s \in Streams
        BY <1>0, Zenon
    <2>. QED
        BY <1>12, <2>1 DEF Streams
<1>14. t.ctx.op # "terminated"
    BY <1>13
<1>. QED
    BY <1>13, <1>14, Zenon DEF Terminated, t

\* Writing and flushing read nothing.
HasRead(s, k) == "read" \in DOMAIN s /\ s.read = k

\* Writing does not read.
LEMMA OverflowReadsNothing ==
    ASSUME NEW s, NEW k, HasRead(s, k), NEW ch, NEW n
    PROVE  HasRead(Overflow(s, ch, n), k)
BY DEF Overflow, HasRead

LEMMA PutReadsNothing ==
    ASSUME NEW s, NEW k, HasRead(s, k), NEW ch, NEW n
    PROVE  HasRead(Put(s, ch, n), k)
<1>1. HasRead([s EXCEPT !.put = @ \o ch], k)
    BY DEF HasRead
<1>. QED
    BY <1>1, OverflowReadsNothing, Zenon DEF Put

LEMMA WritesReadNothing ==
    ASSUME NEW s, NEW k, HasRead(s, k), NEW bytes, Len(bytes) \in Nat, NEW n
    PROVE  \E t : Writes(s, bytes, n) = {t} /\ HasRead(t, k)
<1>1. PICK K \in Nat : K = Len(bytes)
    OBVIOUS
<1>2. PICK f : Puts(f, s, bytes, n) /\ Writes(s, bytes, n) = f[Len(bytes)]
    BY WritesUnfold, Zenon
<1>3. f = [j \in 0..K |-> IF j = 0 THEN {s} ELSE {Put(x, <<bytes[j]>>, n) : x \in f[j - 1]}]
    BY <1>1, <1>2, Zenon DEF Puts
<1>. DEFINE Good == {j \in 0..K : \E t : f[j] = {t} /\ HasRead(t, k)}
<1>4. 0 \in Good
    <2>1. f[0] = {s} /\ 0 \in 0..K
        BY <1>3
    <2>. QED
        BY <2>1, Zenon
<1>5. ASSUME NEW j \in 0..(K - 1), j \in Good PROVE j + 1 \in Good
    <2>1. PICK t : f[j] = {t} /\ HasRead(t, k)
        BY <1>5, Zenon
    <2>2. j + 1 \in 0..K /\ j + 1 # 0 /\ (j + 1) - 1 = j
        OBVIOUS
    <2>3. f[j + 1] = {Put(x, <<bytes[j + 1]>>, n) : x \in f[(j + 1) - 1]}
        BY <1>3, <2>2, Zenon
    <2>4. f[j + 1] = {Put(t, <<bytes[j + 1]>>, n)}
        <3>1. f[j + 1] = {Put(x, <<bytes[j + 1]>>, n) : x \in {t}}
            BY <2>1, <2>2, <2>3, Zenon
        <3>. QED
            BY <3>1
    <2>5. HasRead(Put(t, <<bytes[j + 1]>>, n), k)
        BY <2>1, PutReadsNothing, Zenon
    <2>. QED
        BY <2>2, <2>4, <2>5, Zenon
<1>6. K \in Good
    <2>. HIDE DEF Good
    <2>1. 0..K \subseteq Good
        BY <1>4, <1>5, Induction
    <2>. QED
        BY <2>1
<1>. QED
    BY <1>1, <1>2, <1>6, Zenon

\* A new stream is at its start.
LEMMA NewStreams ==
    ASSUME NEW n \in Nat
    PROVE  /\ Encrypts(NewStream("ENCRYPT"), 0, n)
           /\ Decrypts(NewStream("DECRYPT"), 0, n)
           /\ \A o : HasRead(NewStream(o), 0) /\ NewStream(o).dst = <<>>
<1>0. Run(0, 0) = <<>> /\ CipherSize(n) \in Nat /\ Batch \in Nat
    BY RunNone, SizePadded, CipherAssumption
<1>1. ASSUME NEW o \in {"ENCRYPT", "DECRYPT"}, NEW s, s = NewStream(o)
      PROVE  /\ s \in Streams /\ s.read = 0 /\ s.ctx = [op |-> o, held |-> <<>>] /\ s.get = <<>>
             /\ s.put = <<>> /\ s.dst = <<>> /\ ~s.m_finalized /\ ~s.m_readReachEnds
    BY <1>1 DEF NewStream, Streams, Contexts, Operations
<1>2. ASSUME NEW s, s = NewStream("ENCRYPT") PROVE Encrypts(s, 0, n)
    <2>1. /\ s \in Streams /\ s.read = 0 /\ s.ctx = [op |-> "ENCRYPT", held |-> <<>>]
          /\ s.get = <<>> /\ s.dst = <<>> /\ ~s.m_finalized /\ ~s.m_readReachEnds
        BY <1>1, <1>2, Zenon
    <2>2. 0 \in 0..0 /\ 0 <= n /\ 0 \in Nat
        OBVIOUS
    <2>. QED
        BY <1>0, <2>1, <2>2, Zenon DEF Encrypts
<1>3. ASSUME NEW s, s = NewStream("DECRYPT") PROVE Decrypts(s, 0, n)
    <2>1. /\ s \in Streams /\ s.ctx = [op |-> "DECRYPT", held |-> <<>>]
          /\ s.put = <<>> /\ s.dst = <<>>
        BY <1>1, <1>3, Zenon
    <2>2. 0 \in 0..0 /\ 0 \in Nat /\ 0 * Block = 0 /\ 0 <= CipherSize(n) /\ Len(<<>>) <= Batch /\ 0 <= 0
        BY <1>0, CipherAssumption
    <2>. QED
        BY <1>0, <2>1, <2>2, Zenon DEF Decrypts
<1>4. \A o : HasRead(NewStream(o), 0) /\ NewStream(o).dst = <<>>
    BY DEF NewStream, HasRead
<1>. QED
    BY <1>2, <1>3, <1>4, Zenon

\* What has been written to the file is a prefix of it.
LEMMA OutputSoFar ==
    ASSUME NEW n, NEW s, NEW w, Decrypts(s, w, n)
    PROVE  \E d \in Nat : s.dst = Run(0, d)
<1>1. PICK q \in Nat : s.dst = Run(0, q * Block)
    BY Zenon DEF Decrypts
<1>2. q * Block \in Nat
    BY CipherAssumption
<1>. QED
    BY <1>1, <1>2, Zenon

(***************************************************************************)
(* The inductive invariant                                                 *)
(***************************************************************************)
Types ==
    /\ op \in {"upload", "download"} /\ size \in Nat
    /\ mpc \in {"start", "transfer", "add", "waiting", "complete", "returned", "threw", "terminated"}
    /\ added \in Nat /\ added <= Parts
    /\ started \in Nat /\ started <= added /\ done \subseteq 1..started
    /\ tpc \in [Threads -> {"idle", "fill", "put", "get", "write"}]
    /\ job \in [Threads -> Int] /\ part \in [Threads -> Int] /\ cur \in Int
    /\ m_outcome \in [PartIds -> {"none", "SUCCESS"} \cup Refused]

\* A thread that is not idle has a job of its own, which is not done.
Jobs ==
    /\ \A t \in Threads : tpc[t] # "idle" => job[t] \in 1..started /\ job[t] \notin done
    /\ \A t, u \in Threads :
        t # u /\ tpc[t] # "idle" /\ tpc[u] # "idle" => job[t] # job[u]
    /\ \A t \in Threads : tpc[t] \in {"fill", "put"} => op = "upload"
    /\ \A t \in Threads : tpc[t] \in {"get", "write"} => op = "download"

\* What the calling thread knows where it is.
Caller ==
    /\ mpc \in {"start", "transfer"} => added = 0
    /\ mpc = "waiting" => added = Parts
    /\ mpc \in {"complete", "returned"} => done = 1..added
    /\ added = 0 => \A p \in PartIds : m_outcome[p] = "none"
    /\ mpc = "complete" => \A p \in PartIds : m_outcome[p] = "SUCCESS"

Fillers == {t \in Threads : tpc[t] = "fill"}

\* A job that has started is about to read, or has read one of the parts 0..cur, which
\* has an outcome or is being sent.
Splitter ==
    op = "upload" =>
        /\ cur >= -1 /\ Cardinality(Fillers) = started - (cur + 1)
        /\ \A t \in Threads : tpc[t] = "put" => part[t] \in 0..cur
        /\ \A t, u \in Threads :
            t # u /\ tpc[t] = "put" /\ tpc[u] = "put" => part[t] # part[u]
        /\ \A p \in PartIds : p <= cur =>
            m_outcome[p] # "none" \/ \E t \in Threads : tpc[t] = "put" /\ part[t] = p

\* The jobs of the parts below cur are done; a job that received its part has its outcome.
Appender ==
    op = "download" =>
        /\ cur >= 0 /\ \A p \in 0..(cur - 1) : p + 1 \in done
        /\ \A t \in Threads : tpc[t] = "write" => part[t] = job[t] - 1
        /\ \A t \in Threads : tpc[t] = "write" => m_outcome[part[t]] # "none"
        /\ \A p \in PartIds : p + 1 \in done => m_outcome[p] # "none"

IInv ==
    /\ Types /\ Jobs /\ Caller /\ Splitter /\ Appender /\ FailedPartReported

\* No two threads send the same part, and every part that is sent has a context
\* (StreamSplitter::FillAndGetBuf numbers what it reads, under its lock).
PartsApart ==
    /\ \A t \in Threads : tpc[t] = "put" => part[t] \in PartIds
    /\ \A t, u \in Threads :
        t # u /\ tpc[t] = "put" /\ tpc[u] = "put" => part[t] # part[u]

\* The part that a job of a download is about to write has not been passed by: a job that
\* leaves the wait loop of WritePartToOutputStream writes part m_currentPartIndex.
WrittenInOrder == \A t \in Threads : tpc[t] = "write" => part[t] >= cur

(***************************************************************************)
(* What the steps do to the variables of the invariant                     *)
(***************************************************************************)
Unmoved == UNCHANGED <<op, size, tpc, job, part, cur, m_outcome, started, done>>

\* The calling thread
Single ==
    /\ mpc \in {"start", "transfer"} /\ added' = added
    /\ mpc' \in {"start", "transfer", "add", "returned", "threw", "terminated"}

Adds   == mpc = "add" /\ mpc' = "add" /\ added < Parts /\ added' = added + 1
Waits  == mpc = "add" /\ mpc' = "waiting" /\ added = Parts /\ added' = added
Checks == mpc = "waiting" /\ done = 1..added /\ added' = added /\ CheckParts
Ends   == mpc = "complete" /\ mpc' = "returned" /\ added' = added

LEMMA MainCases ==
    ASSUME Main PROVE Unmoved /\ (Single \/ Adds \/ Waits \/ Checks \/ Ends)
<1>1. CASE UploadSkips \/ UploadThrows \/ UploadGoesOn \/ StartDownload
    BY <1>1, Zenon
    DEF UploadSkips, UploadThrows, UploadGoesOn, StartDownload, Return, file, pool, stream, Unmoved, Single
<1>2. CASE DoSingleUpload \/ CreateMultipartUpload
    BY <1>2, Zenon
    DEF DoSingleUpload, CreateMultipartUpload, Return, file, pool, stream, Unmoved, Single
<1>3. CASE RepeatSingleRequest \/ DoSingleDownload
    BY <1>3, Zenon
    DEF RepeatSingleRequest, DoSingleDownload, Return, file, pool, stream, Unmoved, Single
<1>4. CASE AddJob
    BY <1>4, Zenon DEF AddJob, Pool!Add, file, stream, Unmoved, Adds
<1>5. CASE WaitAll
    BY <1>5, Zenon DEF WaitAll, Pool!Wait, file, stream, Unmoved, Waits
<1>6. CASE WaitAllReturns
    BY <1>6, Zenon DEF WaitAllReturns, Pool!WaitReturns, file, stream, Unmoved, Checks
<1>7. CASE CompleteMultipartUpload
    BY <1>7, Zenon DEF CompleteMultipartUpload, Return, file, pool, stream, Unmoved, Ends
<1>. QED
    BY <1>1, <1>2, <1>3, <1>4, <1>5, <1>6, <1>7, Zenon DEF Main

\* The pool threads
Leaves(t) == tpc' = [tpc EXCEPT ![t] = "idle"] /\ done' = done \cup {job[t]}

Takes(t) ==
    /\ tpc[t] = "idle" /\ started < added /\ started' = started + 1 /\ mpc' = mpc
    /\ job' = [job EXCEPT ![t] = started + 1]
    /\ \/ op = "upload" /\ tpc' = [tpc EXCEPT ![t] = "fill"]
       \/ op # "upload" /\ tpc' = [tpc EXCEPT ![t] = "get"]
    /\ UNCHANGED <<part, cur, m_outcome, done>>

Fills(t) ==
    /\ tpc[t] = "fill" /\ tpc' = [tpc EXCEPT ![t] = "put"] /\ mpc' = mpc
    /\ part' = [part EXCEPT ![t] = cur + 1] /\ cur' = cur + 1
    /\ UNCHANGED <<job, m_outcome, started, done>>

Sends(t) ==
    /\ tpc[t] = "put" /\ mpc' = mpc /\ Leaves(t)
    /\ \E o \in {"SUCCESS"} \cup Refused : m_outcome' = [m_outcome EXCEPT ![part[t]] = o]
    /\ UNCHANGED <<job, part, cur, started>>

Gets(t) ==
    /\ tpc[t] = "get" /\ mpc' = mpc
    /\ part' = [part EXCEPT ![t] = job[t] - 1]
    /\ \E o \in {"SUCCESS"} \cup Refused : m_outcome' = [m_outcome EXCEPT ![job[t] - 1] = o]
    /\ Leaves(t) \/ (tpc' = [tpc EXCEPT ![t] = "write"] /\ done' = done)
    /\ UNCHANGED <<job, cur, started>>

Appends(t) ==
    /\ tpc[t] = "write" /\ ~(part[t] > cur) /\ mpc' \in {mpc, "terminated"} /\ Leaves(t)
    /\ cur' = cur + 1
    /\ UNCHANGED <<job, part, m_outcome, started>>

LEMMA WorkCases ==
    ASSUME NEW t \in Threads, Work(t)
    PROVE  /\ UNCHANGED <<op, size, outcome, added>>
           /\ \/ Takes(t) \/ Fills(t) \/ Sends(t) \/ Gets(t) \/ Appends(t)
              \/ Unmoved /\ mpc' = mpc /\ tpc[t] = "get"
<1>1. CASE TakeJob(t)
    <2>1. job' = [job EXCEPT ![t] = started + 1] /\ tpc[t] = "idle"
        BY <1>1, Zenon DEF TakeJob
    <2>2. /\ started < added /\ started' = started + 1
          /\ UNCHANGED <<op, size, outcome, added, mpc, part, cur, m_outcome, done>>
        BY <1>1, Zenon DEF TakeJob, Pool!Start, file, stream
    <2>3. \/ op = "upload" /\ tpc' = [tpc EXCEPT ![t] = "fill"]
          \/ op # "upload" /\ tpc' = [tpc EXCEPT ![t] = "get"]
        <3>1. tpc' = [tpc EXCEPT ![t] = IF op = "upload" THEN "fill" ELSE "get"]
            BY <1>1, Zenon DEF TakeJob
        <3>2. CASE op = "upload"
            BY <3>1, <3>2
        <3>3. CASE op # "upload"
            BY <3>1, <3>3
        <3>. QED
            BY <3>2, <3>3, Zenon
    <2>. QED
        BY <2>1, <2>2, <2>3, Zenon DEF Takes
<1>2. CASE FillAndGetBuf(t)
    BY <1>2, Zenon DEF FillAndGetBuf, ReadPart, file, pool, Fills
<1>3. CASE UploadPart(t)
    BY <1>3, TransferAssumption, Zenon
    DEF UploadPart, EndJob, Pool!Finish, file, stream, Sends, Leaves
<1>4. CASE RepeatRequest(t)
    BY <1>4, Zenon DEF RepeatRequest, file, pool, stream, Unmoved
<1>5. CASE GetObject(t)
    <2>1. Refusals(RangeOf(job[t] - 1)) \subseteq Refused
        BY TransferAssumption, Zenon DEF Refusals, Refused
    <2>2. /\ tpc[t] = "get" /\ part' = [part EXCEPT ![t] = job[t] - 1]
          /\ UNCHANGED <<op, size, mpc, outcome, job, cur, started, added>>
        BY <1>5, Zenon DEF GetObject, EndJob, Pool!Finish, file, pool, stream
    <2>3. \E o \in {"SUCCESS"} \cup Refused :
            m_outcome' = [m_outcome EXCEPT ![job[t] - 1] = o]
        BY <1>5, <2>1, Zenon DEF GetObject
    <2>4. Leaves(t) \/ (tpc' = [tpc EXCEPT ![t] = "write"] /\ done' = done)
        BY <1>5, Zenon DEF GetObject, EndJob, Pool!Finish, pool, Leaves
    <2>. QED
        BY <2>2, <2>3, <2>4, Zenon DEF Gets
<1>6. CASE WritePartToOutputStream(t)
    BY <1>6, Zenon
    DEF WritePartToOutputStream, WriteTo, EndJob, Pool!Finish, file, Appends, Leaves
<1>. QED
    BY <1>1, <1>2, <1>3, <1>4, <1>5, <1>6, Zenon DEF Work

(***************************************************************************)
(* Every step keeps the invariant                                          *)
(***************************************************************************)
LEMMA PartsType ==
    ASSUME size \in Nat PROVE Parts \in Nat \ {0}
BY TransferAssumption DEF Parts, PartsOf

LEMMA SameParts ==
    ASSUME size' = size PROVE Parts' = Parts /\ PartIds' = PartIds
BY Zenon DEF Parts, PartIds

\* Once all jobs are done no pool thread moves, nor before there are jobs.
LEMMA WorkInTime ==
    ASSUME IInv, NEW t \in Threads, Work(t)
    PROVE  mpc \notin {"complete", "returned"} /\ added # 0
<1>1. /\ started \in Nat /\ added \in Nat /\ started <= added /\ done \subseteq 1..started
      /\ mpc \in {"complete", "returned"} => done = 1..added
      /\ tpc[t] # "idle" => job[t] \in 1..started /\ job[t] \notin done
    BY Zenon DEF IInv, Types, Jobs, Caller
<1>2. started < added \/ tpc[t] # "idle"
    BY WorkCases DEF Takes, Fills, Sends, Gets, Appends
<1>3. CASE started < added
    <2>1. added \in 1..added /\ added \notin 1..started /\ added # 0
        BY <1>1, <1>3
    <2>. QED
        BY <1>1, <2>1, Zenon
<1>4. CASE tpc[t] # "idle"
    <2>1. job[t] \in 1..added /\ added # 0
        BY <1>1, <1>4
    <2>. QED
        BY <1>1, <1>4, <2>1, Zenon
<1>. QED
    BY <1>2, <1>3, <1>4, Zenon

LEMMA TypesStep ==
    ASSUME IInv, Next PROVE Types'
<1>. DEFINE Points == {"idle", "fill", "put", "get", "write"}
            Values == {"none", "SUCCESS"} \cup Refused
<1>0. Types
    BY Zenon DEF IInv
<1>1. CASE Main
    <2>1. Unmoved /\ Parts' = Parts /\ PartIds' = PartIds
        BY <1>1, MainCases, SameParts, Zenon DEF Unmoved
    <2>2. /\ mpc' \in {"start", "transfer", "add", "waiting", "complete", "returned", "threw", "terminated"}
          /\ added' = added \/ (added < Parts /\ added' = added + 1)
        BY <1>1, MainCases
        DEF Single, Adds, Waits, Checks, Ends, CheckParts, Return
    <2>3. added' \in Nat /\ added' <= Parts /\ started <= added'
        BY <1>0, <2>2, PartsType DEF Types
    <2>. QED
        BY <1>0, <2>1, <2>2, <2>3, Zenon DEF Unmoved, Types
<1>2. ASSUME NEW t \in Threads, Work(t) PROVE Types'
    <2>1. UNCHANGED <<op, size, added>> /\ Parts' = Parts /\ PartIds' = PartIds
        BY <1>2, WorkCases, SameParts, Zenon
    <2>2. mpc' \in {mpc, "terminated"}
        BY <1>2, WorkCases, Zenon DEF Takes, Fills, Sends, Gets, Appends
    <2>3. mpc' \in {"start", "transfer", "add", "waiting", "complete", "returned", "threw", "terminated"}
        BY <1>0, <2>2, Zenon DEF Types
    <2>. SUFFICES /\ started' \in Nat /\ started' <= added /\ done' \subseteq 1..started'
                  /\ tpc' \in [Threads -> Points] /\ job' \in [Threads -> Int]
                  /\ part' \in [Threads -> Int] /\ cur' \in Int
                  /\ m_outcome' \in [PartIds -> Values]
        BY <1>0, <2>1, <2>3, Zenon DEF Types
    <2>4. tpc[t] # "idle" => job[t] \in 1..started
        BY Zenon DEF IInv, Jobs
    <2>5. CASE Takes(t)
        BY <1>0, <2>5 DEF Types, Takes
    <2>6. CASE Fills(t)
        BY <1>0, <2>6 DEF Types, Fills
    <2>leave. ASSUME tpc[t] # "idle", Leaves(t)
              PROVE  done' \subseteq 1..started /\ tpc' \in [Threads -> Points]
        <3>1. job[t] \in 1..started
            BY <2>4, <2>leave, Zenon
        <3>2. done' \subseteq 1..started
            BY <1>0, <2>leave, <3>1, Zenon DEF Types, Leaves
        <3>3. tpc' \in [Threads -> Points]
            BY <1>0, <2>leave DEF Types, Leaves
        <3>. QED
            BY <3>2, <3>3, Zenon
    <2>7. CASE Sends(t)
        <3>1. done' \subseteq 1..started /\ tpc' \in [Threads -> Points]
            BY <2>7, <2>leave DEF Sends
        <3>2. m_outcome' \in [PartIds -> Values]
            BY <1>0, <2>7, Zenon DEF Types, Sends
        <3>. QED
            BY <1>0, <2>7, <3>1, <3>2, Zenon DEF Types, Sends
    <2>8. CASE Gets(t)
        <3>1. done' \subseteq 1..started /\ tpc' \in [Threads -> Points]
            <4>1. CASE Leaves(t)
                BY <2>8, <2>leave, <4>1 DEF Gets
            <4>2. CASE tpc' = [tpc EXCEPT ![t] = "write"] /\ done' = done
                BY <1>0, <4>2 DEF Types
            <4>. QED
                BY <2>8, <4>1, <4>2, Zenon DEF Gets
        <3>2. m_outcome' \in [PartIds -> Values]
            BY <1>0, <2>8, Zenon DEF Types, Gets
        <3>3. part' \in [Threads -> Int]
            BY <1>0, <2>8 DEF Types, Gets
        <3>. QED
            BY <1>0, <2>8, <3>1, <3>2, <3>3, Zenon DEF Types, Gets
    <2>9. CASE Appends(t)
        <3>1. done' \subseteq 1..started /\ tpc' \in [Threads -> Points]
            BY <2>9, <2>leave DEF Appends
        <3>2. cur' \in Int
            BY <1>0, <2>9 DEF Types, Appends
        <3>. QED
            BY <1>0, <2>9, <3>1, <3>2, Zenon DEF Types, Appends
    <2>10. CASE Unmoved
        BY <1>0, <2>10, Zenon DEF Types, Unmoved
    <2>. QED
        BY <1>2, <2>5, <2>6, <2>7, <2>8, <2>9, <2>10, WorkCases, Zenon
<1>. QED
    BY <1>1, <1>2, Zenon DEF Next

\* A thread that ends its job leaves the others alone.
LEMMA LeavesOthers ==
    ASSUME IInv, NEW t \in Threads, tpc[t] # "idle", Leaves(t), job' = job, started' = started
    PROVE  /\ tpc'[t] = "idle" /\ \A u \in Threads : u # t => tpc'[u] = tpc[u]
           /\ \A u \in Threads : tpc'[u] # "idle" =>
                job'[u] \in 1..started' /\ job'[u] \notin done'
<1>1. tpc'[t] = "idle" /\ \A u \in Threads : u # t => tpc'[u] = tpc[u]
    BY DEF IInv, Types, Leaves
<1>2. \A u \in Threads : u # t /\ tpc[u] # "idle" =>
        job[u] \in 1..started /\ job[u] \notin done /\ job[u] # job[t]
    BY Zenon DEF IInv, Jobs
<1>. QED
    BY <1>1, <1>2, Zenon DEF Leaves

LEMMA JobsStep ==
    ASSUME IInv, Next PROVE Jobs'
<1>0. Types /\ Jobs
    BY Zenon DEF IInv
<1>1. CASE Unmoved
    BY <1>0, <1>1, Zenon DEF Unmoved, Jobs
<1>2. ASSUME NEW t \in Threads, Work(t) PROVE Jobs'
    <2>1. op' = op
        BY <1>2, WorkCases, Zenon
    <2>2. CASE Takes(t)
        <3>1. /\ \A u \in Threads : u # t => tpc'[u] = tpc[u] /\ job'[u] = job[u]
              /\ tpc'[t] = (IF op = "upload" THEN "fill" ELSE "get") /\ job'[t] = started + 1
            BY <1>0, <2>2 DEF Types, Takes
        <3>2. started' = started + 1 /\ done' = done /\ tpc[t] = "idle"
            BY <2>2, Zenon DEF Takes
        <3>3. /\ 1..started \subseteq 1..started' /\ started + 1 \in 1..started'
              /\ started + 1 \notin 1..started
            BY <1>0, <3>2 DEF Types
        <3>4. \A u \in Threads : tpc'[u] # "idle" => job'[u] \in 1..started' /\ job'[u] \notin done'
            BY <1>0, <3>1, <3>2, <3>3, Zenon DEF Types, Jobs
        <3>5. ASSUME NEW u \in Threads, NEW v \in Threads,
                     u # v, tpc'[u] # "idle", tpc'[v] # "idle"
              PROVE  job'[u] # job'[v]
            <4>1. CASE u = t
                <5>1. job'[u] = started + 1 /\ job'[v] \in 1..started
                    BY <1>0, <3>1, <3>5, <4>1, Zenon DEF Jobs
                <5>. QED
                    BY <3>3, <5>1, Zenon
            <4>2. CASE v = t
                <5>1. job'[v] = started + 1 /\ job'[u] \in 1..started
                    BY <1>0, <3>1, <3>5, <4>2, Zenon DEF Jobs
                <5>. QED
                    BY <3>3, <5>1, Zenon
            <4>3. CASE u # t /\ v # t
                BY <1>0, <3>1, <3>5, <4>3, Zenon DEF Jobs
            <4>. QED
                BY <4>1, <4>2, <4>3, Zenon
        <3>6. /\ \A u \in Threads : tpc'[u] \in {"fill", "put"} => op = "upload"
              /\ \A u \in Threads : tpc'[u] \in {"get", "write"} => op = "download"
            BY <1>0, <3>1 DEF Types, Jobs
        <3>. QED
            BY <2>1, <3>4, <3>5, <3>6, Zenon DEF Jobs
    <2>3. ASSUME tpc[t] # "idle", Leaves(t), job' = job, started' = started PROVE Jobs'
        <3>1. /\ tpc'[t] = "idle" /\ \A u \in Threads : u # t => tpc'[u] = tpc[u]
              /\ \A u \in Threads : tpc'[u] # "idle" =>
                    job'[u] \in 1..started' /\ job'[u] \notin done'
            BY <2>3, LeavesOthers, Zenon
        <3>2. /\ \A u \in Threads : tpc'[u] \in {"fill", "put"} => op = "upload"
              /\ \A u \in Threads : tpc'[u] \in {"get", "write"} => op = "download"
            BY <1>0, <3>1 DEF Jobs
        <3>. QED
            BY <1>0, <2>1, <2>3, <3>1, <3>2, Zenon DEF Jobs
    <2>4. ASSUME NEW x \in {"put", "write"}, tpc' = [tpc EXCEPT ![t] = x],
                 \/ tpc[t] = "fill" /\ x = "put"
                 \/ tpc[t] = "get" /\ x = "write",
                 UNCHANGED <<job, started, done>>
          PROVE  Jobs'
        <3>1. tpc'[t] = x /\ \A u \in Threads : u # t => tpc'[u] = tpc[u]
            BY <1>0, <2>4 DEF Types
        <3>2. tpc[t] # "idle" /\ \A u \in Threads : tpc'[u] # "idle" => tpc[u] # "idle"
            BY <2>4, <3>1
        <3>3. /\ \A u \in Threads : tpc'[u] \in {"fill", "put"} => op = "upload"
              /\ \A u \in Threads : tpc'[u] \in {"get", "write"} => op = "download"
            BY <1>0, <2>4, <3>1 DEF Jobs
        <3>. QED
            BY <1>0, <2>1, <2>4, <3>2, <3>3, Zenon DEF Jobs
    <2>5. CASE Fills(t)
        BY <2>4, <2>5 DEF Fills
    <2>6. CASE Sends(t)
        BY <2>3, <2>6 DEF Sends
    <2>7. CASE Gets(t)
        <3>1. CASE Leaves(t)
            BY <2>3, <2>7, <3>1 DEF Gets
        <3>2. CASE tpc' = [tpc EXCEPT ![t] = "write"] /\ done' = done
            BY <2>4, <2>7, <3>2 DEF Gets
        <3>. QED
            BY <2>7, <3>1, <3>2, Zenon DEF Gets
    <2>8. CASE Appends(t)
        BY <2>3, <2>8 DEF Appends
    <2>. QED
        BY <1>1, <1>2, <2>2, <2>5, <2>6, <2>7, <2>8, WorkCases, Zenon
<1>. QED
    BY <1>1, <1>2, MainCases, Zenon DEF Next

\* If all jobs are done when the calling thread looks, every part has its outcome.
LEMMA AllOutcomes ==
    ASSUME IInv, mpc = "waiting", done = 1..added
    PROVE  \A p \in PartIds : m_outcome[p] # "none"
<1>1. /\ added = Parts /\ Parts \in Nat /\ started \in Nat /\ started <= added
      /\ 1..added \subseteq 1..started
    BY PartsType, Zenon DEF IInv, Types, Caller
<1>2. started = Parts
    BY <1>1
<1>3. \A t \in Threads : tpc[t] = "idle"
    BY <1>1, <1>2, Zenon DEF IInv, Jobs
<1>4. CASE op = "upload"
    <2>1. Fillers = {} /\ \A t \in Threads : tpc[t] # "put"
        BY <1>3 DEF Fillers
    <2>2. cur \in Int /\ Cardinality(Fillers) = started - (cur + 1)
        BY <1>4, Zenon DEF IInv, Types, Splitter
    <2>3. \A p \in PartIds : p <= cur
        BY <1>1, <1>2, <2>1, <2>2, FS_EmptySet DEF PartIds
    <2>. QED
        BY <1>4, <2>1, <2>3, Zenon DEF IInv, Splitter
<1>5. CASE op = "download"
    <2>1. \A p \in PartIds : p + 1 \in done
        BY <1>1 DEF PartIds
    <2>. QED
        BY <1>5, <2>1, Zenon DEF IInv, Appender
<1>. QED
    BY <1>4, <1>5, Zenon DEF IInv, Types

LEMMA CallerStep ==
    ASSUME IInv, Next PROVE Caller' /\ FailedPartReported'
<1>0. Types /\ Caller /\ FailedPartReported
    BY Zenon DEF IInv
<1>1. CASE Main
    <2>1. Unmoved /\ Parts' = Parts /\ PartIds' = PartIds
        BY <1>1, MainCases, SameParts, Zenon DEF Unmoved
    <2>2. CASE Single
        <3>1. added = 0 /\ added' = 0 /\ \A p \in PartIds : m_outcome[p] = "none"
            BY <1>0, <2>2, Zenon DEF Caller, Single
        <3>2. done = {} /\ 1..0 = {}
            BY <1>0, <3>1 DEF Types
        <3>3. mpc' \notin {"waiting", "complete"}
            BY <2>2 DEF Single
        <3>4. "none" \notin Refused
            BY DEF Refused
        <3>5. Caller'
            BY <2>1, <3>1, <3>2, <3>3 DEF Caller, Unmoved
        <3>. QED
            BY <2>1, <3>1, <3>4, <3>5, Zenon DEF FailedPartReported, Unmoved
    <2>3. CASE Adds \/ Waits
        <3>1. added' # 0 /\ mpc' \in {"add", "waiting"} /\ (mpc' = "waiting" => added' = Parts)
            BY <1>0, <2>3, PartsType DEF Types, Adds, Waits
        <3>. QED
            BY <2>1, <3>1 DEF Caller, FailedPartReported
    <2>4. CASE Checks
        <3>1. /\ \A p \in PartIds : m_outcome[p] # "none"
              /\ added' = added /\ added # 0 /\ done = 1..added
            BY <1>0, <2>4, AllOutcomes, PartsType, Zenon DEF Checks, Caller, Types
        <3>2. CASE mpc' = "complete" /\ \A p \in PartIds : m_outcome[p] = "SUCCESS"
            BY <2>1, <3>1, <3>2 DEF Caller, FailedPartReported, Unmoved
        <3>3. ASSUME NEW p \in PartIds, m_outcome[p] # "SUCCESS",
                     mpc' = "returned", outcome' = m_outcome[p]
              PROVE  Caller' /\ FailedPartReported'
            <4>1. m_outcome[p] \in Refused
                BY <1>0, <3>1, <3>3 DEF Types
            <4>. QED
                BY <2>1, <3>1, <3>3, <4>1 DEF Caller, FailedPartReported, Unmoved
        <3>4. CASE mpc' = "returned" /\ \A p \in PartIds : m_outcome[p] = "SUCCESS"
            <4>1. "SUCCESS" \notin Refused
                BY DEF Refused
            <4>. QED
                BY <2>1, <3>1, <3>4, <4>1 DEF Caller, FailedPartReported, Unmoved
        <3>. QED
            BY <2>4, <3>2, <3>3, <3>4, Zenon DEF Checks, CheckParts, Unsuccessful, Return
    <2>5. CASE Ends
        <3>1. "SUCCESS" \notin Refused
            BY DEF Refused
        <3>. QED
            BY <1>0, <2>1, <2>5, <3>1 DEF Ends, Caller, FailedPartReported, Unmoved
    <2>. QED
        BY <1>1, <2>2, <2>3, <2>4, <2>5, MainCases, Zenon
<1>2. ASSUME NEW t \in Threads, Work(t) PROVE Caller' /\ FailedPartReported'
    <2>1. added' = added /\ Parts' = Parts /\ PartIds' = PartIds /\ mpc' \in {mpc, "terminated"}
        <3>1. UNCHANGED <<added, size>>
            BY <1>2, WorkCases, Zenon
        <3>2. mpc' \in {mpc, "terminated"}
            BY <1>2, WorkCases, Zenon DEF Takes, Fills, Sends, Gets, Appends
        <3>. QED
            BY <3>1, <3>2, SameParts, Zenon
    <2>2. mpc \notin {"complete", "returned"} /\ added # 0
        BY <1>2, WorkInTime, Zenon
    <2>3. mpc' \notin {"start", "transfer", "complete", "returned"}
        BY <1>0, <2>1, <2>2 DEF Caller
    <2>. QED
        BY <1>0, <2>1, <2>2, <2>3 DEF Caller, FailedPartReported
<1>. QED
    BY <1>1, <1>2, Zenon DEF Next

LEMMA FillersFinite == IsFiniteSet(Fillers) /\ Cardinality(Fillers) \in Nat
<1>1. IsFiniteSet(Threads)
    BY TransferAssumption, FS_Interval DEF Threads
<1>2. IsFiniteSet(Fillers)
    BY <1>1, FS_Subset DEF Fillers
<1>. QED
    BY <1>2, FS_CardinalityType

LEMMA SplitterStep ==
    ASSUME IInv, Next PROVE Splitter'
<1>0. Types /\ Jobs /\ Splitter
    BY Zenon DEF IInv
<1>1. CASE Unmoved
    <2>1. PartIds' = PartIds /\ Fillers' = Fillers
        BY <1>1, SameParts, Zenon DEF Unmoved, Fillers
    <2>. QED
        BY <1>0, <1>1, <2>1, Zenon DEF Unmoved, Splitter
<1>2. ASSUME NEW t \in Threads, Work(t), op = "upload" PROVE Splitter'
    <2>1. PartIds' = PartIds
        BY <1>2, WorkCases, SameParts, Zenon
    <2>2. /\ cur \in Int /\ cur >= -1 /\ Cardinality(Fillers) = started - (cur + 1)
          /\ started \in Nat
          /\ \A u \in Threads : tpc[u] = "put" => part[u] \in 0..cur
          /\ \A u, v \in Threads : u # v /\ tpc[u] = "put" /\ tpc[v] = "put" => part[u] # part[v]
          /\ \A p \in PartIds : p <= cur =>
                m_outcome[p] # "none" \/ \E u \in Threads : tpc[u] = "put" /\ part[u] = p
        BY <1>0, <1>2, Zenon DEF Types, Splitter
    <2>3. SUFFICES
            /\ cur' >= -1 /\ Cardinality(Fillers') = started' - (cur' + 1)
            /\ \A u \in Threads : tpc'[u] = "put" => part'[u] \in 0..cur'
            /\ \A u, v \in Threads :
                u # v /\ tpc'[u] = "put" /\ tpc'[v] = "put" => part'[u] # part'[v]
            /\ \A p \in PartIds : p <= cur' =>
                m_outcome'[p] # "none" \/ \E u \in Threads : tpc'[u] = "put" /\ part'[u] = p
        BY <2>1, <2>3, Zenon DEF Splitter, Fillers
    <2>4. CASE Takes(t)
        <3>1. /\ tpc'[t] = "fill" /\ tpc[t] = "idle"
              /\ \A u \in Threads : u # t => tpc'[u] = tpc[u]
            BY <1>0, <1>2, <2>4 DEF Types, Takes
        <3>2. Fillers' = Fillers \cup {t} /\ t \notin Fillers
            BY <3>1 DEF Fillers
        <3>3. Cardinality(Fillers') = started' - (cur' + 1)
            <4>1. Cardinality(Fillers') = Cardinality(Fillers) + 1
                BY <3>2, FillersFinite, FS_AddElement
            <4>. QED
                BY <2>2, <2>4, <4>1 DEF Takes
        <3>4. \A u \in Threads : (tpc'[u] = "put") = (tpc[u] = "put")
            BY <3>1
        <3>5. UNCHANGED <<cur, part, m_outcome>>
            BY <2>4, Zenon DEF Takes
        <3>. QED
            BY <2>2, <3>3, <3>4, <3>5, Zenon
    <2>5. CASE Fills(t)
        <3>1. /\ tpc'[t] = "put" /\ tpc[t] = "fill" /\ part'[t] = cur + 1
              /\ \A u \in Threads : u # t => tpc'[u] = tpc[u] /\ part'[u] = part[u]
            BY <1>0, <2>5 DEF Types, Fills
        <3>2. Fillers' = Fillers \ {t} /\ t \in Fillers
            BY <3>1 DEF Fillers
        <3>3. UNCHANGED <<started, m_outcome>> /\ cur' = cur + 1
            BY <2>5, Zenon DEF Fills
        <3>4. cur' >= -1 /\ Cardinality(Fillers') = started' - (cur' + 1)
            <4>1. Cardinality(Fillers') = Cardinality(Fillers) - 1
                BY <3>2, FillersFinite, FS_RemoveElement
            <4>. QED
                BY <2>2, <3>3, <4>1
        <3>5. /\ cur + 1 \in 0..cur' /\ 0..cur \subseteq 0..cur' /\ cur + 1 \notin 0..cur
              /\ \A p \in PartIds : p <= cur' => p <= cur \/ p = cur + 1
            BY <2>2, <3>3 DEF PartIds
        <3>6. \A u \in Threads : tpc'[u] = "put" => u = t \/ (u # t /\ tpc[u] = "put")
            BY <3>1
        <3>7. \A u \in Threads : tpc'[u] = "put" => part'[u] \in 0..cur'
            BY <2>2, <3>1, <3>5, <3>6, ZenonT(30)
        <3>8. ASSUME NEW u \in Threads, NEW v \in Threads,
                     u # v, tpc'[u] = "put", tpc'[v] = "put"
              PROVE  part'[u] # part'[v]
            <4>1. CASE u = t
                <5>1. part'[u] = cur + 1 /\ part'[v] \in 0..cur
                    BY <2>2, <3>1, <3>6, <3>8, <4>1, Zenon
                <5>. QED
                    BY <3>5, <5>1, Zenon
            <4>2. CASE v = t
                <5>1. part'[v] = cur + 1 /\ part'[u] \in 0..cur
                    BY <2>2, <3>1, <3>6, <3>8, <4>2, Zenon
                <5>. QED
                    BY <3>5, <5>1, Zenon
            <4>3. CASE u # t /\ v # t
                <5>1. /\ tpc[u] = "put" /\ part'[u] = part[u]
                      /\ tpc[v] = "put" /\ part'[v] = part[v]
                    BY <3>1, <3>8, <4>3, Zenon
                <5>. QED
                    BY <2>2, <3>8, <5>1, Zenon
            <4>. QED
                BY <4>1, <4>2, <4>3, Zenon
        <3>9. ASSUME NEW p \in PartIds, p <= cur'
              PROVE  m_outcome'[p] # "none" \/ \E u \in Threads : tpc'[u] = "put" /\ part'[u] = p
            <4>1. \A u \in Threads : tpc[u] = "put" => tpc'[u] = "put" /\ part'[u] = part[u]
                BY <3>1
            <4>2. CASE p = cur + 1
                BY <3>1, <4>2, Zenon
            <4>3. CASE p <= cur
                <5>1. m_outcome[p] # "none" \/ \E u \in Threads : tpc[u] = "put" /\ part[u] = p
                    BY <2>2, <3>9, <4>3, Zenon
                <5>. QED
                    BY <3>3, <4>1, <5>1, Zenon
            <4>. QED
                BY <3>5, <3>9, <4>2, <4>3, Zenon
        <3>. QED
            BY <3>4, <3>7, <3>8, <3>9, Zenon
    <2>6. CASE Sends(t)
        <3>1. /\ tpc'[t] = "idle" /\ tpc[t] = "put"
              /\ \A u \in Threads : u # t => tpc'[u] = tpc[u]
            BY <1>0, <2>6 DEF Types, Sends, Leaves
        <3>2. Fillers' = Fillers
            BY <3>1 DEF Fillers
        <3>3. UNCHANGED <<part, cur, started>>
            BY <2>6, Zenon DEF Sends
        <3>4. \A u \in Threads : tpc'[u] = "put" <=> u # t /\ tpc[u] = "put"
            BY <3>1
        <3>5. \A p \in PartIds :
                m_outcome'[p] # "none" \/ (p # part[t] /\ m_outcome'[p] = m_outcome[p])
            BY <1>0, <2>6 DEF Types, Sends, Refused
        <3>6. ASSUME NEW p \in PartIds, p <= cur
              PROVE  m_outcome'[p] # "none" \/ \E u \in Threads : tpc'[u] = "put" /\ part[u] = p
            BY <2>2, <3>4, <3>5, <3>6, Zenon
        <3>. QED
            BY <2>2, <3>2, <3>3, <3>4, <3>6, Zenon
    <2>7. CASE Gets(t) \/ Appends(t) \/ tpc[t] = "get"
        BY <1>0, <1>2, <2>7 DEF Gets, Appends, Jobs
    <2>. QED
        BY <1>2, <2>4, <2>5, <2>6, <2>7, WorkCases, Zenon
<1>3. ASSUME NEW t \in Threads, Work(t), op # "upload" PROVE Splitter'
    BY <1>3, WorkCases, Zenon DEF Splitter
<1>. QED
    BY <1>1, <1>2, <1>3, MainCases, Zenon DEF Next

LEMMA AppenderStep ==
    ASSUME IInv, Next PROVE Appender'
<1>0. Types /\ Jobs /\ Appender
    BY Zenon DEF IInv
<1>1. CASE Unmoved
    <2>1. PartIds' = PartIds
        BY <1>1, SameParts, Zenon DEF Unmoved
    <2>. QED
        BY <1>0, <1>1, <2>1, Zenon DEF Unmoved, Appender
<1>2. ASSUME NEW t \in Threads, Work(t), op = "download" PROVE Appender'
    <2>1. PartIds' = PartIds
        BY <1>2, WorkCases, SameParts, Zenon
    <2>2. /\ cur \in Int /\ cur >= 0 /\ \A p \in 0..(cur - 1) : p + 1 \in done
          /\ \A u \in Threads : tpc[u] = "write" => part[u] = job[u] - 1
          /\ \A u \in Threads : tpc[u] = "write" => m_outcome[part[u]] # "none"
          /\ \A p \in PartIds : p + 1 \in done => m_outcome[p] # "none"
        BY <1>0, <1>2, Zenon DEF Types, Appender
    <2>3. SUFFICES
            /\ cur' >= 0 /\ \A p \in 0..(cur' - 1) : p + 1 \in done'
            /\ \A u \in Threads : tpc'[u] = "write" => part'[u] = job'[u] - 1
            /\ \A u \in Threads : tpc'[u] = "write" => m_outcome'[part'[u]] # "none"
            /\ \A p \in PartIds : p + 1 \in done' => m_outcome'[p] # "none"
        BY <2>1, <2>3, Zenon DEF Appender
    <2>4. tpc[t] # "idle" => job[t] \in Int /\ job[t] - 1 \in PartIds /\ job[t] \notin done
        <3>1. tpc[t] # "idle" => job[t] \in 1..started /\ job[t] \notin done
            BY <1>0, Zenon DEF Jobs
        <3>. QED
            BY <1>0, <3>1, PartsType DEF Types, PartIds
    <2>5. CASE Takes(t)
        <3>1. /\ tpc'[t] = "get"
              /\ \A u \in Threads : u # t => tpc'[u] = tpc[u] /\ job'[u] = job[u]
            BY <1>0, <1>2, <2>5 DEF Types, Takes
        <3>2. \A u \in Threads : tpc'[u] = "write" => tpc[u] = "write" /\ job'[u] = job[u]
            BY <3>1
        <3>3. UNCHANGED <<part, cur, m_outcome, done>>
            BY <2>5, Zenon DEF Takes
        <3>. QED
            BY <2>2, <3>2, <3>3, Zenon
    <2>6. CASE Gets(t)
        <3>1. /\ UNCHANGED <<job, cur>> /\ part'[t] = job[t] - 1
              /\ \A u \in Threads : u # t => part'[u] = part[u]
            BY <1>0, <2>6 DEF Types, Gets
        <3>2. \A u \in Threads : u # t => tpc'[u] = tpc[u]
            BY <1>0, <2>6 DEF Types, Gets, Leaves
        <3>3. done \subseteq done' /\ done' \subseteq done \cup {job[t]}
            BY <2>6, Zenon DEF Gets, Leaves
        <3>4. job[t] \in Int /\ job[t] - 1 \in PartIds
            BY <2>4, <2>6 DEF Gets
        <3>5. PICK o \in {"SUCCESS"} \cup Refused :
                m_outcome' = [m_outcome EXCEPT ![job[t] - 1] = o]
            BY <2>6, Zenon DEF Gets
        <3>6. o # "none" /\ m_outcome'[job[t] - 1] = o
            BY <1>0, <3>4, <3>5 DEF Types, Refused
        <3>7. \A p : m_outcome[p] # "none" => p \notin PartIds \/ m_outcome'[p] # "none"
            BY <1>0, <3>5, <3>6 DEF Types
        <3>8. ASSUME NEW u \in Threads, u # t, tpc'[u] = "write"
              PROVE  m_outcome'[part'[u]] # "none"
            <4>1. tpc[u] = "write" /\ part'[u] = part[u] /\ part[u] = job[u] - 1
                BY <2>2, <3>1, <3>2, <3>8, Zenon
            <4>2. job[u] \in 1..started
                BY <1>0, <4>1 DEF Jobs
            <4>3. part[u] \in PartIds
                BY <1>0, <4>1, <4>2, PartsType DEF Types, PartIds
            <4>. QED
                BY <2>2, <3>7, <4>1, <4>3, Zenon
        <3>9. ASSUME NEW p \in PartIds, p + 1 \in done' PROVE m_outcome'[p] # "none"
            <4>1. CASE p + 1 \in done
                BY <2>2, <3>7, <4>1, Zenon
            <4>2. CASE p + 1 = job[t]
                <5>1. p = job[t] - 1
                    BY <3>4, <4>2 DEF PartIds
                <5>. QED
                    BY <3>6, <5>1, Zenon
            <4>. QED
                BY <3>3, <3>9, <4>1, <4>2, Zenon
        <3>10. \A u \in Threads : tpc'[u] = "write" => part'[u] = job'[u] - 1
            BY <2>2, <3>1, <3>2, Zenon
        <3>11. \A u \in Threads : tpc'[u] = "write" => m_outcome'[part'[u]] # "none"
            BY <3>1, <3>6, <3>8, Zenon
        <3>12. cur' >= 0 /\ \A p \in 0..(cur' - 1) : p + 1 \in done'
            BY <2>2, <3>1, <3>3, Zenon
        <3>. QED
            BY <3>9, <3>10, <3>11, <3>12, Zenon
    <2>7. CASE Appends(t)
        <3>1. /\ UNCHANGED <<job, part, m_outcome>> /\ cur' = cur + 1
              /\ done' = done \cup {job[t]} /\ tpc[t] = "write" /\ ~(part[t] > cur)
            BY <2>7, Zenon DEF Appends, Leaves
        <3>2. tpc'[t] = "idle" /\ \A u \in Threads : u # t => tpc'[u] = tpc[u]
            BY <1>0, <2>7 DEF Types, Appends, Leaves
        <3>3. part[t] = job[t] - 1 /\ job[t] \in Int /\ part[t] \in PartIds /\ job[t] \notin done
            BY <2>2, <2>4, <3>1
        <3>4. job[t] = cur + 1
            <4>1. part[t] \in 0..(cur - 1) => part[t] + 1 \in done
                BY <2>2, Zenon
            <4>2. part[t] + 1 = job[t] /\ part[t] >= 0
                BY <3>3 DEF PartIds
            <4>3. ~(part[t] \in 0..(cur - 1))
                BY <3>3, <4>1, <4>2, Zenon
            <4>. QED
                BY <2>2, <3>1, <3>3, <4>2, <4>3 DEF PartIds
        <3>5. \A p \in 0..(cur' - 1) : p \in 0..(cur - 1) \/ p + 1 = job[t]
            BY <2>2, <3>1, <3>4
        <3>6. cur' >= 0 /\ \A p \in 0..(cur' - 1) : p + 1 \in done'
            <4>1. cur' >= 0
                BY <2>2, <3>1
            <4>. QED
                BY <2>2, <3>1, <3>5, <4>1, Zenon
        <3>7. \A u \in Threads : tpc'[u] = "write" => tpc[u] = "write"
            BY <3>2
        <3>8. ASSUME NEW p \in PartIds, p + 1 = job[t] PROVE m_outcome[p] # "none"
            <4>1. p = part[t]
                BY <3>3, <3>8 DEF PartIds
            <4>. QED
                BY <2>2, <3>1, <4>1, Zenon
        <3>9. \A p \in PartIds : p + 1 \in done' => m_outcome'[p] # "none"
            BY <2>2, <3>1, <3>8, Zenon
        <3>. QED
            BY <2>2, <3>1, <3>6, <3>7, <3>9, Zenon
    <2>8. ~Fills(t) /\ ~Sends(t)
        BY <1>0, <1>2 DEF Fills, Sends, Jobs
    <2>9. CASE Unmoved
        BY <2>2, <2>9, Zenon DEF Unmoved
    <2>. QED
        BY <1>2, <2>5, <2>6, <2>7, <2>8, <2>9, WorkCases, Zenon
<1>3. ASSUME NEW t \in Threads, Work(t), op # "download" PROVE Appender'
    BY <1>3, WorkCases, Zenon DEF Appender
<1>. QED
    BY <1>1, <1>2, <1>3, MainCases, Zenon DEF Next

LEMMA InitInv == Init => IInv
<1>. SUFFICES ASSUME Init PROVE IInv
    OBVIOUS
<1>1. /\ op \in {"upload", "download"} /\ plain \in Sizes /\ size = CipherSize(plain)
      /\ mpc = "start" /\ added = 0 /\ started = 0 /\ done = {}
      /\ tpc = [t \in Threads |-> "idle"] /\ job = [t \in Threads |-> 0]
      /\ part = [t \in Threads |-> 0] /\ cur = (IF op = "upload" THEN -1 ELSE 0)
      /\ m_outcome = [p \in PartIds |-> "none"]
    BY Zenon DEF Init, Pool!Init
<1>2. size \in Nat
    <2>1. plain \in Nat /\ Block \in Nat \ {0}
        BY <1>1, TransferAssumption, CipherAssumption
    <2>2. (plain + Block) \div Block \in Nat
        BY <2>1
    <2>3. ((plain + Block) \div Block) * Block \in Nat
        BY <2>1, <2>2
    <2>. QED
        BY <1>1, <2>3, Zenon DEF CipherSize
<1>3. Types
    BY <1>1, <1>2, PartsType DEF Types
<1>4. Jobs /\ Caller /\ FailedPartReported
    BY <1>1 DEF Jobs, Caller, FailedPartReported
<1>5. Splitter
    <2>1. Fillers = {}
        BY <1>1 DEF Fillers
    <2>. QED
        BY <1>1, <2>1, FS_EmptySet, PartsType DEF Splitter, PartIds
<1>6. Appender
    BY <1>1 DEF Appender
<1>. QED
    BY <1>3, <1>4, <1>5, <1>6, Zenon DEF IInv

LEMMA InductiveStep == IInv /\ [Next]_vars => IInv'
<1>1. ASSUME IInv, Next PROVE IInv'
    BY <1>1, TypesStep, JobsStep, CallerStep, SplitterStep, AppenderStep, Zenon DEF IInv
<1>2. ASSUME IInv, UNCHANGED vars PROVE IInv'
    <2>1. /\ Unmoved /\ mpc' = mpc /\ added' = added /\ outcome' = outcome
          /\ Parts' = Parts /\ PartIds' = PartIds
        BY <1>2, SameParts, Zenon DEF vars, file, pool, stream, Unmoved
    <2>2. UNCHANGED <<op, size, tpc, job, part, cur, m_outcome, started, done>>
        BY <2>1, Zenon DEF Unmoved
    <2>3. Types' /\ Jobs'
        BY <1>2, <2>1, <2>2, Zenon DEF IInv, Types, Jobs
    <2>4. Caller' /\ FailedPartReported'
        BY <1>2, <2>1, <2>2, Zenon DEF IInv, Caller, FailedPartReported
    <2>5. Splitter'
        BY <1>2, <2>1, <2>2, Zenon DEF IInv, Splitter, Fillers
    <2>6. Appender'
        BY <1>2, <2>1, <2>2, Zenon DEF IInv, Appender
    <2>. QED
        BY <2>3, <2>4, <2>5, <2>6, Zenon DEF IInv
<1>. QED
    BY <1>1, <1>2, Zenon

(***************************************************************************)
(* Theorems                                                                *)
(***************************************************************************)
\* The inductive invariant of a transfer holds for any number of threads and parts.
THEOREM Invariance == Spec => []IInv
BY InitInv, InductiveStep, PTL DEF Spec

\* upload and download return only when no job uses their local variables any more.
THEOREM ReturnsLast == Spec => []NoUseAfterReturn
<1>1. IInv => NoUseAfterReturn
    <2>. SUFFICES ASSUME IInv, mpc = "returned", NEW t \in Threads, tpc[t] # "idle"
                  PROVE  FALSE
        BY Zenon DEF NoUseAfterReturn
    <2>1. /\ done = 1..added /\ job[t] \in 1..started /\ job[t] \notin done
          /\ started \in Nat /\ added \in Nat /\ started <= added
        BY Zenon DEF IInv, Types, Jobs, Caller
    <2>. QED
        BY <2>1
<1>. QED
    BY <1>1, Invariance, PTL

\* A refused part makes the transfer fail, whichever thread met the refusal.
THEOREM RefusalReported == Spec => []FailedPartReported
<1>1. IInv => FailedPartReported
    BY Zenon DEF IInv
<1>. QED
    BY <1>1, Invariance, PTL

\* Parts that are sent at the same time have different numbers, all with a context.
THEOREM PartsNumberedOnce == Spec => []PartsApart
<1>1. IInv => PartsApart
    <2>. SUFFICES ASSUME IInv PROVE PartsApart
        OBVIOUS
    <2>1. ASSUME NEW t \in Threads, tpc[t] = "put" PROVE part[t] \in PartIds
        <3>1. /\ part[t] \in 0..cur /\ Cardinality(Fillers) = started - (cur + 1)
              /\ cur \in Int /\ started \in Nat /\ added \in Nat
              /\ started <= added /\ added <= Parts /\ Parts \in Nat
            BY <2>1, PartsType DEF IInv, Types, Jobs, Splitter
        <3>. QED
            BY <3>1, FillersFinite DEF PartIds
    <2>2. ASSUME NEW t \in Threads, NEW u \in Threads, t # u, tpc[t] = "put", tpc[u] = "put"
          PROVE  part[t] # part[u]
        BY <2>2 DEF IInv, Jobs, Splitter
    <2>. QED
        BY <2>1, <2>2, Zenon DEF PartsApart
<1>. QED
    BY <1>1, Invariance, PTL

\* A job writes its part before any later one is written.
LEMMA InOrder == IInv => WrittenInOrder
<1>. SUFFICES ASSUME IInv, NEW t \in Threads, tpc[t] = "write" PROVE part[t] >= cur
    BY Zenon DEF WrittenInOrder
<1>1. /\ op = "download" /\ job[t] \in 1..started /\ job[t] \notin done
    BY DEF IInv, Jobs
<1>2. /\ part[t] = job[t] - 1 /\ cur \in Int /\ started \in Nat
      /\ \A p \in 0..(cur - 1) : p + 1 \in done
    BY <1>1, Zenon DEF IInv, Types, Appender
<1>3. part[t] \in Int /\ part[t] >= 0 /\ part[t] + 1 = job[t]
    BY <1>1, <1>2
<1>. QED
    BY <1>1, <1>2, <1>3

\* Parts are written in their order, each once.
THEOREM PartsWrittenInOrder == Spec => []WrittenInOrder
BY InOrder, Invariance, PTL

=============================================================================
