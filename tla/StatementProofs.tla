-------------------------- MODULE StatementProofs --------------------------
(***************************************************************************)
(* The requests of a connection, for any number of expired tokens, polls,  *)
(* retries and executions, and so for stacks of any depth: the master      *)
(* token only renews, a caller reads the answer to its own request, and    *)
(* renewals move forward; and a statement hands out the rows of its        *)
(* result.                                                                 *)
(***************************************************************************)
EXTENDS Statement, SequenceTheorems, TLAPS

(***************************************************************************)
(* The inductive invariant                                                 *)
(***************************************************************************)
Frames ==
    [fn     : {"post", "get", "renew"},
     url    : {"login", "delete", "query", "renew", "result", "none"},
     header : [kind : {"session", "master", "direct", "none"}, pair : Nat],
     pc     : {"perform", "poll", "start", "renewed", "repeated", "polled", "posted"}]

Types ==
    /\ token \in Nat /\ master_token \in Nat /\ issued \in Nat /\ json.pair \in Nat
    /\ stack \in Seq(Frames) /\ ret \in {"none", "ok", "fail", "eof"}

\* What an activation knows of itself.
Sound(f) ==
    /\ f.fn # "renew" => (f.url = "renew" <=> f.header.kind = "master")
    /\ f.fn = "post" => f.url \in {"login", "delete", "query", "renew"}
    /\ f.fn = "get" => f.url = "result"
    /\ f.pc \in {"renewed", "repeated"} => f.fn # "renew" /\ f.url \notin {"login", "renew"}
    /\ f.pc \in {"poll", "polled"} => f.fn = "post" /\ f.url = "query"

\* Activation f waits for g, which it has called; a repetition has a newer token.
Awaits(f, g) ==
    /\ f.pc = "renewed" <=> g.fn = "renew"
    /\ g.url # "login" /\ (g.url = "renew" => f.fn = "renew")
    /\ f.pc = "repeated" =>
        /\ g.fn = f.fn /\ g.url = f.url
        /\ g.header.kind = "session" /\ g.header.pair > f.header.pair
    /\ f.pc = "polled" => g.fn = "get" /\ g.url = "result"
    /\ f.pc = "posted" => g.fn = "post" /\ g.url = "renew"

UrlOf(name) == CASE name = "connect" -> "login" [] name = "term" -> "delete" [] OTHER -> "query"

Requests == {"connect", "execute", "term"}

Stack ==
    /\ \A k \in 1..Len(stack) : Sound(stack[k])
    /\ \A k \in 1..(Len(stack) - 1) : Awaits(stack[k + 1], stack[k])
    /\ stack # <<>> =>
        /\ op \in Requests /\ ret # "eof"
        /\ stack[Len(stack)].fn = "post" /\ stack[Len(stack)].url = UrlOf(op)

\* Answer a is one that a request with that function and URL may return; only a GET
\* returns that the query is in progress.
Answered(a, fn, url) ==
    /\ a.kind \notin {"expired", "badcode", "none"}
    /\ fn = "post" => ~InProgress(a.kind)
    /\ a.url = url \/ (url = "query" /\ a.url = "result")

\* The activation that f was waiting for has returned a successfully.
Delivered(a, f) ==
    /\ f.pc = "repeated" => Answered(a, f.fn, f.url)
    /\ f.pc = "polled" => Answered(a, "get", "result")
    /\ f.pc = "posted" => Answered(a, "post", "renew")

Received ==
    ret = "ok" =>
        /\ stack # <<>> => Delivered(json, Top)
        /\ stack = <<>> /\ op \in Requests => Answered(json, "post", UrlOf(op))

\* An answer with tokens that are not set yet.
Pending ==
    /\ ret = "ok" /\ json.kind \in {"pair", "half"}
    /\ IF stack = <<>> THEN op = "connect" ELSE Top.fn = "renew"

Latest ==
    op # "closed" => IF Pending THEN token < issued /\ json.pair = issued ELSE token = issued

Bounded == \A k \in 1..Len(stack) : stack[k].header.pair <= token

Tokens ==
    /\ master_token <= token /\ Bounded /\ Latest
    /\ json.kind \in {"pair", "half"} => json.url \in {"login", "renew"}
    /\ (ret = "ok" /\ stack # <<>> /\ Top.pc = "renewed") => Top.header.pair < token

IInv == Types /\ Stack /\ Received /\ Tokens

(***************************************************************************)
(* Calls and returns keep the stack sound                                  *)
(***************************************************************************)
At(f, pc) == [f EXCEPT !.pc = pc]

Pcs == {"perform", "poll", "start", "renewed", "repeated", "polled", "posted"}

LEMMA AtFields ==
    ASSUME NEW f \in Frames, NEW pc \in Pcs
    PROVE  /\ At(f, pc) \in Frames /\ At(f, pc).pc = pc
           /\ At(f, pc).fn = f.fn /\ At(f, pc).url = f.url /\ At(f, pc).header = f.header
BY DEF At, Frames, Pcs

LEMMA StackTop ==
    ASSUME stack \in Seq(Frames), stack # <<>>
    PROVE  Len(stack) \in Nat \ {0} /\ Top = stack[1] /\ Top \in Frames
BY DEF Top

LEMMA Pushed ==
    ASSUME stack \in Seq(Frames), stack # <<>>, NEW a \in Frames, NEW b \in Frames,
           stack' = <<a, b>> \o Tail(stack)
    PROVE  /\ stack' \in Seq(Frames) /\ Len(stack') = Len(stack) + 1
           /\ stack'[1] = a /\ stack'[2] = b /\ \A k \in 3..Len(stack') : stack'[k] = stack[k - 1]
BY StackTop

LEMMA Moved ==
    ASSUME stack \in Seq(Frames), stack # <<>>, NEW a \in Frames, stack' = <<a>> \o Tail(stack)
    PROVE  /\ stack' \in Seq(Frames) /\ Len(stack') = Len(stack)
           /\ stack'[1] = a /\ \A k \in 2..Len(stack') : stack'[k] = stack[k]
BY StackTop

LEMMA Popped ==
    ASSUME stack \in Seq(Frames), stack # <<>>, stack' = Tail(stack)
    PROVE  /\ stack' \in Seq(Frames) /\ Len(stack') = Len(stack) - 1
           /\ \A k \in 1..Len(stack') : stack'[k] = stack[k + 1]
           /\ stack' = <<>> <=> Len(stack) = 1
           /\ stack' # <<>> => Top' = stack[2]
<1>1. Len(stack) \in Nat \ {0}
    BY StackTop
<1>2. /\ stack' \in Seq(Frames) /\ Len(stack') = Len(stack) - 1
      /\ \A k \in 1..Len(stack') : stack'[k] = stack[k + 1]
    BY <1>1
<1>3. stack' = <<>> <=> Len(stack) = 1
    <2>1. stack' = <<>> <=> Len(stack') = 0
        BY <1>2, EmptySeq, Zenon
    <2>. QED
        BY <1>1, <1>2, <2>1
<1>4. ASSUME stack' # <<>> PROVE Top' = stack[2]
    <2>1. Top' = stack'[1]
        BY <1>2, <1>4 DEF Top
    <2>2. 1 \in 1..Len(stack')
        BY <1>1, <1>2, <1>3, <1>4
    <2>. QED
        BY <1>2, <2>1, <2>2
<1>. QED
    BY <1>2, <1>3, <1>4, Zenon

\* The running activation, now at pc, calls g.
LEMMA CallKeeps ==
    ASSUME IInv, stack # <<>>, NEW pc \in Pcs, NEW g \in Frames, CallFrom(pc, g), op' = op,
           Sound(g), Sound(At(Top, pc)), Awaits(At(Top, pc), g)
    PROVE  stack' \in Seq(Frames) /\ ret' = "none" /\ Stack' /\ Received'
<1>. DEFINE f == At(Top, pc)
<1>0. stack \in Seq(Frames) /\ Stack
    BY Zenon DEF IInv, Types
<1>1. Len(stack) \in Nat \ {0} /\ Top = stack[1] /\ Top \in Frames
    BY <1>0, StackTop, Zenon
<1>2. f \in Frames /\ f.fn = Top.fn /\ f.url = Top.url /\ f.header = Top.header
    BY <1>1, AtFields, Zenon
<1>3. stack' = <<g, f>> \o Tail(stack) /\ ret' = "none"
    BY Zenon DEF CallFrom, At
<1>. HIDE DEF f
<1>4. /\ stack' \in Seq(Frames) /\ Len(stack') = Len(stack) + 1
      /\ stack'[1] = g /\ stack'[2] = f /\ \A k \in 3..Len(stack') : stack'[k] = stack[k - 1]
    BY <1>0, <1>2, <1>3, Pushed, Zenon
<1>5. Sound(f) /\ Awaits(f, g)
    BY Zenon DEF f
<1>len. Len(stack) \in Nat \ {0} /\ Len(stack') = Len(stack) + 1
    BY <1>1, <1>4, Zenon
<1>6. \A k \in 1..Len(stack') : Sound(stack'[k])
    <2>. TAKE k \in 1..Len(stack')
    <2>1. CASE k = 1
        BY <1>4, <2>1
    <2>2. CASE k = 2
        BY <1>4, <1>5, <2>2
    <2>3. CASE k \in 3..Len(stack')
        <3>1. k - 1 \in 1..Len(stack)
            BY <1>1, <1>4, <2>3
        <3>. QED
            BY <1>0, <1>4, <2>3, <3>1, Zenon DEF Stack
    <2>. QED
        BY <1>1, <1>4, <2>1, <2>2, <2>3
<1>7. \A k \in 1..(Len(stack') - 1) : Awaits(stack'[k + 1], stack'[k])
    <2>. TAKE k \in 1..(Len(stack') - 1)
    <2>1. CASE k = 1
        <3>1. stack'[k + 1] = f /\ stack'[k] = g
            BY <1>4, <2>1
        <3>. QED
            BY <1>5, <3>1, Zenon
    <2>2. CASE k = 2
        <3>1. 1 \in 1..(Len(stack) - 1) /\ 3 \in 3..Len(stack')
            BY <1>1, <1>4, <2>2
        <3>2. stack'[k + 1] = stack[1 + 1] /\ stack'[k] = f
            BY <1>4, <2>2, <3>1
        <3>3. Awaits(stack[1 + 1], Top)
            BY <1>0, <1>1, <3>1, Zenon DEF Stack
        <3>. QED
            BY <1>2, <3>2, <3>3, Zenon DEF Awaits
    <2>3. CASE k > 2
        <3>1. /\ k - 1 \in 1..(Len(stack) - 1) /\ k \in 3..Len(stack') /\ k + 1 \in 3..Len(stack')
              /\ (k + 1) - 1 = (k - 1) + 1
            BY <1>len, <2>3
        <3>2. Awaits(stack[(k - 1) + 1], stack[k - 1])
            BY <1>0, <3>1, Zenon DEF Stack
        <3>3. stack'[k + 1] = stack[(k + 1) - 1] /\ stack'[k] = stack[k - 1]
            BY <1>4, <3>1, Zenon
        <3>. QED
            BY <3>1, <3>2, <3>3, Zenon
    <2>. QED
        BY <1>len, <2>1, <2>2, <2>3
<1>8. /\ op' \in Requests
      /\ stack'[Len(stack')].fn = "post" /\ stack'[Len(stack')].url = UrlOf(op')
    <2>1. op \in Requests /\ stack[Len(stack)].fn = "post" /\ stack[Len(stack)].url = UrlOf(op)
        BY <1>0, Zenon DEF Stack
    <2>2. CASE Len(stack) = 1
        BY <1>1, <1>2, <1>4, <2>1, <2>2
    <2>3. CASE Len(stack) # 1
        <3>1. Len(stack') \in 3..Len(stack') /\ Len(stack') - 1 = Len(stack)
            BY <1>len, <2>3
        <3>2. stack'[Len(stack')] = stack[Len(stack)]
            BY <1>4, <3>1, Zenon
        <3>. QED
            BY <2>1, <3>2, Zenon
    <2>. QED
        BY <2>2, <2>3, Zenon
<1>9. Stack'
    <2>1. ret' # "eof"
        BY <1>3
    <2>. QED
        BY <1>6, <1>7, <1>8, <2>1, Zenon DEF Stack
<1>10. Received'
    BY <1>3 DEF Received
<1>. QED
    BY <1>3, <1>4, <1>9, <1>10, Zenon

\* The running activation goes on to poll.
LEMMA PollKeeps ==
    ASSUME IInv, stack # <<>>, stack' = <<At(Top, "poll")>> \o Tail(stack), op' = op, ret' = "none",
           Top.fn = "post", Top.url = "query"
    PROVE  stack' \in Seq(Frames) /\ Stack' /\ Received'
<1>. DEFINE f == At(Top, "poll")
<1>0. stack \in Seq(Frames) /\ Stack
    BY Zenon DEF IInv, Types
<1>1. Len(stack) \in Nat \ {0} /\ Top = stack[1] /\ Top \in Frames /\ 1 \in 1..Len(stack)
    BY <1>0, StackTop
<1>2. f \in Frames /\ f.fn = Top.fn /\ f.url = Top.url /\ f.header = Top.header /\ f.pc = "poll"
    <2>1. "poll" \in Pcs
        BY DEF Pcs
    <2>. QED
        BY <1>1, <2>1, AtFields, Zenon
<1>. HIDE DEF f
<1>3. /\ stack' \in Seq(Frames) /\ Len(stack') = Len(stack)
      /\ stack'[1] = f /\ \A k \in 2..Len(stack') : stack'[k] = stack[k]
    <2>1. stack' = <<f>> \o Tail(stack)
        BY Zenon DEF f
    <2>. QED
        BY <1>0, <1>2, <2>1, Moved, Zenon
<1>4. Sound(f)
    <2>1. Sound(Top)
        BY <1>0, <1>1, Zenon DEF Stack
    <2>. QED
        BY <1>2, <2>1 DEF Sound
<1>5. \A k \in 1..Len(stack') :
        /\ Sound(stack'[k]) /\ stack'[k].fn = stack[k].fn /\ stack'[k].url = stack[k].url
        /\ stack'[k].header = stack[k].header
    <2>. TAKE k \in 1..Len(stack')
    <2>1. CASE k = 1
        BY <1>1, <1>2, <1>3, <1>4, <2>1, Zenon
    <2>2. CASE k \in 2..Len(stack')
        BY <1>0, <1>3, <2>2, Zenon DEF Stack
    <2>. QED
        BY <1>1, <1>3, <2>1, <2>2
<1>6. \A k \in 1..(Len(stack') - 1) : Awaits(stack'[k + 1], stack'[k])
    <2>. TAKE k \in 1..(Len(stack') - 1)
    <2>1. k + 1 \in 2..Len(stack') /\ k \in 1..Len(stack') /\ k \in 1..(Len(stack) - 1)
        BY <1>1, <1>3
    <2>2. Awaits(stack[k + 1], stack[k]) /\ stack'[k + 1] = stack[k + 1]
        BY <1>0, <1>3, <2>1, Zenon DEF Stack
    <2>. QED
        BY <1>5, <2>1, <2>2, Zenon DEF Awaits
<1>7. Len(stack') \in 1..Len(stack')
    BY <1>1, <1>3
<1>8. Stack'
    <2>1. ret' # "eof"
        OBVIOUS
    <2>. QED
        BY <1>0, <1>3, <1>5, <1>6, <1>7, <2>1, Zenon DEF Stack
<1>9. Received'
    BY DEF Received
<1>. QED
    BY <1>3, <1>8, <1>9, Zenon

\* The running activation returns r.
LEMMA ReturnKeeps ==
    ASSUME IInv, stack # <<>>, NEW r \in {"ok", "fail"}, Return(r), op' = op,
           r = "ok" => Top.fn = "renew" \/ Answered(json', Top.fn, Top.url)
    PROVE  stack' \in Seq(Frames) /\ ret' = r /\ Stack' /\ Received'
<1>0. stack \in Seq(Frames) /\ Stack
    BY Zenon DEF IInv, Types
<1>1. Len(stack) \in Nat \ {0} /\ Top = stack[1] /\ Top \in Frames
    BY <1>0, StackTop, Zenon
<1>2. stack' = Tail(stack) /\ ret' = r /\ r # "eof"
    BY DEF Return
<1>3. /\ stack' \in Seq(Frames) /\ Len(stack') = Len(stack) - 1
      /\ \A k \in 1..Len(stack') : stack'[k] = stack[k + 1]
      /\ stack' = <<>> <=> Len(stack) = 1
      /\ stack' # <<>> => Top' = stack[2]
    BY <1>0, <1>2, Popped, Zenon
<1>4. \A k \in 1..Len(stack') : k + 1 \in 1..Len(stack)
    BY <1>1, <1>3
<1>5. \A k \in 1..Len(stack') : Sound(stack'[k])
    BY <1>0, <1>3, <1>4, Zenon DEF Stack
<1>6. \A k \in 1..(Len(stack') - 1) : Awaits(stack'[k + 1], stack'[k])
    <2>. TAKE k \in 1..(Len(stack') - 1)
    <2>1. k \in 1..Len(stack') /\ k + 1 \in 1..Len(stack') /\ k + 1 \in 1..(Len(stack) - 1)
        BY <1>1, <1>3
    <2>2. stack'[k + 1] = stack[(k + 1) + 1] /\ stack'[k] = stack[k + 1]
        BY <1>3, <2>1, Zenon
    <2>3. Awaits(stack[(k + 1) + 1], stack[k + 1])
        BY <1>0, <2>1, Zenon DEF Stack
    <2>. QED
        BY <2>2, <2>3, Zenon
<1>7. stack' # <<>> => stack'[Len(stack')] = stack[Len(stack)]
    <2>. SUFFICES ASSUME stack' # <<>> PROVE stack'[Len(stack')] = stack[Len(stack)]
        OBVIOUS
    <2>1. Len(stack') \in 1..Len(stack') /\ Len(stack') + 1 = Len(stack)
        BY <1>1, <1>3
    <2>. QED
        BY <1>3, <2>1, Zenon
<1>8. Stack'
    BY <1>0, <1>2, <1>5, <1>6, <1>7, Zenon DEF Stack
<1>9. ASSUME r = "ok", stack' # <<>> PROVE Delivered(json', Top')
    <2>1. 1 \in 1..(Len(stack) - 1) /\ 2 \in 1..Len(stack) /\ 1 + 1 = 2
        BY <1>1, <1>3, <1>9
    <2>2. Awaits(stack[2], Top) /\ Sound(stack[2]) /\ Top' = stack[2]
        BY <1>0, <1>1, <1>3, <1>9, <2>1 DEF Stack
    <2>3. CASE Top.fn = "renew"
        <3>1. stack[2].pc \notin {"repeated", "polled", "posted"}
            BY <2>2, <2>3 DEF Awaits, Sound
        <3>. QED
            BY <2>2, <3>1 DEF Delivered
    <2>4. CASE Answered(json', Top.fn, Top.url)
        BY <2>2, <2>4 DEF Awaits, Delivered, Answered
    <2>. QED
        BY <1>9, <2>3, <2>4, Zenon
<1>10. ASSUME r = "ok", stack' = <<>> PROVE Answered(json', "post", UrlOf(op'))
    BY <1>0, <1>1, <1>3, <1>10, Zenon DEF Stack
<1>11. Received'
    BY <1>2, <1>9, <1>10, Zenon DEF Received
<1>. QED
    BY <1>2, <1>3, <1>8, <1>11, Zenon

(***************************************************************************)
(* Every step keeps the invariant                                          *)
(***************************************************************************)
Values == token \in Nat /\ master_token \in Nat /\ issued \in Nat /\ json.pair \in Nat

Goal ==
    stack' \in Seq(Frames) /\ ret' \in {"none", "ok", "fail", "eof"} /\ Stack' /\ Received'

LEMMA ReturnGoal ==
    ASSUME IInv, stack # <<>>, NEW r \in {"ok", "fail"}, Return(r), op' = op,
           r = "ok" => Top.fn = "renew" \/ Answered(json', Top.fn, Top.url)
    PROVE  Goal
<1>1. stack' \in Seq(Frames) /\ ret' = r /\ Stack' /\ Received'
    BY ReturnKeeps, Zenon
<1>. QED
    BY <1>1 DEF Goal

LEMMA CallGoal ==
    ASSUME IInv, stack # <<>>, NEW pc \in Pcs, NEW g \in Frames, CallFrom(pc, g), op' = op,
           Sound(g), Sound(At(Top, pc)), Awaits(At(Top, pc), g)
    PROVE  Goal
<1>1. stack' \in Seq(Frames) /\ ret' = "none" /\ Stack' /\ Received'
    BY CallKeeps, Zenon
<1>. QED
    BY <1>1 DEF Goal

LEMMA PollGoal ==
    ASSUME IInv, stack # <<>>, stack' = <<At(Top, "poll")>> \o Tail(stack), op' = op, ret' = "none",
           Top.fn = "post", Top.url = "query"
    PROVE  Goal
<1>1. stack' \in Seq(Frames) /\ Stack' /\ Received'
    BY PollKeeps, Zenon
<1>. QED
    BY <1>1 DEF Goal

\* What is known of the running activation
LEMMA TopKnown ==
    ASSUME IInv, stack # <<>>
    PROVE  /\ Top \in Frames /\ Sound(Top) /\ ret # "eof" /\ token \in Nat /\ master_token \in Nat
           /\ ret = "ok" => Delivered(json, Top)
           /\ (ret = "ok" /\ Top.pc = "renewed") => Top.header.pair < token
           /\ \A pc \in Pcs : /\ At(Top, pc).pc = pc /\ At(Top, pc).fn = Top.fn
                              /\ At(Top, pc).url = Top.url /\ At(Top, pc).header = Top.header
<1>1. stack \in Seq(Frames) /\ Stack /\ Received /\ Tokens
    BY Zenon DEF IInv, Types
<1>2. Len(stack) \in Nat \ {0} /\ Top = stack[1] /\ Top \in Frames
    BY <1>1, StackTop, Zenon
<1>3. 1 \in 1..Len(stack)
    BY <1>2
<1>4. Sound(Top) /\ ret # "eof"
    BY <1>1, <1>2, <1>3, Zenon DEF Stack
<1>5. token \in Nat /\ master_token \in Nat
    BY Zenon DEF IInv, Types
<1>. QED
    BY <1>1, <1>2, <1>4, <1>5, AtFields, Zenon DEF Received, Tokens

LEMMA PerformStep ==
    ASSUME IInv, Perform PROVE Goal
<1>1. stack # <<>> /\ ret = "none" /\ Top.fn \in {"post", "get"} /\ op' = op
    BY Zenon DEF Perform, Running, client
<1>2. PICK k \in Kinds(Top) :
        /\ Answers(Top, k)
        /\ CASE k = "badcode" -> Return("fail")
             [] k = "expired" -> CallFrom("renewed", Frame("renew", "none", MasterToken, "start"))
             [] InProgress(k) /\ Top.fn = "post" ->
                   stack' = <<[Top EXCEPT !.pc = "poll"]>> \o Tail(stack) /\ ret' = ret
             [] OTHER -> Return("ok")
    BY Zenon DEF Perform
<1>3. /\ Top \in Frames /\ Sound(Top) /\ master_token \in Nat
      /\ \A pc \in Pcs : /\ At(Top, pc).pc = pc /\ At(Top, pc).fn = Top.fn
                         /\ At(Top, pc).url = Top.url /\ At(Top, pc).header = Top.header
    BY <1>1, TopKnown, Zenon
<1>4. /\ k # "none" /\ (k = "expired" => Top.url \notin {"login", "renew"})
      /\ InProgress(k) => Top.url \notin {"login", "renew", "delete"}
    BY <1>2 DEF Kinds, InProgress
<1>5. json'.kind = k /\ json'.url = Top.url
    BY <1>2 DEF Answers
<1>6. CASE k = "badcode"
    <2>1. Return("fail")
        BY <1>2, <1>6 DEF Return, InProgress
    <2>. QED
        BY <1>1, <2>1, ReturnGoal
<1>7. CASE k = "expired"
    <2>1. CallFrom("renewed", Frame("renew", "none", MasterToken, "start"))
        BY <1>2, <1>7, SMTT(30) DEF CallFrom, InProgress
    <2>. DEFINE g == Frame("renew", "none", MasterToken, "start")
                f == At(Top, "renewed")
    <2>2. "renewed" \in Pcs
        BY DEF Pcs
    <2>3. g \in Frames /\ g.fn = "renew" /\ g.url = "none" /\ g.pc = "start"
        BY <1>3 DEF Frame, Frames, MasterToken
    <2>4. f.pc = "renewed" /\ f.fn = Top.fn /\ f.url = Top.url /\ f.header = Top.header
        BY <1>3, <2>2, Zenon
    <2>. HIDE DEF g, f
    <2>5. Sound(g) /\ Sound(f) /\ Awaits(f, g)
        BY <1>1, <1>3, <1>4, <1>7, <2>3, <2>4 DEF Sound, Awaits
    <2>. QED
        BY <1>1, <2>1, <2>2, <2>3, <2>5, CallGoal, Zenon DEF g, f
<1>8. CASE InProgress(k) /\ Top.fn = "post"
    <2>1. k \notin {"badcode", "expired"}
        BY <1>8 DEF InProgress
    <2>2. stack' = <<[Top EXCEPT !.pc = "poll"]>> \o Tail(stack) /\ ret' = ret
        BY <1>2, <1>8, <2>1
    <2>3. Top.url = "query"
        BY <1>3, <1>4, <1>8 DEF Sound
    <2>. QED
        BY <1>1, <1>8, <2>2, <2>3, PollGoal, Zenon DEF At
<1>9. CASE k \notin {"badcode", "expired"} /\ ~(InProgress(k) /\ Top.fn = "post")
    <2>1. Return("ok")
        BY <1>2, <1>9 DEF Return
    <2>2. Answered(json', Top.fn, Top.url)
        BY <1>4, <1>5, <1>9, Zenon DEF Answered
    <2>. QED
        BY <1>1, <2>1, <2>2, ReturnGoal
<1>. QED
    BY <1>6, <1>7, <1>8, <1>9, Zenon

LEMMA RequestStep ==
    ASSUME IInv, PerformFails \/ Renewed \/ Repeated \/ Poll \/ Polled PROVE Goal
<1>1. stack # <<>> /\ Top.fn \in {"post", "get"} /\ op' = op
    BY DEF PerformFails, Renewed, Repeated, Poll, Polled, Running, Resumed, client
<1>2. /\ Top \in Frames /\ Sound(Top) /\ ret # "eof" /\ token \in Nat
      /\ ret = "ok" => Delivered(json, Top)
      /\ (ret = "ok" /\ Top.pc = "renewed") => Top.header.pair < token
      /\ \A pc \in Pcs : /\ At(Top, pc).pc = pc /\ At(Top, pc).fn = Top.fn
                         /\ At(Top, pc).url = Top.url /\ At(Top, pc).header = Top.header
    BY <1>1, TopKnown, Zenon
<1>3. ret \in {"none", "ok", "fail", "eof"}
    BY Zenon DEF IInv, Types
<1>4. CASE PerformFails
    <2>1. Return("fail")
        BY <1>4, Zenon DEF PerformFails
    <2>. QED
        BY <1>1, <2>1, ReturnGoal
<1>5. CASE Renewed
    <2>1. ret # "none" /\ Top.pc = "renewed"
        BY <1>5, Zenon DEF Renewed, Resumed
    <2>2. CASE ret = "ok"
        <3>. DEFINE g == Frame(Top.fn, Top.url, SessionToken, "perform")
                    f == At(Top, "repeated")
        <3>1. CallFrom("repeated", g) /\ "repeated" \in Pcs
            BY <1>5, <2>2 DEF Renewed, Pcs
        <3>2. /\ g \in Frames /\ g.fn = Top.fn /\ g.url = Top.url /\ g.pc = "perform"
              /\ g.header.kind = "session" /\ g.header.pair = token
            BY <1>2 DEF Frame, Frames, SessionToken
        <3>3. f.pc = "repeated" /\ f.fn = Top.fn /\ f.url = Top.url /\ f.header = Top.header
            BY <1>2, <3>1, Zenon
        <3>. HIDE DEF g, f
        <3>4. token > Top.header.pair
            BY <1>2, <2>1, <2>2 DEF Frames
        <3>5. Sound(g) /\ Sound(f) /\ Awaits(f, g)
            BY <1>1, <1>2, <2>1, <3>2, <3>3, <3>4 DEF Sound, Awaits
        <3>. QED
            BY <1>1, <3>1, <3>2, <3>5, CallGoal, Zenon DEF f
    <2>3. CASE ret # "ok"
        <3>1. Return("fail")
            BY <1>5, <2>3, Zenon DEF Renewed
        <3>. QED
            BY <1>1, <3>1, ReturnGoal
    <2>. QED
        BY <2>2, <2>3, Zenon
<1>6. CASE Repeated
    <2>1. ret # "none" /\ Top.pc = "repeated" /\ Return(ret) /\ json' = json
        BY <1>6, Zenon DEF Repeated, Resumed, answers
    <2>2. ret \in {"ok", "fail"}
        BY <1>2, <1>3, <2>1
    <2>3. ret = "ok" => Answered(json', Top.fn, Top.url)
        BY <1>2, <2>1, Zenon DEF Delivered
    <2>. QED
        BY <1>1, <2>1, <2>2, <2>3, ReturnGoal, Zenon
<1>7. CASE Poll
    <2>1. Top.fn = "post" /\ Top.pc = "poll"
        BY <1>7 DEF Poll, Running
    <2>2. CASE json.kind = "lost"
        <3>1. Return("fail")
            BY <1>7, <2>2, Zenon DEF Poll
        <3>. QED
            BY <1>1, <3>1, ReturnGoal
    <2>3. CASE json.kind # "lost"
        <3>. DEFINE g == Frame("get", "result", Top.header, "perform")
                    f == At(Top, "polled")
        <3>1. CallFrom("polled", g) /\ "polled" \in Pcs
            BY <1>7, <2>3 DEF Poll, Pcs
        <3>2. /\ g \in Frames /\ g.fn = "get" /\ g.url = "result" /\ g.pc = "perform"
              /\ g.header = Top.header
            BY <1>2 DEF Frame, Frames
        <3>3. f.pc = "polled" /\ f.fn = Top.fn /\ f.url = Top.url /\ f.header = Top.header
            BY <1>2, <3>1, Zenon
        <3>. HIDE DEF g, f
        <3>4. Sound(g) /\ Sound(f) /\ Awaits(f, g)
            BY <1>1, <1>2, <2>1, <3>2, <3>3 DEF Sound, Awaits
        <3>. QED
            BY <1>1, <3>1, <3>2, <3>4, CallGoal, Zenon DEF f
    <2>. QED
        BY <2>2, <2>3, Zenon
<1>8. CASE Polled
    <2>1. ret # "none" /\ Top.fn = "post" /\ Top.pc = "polled" /\ json' = json
        BY <1>8 DEF Polled, Resumed, answers
    <2>2. Top.url = "query"
        BY <1>2, <2>1 DEF Sound
    <2>3. CASE ret = "ok" /\ InProgress(json.kind)
        BY <1>1, <1>8, <2>1, <2>2, <2>3, PollGoal, Zenon DEF Polled, At
    <2>4. CASE ~(ret = "ok" /\ InProgress(json.kind))
        <3>1. Return(ret)
            BY <1>8, <2>4, Zenon DEF Polled
        <3>2. ret \in {"ok", "fail"}
            BY <1>2, <1>3, <2>1
        <3>3. ret = "ok" => Answered(json, "get", "result")
            BY <1>2, <2>1, Zenon DEF Delivered
        <3>4. ret = "ok" => Answered(json', Top.fn, Top.url)
            BY <2>1, <2>2, <2>4, <3>3 DEF Answered
        <3>. QED
            BY <1>1, <3>1, <3>2, <3>4, ReturnGoal, Zenon
    <2>. QED
        BY <2>3, <2>4, Zenon
<1>. QED
    BY <1>4, <1>5, <1>6, <1>7, <1>8, Zenon

LEMMA RenewStep ==
    ASSUME IInv, RenewSession \/ RenewReturns PROVE Goal
<1>1. stack # <<>> /\ Top.fn = "renew" /\ op' = op
    BY DEF RenewSession, RenewReturns, Running, Resumed, client
<1>2. /\ Top \in Frames /\ Sound(Top) /\ ret # "eof" /\ master_token \in Nat
      /\ \A pc \in Pcs : /\ At(Top, pc).pc = pc /\ At(Top, pc).fn = Top.fn
                         /\ At(Top, pc).url = Top.url /\ At(Top, pc).header = Top.header
    BY <1>1, TopKnown, Zenon
<1>3. CASE RenewSession
    <2>1. CASE "directURL" \in attributes \/ master_token = 0
        <3>1. Return("fail")
            BY <1>3, <2>1, Zenon DEF RenewSession
        <3>. QED
            BY <1>1, <3>1, ReturnGoal
    <2>2. CASE ~("directURL" \in attributes \/ master_token = 0)
        <3>. DEFINE g == Frame("post", "renew", MasterToken, "perform")
                    f == At(Top, "posted")
        <3>1. CallFrom("posted", g)
            BY <1>3, <2>2, Zenon DEF RenewSession
        <3>2. "posted" \in Pcs
            BY DEF Pcs
        <3>3. /\ g \in Frames /\ g.fn = "post" /\ g.url = "renew" /\ g.pc = "perform"
              /\ g.header.kind = "master"
            BY <1>2 DEF Frame, Frames, MasterToken
        <3>4. f.pc = "posted" /\ f.fn = Top.fn /\ f.url = Top.url /\ f.header = Top.header
            BY <1>2, <3>2, Zenon
        <3>. HIDE DEF g, f
        <3>5. Sound(g) /\ Sound(f) /\ Awaits(f, g)
            BY <1>1, <1>2, <3>3, <3>4 DEF Sound, Awaits
        <3>. QED
            BY <1>1, <3>1, <3>2, <3>3, <3>5, CallGoal, Zenon DEF f
    <2>. QED
        BY <2>1, <2>2, Zenon
<1>4. CASE RenewReturns
    <2>1. CASE ret = "ok" /\ json.kind = "pair"
        <3>1. Return("ok")
            BY <1>4, <2>1, Zenon DEF RenewReturns
        <3>. QED
            BY <1>1, <3>1, ReturnGoal
    <2>2. CASE ~(ret = "ok" /\ json.kind = "pair")
        <3>1. Return("fail")
            BY <1>4, <2>2, Zenon DEF RenewReturns
        <3>. QED
            BY <1>1, <3>1, ReturnGoal
    <2>. QED
        BY <2>1, <2>2, Zenon
<1>. QED
    BY <1>3, <1>4, Zenon

\* A call that makes no request, or the end of one whose request has returned
LEMMA IdleGoal ==
    ASSUME IInv, op = "idle" \/ stack = <<>>, stack' = stack, op' \in {"idle", "closed"},
           ret' \in {"none", "ok", "fail", "eof"}
    PROVE  Goal
<1>1. stack = <<>>
    BY DEF IInv, Stack, Requests
<1>2. stack' \in Seq(Frames) /\ stack' = <<>> /\ Len(stack') = 0
    BY <1>1
<1>3. op' \notin Requests
    BY DEF Requests
<1>4. Stack'
    <2>1. 1..Len(stack') = {} /\ 1..(Len(stack') - 1) = {}
        BY <1>2
    <2>. QED
        BY <1>2, <2>1 DEF Stack
<1>. QED
    BY <1>2, <1>3, <1>4, Zenon DEF Goal, Received

\* A call that makes a request
LEMMA StartGoal ==
    ASSUME IInv, NEW name \in Requests, Request(name, UrlOf(name)) PROVE Goal
<1>. DEFINE f == Frame("post", UrlOf(name), RequestHeader, "perform")
<1>1. stack' = <<f>> /\ ret' = "none" /\ op' = name
    BY Zenon DEF Request
<1>2. UrlOf(name) \in {"login", "delete", "query"}
    BY DEF UrlOf
<1>3. RequestHeader \in [kind : {"session", "direct", "none"}, pair : Nat]
    BY DEF RequestHeader, SessionToken, IInv, Types
<1>4. /\ f \in Frames /\ f.fn = "post" /\ f.url = UrlOf(name) /\ f.pc = "perform"
      /\ f.header.kind \in {"session", "direct", "none"}
    BY <1>2, <1>3 DEF Frame, Frames
<1>. HIDE DEF f
<1>5. Sound(f)
    BY <1>2, <1>4 DEF Sound
<1>6. stack' \in Seq(Frames) /\ Len(stack') = 1 /\ stack'[1] = f
    BY <1>1, <1>4
<1>7. Stack'
    <2>1. 1..Len(stack') = {1} /\ 1..(Len(stack') - 1) = {}
        BY <1>6
    <2>2. ret' # "eof"
        BY <1>1
    <2>3. (\A k \in 1..Len(stack') : Sound(stack'[k])) /\ stack'[Len(stack')] = f
        BY <1>5, <1>6, <2>1
    <2>. QED
        BY <1>1, <1>4, <2>1, <2>2, <2>3, Zenon DEF Stack
<1>8. Received'
    BY <1>1 DEF Received
<1>. QED
    BY <1>1, <1>6, <1>7, <1>8 DEF Goal

\* Steps of the service, and stuttering ones
LEMMA SameGoal ==
    ASSUME IInv, UNCHANGED <<op, stack, ret, json>> PROVE Goal
BY Zenon DEF IInv, Types, Goal, Stack, Received, Top

LEMMA EndStep ==
    ASSUME IInv, ConnectReturns \/ TermReturns PROVE Goal
<1>1. CASE ConnectReturns
    <2>1. stack = <<>> /\ stack' = stack /\ op' = "idle"
        BY <1>1, Zenon DEF ConnectReturns
    <2>2. ret' \in {"none", "ok", "fail", "eof"}
        BY <1>1 DEF ConnectReturns
    <2>. QED
        BY <2>1, <2>2, IdleGoal, Zenon
<1>2. CASE TermReturns
    <2>1. stack = <<>> /\ stack' = stack /\ op' = "closed" /\ ret' = ret
        BY <1>2, Zenon DEF TermReturns
    <2>2. ret \in {"none", "ok", "fail", "eof"}
        BY Zenon DEF IInv, Types
    <2>. QED
        BY <2>1, <2>2, IdleGoal, Zenon
<1>. QED
    BY <1>1, <1>2, Zenon

LEMMA StepGoal ==
    ASSUME IInv, Step PROVE Goal
<1>1. CASE Retry
    BY <1>1, SameGoal, Zenon DEF Retry, client, answers
<1>. QED
    BY <1>1, PerformStep, RequestStep, RenewStep, EndStep, Zenon DEF Step

LEMMA ConnectionCall ==
    ASSUME IInv, (\E A \in Settings : SetAttributes(A)) \/ Connect \/ Term PROVE Goal
<1>0. op = "idle" /\ ret \in {"none", "ok", "fail", "eof"}
    BY Zenon DEF SetAttributes, Connect, Term, IInv, Types
<1>1. CASE (\E A \in Settings : SetAttributes(A)) \/ ConnectNoRequest
    <2>1. stack' = stack /\ op' = op /\ ret' \in {"none", "ok", "fail", "eof"}
        BY <1>1 DEF SetAttributes, ConnectNoRequest
    <2>. QED
        BY <1>0, <2>1, IdleGoal, Zenon
<1>2. CASE Request("connect", "login")
    <2>1. "connect" \in Requests /\ UrlOf("connect") = "login"
        BY DEF Requests, UrlOf
    <2>. QED
        BY <1>2, <2>1, StartGoal, Zenon
<1>3. CASE Request("term", "delete")
    <2>1. "term" \in Requests /\ UrlOf("term") = "delete"
        BY DEF Requests, UrlOf
    <2>. QED
        BY <1>3, <2>1, StartGoal, Zenon
<1>4. CASE op' = "closed" /\ UNCHANGED <<stack, ret>>
    BY <1>0, <1>4, IdleGoal, Zenon
<1>. QED
    BY <1>1, <1>2, <1>3, <1>4, Zenon DEF Connect, Term

LEMMA StatementCall ==
    ASSUME IInv, PrepareNull \/ (\E kind \in {"none", "select", "dml", "put"} : Prepare(kind))
                 \/ Execute \/ Fetch \/ AffectedRows
    PROVE  Goal
<1>0. op = "idle"
    BY Zenon DEF PrepareNull, Prepare, Execute, Fetch, AffectedRows
<1>1. ASSUME NEW kind, Prepare(kind) PROVE Goal
    <2>1. stack' = stack /\ op' = op /\ ret' = "ok"
        BY <1>1, Zenon DEF Prepare, client
    <2>. QED
        BY <1>0, <2>1, IdleGoal
<1>2. CASE Execute
    <2>1. CASE "directURL" \notin attributes /\ (token = 0 \/ master_token = 0)
        <3>1. stack' = stack /\ op' = op /\ ret' = "fail"
            BY <1>2, <2>1, Zenon DEF Execute
        <3>. QED
            BY <1>0, <3>1, IdleGoal
    <2>2. CASE ~("directURL" \notin attributes /\ (token = 0 \/ master_token = 0))
        <3>1. Request("execute", "query")
            BY <1>2, <2>2, Zenon DEF Execute
        <3>2. "execute" \in Requests /\ UrlOf("execute") = "query"
            BY DEF Requests, UrlOf
        <3>. QED
            BY <3>1, <3>2, StartGoal, Zenon
    <2>. QED
        BY <2>1, <2>2, Zenon
<1>3. CASE Fetch
    <2>1. stack' = stack /\ op' = op
        BY <1>3, Zenon DEF Fetch, client
    <2>2. ret' \in {"ok", "eof", "fail"}
        BY <1>3, Zenon DEF Fetch, FetchRow, FetchChunk, FetchEof, FetchFails, TakeRow
    <2>. QED
        BY <1>0, <2>1, <2>2, IdleGoal
<1>4. CASE AffectedRows
    <2>1. stack' = stack /\ op' = op /\ ret' = IF error' THEN "fail" ELSE "ok"
        BY <1>4, Zenon DEF AffectedRows, client
    <2>2. ret' \in {"none", "ok", "fail", "eof"}
        BY <2>1
    <2>. QED
        BY <1>0, <2>1, <2>2, IdleGoal, Zenon
<1>5. CASE PrepareNull
    <2>1. stack' = stack /\ op' = op /\ ret' = "fail"
        BY <1>5, Zenon DEF PrepareNull, client
    <2>. QED
        BY <1>0, <2>1, IdleGoal
<1>. QED
    BY <1>1, <1>2, <1>3, <1>4, <1>5, Zenon

LEMMA ExecuteEnd ==
    ASSUME IInv, ExecuteFails \/ ExecutePutGet \/ (\E r \in Results : ExecuteQuery(r)) PROVE Goal
<1>1. stack = <<>> /\ stack' = stack /\ op' = "idle"
    BY Zenon DEF ExecuteFails, ExecutePutGet, ExecuteQuery, ExecuteEnds
<1>2. ret' = "ok" \/ ret' = "fail"
    BY Zenon DEF ExecuteFails, ExecutePutGet, ExecuteQuery, ExecuteEnds
<1>. QED
    BY <1>1, <1>2, IdleGoal

LEMMA NextGoal ==
    ASSUME IInv, [Next]_vars PROVE Goal
<1>1. CASE Expire \/ UNCHANGED vars
    BY <1>1, SameGoal, Zenon DEF Expire, client, answers, vars, svars
<1>2. CASE Call
    BY <1>2, ConnectionCall, StatementCall, Zenon DEF Call
<1>3. CASE Work
    BY <1>3, StepGoal, ExecuteEnd, Zenon DEF Work
<1>. QED
    BY <1>1, <1>2, <1>3, Zenon DEF Next

LEMMA ValuesStep ==
    ASSUME IInv, [Next]_vars PROVE Values'
<1>0. Values
    BY Zenon DEF IInv, Types, Values
<1>1. CASE UNCHANGED <<token, master_token, issued, json>>
    BY <1>0, <1>1, Zenon DEF Values
<1>2. ASSUME NEW name, NEW url, Request(name, url), UNCHANGED <<token, master_token>> PROVE Values'
    BY <1>0, <1>2 DEF Values, Request, NoAnswer
<1>3. CASE Expire \/ UNCHANGED vars
    BY <1>1, <1>3, Zenon DEF Expire, client, answers, vars, svars
<1>4. CASE Call
    <2>1. CASE (\E A \in Settings : SetAttributes(A)) \/ Connect
        BY <1>1, <1>2, <2>1, Zenon DEF SetAttributes, Connect, ConnectNoRequest, service
    <2>2. CASE Term
        <3>1. CASE token # 0 /\ master_token # 0
            BY <1>2, <2>2, <3>1, Zenon DEF Term
        <3>2. CASE ~(token # 0 /\ master_token # 0)
            BY <1>0, <2>2, <3>2 DEF Term, Values, answers, service
        <3>. QED
            BY <3>1, <3>2, Zenon
    <2>3. CASE Execute
        BY <1>1, <1>2, <2>3, Zenon DEF Execute, service
    <2>4. CASE \/ PrepareNull \/ (\E kind \in {"none", "select", "dml", "put"} : Prepare(kind))
               \/ Fetch \/ AffectedRows
        BY <1>1, <2>4, Zenon DEF PrepareNull, Prepare, Fetch, AffectedRows, client, service
    <2>. QED
        BY <1>4, <2>1, <2>2, <2>3, <2>4, Zenon DEF Call
<1>5. CASE Work
    <2>1. CASE Perform
        <3>1. PICK k \in Kinds(Top) : Answers(Top, k)
            BY <2>1, Zenon DEF Perform
        <3>2. issued' \in Nat /\ json'.pair \in Nat
            BY <1>0, <3>1 DEF Values, Answers
        <3>. QED
            BY <1>0, <2>1, <3>2, Zenon DEF Perform, client, Values
    <2>2. CASE RenewReturns \/ ConnectReturns
        <3>1. UNCHANGED <<issued, json>> /\ (SetTokens \/ UNCHANGED <<token, master_token>>)
            BY <2>2, Zenon DEF RenewReturns, ConnectReturns, service
        <3>. QED
            BY <1>0, <3>1 DEF Values, SetTokens
    <2>3. CASE TermReturns
        BY <1>0, <2>3 DEF TermReturns, Values, answers, service
    <2>4. CASE Retry \/ PerformFails \/ Renewed \/ Repeated \/ Poll \/ Polled \/ RenewSession
        BY <1>1, <2>4, Zenon
        DEF Retry, PerformFails, Renewed, Repeated, Poll, Polled, RenewSession, client, answers, service
    <2>5. CASE ExecuteFails \/ ExecutePutGet \/ (\E r \in Results : ExecuteQuery(r))
        BY <1>1, <2>5, Zenon DEF ExecuteFails, ExecutePutGet, ExecuteQuery, answers, service
    <2>. QED
        BY <1>5, <2>1, <2>2, <2>3, <2>4, <2>5, Zenon DEF Work, Step
<1>. QED
    BY <1>3, <1>4, <1>5, Zenon DEF Next

(***************************************************************************)
(* Tokens move forward                                                     *)
(***************************************************************************)
LEMMA PushBound ==
    ASSUME IInv, stack # <<>>, NEW pc \in Pcs, NEW g \in Frames, CallFrom(pc, g),
           g.header.pair <= token, token' = token
    PROVE  Bounded'
<1>. DEFINE f == At(Top, pc)
<1>0. stack \in Seq(Frames) /\ Bounded
    BY Zenon DEF IInv, Types, Tokens
<1>1. Len(stack) \in Nat \ {0} /\ Top = stack[1] /\ Top \in Frames
    BY <1>0, StackTop, Zenon
<1>2. f \in Frames /\ f.header = Top.header
    BY <1>1, AtFields, Zenon
<1>3. stack' = <<g, f>> \o Tail(stack)
    BY Zenon DEF CallFrom, At
<1>. HIDE DEF f
<1>4. /\ Len(stack') = Len(stack) + 1
      /\ stack'[1] = g /\ stack'[2] = f /\ \A k \in 3..Len(stack') : stack'[k] = stack[k - 1]
    BY <1>0, <1>2, <1>3, Pushed, Zenon
<1>5. 1 \in 1..Len(stack) /\ \A k \in 3..Len(stack') : k - 1 \in 1..Len(stack)
    BY <1>1, <1>4
<1>6. \A k \in 1..Len(stack') : k = 1 \/ k = 2 \/ k \in 3..Len(stack')
    BY <1>1, <1>4
<1>. QED
    BY <1>0, <1>1, <1>2, <1>4, <1>5, <1>6, Zenon DEF Bounded

LEMMA MoveBound ==
    ASSUME IInv, stack # <<>>, stack' = <<At(Top, "poll")>> \o Tail(stack), token' = token
    PROVE  Bounded'
<1>. DEFINE f == At(Top, "poll")
<1>0. stack \in Seq(Frames) /\ Bounded
    BY Zenon DEF IInv, Types, Tokens
<1>1. Len(stack) \in Nat \ {0} /\ Top = stack[1] /\ Top \in Frames /\ "poll" \in Pcs
    BY <1>0, StackTop DEF Pcs
<1>2. f \in Frames /\ f.header = Top.header
    BY <1>1, AtFields, Zenon
<1>. HIDE DEF f
<1>3. Len(stack') = Len(stack) /\ stack'[1] = f /\ \A k \in 2..Len(stack') : stack'[k] = stack[k]
    <2>1. stack' = <<f>> \o Tail(stack)
        BY Zenon DEF f
    <2>. QED
        BY <1>0, <1>2, <2>1, Moved, Zenon
<1>4. 1 \in 1..Len(stack) /\ \A k \in 1..Len(stack') : k = 1 \/ k \in 2..Len(stack')
    BY <1>1, <1>3
<1>. QED
    BY <1>0, <1>1, <1>2, <1>3, <1>4, Zenon DEF Bounded

LEMMA PopBound ==
    ASSUME IInv, stack # <<>>, stack' = Tail(stack), token' \in Nat, token <= token'
    PROVE  Bounded'
<1>0. stack \in Seq(Frames) /\ Bounded /\ token \in Nat
    BY Zenon DEF IInv, Types, Tokens
<1>1. Len(stack) \in Nat \ {0}
    BY <1>0, StackTop, Zenon
<1>2. Len(stack') = Len(stack) - 1 /\ \A k \in 1..Len(stack') : stack'[k] = stack[k + 1]
    BY <1>0, Popped, Zenon
<1>3. \A k \in 1..Len(stack') : k + 1 \in 1..Len(stack)
    BY <1>1, <1>2
<1>4. \A k \in 1..Len(stack) : stack[k].header.pair \in Nat
    <2>. TAKE k \in 1..Len(stack)
    <2>1. stack[k] \in Frames
        BY <1>0
    <2>. QED
        BY <2>1 DEF Frames
<1>. SUFFICES ASSUME NEW k \in 1..Len(stack') PROVE stack'[k].header.pair <= token'
    BY Zenon DEF Bounded
<1>5. stack[k + 1].header.pair <= token /\ stack[k + 1].header.pair \in Nat /\ stack'[k] = stack[k + 1]
    BY <1>0, <1>2, <1>3, <1>4, Zenon DEF Bounded
<1>. QED
    BY <1>0, <1>5

LEMMA AtLeastTwo ==
    ASSUME NEW n \in Nat \ {0}, n # 1
    PROVE  1 \in 1..(n - 1) /\ 2 \in 1..n /\ 1 + 1 = 2
OBVIOUS

\* The activation below the running one
LEMMA Below ==
    ASSUME IInv, stack # <<>>, stack' = Tail(stack)
    PROVE  /\ stack' = <<>> => Top.fn = "post" /\ Top.url = UrlOf(op)
           /\ stack' # <<>> => /\ Awaits(Top', Top) /\ Sound(Top')
                               /\ Top'.header.pair \in Nat /\ Top'.header.pair <= token
<1>0. stack \in Seq(Frames) /\ Stack /\ Bounded
    BY Zenon DEF IInv, Types, Tokens
<1>1. Len(stack) \in Nat \ {0} /\ Top = stack[1]
    BY <1>0, StackTop, Zenon
<1>2. Len(stack) \in Nat \ {0}
    BY <1>1, Zenon
<1>3. ASSUME stack' = <<>> PROVE Top.fn = "post" /\ Top.url = UrlOf(op)
    <2>1. Len(stack) = 1
        BY <1>0, <1>3, Popped, Zenon
    <2>. QED
        BY <1>0, <1>1, <2>1, Zenon DEF Stack
<1>4. ASSUME stack' # <<>>
      PROVE  /\ Awaits(Top', Top) /\ Sound(Top')
             /\ Top'.header.pair \in Nat /\ Top'.header.pair <= token
    <2>0. Top' = stack[2]
        BY <1>0, <1>4, Popped, Zenon
    <2>a. Len(stack) # 1
        BY <1>0, <1>4, Popped, Zenon
    <2>1. 1 \in 1..(Len(stack) - 1) /\ 2 \in 1..Len(stack) /\ 1 + 1 = 2
        BY <1>2, <2>a, AtLeastTwo, Zenon
    <2>2. stack[2] \in Frames
        BY <1>0, <2>1
    <2>3. stack[2].header.pair \in Nat
        BY <2>2 DEF Frames
    <2>4. Awaits(stack[2], stack[1])
        BY <1>0, <2>1 DEF Stack
    <2>. QED
        BY <1>0, <1>1, <2>0, <2>1, <2>3, <2>4, Zenon DEF Stack, Bounded
<1>. QED
    BY <1>3, <1>4, Zenon

\* A step that neither receives tokens nor sets them
LEMMA CalmTokens ==
    ASSUME IInv, UNCHANGED <<token, master_token, issued>>, json' = json \/ json' = NoAnswer,
           op # "closed", ~Pending, ~Pending', Bounded',
           ret' = "ok" /\ stack' # <<>> => Top'.pc # "renewed"
    PROVE  Tokens'
<1>1. master_token' <= token' /\ token' = issued'
    BY Zenon DEF IInv, Tokens, Latest
<1>2. json'.kind \in {"pair", "half"} => json'.url \in {"login", "renew"}
    <2>1. CASE json' = json
        BY <2>1, Zenon DEF IInv, Tokens
    <2>2. CASE json' = NoAnswer
        BY <2>2 DEF NoAnswer
    <2>. QED
        BY <2>1, <2>2, Zenon
<1>. QED
    BY <1>1, <1>2, Zenon DEF Tokens, Latest

\* No activation runs before and after.
LEMMA IdleTokens ==
    ASSUME IInv, UNCHANGED <<token, master_token, issued, json>>, stack = <<>>, stack' = <<>>,
           op \in {"idle", "execute"}, op' = "idle"
    PROVE  Tokens'
<1>1. ~Pending /\ ~Pending' /\ op # "closed"
    BY DEF Pending
<1>2. Bounded'
    <2>1. 1..Len(stack') = {}
        OBVIOUS
    <2>. QED
        BY <2>1, Zenon DEF Bounded
<1>. QED
    BY <1>1, <1>2, CalmTokens, Zenon

LEMMA StartTokens ==
    ASSUME IInv, NEW name \in Requests, NEW url, op = "idle", Request(name, url),
           UNCHANGED <<token, master_token>>
    PROVE  Tokens'
<1>. DEFINE f == Frame("post", url, RequestHeader, "perform")
<1>1. stack' = <<f>> /\ ret' = "none" /\ json' = NoAnswer /\ issued' = issued
    BY Zenon DEF Request
<1>2. f.header.pair <= token
    <2>1. f.header = RequestHeader
        BY DEF Frame
    <2>2. RequestHeader.pair <= token
        BY DEF RequestHeader, SessionToken, IInv, Types
    <2>. QED
        BY <2>1, <2>2, Zenon
<1>. HIDE DEF f
<1>3. Bounded'
    <2>1. Len(stack') = 1 /\ stack'[1] = f
        BY <1>1
    <2>2. 1..Len(stack') = {1}
        BY <2>1
    <2>. QED
        BY <1>2, <2>1, <2>2 DEF Bounded
<1>4. stack = <<>>
    BY DEF IInv, Stack, Requests
<1>5. ~Pending /\ ~Pending' /\ ret' # "ok" /\ op # "closed"
    BY <1>1, <1>4 DEF Pending
<1>. QED
    BY <1>1, <1>3, <1>5, CalmTokens, Zenon

LEMMA SameTokens ==
    ASSUME IInv, UNCHANGED <<op, stack, ret, json, token, master_token, issued>> PROVE Tokens'
BY Zenon DEF IInv, Tokens, Bounded, Latest, Pending, Top

\* An activation fails.
LEMMA FailTokens ==
    ASSUME IInv, stack # <<>>, ~Pending, Return("fail"),
           UNCHANGED <<op, token, master_token, issued, json>>
    PROVE  Tokens'
<1>1. stack' = Tail(stack) /\ ret' # "ok"
    BY DEF Return
<1>2. op # "closed"
    BY DEF IInv, Stack, Requests
<1>3. Bounded'
    BY <1>1, PopBound DEF IInv, Types
<1>4. ~Pending'
    BY <1>1, Zenon DEF Pending
<1>. QED
    BY <1>1, <1>2, <1>3, <1>4, CalmTokens, Zenon

\* An activation calls another one.
LEMMA PushTokens ==
    ASSUME IInv, stack # <<>>, ~Pending, NEW pc \in Pcs, NEW g \in Frames, CallFrom(pc, g),
           g.header.pair <= token, UNCHANGED <<op, token, master_token, issued, json>>
    PROVE  Tokens'
<1>1. ret' # "ok"
    BY DEF CallFrom
<1>2. op # "closed"
    BY DEF IInv, Stack, Requests
<1>3. Bounded'
    BY PushBound, Zenon
<1>4. ~Pending'
    BY <1>1, Zenon DEF Pending
<1>. QED
    BY <1>1, <1>2, <1>3, <1>4, CalmTokens, Zenon

\* A POST goes on to poll.
LEMMA MoveTokens ==
    ASSUME IInv, stack # <<>>, ~Pending, stack' = <<At(Top, "poll")>> \o Tail(stack), ret' = "none",
           UNCHANGED <<op, token, master_token, issued, json>>
    PROVE  Tokens'
<1>1. ret' # "ok"
    OBVIOUS
<1>2. op # "closed"
    BY DEF IInv, Stack, Requests
<1>3. Bounded'
    BY MoveBound, Zenon
<1>4. ~Pending'
    BY <1>1, Zenon DEF Pending
<1>. QED
    BY <1>1, <1>2, <1>3, <1>4, CalmTokens, Zenon

\* A request returns r, and if it succeeds its answer has no tokens.
LEMMA ReturnTokens ==
    ASSUME IInv, stack # <<>>, NEW r, Return(r), Top.fn # "renew",
           r = "ok" => json.kind \notin {"pair", "half"},
           UNCHANGED <<op, token, master_token, issued, json>>
    PROVE  Tokens'
<1>1. stack' = Tail(stack) /\ ret' = r
    BY DEF Return
<1>2. op # "closed" /\ ~Pending
    BY DEF IInv, Stack, Requests, Pending
<1>3. Bounded'
    BY <1>1, PopBound DEF IInv, Types
<1>4. ~Pending'
    BY <1>1, Zenon DEF Pending
<1>5. stack' # <<>> => Top'.pc # "renewed"
    BY <1>1, Below, Zenon DEF Awaits
<1>. QED
    BY <1>2, <1>3, <1>4, <1>5, CalmTokens, Zenon

LEMMA RequestTokens ==
    ASSUME IInv, PerformFails \/ Renewed \/ Repeated \/ Poll \/ Polled PROVE Tokens'
<1>1. /\ stack # <<>> /\ Top.fn # "renew" /\ UNCHANGED <<op, token, master_token, issued, json>>
    BY DEF PerformFails, Renewed, Repeated, Poll, Polled, Running, Resumed, client, answers, service
<1>2. /\ Top \in Frames /\ Sound(Top) /\ token \in Nat /\ Top.header.pair <= token
      /\ ret = "ok" => Delivered(json, Top)
    <2>1. Top \in Frames /\ Sound(Top) /\ token \in Nat /\ (ret = "ok" => Delivered(json, Top))
        BY <1>1, TopKnown, Zenon
    <2>2. Top = stack[1] /\ 1 \in 1..Len(stack)
        BY <1>1, StackTop DEF IInv, Types
    <2>3. Top.header.pair <= token
        BY <2>2 DEF IInv, Tokens, Bounded
    <2>. QED
        BY <2>1, <2>3, Zenon
<1>3. ~Pending
    BY <1>1, Zenon DEF Pending
<1>4. json.kind \in {"pair", "half"} => json.url \in {"login", "renew"}
    BY Zenon DEF IInv, Tokens
<1>5. CASE PerformFails
    BY <1>1, <1>3, <1>5, FailTokens, Zenon DEF PerformFails
<1>6. CASE Renewed
    <2>1. CASE ret = "ok"
        <3>. DEFINE g == Frame(Top.fn, Top.url, SessionToken, "perform")
        <3>1. CallFrom("repeated", g) /\ "repeated" \in Pcs
            BY <1>6, <2>1 DEF Renewed, Pcs
        <3>2. g \in Frames /\ g.header.pair <= token
            BY <1>2 DEF Frame, Frames, SessionToken
        <3>. HIDE DEF g
        <3>. QED
            BY <1>1, <1>3, <3>1, <3>2, PushTokens, Zenon
    <2>2. CASE ret # "ok"
        BY <1>1, <1>3, <1>6, <2>2, FailTokens, Zenon DEF Renewed
    <2>. QED
        BY <2>1, <2>2, Zenon
<1>7. CASE Repeated
    <2>1. Return(ret) /\ Top.pc = "repeated"
        BY <1>7, Zenon DEF Repeated, Resumed
    <2>2. ret = "ok" => json.kind \notin {"pair", "half"}
        BY <1>2, <1>4, <2>1 DEF Delivered, Answered, Sound
    <2>. QED
        BY <1>1, <2>1, <2>2, ReturnTokens, Zenon
<1>8. CASE Poll
    <2>1. CASE json.kind = "lost"
        BY <1>1, <1>3, <1>8, <2>1, FailTokens, Zenon DEF Poll
    <2>2. CASE json.kind # "lost"
        <3>. DEFINE g == Frame("get", "result", Top.header, "perform")
        <3>1. CallFrom("polled", g) /\ "polled" \in Pcs
            BY <1>8, <2>2 DEF Poll, Pcs
        <3>2. g \in Frames /\ g.header.pair <= token
            BY <1>2 DEF Frame, Frames
        <3>. HIDE DEF g
        <3>. QED
            BY <1>1, <1>3, <3>1, <3>2, PushTokens, Zenon
    <2>. QED
        BY <2>1, <2>2, Zenon
<1>9. CASE Polled
    <2>1. Top.pc = "polled"
        BY <1>9, Zenon DEF Polled, Resumed
    <2>2. CASE ret = "ok" /\ InProgress(json.kind)
        BY <1>1, <1>3, <1>9, <2>2, MoveTokens, Zenon DEF Polled, At
    <2>3. CASE ~(ret = "ok" /\ InProgress(json.kind))
        <3>1. Return(ret)
            BY <1>9, <2>3, Zenon DEF Polled
        <3>2. ret = "ok" => json.kind \notin {"pair", "half"}
            BY <1>2, <1>4, <2>1 DEF Delivered, Answered
        <3>. QED
            BY <1>1, <3>1, <3>2, ReturnTokens, Zenon
    <2>. QED
        BY <2>2, <2>3, Zenon
<1>. QED
    BY <1>5, <1>6, <1>7, <1>8, <1>9, Zenon

\* An answer with tokens goes to renew_session or to snowflake_connect.
LEMMA PerformTokens ==
    ASSUME IInv, Perform PROVE Tokens'
<1>1. /\ stack # <<>> /\ ret = "none" /\ Top.fn \in {"post", "get"}
      /\ UNCHANGED <<op, token, master_token>>
    BY Zenon DEF Perform, Running, client
<1>2. PICK k \in Kinds(Top) :
        /\ Answers(Top, k)
        /\ CASE k = "badcode" -> Return("fail")
             [] k = "expired" -> CallFrom("renewed", Frame("renew", "none", MasterToken, "start"))
             [] InProgress(k) /\ Top.fn = "post" ->
                   stack' = <<[Top EXCEPT !.pc = "poll"]>> \o Tail(stack) /\ ret' = ret
             [] OTHER -> Return("ok")
    BY Zenon DEF Perform
<1>3. /\ Top \in Frames /\ Sound(Top) /\ token \in Nat /\ master_token \in Nat /\ issued \in Nat
    BY <1>1, TopKnown, Zenon DEF IInv, Types
<1>4. k \in {"pair", "half"} => Top.url \in {"login", "renew"}
    BY <1>2 DEF Kinds
<1>5. /\ json'.kind = k /\ json'.url = Top.url
      /\ k \in {"pair", "half"} => json'.pair = issued + 1 /\ issued' = issued + 1
      /\ k \notin {"pair", "half"} => issued' = issued
    BY <1>2, <1>3 DEF Answers
<1>6. token = issued /\ master_token <= token /\ op \in Requests /\ op # "closed"
    <2>1. ~Pending /\ op \in Requests /\ op # "closed"
        BY <1>1 DEF Pending, IInv, Stack, Requests
    <2>. QED
        BY <2>1, Zenon DEF IInv, Tokens, Latest
<1>7. Bounded'
    <2>1. CASE Return("fail") \/ Return("ok")
        <3>1. stack' = Tail(stack)
            BY <2>1, Zenon DEF Return
        <3>2. token' \in Nat /\ token <= token'
            BY <1>1, <1>3
        <3>. QED
            BY <1>1, <3>1, <3>2, PopBound, Zenon
    <2>2. CASE k = "expired"
        <3>. DEFINE g == Frame("renew", "none", MasterToken, "start")
        <3>1. CallFrom("renewed", g) /\ "renewed" \in Pcs
            BY <1>2, <2>2, SMTT(30) DEF CallFrom, InProgress, Pcs
        <3>2. g \in Frames /\ g.header.pair <= token
            BY <1>3, <1>6 DEF Frame, Frames, MasterToken
        <3>. HIDE DEF g
        <3>. QED
            BY <1>1, <3>1, <3>2, PushBound, Zenon
    <2>3. CASE k \notin {"badcode", "expired"} /\ InProgress(k) /\ Top.fn = "post"
        <3>1. stack' = <<At(Top, "poll")>> \o Tail(stack)
            BY <1>2, <2>3 DEF At
        <3>. QED
            BY <1>1, <3>1, MoveBound, Zenon
    <2>4. CASE k \notin {"badcode", "expired"} /\ ~(InProgress(k) /\ Top.fn = "post")
        <3>1. Return("ok")
            BY <1>2, <2>4 DEF Return
        <3>. QED
            BY <2>1, <3>1, Zenon
    <2>5. CASE k = "badcode"
        <3>1. Return("fail")
            BY <1>2, <2>5 DEF Return, InProgress
        <3>. QED
            BY <2>1, <3>1, Zenon
    <2>. QED
        BY <2>1, <2>2, <2>3, <2>4, <2>5, Zenon
<1>8. CASE k \in {"pair", "half"}
    <2>1. Return("ok")
        BY <1>2, <1>8 DEF Return, InProgress
    <2>2. stack' = Tail(stack) /\ ret' = "ok"
        BY <2>1, Zenon DEF Return
    <2>3. CASE stack' = <<>>
        <3>1. op = "connect"
            <4>1. Top.url = UrlOf(op)
                BY <1>1, <2>2, <2>3, Below, Zenon
            <4>. QED
                BY <1>4, <1>6, <1>8, <4>1 DEF UrlOf, Requests
        <3>2. Pending'
            BY <1>1, <1>5, <1>8, <2>2, <2>3, <3>1, Zenon DEF Pending
        <3>3. token' < issued' /\ json'.pair = issued'
            BY <1>1, <1>3, <1>5, <1>6, <1>8
        <3>. QED
            BY <1>1, <1>4, <1>5, <1>6, <1>7, <1>8, <2>3, <3>2, <3>3, Zenon DEF Tokens, Latest
    <2>4. CASE stack' # <<>>
        <3>1. Awaits(Top', Top) /\ Sound(Top')
            BY <1>1, <2>2, <2>4, Below, Zenon
        <3>2. Top'.fn = "renew" /\ Top'.pc # "renewed"
            BY <1>1, <1>4, <1>8, <3>1 DEF Awaits
        <3>3. Pending'
            BY <1>5, <1>8, <2>2, <2>4, <3>2, Zenon DEF Pending
        <3>4. token' < issued' /\ json'.pair = issued'
            BY <1>1, <1>3, <1>5, <1>6, <1>8
        <3>. QED
            BY <1>1, <1>4, <1>5, <1>6, <1>7, <1>8, <3>2, <3>3, <3>4, Zenon DEF Tokens, Latest
    <2>. QED
        BY <2>3, <2>4, Zenon
<1>9. CASE k \notin {"pair", "half"}
    <2>1. ~Pending' /\ token' = issued' /\ master_token' <= token'
        BY <1>1, <1>5, <1>6, <1>9, Zenon DEF Pending
    <2>2. ASSUME ret' = "ok", stack' # <<>> PROVE Top'.pc # "renewed"
        <3>1. stack' = Tail(stack)
            BY <1>1, <1>2, <2>2 DEF Return, CallFrom
        <3>2. Awaits(Top', Top)
            BY <1>1, <2>2, <3>1, Below, Zenon
        <3>. QED
            BY <1>1, <3>2 DEF Awaits
    <2>. QED
        BY <1>5, <1>7, <1>9, <2>1, <2>2, Zenon DEF Tokens, Latest
<1>. QED
    BY <1>8, <1>9, Zenon

LEMMA RenewTokens ==
    ASSUME IInv, RenewSession \/ RenewReturns PROVE Tokens'
<1>1. stack # <<>> /\ Top.fn = "renew" /\ UNCHANGED <<op, issued, json>>
    BY DEF RenewSession, RenewReturns, Running, Resumed, client, service
<1>2. token \in Nat /\ master_token \in Nat /\ issued \in Nat /\ master_token <= token
    BY Zenon DEF IInv, Types, Tokens
<1>3. op # "closed"
    BY <1>1 DEF IInv, Stack, Requests
<1>4. CASE RenewSession
    <2>1. ~Pending /\ UNCHANGED <<token, master_token>>
        BY <1>4 DEF Pending, RenewSession, Running, client
    <2>2. CASE "directURL" \in attributes \/ master_token = 0
        BY <1>1, <1>4, <2>1, <2>2, FailTokens, Zenon DEF RenewSession
    <2>3. CASE ~("directURL" \in attributes \/ master_token = 0)
        <3>. DEFINE g == Frame("post", "renew", MasterToken, "perform")
        <3>1. CallFrom("posted", g)
            BY <1>4, <2>3, Zenon DEF RenewSession
        <3>2. g \in Frames /\ g.header.pair <= token /\ "posted" \in Pcs
            BY <1>2 DEF Frame, Frames, MasterToken, Pcs
        <3>. HIDE DEF g
        <3>. QED
            BY <1>1, <2>1, <3>1, <3>2, PushTokens, Zenon
    <2>. QED
        BY <2>2, <2>3, Zenon
<1>5. CASE RenewReturns
    <2>1. /\ stack' = Tail(stack) /\ ret' = IF ret = "ok" /\ json.kind = "pair" THEN "ok" ELSE "fail"
          /\ IF ret = "ok" THEN SetTokens ELSE UNCHANGED <<token, master_token>>
        BY <1>5, Zenon DEF RenewReturns, Return
    <2>2. CASE Pending
        <3>1. ret = "ok" /\ json.kind \in {"pair", "half"} /\ token < issued /\ json.pair = issued
            BY <1>3, <2>2, Zenon DEF Pending, IInv, Tokens, Latest
        <3>2. token' = issued /\ master_token' \in {issued, master_token}
            BY <2>1, <3>1 DEF SetTokens
        <3>3. token' \in Nat /\ token < token' /\ token <= token' /\ master_token' <= token'
            BY <1>2, <3>1, <3>2
        <3>4. Bounded'
            BY <1>1, <2>1, <3>3, PopBound, Zenon
        <3>5. stack' # <<>> /\ Top'.pc = "renewed" /\ Top'.fn # "renew"
              /\ Top'.header.pair < token'
            <4>1. stack' # <<>>
                BY <1>1, <2>1, Below
            <4>2. /\ Awaits(Top', Top) /\ Sound(Top')
                  /\ Top'.header.pair \in Nat /\ Top'.header.pair <= token
                BY <1>1, <2>1, <4>1, Below, Zenon
            <4>3. Top'.pc = "renewed" /\ Top'.fn # "renew"
                BY <1>1, <4>2 DEF Awaits, Sound
            <4>. QED
                BY <1>2, <3>3, <4>1, <4>2, <4>3
        <3>6. ~Pending'
            BY <3>5, Zenon DEF Pending
        <3>7. json'.kind \in {"pair", "half"} => json'.url \in {"login", "renew"}
            BY <1>1, Zenon DEF IInv, Tokens
        <3>. QED
            BY <1>1, <3>2, <3>3, <3>4, <3>5, <3>6, <3>7, Zenon DEF Tokens, Latest
    <2>3. CASE ~Pending
        <3>1. ~(ret = "ok" /\ json.kind \in {"pair", "half"})
            BY <1>1, <2>3, Zenon DEF Pending
        <3>2. UNCHANGED <<token, master_token>> /\ ret' = "fail"
            BY <2>1, <3>1 DEF SetTokens
        <3>3. Return("fail")
            BY <2>1, <3>2, Zenon DEF Return
        <3>. QED
            BY <1>1, <2>3, <3>2, <3>3, FailTokens, Zenon
    <2>. QED
        BY <2>2, <2>3, Zenon
<1>. QED
    BY <1>4, <1>5, Zenon

\* The connection is free after the call.
LEMMA EndTokens ==
    ASSUME IInv, ConnectReturns \/ TermReturns \/ (Term /\ op' = "closed") PROVE Tokens'
<1>1. stack = <<>> /\ stack' = <<>> /\ UNCHANGED <<issued, json>>
    BY DEF ConnectReturns, TermReturns, Term, Request, IInv, Stack, Requests, answers, service
<1>2. Bounded'
    <2>1. 1..Len(stack') = {}
        BY <1>1
    <2>. QED
        BY <2>1, Zenon DEF Bounded
<1>3. json'.kind \in {"pair", "half"} => json'.url \in {"login", "renew"}
    BY <1>1, Zenon DEF IInv, Tokens
<1>4. token \in Nat /\ master_token \in Nat /\ issued \in Nat /\ master_token <= token
    BY Zenon DEF IInv, Types, Tokens
<1>5. CASE TermReturns \/ (Term /\ op' = "closed")
    <2>1. op' = "closed" /\ token' = 0 /\ master_token' = 0
        BY <1>5 DEF TermReturns, Term, Request
    <2>2. master_token' <= token'
        BY <2>1
    <2>. QED
        BY <1>1, <1>2, <1>3, <2>1, <2>2, Zenon DEF Tokens, Latest
<1>6. CASE ConnectReturns
    <2>1. /\ op = "connect" /\ op' = "idle"
          /\ IF ret = "ok" THEN SetTokens ELSE UNCHANGED <<token, master_token>>
        BY <1>6, Zenon DEF ConnectReturns
    <2>2. ~Pending'
        BY <1>1, <2>1 DEF Pending
    <2>3. token' = issued' /\ master_token' <= token'
        <3>1. CASE Pending
            <4>1. ret = "ok" /\ json.kind \in {"pair", "half"} /\ token < issued /\ json.pair = issued
                BY <2>1, <3>1 DEF Pending, IInv, Tokens, Latest
            <4>2. token' = issued /\ master_token' \in {issued, master_token}
                BY <2>1, <4>1 DEF SetTokens
            <4>. QED
                BY <1>1, <1>4, <4>1, <4>2
        <3>2. CASE ~Pending
            <4>1. ~(ret = "ok" /\ json.kind \in {"pair", "half"})
                BY <1>1, <2>1, <3>2, Zenon DEF Pending
            <4>2. UNCHANGED <<token, master_token>>
                BY <2>1, <4>1 DEF SetTokens
            <4>3. token = issued
                BY <2>1, <3>2 DEF IInv, Tokens, Latest
            <4>. QED
                BY <1>1, <1>4, <4>2, <4>3, Zenon
        <3>. QED
            BY <3>1, <3>2, Zenon
    <2>. QED
        BY <1>1, <1>2, <1>3, <2>2, <2>3, Zenon DEF Tokens, Latest
<1>. QED
    BY <1>5, <1>6, Zenon

LEMMA CallTokens ==
    ASSUME IInv, Call PROVE Tokens'
<1>0. op = "idle" /\ stack = <<>>
    <2>1. op = "idle"
        BY Zenon DEF Call, SetAttributes, Connect, Term, PrepareNull, Prepare, Execute, Fetch,
                     AffectedRows
    <2>. QED
        BY <2>1 DEF IInv, Stack, Requests
<1>1. ASSUME NEW name \in Requests, NEW url, Request(name, url), UNCHANGED <<token, master_token>>
      PROVE  Tokens'
    BY <1>0, <1>1, StartTokens, Zenon
<1>2. "connect" \in Requests /\ "execute" \in Requests /\ "term" \in Requests
    BY DEF Requests
<1>3. CASE UNCHANGED <<op, stack, token, master_token, issued, json>>
    BY <1>0, <1>3, IdleTokens
<1>4. CASE (\E A \in Settings : SetAttributes(A)) \/ Connect
    BY <1>1, <1>2, <1>3, <1>4, Zenon DEF SetAttributes, Connect, ConnectNoRequest, service
<1>5. CASE Term
    BY <1>1, <1>2, <1>5, EndTokens, Zenon DEF Term
<1>6. CASE Execute
    BY <1>1, <1>2, <1>3, <1>6, Zenon DEF Execute, service
<1>7. CASE \/ PrepareNull \/ (\E kind \in {"none", "select", "dml", "put"} : Prepare(kind))
           \/ Fetch \/ AffectedRows
    BY <1>3, <1>7, Zenon DEF PrepareNull, Prepare, Fetch, AffectedRows, client, service
<1>. QED
    BY <1>4, <1>5, <1>6, <1>7, Zenon DEF Call

LEMMA TokensStep ==
    ASSUME IInv, [Next]_vars PROVE Tokens'
<1>1. CASE Expire \/ Retry \/ UNCHANGED vars
    BY <1>1, SameTokens, Zenon DEF Expire, Retry, client, answers, vars, svars
<1>2. CASE ExecuteFails \/ ExecutePutGet \/ (\E r \in Results : ExecuteQuery(r))
    <2>1. stack = <<>> /\ stack' = stack /\ op = "execute" /\ op' = "idle"
          /\ UNCHANGED <<token, master_token, issued, json>>
        BY <1>2, Zenon DEF ExecuteFails, ExecutePutGet, ExecuteQuery, ExecuteEnds, answers, service
    <2>. QED
        BY <2>1, IdleTokens
<1>. QED
    BY <1>1, <1>2, CallTokens, RequestTokens, PerformTokens, RenewTokens, EndTokens, Zenon
    DEF Next, Work, Step

(***************************************************************************)
(* The theorems                                                            *)
(***************************************************************************)
LEMMA InitInv ==
    ASSUME Init PROVE IInv
<1>1. stack = <<>> /\ stack \in Seq(Frames) /\ Len(stack) = 0 /\ ret = "none"
    BY DEF Init, SessionInit
<1>2. Types
    BY <1>1 DEF Init, SessionInit, NoAnswer, Types
<1>3. Stack
    <2>1. 1..Len(stack) = {} /\ 1..(Len(stack) - 1) = {}
        BY <1>1
    <2>. QED
        BY <1>1, <2>1 DEF Stack
<1>4. Received
    BY <1>1 DEF Received
<1>5. Tokens
    <2>1. token = 0 /\ master_token = 0 /\ issued = 0 /\ json.kind = "none" /\ 1..Len(stack) = {}
        BY <1>1 DEF Init, SessionInit, NoAnswer
    <2>. QED
        BY <1>1, <2>1 DEF Tokens, Bounded, Latest, Pending
<1>. QED
    BY <1>2, <1>3, <1>4, <1>5, Zenon DEF IInv

LEMMA InductiveStep ==
    ASSUME IInv, [Next]_vars PROVE IInv'
BY NextGoal, ValuesStep, TokensStep, Zenon DEF IInv, Types, Values, Goal

\* IInv holds in every reachable state of Statement.
THEOREM Invariance == Spec => []IInv
BY InitInv, InductiveStep, PTL DEF Spec

\* curl_post_call, curl_get_call and renew_session send the master token to the renewal
\* URL only, however deep renewals and repetitions are nested.
THEOREM MasterTokenOnlyToRenewal == Spec => []MasterTokenOnlyRenews
<1>1. IInv => MasterTokenOnlyRenews
    BY Zenon DEF IInv, Stack, Sound, MasterTokenOnlyRenews
<1>. QED
    BY <1>1, Invariance, PTL

\* A request that returns successfully leaves in json the final answer to itself or to its
\* polls, whatever was renewed and repeated meanwhile.
THEOREM RequestsReadTheirAnswer == Spec => []AnswerIsFinal
<1>1. ASSUME IInv PROVE AnswerIsFinal
    <2>. SUFFICES ASSUME stack = <<>>, ret = "ok", op \in {"connect", "execute", "term"}
                  PROVE  /\ json.kind \notin {"expired", "progress", "lost", "badcode", "none"}
                         /\ json.url \in CASE op = "connect" -> {"login"}
                                           [] op = "term" -> {"delete"}
                                           [] op = "execute" -> {"query", "result"}
        BY Zenon DEF AnswerIsFinal
    <2>1. Answered(json, "post", UrlOf(op))
        BY <1>1, Zenon DEF IInv, Received, Requests
    <2>. QED
        BY <2>1 DEF Answered, UrlOf, InProgress
<1>. QED
    BY <1>1, Invariance, PTL

\* Renewals of the session move forward: curl_post_call and curl_get_call repeat a request
\* only with a session token newer than the one refused, and between calls the connection
\* has the newest one it was sent, however many tokens expire on the way.
THEOREM RenewalsMoveForward == Spec => []TokensMoveForward
<1>1. ASSUME IInv PROVE TokensMoveForward
    <2>1. \A i \in 1..(Len(stack) - 1) :
            stack[i + 1].pc = "repeated" => /\ stack[i].header.kind = "session"
                                            /\ stack[i].header.pair > stack[i + 1].header.pair
        BY <1>1, Zenon DEF IInv, Stack, Awaits
    <2>2. ASSUME op = "idle" PROVE token = issued
        <3>1. stack = <<>> /\ op \notin {"connect", "closed"}
            BY <1>1, <2>2 DEF IInv, Stack, Requests
        <3>. QED
            BY <1>1, <3>1, Zenon DEF IInv, Tokens, Latest, Pending
    <2>. QED
        BY <2>1, <2>2, Zenon DEF TokensMoveForward
<1>. QED
    BY <1>1, Invariance, PTL

(***************************************************************************)
(* The rows of a result                                                    *)
(***************************************************************************)
Downloader ==
    /\ chunk_downloader \in [exec : Nat, next : Nat, last : Nat, failed : BOOLEAN]
    /\ execs \in Nat /\ chunk_downloader.exec <= execs
    /\ chunk_downloader.exec = 0 => chunk_downloader.next = 1 /\ chunk_downloader.last = 0
    /\ op = "execute" => chunk_downloader.exec < execs /\ result = NoResult

Current ==
    /\ sql_text = "select" /\ result # NoResult
    /\ chunk_downloader.exec \in {0, result.exec}

\* The statement holds the rows that follow the fetched ones, and the downloader those
\* that follow these.
Remaining ==
    LET n == Len(fetched)
        c == chunk_rowcount
        e == result.exec
        m == result.size
    IN  /\ n \in Nat /\ c \in Nat /\ e \in Nat \ {0} /\ m \in Nat /\ n + c <= m
        /\ fetched = Rows(e, 1, n) /\ raw_results = Rows(e, n + 1, n + c)
        /\ chunk_downloader.exec = 0 => n + c = m
        /\ chunk_downloader.exec = e =>
            chunk_downloader.next = n + c + 1 /\ chunk_downloader.last = m
        /\ called = "fetch" /\ ret = "eof" => n = m

RowInv == Downloader /\ (Current => Remaining)

\* Rows, by their number
Run(e, from, len) == [k \in 1..len |-> <<e, from + k - 1>>]

LEMMA RunLen ==
    ASSUME NEW e \in Int, NEW from \in Int, NEW len \in Nat
    PROVE  /\ Run(e, from, len) \in Seq(Int \X Int) /\ Len(Run(e, from, len)) = len
           /\ \A k \in 1..len : Run(e, from, len)[k] = <<e, from + k - 1>>
<1>1. \A k \in 1..len : <<e, from + k - 1>> \in Int \X Int
    OBVIOUS
<1>. QED
    BY <1>1 DEF Run

LEMMA AppendOne ==
    ASSUME NEW V, NEW F \in Seq(V), NEW G \in Seq(V), NEW v \in V, Len(G) = Len(F) + 1,
           \A k \in 1..Len(F) : G[k] = F[k], G[Len(F) + 1] = v
    PROVE  Append(F, v) = G
<1>1. Append(F, v) \in Seq(V) /\ Len(Append(F, v)) = Len(F) + 1
    OBVIOUS
<1>2. \A k \in 1..(Len(F) + 1) : Append(F, v)[k] = G[k]
    OBVIOUS
<1>. QED
    BY <1>1, <1>2, SeqEqual

LEMMA TailOne ==
    ASSUME NEW V, NEW S \in Seq(V), NEW T \in Seq(V), S # <<>>, Len(S) = Len(T) + 1,
           \A k \in 1..Len(T) : T[k] = S[k + 1]
    PROVE  Tail(S) = T
<1>1. Tail(S) \in Seq(V) /\ Len(Tail(S)) = Len(T)
    OBVIOUS
<1>2. \A k \in 1..Len(T) : Tail(S)[k] = T[k]
    OBVIOUS
<1>. QED
    BY <1>1, <1>2, SeqEqual

\* A fetch moves one row from the rows held to the rows fetched.
LEMMA RowsMove ==
    ASSUME NEW e \in Int, NEW n \in Nat, NEW c \in Nat \ {0}
    PROVE  /\ Rows(e, n + 1, n + c) # <<>>
           /\ Append(Rows(e, 1, n), Head(Rows(e, n + 1, n + c))) = Rows(e, 1, n + 1)
           /\ Tail(Rows(e, n + 1, n + c)) = Rows(e, (n + 1) + 1, (n + 1) + (c - 1))
<1>. DEFINE S == Run(e, n + 1, c)
            F == Run(e, 1, n)
            G == Run(e, 1, n + 1)
            T == Run(e, n + 2, c - 1)
<1>0. /\ c \in Nat /\ c = (n + c) - (n + 1) + 1 /\ n = n - 1 + 1 /\ n + 1 \in Nat
      /\ n + 1 = (n + 1) - 1 + 1 /\ c - 1 \in Nat /\ (n + 1) + 1 = n + 2
      /\ c - 1 = ((n + 1) + (c - 1)) - (n + 2) + 1
      /\ n + 1 \in Int /\ n + 2 \in Int /\ 1 \in Int /\ (n + 1) + (c - 1) \in Int /\ n + c \in Int
      /\ n \in Int
    OBVIOUS
<1>rows. /\ Rows(e, n + 1, n + c) = S /\ Rows(e, 1, n) = F /\ Rows(e, 1, n + 1) = G
         /\ Rows(e, (n + 1) + 1, (n + 1) + (c - 1)) = T
    <2>1. Rows(e, n + 1, n + c) = S
        BY <1>0, Zenon DEF Rows, Run
    <2>2. Rows(e, 1, n) = F
        BY <1>0, Zenon DEF Rows, Run
    <2>3. Rows(e, 1, n + 1) = G
        BY <1>0, Zenon DEF Rows, Run
    <2>4. Rows(e, n + 2, (n + 1) + (c - 1)) = T
        BY <1>0, Zenon DEF Rows, Run
    <2>. QED
        BY <1>0, <2>1, <2>2, <2>3, <2>4, Zenon
<1>1. S \in Seq(Int \X Int) /\ Len(S) = c /\ \A k \in 1..c : S[k] = <<e, (n + 1) + k - 1>>
    BY <1>0, RunLen, Zenon
<1>2. F \in Seq(Int \X Int) /\ Len(F) = n /\ \A k \in 1..n : F[k] = <<e, 1 + k - 1>>
    BY <1>0, RunLen, Zenon
<1>3. G \in Seq(Int \X Int) /\ Len(G) = n + 1 /\ \A k \in 1..(n + 1) : G[k] = <<e, 1 + k - 1>>
    BY <1>0, RunLen, Zenon
<1>4. T \in Seq(Int \X Int) /\ Len(T) = c - 1 /\ \A k \in 1..(c - 1) : T[k] = <<e, (n + 2) + k - 1>>
    BY <1>0, RunLen, Zenon
<1>. HIDE DEF S, F, G, T
<1>5. S # <<>> /\ Head(S) = <<e, n + 1>>
    <2>1. S # <<>> /\ Head(S) = S[1]
        BY <1>1
    <2>2. 1 \in 1..c /\ (n + 1) + 1 - 1 = n + 1
        BY <1>0
    <2>. QED
        BY <1>1, <2>1, <2>2, Zenon
<1>6. Append(F, Head(S)) = G
    <2>1. <<e, n + 1>> \in Int \X Int
        BY <1>0
    <2>2. \A k \in 1..n : k \in 1..(n + 1)
        OBVIOUS
    <2>3. \A k \in 1..Len(F) : G[k] = F[k]
        BY <1>2, <1>3, <2>2, Zenon
    <2>4. n + 1 \in 1..(n + 1) /\ 1 + (n + 1) - 1 = n + 1
        OBVIOUS
    <2>5. G[Len(F) + 1] = <<e, n + 1>>
        BY <1>2, <1>3, <2>4, Zenon
    <2>6. Len(G) = Len(F) + 1
        BY <1>2, <1>3, Zenon
    <2>7. Append(F, <<e, n + 1>>) = G
        BY <1>2, <1>3, <2>1, <2>3, <2>5, <2>6, AppendOne
    <2>. QED
        BY <1>5, <2>7, Zenon
<1>7. Tail(S) = T
    <2>1. \A k \in 1..(c - 1) : k + 1 \in 1..c /\ (n + 1) + (k + 1) - 1 = (n + 2) + k - 1
        OBVIOUS
    <2>2. \A k \in 1..Len(T) : T[k] = S[k + 1]
        BY <1>1, <1>4, <2>1, Zenon
    <2>3. Len(S) = Len(T) + 1
        BY <1>1, <1>4
    <2>. QED
        BY <1>1, <1>4, <1>5, <2>2, <2>3, TailOne, Zenon
<1>. QED
    BY <1>rows, <1>5, <1>6, <1>7, Zenon

LEMMA NoRows ==
    ASSUME NEW e \in Int, NEW n \in Nat PROVE Rows(e, n + 1, n) = <<>>
<1>1. n - (n + 1) + 1 = 0
    OBVIOUS
<1>2. Rows(e, n + 1, n) = [k \in 1..0 |-> <<e, n + 1 + k - 1>>]
    BY <1>1, Zenon DEF Rows
<1>. QED
    BY <1>2

\* Steps that leave the statement alone.
LEMMA SameRows ==
    ASSUME RowInv, UNCHANGED stmt, op' = "execute" => op = "execute", ret' = "eof" => ret = "eof"
    PROVE  RowInv'
BY Zenon DEF RowInv, Downloader, Current, Remaining, stmt

LEMMA ConnectionRows ==
    ASSUME RowInv, UNCHANGED stmt, Step \/ (\E A \in Settings : SetAttributes(A)) \/ Connect \/ Term \/ Expire
    PROVE  RowInv'
<1>1. CASE Step
    <2>1. op' = "execute" => op = "execute"
        BY <1>1
        DEF Step, Retry, PerformFails, Perform, Renewed, Repeated, Poll, Polled, RenewSession,
            RenewReturns, ConnectReturns, TermReturns, client
    <2>2. ret' = "eof" => ret = "eof"
        <3>1. CASE Perform
            <4>1. ret' \in {"fail", "none", "ok", ret}
                BY <3>1 DEF Perform, Return, CallFrom
            <4>. QED
                BY <4>1
        <3>2. CASE ConnectReturns
            <4>1. ret' \in {"ok", "fail"}
                BY <3>2, Zenon DEF ConnectReturns
            <4>. QED
                BY <4>1
        <3>3. CASE Renewed \/ Poll \/ RenewSession \/ RenewReturns
            <4>1. ret' \in {"none", "ok", "fail"}
                BY <3>3 DEF Renewed, Poll, RenewSession, RenewReturns, CallFrom, Return
            <4>. QED
                BY <4>1
        <3>4. CASE Retry \/ PerformFails \/ Repeated \/ Polled \/ TermReturns
            BY <3>4 DEF Retry, PerformFails, Repeated, Polled, TermReturns, Return
        <3>. QED
            BY <1>1, <3>1, <3>2, <3>3, <3>4, Zenon DEF Step
    <2>. QED
        BY <2>1, <2>2, SameRows, Zenon
<1>2. CASE (\E A \in Settings : SetAttributes(A)) \/ Connect \/ Term \/ Expire
    <2>1. op' = "execute" => op = "execute"
        BY <1>2 DEF SetAttributes, Connect, ConnectNoRequest, Term, Expire, Request, client
    <2>2. ret' = "eof" => ret = "eof"
        BY <1>2 DEF SetAttributes, Connect, ConnectNoRequest, Term, Expire, Request
    <2>. QED
        BY <2>1, <2>2, SameRows, Zenon
<1>. QED
    BY <1>1, <1>2, Zenon

\* prepare and the start of execute drop the result.
LEMMA DropRows ==
    ASSUME RowInv, (\E kind \in {"none", "select", "dml", "put"} : Prepare(kind)) \/ Execute
    PROVE  RowInv'
<1>1. ~Current'
    BY Zenon DEF Prepare, StmtReset, Execute, Current
<1>2. Downloader'
    <2>0. Downloader
        BY Zenon DEF RowInv
    <2>1. ASSUME NEW kind, Prepare(kind) PROVE Downloader'
        <3>1. chunk_downloader' = NoDownloader /\ execs' = execs /\ op' # "execute"
            BY <2>1 DEF Prepare, StmtReset, client
        <3>. QED
            BY <2>0, <3>1 DEF Downloader, NoDownloader
    <2>2. CASE Execute
        <3>1. chunk_downloader' = chunk_downloader /\ execs' = execs + 1 /\ result' = NoResult
            BY <2>2, Zenon DEF Execute
        <3>2. chunk_downloader.exec \in Nat /\ execs \in Nat /\ chunk_downloader.exec <= execs
            BY <2>0 DEF Downloader
        <3>3. /\ execs + 1 \in Nat
              /\ chunk_downloader.exec <= execs + 1 /\ chunk_downloader.exec < execs + 1
            BY <3>2
        <3>. QED
            BY <2>0, <3>1, <3>3, Zenon DEF Downloader
    <2>. QED
        BY <2>1, <2>2, Zenon
<1>. QED
    BY <1>1, <1>2, Zenon DEF RowInv

LEMMA ExecuteRows ==
    ASSUME RowInv, ExecuteFails \/ ExecutePutGet \/ (\E r \in Results : ExecuteQuery(r))
    PROVE  RowInv'
<1>0. /\ Downloader /\ op = "execute" /\ op' = "idle" /\ execs' = execs /\ sql_text' = sql_text
    BY Zenon DEF RowInv, ExecuteFails, ExecutePutGet, ExecuteQuery, ExecuteEnds, stmt
<1>1. /\ result = NoResult /\ execs \in Nat /\ chunk_downloader.exec \in Nat
      /\ chunk_downloader.exec < execs
    BY <1>0 DEF Downloader
<1>2. ASSUME UNCHANGED chunk_downloader PROVE Downloader'
    <2>1. op' # "execute"
        BY <1>0
    <2>. QED
        BY <1>0, <1>2, <2>1, Zenon DEF Downloader
<1>3. CASE ExecuteFails \/ ExecutePutGet
    BY <1>1, <1>2, <1>3, Zenon DEF ExecuteFails, ExecutePutGet, stmt, Current, RowInv
<1>4. ASSUME NEW r \in Results, ExecuteQuery(r) PROVE RowInv'
    <2>0. r.rows \in Nat /\ r.chunks \in Nat
        BY StatementAssumption
    <2>1. CASE result' = result /\ chunk_downloader' = NoDownloader
        <3>1. Downloader'
            BY <1>0, <2>1 DEF Downloader, NoDownloader
        <3>. QED
            BY <1>1, <2>1, <3>1, Zenon DEF Current, RowInv
    <2>2. CASE /\ chunk_downloader' =
                    IF r.chunks = 0 THEN chunk_downloader
                    ELSE [exec |-> execs, next |-> r.rows + 1, last |-> r.rows + r.chunks,
                          failed |-> FALSE]
               /\ result' = [exec |-> execs, size |-> r.rows + r.chunks] /\ fetched' = <<>>
               /\ ret' = "ok"
        <3>1. /\ result'.exec = execs /\ result'.size = r.rows + r.chunks
              /\ raw_results' = Rows(execs, 1, r.rows) /\ chunk_rowcount' = r.rows /\ ret' # "eof"
              /\ Len(fetched') = 0
            BY <1>4, <2>2 DEF ExecuteQuery
        <3>2. Rows(execs, 1, 0) = <<>>
            <4>1. Rows(execs, 0 + 1, 0) = <<>>
                BY <1>1, NoRows
            <4>. QED
                BY <4>1
        <3>3. CASE r.chunks = 0
            <4>1. Downloader' /\ chunk_downloader' = chunk_downloader
                BY <1>2, <2>2, <3>3, Zenon
            <4>2. ASSUME Current' PROVE Remaining'
                <5>1. chunk_downloader'.exec # execs
                    BY <1>1, <4>1
                <5>2. 0 + 1 = 1 /\ 0 + r.rows = r.rows /\ r.rows + r.chunks \in Nat
                      /\ r.rows <= r.rows + r.chunks /\ r.rows = r.rows + r.chunks
                      /\ execs \in Nat \ {0} /\ 0 \in Nat
                    BY <1>1, <2>0, <3>3
                <5>. QED
                    BY <2>0, <2>2, <3>1, <3>2, <5>1, <5>2, Zenon DEF Remaining
            <4>. QED
                BY <4>1, <4>2, Zenon DEF RowInv
        <3>4. CASE r.chunks # 0
            <4>1. /\ chunk_downloader' = [exec |-> execs, next |-> r.rows + 1,
                                          last |-> r.rows + r.chunks, failed |-> FALSE]
                BY <2>2, <3>4, Zenon
            <4>2. Downloader'
                BY <1>0, <1>1, <2>0, <4>1 DEF Downloader
            <4>3. Remaining'
                <5>1. /\ chunk_downloader'.exec = execs /\ chunk_downloader'.next = r.rows + 1
                      /\ chunk_downloader'.last = r.rows + r.chunks
                    BY <4>1
                <5>2. 0 + 1 = 1 /\ 0 + r.rows = r.rows /\ r.rows + r.chunks \in Nat
                      /\ r.rows <= r.rows + r.chunks
                      /\ execs \in Nat \ {0} /\ 0 \in Nat /\ execs # 0
                    BY <1>1, <2>0
                <5>. QED
                    BY <2>0, <2>2, <3>1, <3>2, <5>1, <5>2, Zenon DEF Remaining
            <4>. QED
                BY <4>2, <4>3, Zenon DEF RowInv
        <3>. QED
            BY <3>3, <3>4, Zenon
    <2>. QED
        BY <1>4, <2>1, <2>2, Zenon DEF ExecuteQuery, ExecuteEnds
<1>. QED
    BY <1>3, <1>4, Zenon

LEMMA FetchRows ==
    ASSUME RowInv, Fetch PROVE RowInv'
<1>0. /\ Downloader /\ op' = op /\ op = "idle" /\ called' = "fetch"
      /\ UNCHANGED <<sql_text, execs, result>>
    BY Zenon DEF RowInv, Fetch, client
<1>dl. /\ chunk_downloader.exec \in Nat
       /\ chunk_downloader.next \in Nat /\ chunk_downloader.last \in Nat
       /\ chunk_downloader.exec = 0 => chunk_downloader.next = 1 /\ chunk_downloader.last = 0
    BY <1>0 DEF Downloader
<1>1. Downloader' /\ chunk_downloader'.exec = chunk_downloader.exec
    <2>1. CASE chunk_downloader' = chunk_downloader
        BY <1>0, <2>1, Zenon DEF Downloader
    <2>2. CASE FetchChunk \/ FetchFails
        <3>1. chunk_downloader.next <= chunk_downloader.last
            BY <2>2, Zenon DEF FetchChunk, FetchFails
        <3>2. chunk_downloader.exec # 0
            BY <1>dl, <3>1
        <3>3. /\ chunk_downloader' \in [exec : Nat, next : Nat, last : Nat, failed : BOOLEAN]
              /\ chunk_downloader'.exec = chunk_downloader.exec
            <4>1. \/ chunk_downloader' = [chunk_downloader EXCEPT !.next = @ + 1]
                  \/ chunk_downloader' = [chunk_downloader EXCEPT !.failed = TRUE]
                BY <2>2, Zenon DEF FetchChunk, FetchFails
            <4>2. chunk_downloader \in [exec : Nat, next : Nat, last : Nat, failed : BOOLEAN]
                BY <1>0, Zenon DEF Downloader
            <4>3. CASE chunk_downloader' = [chunk_downloader EXCEPT !.next = @ + 1]
                BY <4>2, <4>3
            <4>4. CASE chunk_downloader' = [chunk_downloader EXCEPT !.failed = TRUE]
                BY <4>2, <4>4, Zenon
            <4>. QED
                BY <4>1, <4>3, <4>4, Zenon
        <3>4. op' # "execute"
            BY <1>0
        <3>. QED
            BY <1>0, <3>2, <3>3, <3>4, Zenon DEF Downloader
    <2>. QED
        BY <2>1, <2>2, Zenon DEF Fetch, FetchRow, FetchEof
<1>. SUFFICES ASSUME Current' PROVE Remaining'
    BY <1>1, Zenon DEF RowInv
<1>2. Current
    BY <1>0, <1>1, Zenon DEF Current
<1>. DEFINE n == Len(fetched)
            c == chunk_rowcount
            e == result.exec
            m == result.size
<1>3. /\ n \in Nat /\ c \in Nat /\ e \in Nat \ {0} /\ m \in Nat /\ n + c <= m
      /\ fetched = Rows(e, 1, n) /\ raw_results = Rows(e, n + 1, n + c)
      /\ chunk_downloader.exec = 0 => n + c = m
      /\ chunk_downloader.exec = e =>
          chunk_downloader.next = n + c + 1 /\ chunk_downloader.last = m
    BY <1>2, Zenon DEF RowInv, Remaining
<1>int. e \in Int /\ n \in Int
    BY <1>3
<1>4. chunk_downloader.exec \in {0, e} /\ result' = result
    BY <1>0, <1>2, Zenon DEF Current
<1>take. ASSUME NEW d \in Nat \ {0}, n + d <= m, TakeRow(Rows(e, n + 1, n + d), d),
                chunk_downloader.exec = 0 => n + d = m,
                chunk_downloader.exec = e =>
                    chunk_downloader'.next = n + d + 1 /\ chunk_downloader'.last = m
         PROVE  Remaining'
    <2>1. /\ Rows(e, n + 1, n + d) # <<>>
          /\ Append(Rows(e, 1, n), Head(Rows(e, n + 1, n + d))) = Rows(e, 1, n + 1)
          /\ Tail(Rows(e, n + 1, n + d)) = Rows(e, (n + 1) + 1, (n + 1) + (d - 1))
        BY <1>3, <1>int, RowsMove, Zenon
    <2>2. /\ fetched' = Rows(e, 1, n + 1) /\ chunk_rowcount' = d - 1
          /\ raw_results' = Rows(e, (n + 1) + 1, (n + 1) + (d - 1)) /\ ret' = "ok"
        BY <1>3, <1>take, <2>1, Zenon DEF TakeRow
    <2>3. Len(fetched') = n + 1
        <3>1. Rows(e, 1, n + 1) = Run(e, 1, n + 1)
            <4>1. n + 1 = (n + 1) - 1 + 1
                BY <1>3
            <4>. QED
                BY <4>1, Zenon DEF Rows, Run
        <3>2. Len(Run(e, 1, n + 1)) = n + 1
            <4>1. 1 \in Int /\ n + 1 \in Nat
                BY <1>3
            <4>. QED
                BY <1>int, <4>1, RunLen, Zenon
        <3>. QED
            BY <2>2, <3>1, <3>2, Zenon
    <2>4. n + 1 \in Nat /\ d - 1 \in Nat /\ (n + 1) + (d - 1) = n + d
        BY <1>3
    <2>5. ret' # "eof"
        BY <2>2
    <2>. HIDE DEF n, m, e, c
    <2>6. result'.exec = e /\ result'.size = m
        BY <1>4, Zenon DEF e, m
    <2>. QED
        BY <1>1, <1>3, <1>take, <2>2, <2>3, <2>4, <2>5, <2>6, Zenon DEF Remaining
<1>5. CASE FetchRow
    <2>1. c # 0 /\ TakeRow(raw_results, c) /\ chunk_downloader' = chunk_downloader
        BY <1>5, Zenon DEF FetchRow
    <2>2. c \in Nat \ {0}
        BY <1>3, <2>1
    <2>. HIDE DEF n, m, e, c
    <2>. QED
        BY <1>3, <1>take, <2>1, <2>2, Zenon
<1>6. CASE FetchChunk
    <2>1. /\ c = 0 /\ chunk_downloader.next <= chunk_downloader.last
          /\ TakeRow(Rows(chunk_downloader.exec, chunk_downloader.next, chunk_downloader.next), 1)
        BY <1>6, Zenon DEF FetchChunk
    <2>2. /\ chunk_downloader'.next = chunk_downloader.next + 1
          /\ chunk_downloader'.last = chunk_downloader.last
        BY <1>0, <1>6 DEF Downloader, FetchChunk
    <2>3. chunk_downloader.exec = e /\ chunk_downloader.exec # 0
        BY <1>dl, <1>4, <2>1
    <2>4. chunk_downloader.next = n + 1 /\ chunk_downloader.last = m /\ n + 1 <= m
        BY <1>3, <2>1, <2>3
    <2>5. 1 \in Nat \ {0} /\ n + 1 + 1 = (n + 1) + 1
        BY <1>3
    <2>. HIDE DEF n, m, e, c
    <2>. QED
        BY <1>take, <2>1, <2>2, <2>3, <2>4, <2>5, Zenon
<1>7. CASE FetchEof
    <2>1. /\ c = 0 /\ chunk_downloader.next > chunk_downloader.last
          /\ raw_results' = IF chunk_downloader = NoDownloader THEN raw_results ELSE <<>>
          /\ UNCHANGED <<chunk_rowcount, chunk_downloader, fetched>>
        BY <1>7, Zenon DEF FetchEof
    <2>2. n = m
        BY <1>3, <1>4, <1>dl, <2>1
    <2>3. Rows(e, n + 1, n) = <<>> /\ n + c = n
        <3>1. n + c = n
            BY <1>3, <2>1
        <3>. QED
            BY <1>3, <1>int, <3>1, NoRows, Zenon
    <2>4. raw_results' = raw_results
        BY <1>3, <2>1, <2>3, Zenon
    <2>. QED
        BY <1>3, <1>4, <2>1, <2>2, <2>4, Zenon DEF Remaining
<1>8. CASE FetchFails
    <2>1. UNCHANGED <<raw_results, chunk_rowcount, fetched>> /\ ret' # "eof"
        BY <1>8 DEF FetchFails
    <2>2. /\ chunk_downloader'.next = chunk_downloader.next
          /\ chunk_downloader'.last = chunk_downloader.last
        BY <1>0, <1>8 DEF Downloader, FetchFails
    <2>. QED
        BY <1>1, <1>3, <1>4, <2>1, <2>2, Zenon DEF Remaining
<1>. QED
    BY <1>5, <1>6, <1>7, <1>8, Zenon DEF Fetch

LEMMA AffectedKeepsRows ==
    ASSUME RowInv, AffectedRows PROVE RowInv'
<1>1. /\ UNCHANGED <<op, sql_text, execs, result, chunk_downloader, chunk_rowcount, fetched>>
      /\ called' # "fetch"
    BY DEF AffectedRows, client
<1>2. sql_text = "select" => raw_results' = raw_results
    BY DEF AffectedRows
<1>3. Downloader'
    BY <1>1, Zenon DEF RowInv, Downloader
<1>4. ASSUME Current' PROVE Remaining'
    BY <1>1, <1>2, <1>4, Zenon DEF RowInv, Current, Remaining
<1>. QED
    BY <1>3, <1>4, Zenon DEF RowInv

LEMMA NullKeepsRows ==
    ASSUME RowInv, PrepareNull PROVE RowInv'
<1>1. /\ UNCHANGED <<op, sql_text, execs, result, chunk_downloader, chunk_rowcount, raw_results,
                     fetched>>
      /\ called' # "fetch"
    BY DEF PrepareNull, client
<1>. QED
    BY <1>1, Zenon DEF RowInv, Downloader, Current, Remaining

LEMMA RowsStep ==
    ASSUME RowInv, [Next]_vars PROVE RowInv'
<1>1. CASE UNCHANGED vars
    BY <1>1, SameRows, Zenon DEF vars, svars
<1>2. CASE Next
    BY <1>2, ConnectionRows, DropRows, ExecuteRows, FetchRows, AffectedKeepsRows,
        NullKeepsRows, Zenon
    DEF Next, Call, Work
<1>. QED
    BY <1>1, <1>2, Zenon

\* A statement hands out the rows of its result in order, and SF_STATUS_EOF after the last
\* one, unless it still has the downloader of an earlier execution; whatever fails and
\* however often it is executed (_snowflake_execute_ex, snowflake_fetch).
THEOREM RowsInOrder == Spec => []RowsOfOneResult
<1>1. ASSUME Init PROVE RowInv
    BY <1>1 DEF Init, SessionInit, NoDownloader, RowInv, Downloader, Current
<1>2. ASSUME RowInv PROVE RowsOfOneResult
    <2>. SUFFICES ASSUME chunk_downloader.exec \in {0, result.exec}, sql_text = "select",
                         result # NoResult
                  PROVE  /\ Len(fetched) <= result.size
                         /\ fetched = SubSeq(ResultRows, 1, Len(fetched))
                         /\ (called = "fetch" /\ ret = "eof") => Len(fetched) = result.size
        BY Zenon DEF RowsOfOneResult, RowsOfResult
    <2>. DEFINE n == Len(fetched)
                e == result.exec
                m == result.size
    <2>1. /\ n \in Nat /\ chunk_rowcount \in Nat /\ e \in Nat \ {0} /\ m \in Nat
          /\ n + chunk_rowcount <= m /\ fetched = Rows(e, 1, n)
          /\ called = "fetch" /\ ret = "eof" => n = m
        BY <1>2, Zenon DEF RowInv, Current, Remaining
    <2>2. n <= m
        BY <2>1
    <2>3. fetched = SubSeq(ResultRows, 1, n)
        <3>1. n = n - 1 + 1 /\ m = m - 1 + 1
            BY <2>1
        <3>2. ResultRows = Run(e, 1, m) /\ fetched = Run(e, 1, n)
            BY <2>1, <3>1, Zenon DEF ResultRows, Rows, Run
        <3>. HIDE DEF n, e, m
        <3>3. /\ ResultRows \in Seq(Int \X Int) /\ Len(ResultRows) = m
              /\ fetched \in Seq(Int \X Int) /\ Len(fetched) = n
            <4>1. e \in Int /\ 1 \in Int
                BY <2>1
            <4>2. Run(e, 1, m) \in Seq(Int \X Int) /\ Len(Run(e, 1, m)) = m
                BY <2>1, <4>1, RunLen, Zenon
            <4>3. Run(e, 1, n) \in Seq(Int \X Int) /\ Len(Run(e, 1, n)) = n
                BY <2>1, <4>1, RunLen, Zenon
            <4>. QED
                BY <3>2, <4>2, <4>3
        <3>4. \A k \in 1..n : k \in 1..m
            BY <2>1, <2>2
        <3>5. \A k \in 1..n : ResultRows[k] = fetched[k]
            BY <3>2, <3>4, Zenon DEF Run
        <3>6. /\ SubSeq(ResultRows, 1, n) \in Seq(Int \X Int) /\ Len(SubSeq(ResultRows, 1, n)) = n
              /\ \A k \in 1..n : SubSeq(ResultRows, 1, n)[k] = ResultRows[k]
            BY <2>1, <2>2, <3>3, SMTT(30)
        <3>. QED
            BY <3>3, <3>5, <3>6, SeqEqual, Zenon
    <2>. QED
        BY <2>1, <2>2, <2>3, Zenon
<1>. QED
    BY <1>1, <1>2, RowsStep, PTL DEF Spec

====
