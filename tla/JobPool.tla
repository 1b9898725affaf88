------------------------------- MODULE JobPool -------------------------------
(***************************************************************************)
(* What a pool of threads promises to the thread that uses it: jobs are    *)
(* started in the order in which they were added, each at most once and no *)
(* more than N at a time; WaitAll returns only when all jobs are done, and *)
(* closing lets the running jobs end and starts no other.                  *)
(***************************************************************************)
EXTENDS Naturals, FiniteSets

CONSTANT N

VARIABLES
    phase,      \* what the user of the pool is doing
    added,      \* jobs are numbered 1..added
    started,    \* jobs 1..started have been taken by a thread
    done        \* the jobs that have ended

vars == <<phase, added, started, done>>

Usable  == phase \in {"open", "waited"}
Running == 1..started \ done

Init == phase = "open" /\ added = 0 /\ started = 0 /\ done = {}

Add ==
    /\ Usable /\ phase' = "open"
    /\ added' = added + 1
    /\ UNCHANGED <<started, done>>

Start ==
    /\ phase \in {"open", "waited", "waiting"}
    /\ started < added /\ Cardinality(Running) < N
    /\ started' = started + 1
    /\ UNCHANGED <<phase, added, done>>

Finish(j) ==
    /\ j \in Running
    /\ done' = done \cup {j}
    /\ UNCHANGED <<phase, added, started>>

Wait ==
    /\ Usable /\ phase' = "waiting"
    /\ UNCHANGED <<added, started, done>>

WaitReturns ==
    /\ Usable \/ phase = "waiting"
    /\ done = 1..added
    /\ phase' = "waited"
    /\ UNCHANGED <<added, started, done>>

Close ==
    /\ Usable /\ phase' = "closing"
    /\ UNCHANGED <<added, started, done>>

Closed ==
    /\ phase = "closing" /\ Running = {}
    /\ phase' = "closed"
    /\ UNCHANGED <<added, started, done>>

Next ==
    \/ Add \/ Start \/ (\E j \in Running : Finish(j))
    \/ Wait \/ WaitReturns \/ Close \/ Closed

Spec == Init /\ [][Next]_vars

====
