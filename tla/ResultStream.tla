---------------------------- MODULE ResultStream ----------------------------
(***************************************************************************)
(* What snowflake_fetch promises to an application, with no chunks, threads *)
(* or locks: a result set of Total rows is handed out one row per call, in *)
(* order; SF_STATUS_EOF comes after the last row and only then; a call may *)
(* report a failure, without consuming a row, only if something can fail.  *)
(***************************************************************************)
EXTENDS Integers

CONSTANTS
    Total,      \* number of rows of the result set
    CanFail     \* whether an operation of the environment can fail

VARIABLES
    phase,      \* "opening", "idle", "fetching", "closing", "closed"
    pos,        \* rows handed out so far
    row,        \* the current row, 0 when there is none
    status      \* what the last completed call returned

svars == <<phase, pos, row, status>>

Init == phase = "opening" /\ pos = 0 /\ row = 0 /\ status = "none"

Move(from, to) == phase = from /\ phase' = to

Open == Move("opening", "idle") /\ UNCHANGED <<pos, row, status>>

\* The statement could not be opened; what was started is torn down.
OpenFails ==
    /\ CanFail
    /\ Move("opening", "closing") \/ Move("opening", "closed")
    /\ UNCHANGED <<pos, row, status>>

\* A call of snowflake_fetch drops the current row.
Fetch == Move("idle", "fetching") /\ row' = 0 /\ status' = "none" /\ pos' = pos

ReturnRow ==
    /\ Move("fetching", "idle")
    /\ pos < Total
    /\ pos' = pos + 1 /\ row' = pos + 1 /\ status' = "success"

ReturnEof ==
    /\ Move("fetching", "idle")
    /\ pos = Total
    /\ status' = "eof" /\ UNCHANGED <<pos, row>>

ReturnError ==
    /\ Move("fetching", "idle")
    /\ CanFail
    /\ status' = "general" /\ UNCHANGED <<pos, row>>

\* The statement is reset or terminated: its rows are gone.
Close == Move("idle", "closing") /\ pos' = 0 /\ row' = 0 /\ status' = status

Closed == Move("closing", "closed") /\ UNCHANGED <<pos, row, status>>

Next ==
    \/ Open \/ OpenFails \/ Fetch \/ ReturnRow \/ ReturnEof \/ ReturnError
    \/ Close \/ Closed

Spec == Init /\ [][Next]_svars

====
