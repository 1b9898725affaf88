----------------------------- MODULE Statement -----------------------------
(***************************************************************************)
(* One statement (SF_STMT) on a connection: snowflake_prepare,             *)
(* snowflake_execute, snowflake_fetch, snowflake_affected_rows and         *)
(* snowflake_stmt_term of src/lib/client.c, with their requests made by    *)
(* Session.  The bind parameters are modelled in ParamStore, the chunk     *)
(* downloader in ChunkDownloader; here a downloader hands out the chunks   *)
(* of its result in order, one row each, or fails for good, which is what  *)
(* ResultStream says of it.                                                *)
(*                                                                         *)
(* The result of the e-th execution has the rows <<e, 1>>, <<e, 2>>, ...   *)
(* The application prepares before it executes and calls nothing on a      *)
(* closed connection.                                                      *)
(***************************************************************************)
EXTENDS Session

CONSTANTS
    Results,        \* results of a query: [rows |-> in the answer, chunks |-> to download]
    MaxExecs        \* bound: executions

ASSUME StatementAssumption ==
    /\ Results \subseteq [rows : Nat, chunks : Nat]
    /\ Settings \subseteq SUBSET Attributes
    /\ {MaxExecs, MaxExpired, MaxPolls, MaxOutages} \subseteq Nat

VARIABLES
    sql_text,           \* "none", or the kind of statement prepared: "select", "dml", "put"
    raw_results,        \* rows of the current rowset or chunk not handed out yet
    chunk_rowcount,     \* how many rows of it the statement thinks there are
    cur_row,            \* the row fetched, NoRow when NULL
    chunk_downloader,   \* NoDownloader or [exec, next, last, failed]
    put_get_response,   \* the execution that filled it, 0 when NULL
    execs,              \* executions so far
    called,             \* the last call of the statement that has returned
    result,             \* result of the last execution if it succeeded: [exec, size]
    fetched             \* what the successful fetches since then returned

stmt == <<sql_text, raw_results, chunk_rowcount, cur_row, chunk_downloader, put_get_response,
          execs, called, result, fetched>>
vars == <<svars, stmt>>

NoRow == <<0, 0>>
NoResult == [exec |-> 0, size |-> 0]
NoDownloader == [exec |-> 0, next |-> 1, last |-> 0, failed |-> FALSE]

\* Rows `from` to `to` of the result of execution e.
Rows(e, from, to) == [n \in 1 .. (to - from + 1) |-> <<e, from + n - 1>>]

\* snowflake_stmt: a new statement is a reset one.
Init ==
    /\ SessionInit
    /\ sql_text = "none" /\ raw_results = <<>> /\ chunk_rowcount = -1 /\ cur_row = NoRow
    /\ chunk_downloader = NoDownloader /\ put_get_response = 0
    /\ execs = 0 /\ called = "none" /\ result = NoResult /\ fetched = <<>>

\* _snowflake_stmt_reset; chunk_downloader_term returns (TermReturns of ChunkDownloader).
StmtReset ==
    /\ raw_results' = <<>> /\ chunk_rowcount' = -1 /\ cur_row' = NoRow
    /\ chunk_downloader' = NoDownloader /\ put_get_response' = 0
    /\ result' = NoResult /\ fetched' = <<>>
    /\ error' = FALSE

\* snowflake_prepare without a command: nothing is reset, and no error is set.
PrepareNull ==
    /\ op = "idle"
    /\ error' = FALSE /\ called' = "prepare" /\ ret' = "fail"
    /\ UNCHANGED <<client, stack, json, service, sql_text, raw_results, chunk_rowcount, cur_row,
                   chunk_downloader, put_get_response, execs, result, fetched>>

\* snowflake_prepare, and snowflake_stmt_term followed by a new statement ("none").
Prepare(kind) ==
    /\ op = "idle"
    /\ StmtReset
    /\ sql_text' = kind /\ called' = "prepare" /\ ret' = "ok"
    /\ UNCHANGED <<client, stack, json, service, execs>>

\* snowflake_execute up to its request.
Execute ==
    /\ op = "idle" /\ sql_text # "none" /\ execs < MaxExecs
    /\ execs' = execs + 1 /\ called' = "execute" /\ result' = NoResult
    /\ IF "directURL" \notin attributes /\ (token = 0 \/ master_token = 0)
       THEN /\ error' = TRUE /\ ret' = "fail"
            /\ UNCHANGED <<op, stack, json, service>>
       ELSE Request("execute", "query")
    /\ UNCHANGED <<attributes, token, master_token, sql_text, raw_results,
                   chunk_rowcount, cur_row, chunk_downloader, put_get_response, fetched>>

ExecuteEnds(status) == ret' = status /\ op' = "idle"

\* The request failed, the answer is not JSON of a successful query, or the rowset is missing:
\* the statement keeps the result it had.
ExecuteFails ==
    /\ op = "execute" /\ stack = <<>>
    /\ \/ ret = "fail" /\ error' = error
       \/ ret = "ok" /\ (json.kind = "other" \/ "refused" \in Faults) /\ error' = TRUE
    /\ ExecuteEnds("fail")
    /\ UNCHANGED <<attributes, token, master_token, stack, json, service, stmt>>

ExecutePutGet ==
    /\ op = "execute" /\ stack = <<>> /\ ret = "ok" /\ json.kind = "final"
    /\ sql_text = "put"
    /\ put_get_response' = execs
    /\ ExecuteEnds("ok")
    /\ UNCHANGED <<attributes, token, master_token, stack, answers, service, sql_text,
                   raw_results, chunk_rowcount, cur_row, chunk_downloader, execs, called,
                   result, fetched>>

\* Mutant: the number of rows is taken from the total of the result.
ExecuteQueryTotal(r) ==
    /\ op = "execute" /\ stack = <<>> /\ ret = "ok" /\ json.kind = "final"
    /\ sql_text # "put" /\ (sql_text = "dml" => r = [rows |-> 1, chunks |-> 0])
    /\ raw_results' = Rows(execs, 1, r.rows) /\ chunk_rowcount' = r.rows + r.chunks
    /\ chunk_downloader' =
          IF r.chunks = 0 THEN chunk_downloader
          ELSE [exec |-> execs, next |-> r.rows + 1, last |-> r.rows + r.chunks, failed |-> FALSE]
    /\ error' = error
    /\ result' = [exec |-> execs, size |-> r.rows + r.chunks] /\ fetched' = <<>>
    /\ ExecuteEnds("ok")
    /\ UNCHANGED <<attributes, token, master_token, stack, json, service, sql_text,
                   cur_row, put_get_response, execs, called>>

\* The rowset replaces the one there was, the downloader too, but only if the result has
\* chunks.  Its creation can fail, with or without an error.
ExecuteQuery(r) ==
    /\ op = "execute" /\ stack = <<>> /\ ret = "ok" /\ json.kind = "final"
    /\ sql_text # "put" /\ (sql_text = "dml" => r = [rows |-> 1, chunks |-> 0])
    /\ raw_results' = Rows(execs, 1, r.rows) /\ chunk_rowcount' = r.rows
    /\ \/ /\ chunk_downloader' =
                IF r.chunks = 0 THEN chunk_downloader
                ELSE [exec |-> execs, next |-> r.rows + 1, last |-> r.rows + r.chunks,
                      failed |-> FALSE]
          /\ error' = error
          /\ result' = [exec |-> execs, size |-> r.rows + r.chunks] /\ fetched' = <<>>
          /\ ExecuteEnds("ok")
       \/ /\ r.chunks > 0 /\ "init" \in Faults
          /\ chunk_downloader' = NoDownloader
          /\ error' \in BOOLEAN
          /\ UNCHANGED <<result, fetched>>
          /\ ExecuteEnds("fail")
    /\ UNCHANGED <<attributes, token, master_token, stack, json, service, sql_text,
                   cur_row, put_get_response, execs, called>>

\* snowflake_fetch on a row: the first of `rows`, of which there are said to be n.
TakeRow(rows, n) ==
    /\ cur_row' = IF rows = <<>> THEN NoRow ELSE Head(rows)
    /\ raw_results' = IF rows = <<>> THEN rows ELSE Tail(rows)
    /\ chunk_rowcount' = n - 1
    /\ fetched' = Append(fetched, cur_row')
    /\ ret' = "ok"

\* Bound: chunk_rowcount of a statement without a result goes down from -1 with every fetch.
MinRowcount == -2

\* The row is there already.
FetchRow ==
    /\ ~ chunk_downloader.failed /\ chunk_rowcount # 0 /\ chunk_rowcount > MinRowcount
    /\ TakeRow(raw_results, chunk_rowcount)
    /\ error' = FALSE
    /\ UNCHANGED chunk_downloader

\* The next chunk is taken from the downloader.
FetchChunk ==
    /\ ~ chunk_downloader.failed /\ chunk_rowcount = 0
    /\ chunk_downloader.next <= chunk_downloader.last
    /\ TakeRow(Rows(chunk_downloader.exec, chunk_downloader.next, chunk_downloader.next), 1)
    /\ chunk_downloader' = [chunk_downloader EXCEPT !.next = @ + 1]
    /\ error' = FALSE

\* Neither rows nor chunks are left.
FetchEof ==
    /\ ~ chunk_downloader.failed /\ chunk_rowcount = 0
    /\ chunk_downloader.next > chunk_downloader.last
    /\ cur_row' = NoRow /\ ret' = "eof"
    /\ raw_results' = IF chunk_downloader = NoDownloader THEN raw_results ELSE <<>>
    /\ error' = FALSE
    /\ UNCHANGED <<chunk_rowcount, chunk_downloader, fetched>>

\* The download of a chunk not taken yet has failed.  Its thread's error was wiped when this
\* call began, unless it failed since.
FetchFails ==
    /\ chunk_downloader.next <= chunk_downloader.last /\ "download" \in Faults
    /\ chunk_downloader' = [chunk_downloader EXCEPT !.failed = TRUE]
    /\ cur_row' = NoRow /\ ret' = "fail"
    /\ error' \in BOOLEAN
    /\ UNCHANGED <<raw_results, chunk_rowcount, fetched>>

Fetch ==
    /\ op = "idle" /\ sql_text # "none"
    /\ FetchRow \/ FetchChunk \/ FetchEof \/ FetchFails
    /\ called' = "fetch"
    /\ UNCHANGED <<client, stack, json, service, sql_text, put_get_response, execs, result>>

\* snowflake_affected_rows takes the row of a DML statement's counts out of the rowset.
AffectedRows ==
    /\ op = "idle" /\ sql_text # "none"
    /\ error' = (raw_results = <<>>)
    /\ ret' = IF error' THEN "fail" ELSE "ok"
    /\ raw_results' = IF sql_text = "dml" /\ ~ error' THEN Tail(raw_results) ELSE raw_results
    /\ called' = "affected"
    /\ UNCHANGED <<client, stack, json, service, sql_text, chunk_rowcount, cur_row,
                   chunk_downloader, put_get_response, execs, result, fetched>>

Call ==
    \/ (\E A \in Settings : SetAttributes(A)) /\ UNCHANGED stmt
    \/ Connect /\ UNCHANGED stmt
    \/ Term /\ UNCHANGED stmt
    \/ PrepareNull
    \/ \E kind \in {"none", "select", "dml", "put"} : Prepare(kind)
    \/ Execute \/ Fetch \/ AffectedRows

Work ==
    \/ Step /\ UNCHANGED stmt
    \/ ExecuteFails \/ ExecutePutGet
    \/ \E r \in Results : ExecuteQuery(r)

Next == Call \/ Work \/ (Expire /\ UNCHANGED stmt)

Spec == Init /\ [][Next]_vars

\* The thread that makes a call goes on with it.
FairSpec == Spec /\ WF_vars(Work)

---------------------------------------------------------------------------
\* Renewals make progress: a request that is repeated carries a session token newer than the
\* one that was refused, at every depth of renewals, repetitions and polls with an old header
\* (curl_post_call, curl_get_call); and between calls the connection has the newest session
\* token it was ever sent, also one that came without a master token (set_tokens).
TokensMoveForward ==
    /\ \A i \in 1 .. (Len(stack) - 1) :
          stack[i + 1].pc = "repeated" =>
              /\ stack[i].header.kind = "session"
              /\ stack[i].header.pair > stack[i + 1].header.pair
    /\ op = "idle" => token = issued

\* The master token goes to the renewal URL and nowhere else, and a renewal carries nothing
\* else (curl_post_call, curl_get_call, renew_session).
MasterTokenOnlyRenews ==
    \A i \in 1 .. Len(stack) :
        stack[i].fn # "renew" => (stack[i].url = "renew" <=> stack[i].header.kind = "master")

\* When the request of a call returns successfully, what the caller reads is the answer to
\* its own request or to its polls, never that of a renewal, and not "expired" or "in
\* progress" (curl_post_call, renew_session, the ping-pong).
AnswerIsFinal ==
    (stack = <<>> /\ ret = "ok" /\ op \in {"connect", "execute", "term"}) =>
        /\ json.kind \notin {"expired", "progress", "lost", "badcode", "none"}
        /\ json.url \in CASE op = "connect" -> {"login"}
                          [] op = "term" -> {"delete"}
                          [] op = "execute" -> {"query", "result"}

ResultRows == Rows(result.exec, 1, result.size)

\* After an execution that succeeded, the rows fetched are the first rows of its result, and
\* SF_STATUS_EOF comes after the last one.
RowsOfResult ==
    (sql_text = "select" /\ result # NoResult) =>
        /\ Len(fetched) <= result.size
        /\ fetched = SubSeq(ResultRows, 1, Len(fetched))
        /\ (called = "fetch" /\ ret = "eof") => Len(fetched) = result.size

\* RowsOfResult for a statement without a downloader of an earlier execution: only that
\* mixes two results.
RowsOfOneResult ==
    chunk_downloader.exec \in {0, result.exec} => RowsOfResult

\* Every call returns: renewals and repetitions end, if the service forgets tokens, answers
\* "in progress" and answers with retryable codes a bounded number of times.
CallReturns == (op \in {"connect", "execute", "term"}) ~> (op \in {"idle", "closed"})

=============================================================================
