------------------------------ MODULE Session ------------------------------
(***************************************************************************)
(* A connection to the service: the tokens of its session, the requests of *)
(* src/lib/connection.c, and snowflake_connect and snowflake_term of       *)
(* src/lib/client.c, which make requests.                                  *)
(*                                                                         *)
(* request, curl_post_call, curl_get_call and renew_session call each      *)
(* other: the activations of one call of the application are a stack, each *)
(* with what it asks for (url), the authorization it sends (header) and    *)
(* how far it is (pc).  An action is one activation's work between two     *)
(* calls.  http_perform is part of the action of its caller; what it       *)
(* receives goes to json.  Failures of curl and of memory that set no      *)
(* error are "silent", those that set one are "failed".  error says        *)
(* whether the structure of the call, SF_CONNECT or SF_STMT, has one.      *)
(*                                                                         *)
(* The service is external: it issues pairs of tokens, numbered from 1,    *)
(* forgets them when it likes, answers SESSION_EXPIRE_CODE exactly to      *)
(* requests whose session token it has forgotten, and may answer that a    *)
(* query is still in progress.                                             *)
(***************************************************************************)
EXTENDS Integers, Sequences

CONSTANTS
    MaxExpired,     \* bound: tokens the service forgets
    MaxPolls,       \* bound: answers that a query is in progress
    MaxOutages,     \* bound: answers with a retryable HTTP code
    Faults,         \* what may go wrong: see Kinds, PerformFails, ConnectReturns
    Settings        \* sets of attributes that the application sets together

VARIABLES
    attributes,     \* the attributes of the connection that are not empty
    token,          \* number of sf->token, 0 when it is NULL
    master_token,   \* number of sf->master_token, 0 when it is NULL
    op,             \* "idle", "connect", "execute", "term", or "closed"
    stack,          \* activations, the running one first
    ret,            \* what the last activation returned: "ok", "fail"; "none": nothing yet
    json,           \* the last answer received
    error,          \* an error is set
    sessions,       \* service: numbers of the session tokens it accepts (0: the direct one)
    masters,        \* service: numbers of the master tokens it accepts
    issued,         \* service: pairs issued so far, in answers that have arrived
    expired,        \* service: tokens forgotten so far
    polls,          \* service: answers "in progress" to this call
    outages         \* service: retryable answers to this call

client == <<attributes, token, master_token, op>>
answers == <<json, error>>
service == <<sessions, masters, issued, expired, polls, outages>>
svars == <<attributes, token, master_token, op, stack, ret, json, error,
           sessions, masters, issued, expired, polls, outages>>

NoAnswer == [url |-> "none", kind |-> "none", pair |-> 0]

\* The attributes that connections are checked for.
Attributes ==
    {"account", "user", "password", "directURL", "directURL_param", "direct_query_token"}

\* snowflake_init
SessionInit ==
    /\ attributes = {} /\ token = 0 /\ master_token = 0 /\ op = "idle"
    /\ stack = <<>> /\ ret = "none" /\ json = NoAnswer /\ error = FALSE
    /\ sessions = {0} /\ masters = {} /\ issued = 0 /\ expired = 0 /\ polls = 0 /\ outages = 0

---------------------------------------------------------------------------
(* Calls and returns. *)

Frame(fn, url, header, pc) == [fn |-> fn, url |-> url, header |-> header, pc |-> pc]

Top == Head(stack)

Running(fns, pc) == stack # <<>> /\ ret = "none" /\ Top.fn \in fns /\ Top.pc = pc

\* The activation below the one that has just returned.
Resumed(fns, pc) == stack # <<>> /\ ret # "none" /\ Top.fn \in fns /\ Top.pc = pc

\* The running activation calls `callee` and waits for it at pc.
CallFrom(pc, callee) ==
    stack' = <<callee, [Top EXCEPT !.pc = pc]>> \o Tail(stack) /\ ret' = "none"

Return(result) == stack' = Tail(stack) /\ ret' = result

SessionToken == [kind |-> "session", pair |-> token]

MasterToken == [kind |-> "master", pair |-> master_token]

\* request without a header: the session token, else the direct query token, else none.
RequestHeader ==
    CASE token # 0 -> SessionToken
      [] token = 0 /\ "direct_query_token" \in attributes -> [kind |-> "direct", pair |-> 0]
      [] OTHER -> [kind |-> "none", pair |-> 0]

\* A call of the application clears the error and makes a request.
Request(name, url) ==
    /\ op' = name
    /\ stack' = <<Frame("post", url, RequestHeader, "perform")>>
    /\ ret' = "none" /\ json' = NoAnswer /\ error' = FALSE
    /\ polls' = 0 /\ outages' = 0
    /\ UNCHANGED <<sessions, masters, issued, expired>>

---------------------------------------------------------------------------
(* The service. *)

Accepted(header) ==
    /\ header.kind \in {"session", "direct"}
    /\ header.pair \in sessions

\* What the service can answer with HTTP code 200.  "final": no query code; "other": the code
\* of a failed query; "badcode": no code, or not a string; "lost": in progress, with no
\* getResultUrl; "pair", "half": two tokens, or no master token; "refused": not successful,
\* or without data or session token.
Kinds(f) ==
    CASE f.url = "login" -> {"pair"} \cup (Faults \cap {"half", "refused", "badcode"})
      [] f.url = "renew" ->
            IF f.header.kind = "master" /\ f.header.pair \in masters
            THEN {"pair"} \cup (Faults \cap {"half", "refused", "badcode"})
            ELSE {"refused"}
      [] ~ Accepted(f.header) /\ f.url \notin {"login", "renew"} -> {"expired"}
      [] Accepted(f.header) /\ f.url = "delete" -> {"final"}
      [] OTHER -> {"final"} \cup (Faults \cap {"other", "badcode"})
                      \cup (IF polls < MaxPolls THEN {"progress"} \cup (Faults \cap {"lost"})
                                                ELSE {})

InProgress(kind) == kind \in {"progress", "lost"}

\* The service answers k: it remembers the tokens it issues.
Answers(f, k) ==
    /\ json' = [url |-> f.url, kind |-> k, pair |-> IF k \in {"pair", "half"} THEN issued + 1 ELSE 0]
    /\ issued' = json'.pair + (IF json'.pair = 0 THEN issued ELSE 0)
    /\ sessions' = sessions \cup (IF json'.pair = 0 THEN {} ELSE {json'.pair})
    /\ masters' = masters \cup (IF k = "pair" THEN {json'.pair} ELSE {})
    /\ polls' = polls + (IF InProgress(k) THEN 1 ELSE 0)
    /\ UNCHANGED <<expired, outages>>

\* At any time the service forgets a token.
Expire ==
    /\ expired < MaxExpired /\ expired' = expired + 1
    /\ \E p \in sessions \cup masters :
          \/ p \in sessions /\ sessions' = sessions \ {p} /\ masters' = masters
          \/ p \in masters /\ masters' = masters \ {p} /\ sessions' = sessions
    /\ UNCHANGED <<client, stack, ret, answers, issued, polls, outages>>

---------------------------------------------------------------------------
(* curl_post_call and curl_get_call. *)

\* A retryable HTTP code: http_perform sends the same request again, at once and without limit.
Retry ==
    /\ Running({"post", "get"}, "perform")
    /\ outages < MaxOutages /\ outages' = outages + 1
    /\ UNCHANGED <<client, stack, ret, answers, sessions, masters, issued, expired, polls>>

\* No answer: curl, the header or the URL fails, an unretryable code, or no JSON.
PerformFails ==
    /\ Running({"post", "get"}, "perform")
    /\ \E k \in Faults \cap {"silent", "failed"} : error' = (error \/ k = "failed")
    /\ Return("fail")
    /\ UNCHANGED <<client, json, service>>

\* An answer: it is final, or an error, or the session must be renewed, or (POST) polled for.
Perform ==
    /\ Running({"post", "get"}, "perform")
    /\ \E k \in Kinds(Top) :
          /\ Answers(Top, k)
          /\ error' = (error \/ k = "badcode")
          /\ CASE k = "badcode" -> Return("fail")
               [] k = "expired" ->
                     CallFrom("renewed", Frame("renew", "none", MasterToken, "start"))
               [] InProgress(k) /\ Top.fn = "post" ->
                     stack' = <<[Top EXCEPT !.pc = "poll"]>> \o Tail(stack) /\ ret' = ret
               [] OTHER -> Return("ok")
    /\ UNCHANGED client

\* Mutant: the renewal's answer is returned, the request is not repeated.
RenewedNoRepeat ==
    /\ Resumed({"post", "get"}, "renewed")
    /\ Return(ret)
    /\ UNCHANGED <<client, answers, service>>

\* Mutant: the request is repeated with the header it had, as the polls of one POST are.
RenewedOldHeader ==
    /\ Resumed({"post", "get"}, "renewed")
    /\ IF ret = "ok" THEN CallFrom("repeated", Frame(Top.fn, Top.url, Top.header, "perform"))
                     ELSE Return("fail")
    /\ UNCHANGED <<client, answers, service>>

\* Mutant: the request is repeated with the master token.
RenewedMaster ==
    /\ Resumed({"post", "get"}, "renewed")
    /\ IF ret = "ok" THEN CallFrom("repeated", Frame(Top.fn, Top.url, MasterToken, "perform"))
                     ELSE Return("fail")
    /\ UNCHANGED <<client, answers, service>>

\* Mutant: a loop that repeats the request also when the renewal has failed.
RenewedLoops ==
    /\ Resumed({"post", "get"}, "renewed")
    /\ stack' = <<Frame(Top.fn, Top.url, SessionToken, "perform")>> \o Tail(stack)
    /\ ret' = "none"
    /\ UNCHANGED <<client, answers, service>>

\* The session has been renewed: the request is repeated with the new token.
Renewed ==
    /\ Resumed({"post", "get"}, "renewed")
    /\ IF ret = "ok" THEN CallFrom("repeated", Frame(Top.fn, Top.url, SessionToken, "perform"))
                     ELSE Return("fail")
    /\ UNCHANGED <<client, answers, service>>

\* The repeated request has returned; its own call has polled if that was needed.
Repeated ==
    /\ Resumed({"post", "get"}, "repeated")
    /\ Return(ret)
    /\ UNCHANGED <<client, answers, service>>

\* One round of the ping-pong: GET the result URL with the header of the POST, which stays
\* the same after a renewal.
Poll ==
    /\ Running({"post"}, "poll")
    /\ IF json.kind = "lost"
       THEN error' = TRUE /\ Return("fail")
       ELSE error' = error /\ CallFrom("polled", Frame("get", "result", Top.header, "perform"))
    /\ UNCHANGED <<client, json, service>>

Polled ==
    /\ Resumed({"post"}, "polled")
    /\ IF ret = "ok" /\ InProgress(json.kind)
       THEN stack' = <<[Top EXCEPT !.pc = "poll"]>> \o Tail(stack) /\ ret' = "none"
       ELSE Return(ret)
    /\ UNCHANGED <<client, answers, service>>

---------------------------------------------------------------------------
(* renew_session. *)

RenewSession ==
    /\ Running({"renew"}, "start")
    /\ IF "directURL" \in attributes \/ master_token = 0
       THEN error' = TRUE /\ Return("fail")
       ELSE error' = error /\ CallFrom("posted", Frame("post", "renew", MasterToken, "perform"))
    /\ UNCHANGED <<client, json, service>>

\* set_tokens: the session token is replaced first, and stays replaced without the other.
SetTokens ==
    /\ token' = IF json.kind \in {"pair", "half"} THEN json.pair ELSE token
    /\ master_token' = IF json.kind = "pair" THEN json.pair ELSE master_token

RenewReturns ==
    /\ Resumed({"renew"}, "posted")
    /\ IF ret = "ok" THEN SetTokens ELSE UNCHANGED <<token, master_token>>
    /\ error' = (error \/ (ret = "ok" /\ json.kind # "pair"))
    /\ Return(IF ret = "ok" /\ json.kind = "pair" THEN "ok" ELSE "fail")
    /\ UNCHANGED <<attributes, op, json, service>>

---------------------------------------------------------------------------
(* snowflake_set_attribute, snowflake_connect and snowflake_term. *)

\* snowflake_set_attribute, once for each attribute of A, before there is a session.
SetAttributes(A) ==
    /\ op = "idle" /\ token = 0 /\ master_token = 0
    /\ attributes' = attributes \cup A
    /\ error' = FALSE /\ ret' = "ok"
    /\ UNCHANGED <<token, master_token, op, stack, json, service>>

\* The calls of snowflake_connect that make no request: there are tokens already; there is a
\* direct URL, which needs its other two attributes, and fails without an error; or an
\* attribute is missing, and the password is wiped all the same.
ConnectNoRequest ==
    /\ \/ /\ token # 0 \/ master_token # 0
          /\ error' = TRUE /\ ret' = "fail" /\ attributes' = attributes
       \/ /\ token = 0 /\ master_token = 0 /\ "directURL" \in attributes
          /\ error' = FALSE /\ attributes' = attributes
          /\ ret' = IF {"directURL_param", "direct_query_token"} \subseteq attributes
                    THEN "ok" ELSE "fail"
       \/ /\ token = 0 /\ master_token = 0 /\ "directURL" \notin attributes
          /\ ~ {"account", "user", "password"} \subseteq attributes
          /\ error' = TRUE /\ ret' = "fail" /\ attributes' = attributes \ {"password"}
    /\ UNCHANGED <<op, stack, json, service>>

\* snowflake_connect up to its request.
Connect ==
    /\ op = "idle"
    /\ \/ ConnectNoRequest
       \/ /\ token = 0 /\ master_token = 0 /\ "directURL" \notin attributes
          /\ {"account", "user", "password"} \subseteq attributes
          /\ Request("connect", "login") /\ UNCHANGED attributes
    /\ UNCHANGED <<token, master_token>>

\* The login answer: tokens, then the session's objects, which may not be the ones asked for.
ConnectReturns ==
    /\ op = "connect" /\ stack = <<>>
    /\ IF ret = "ok" THEN SetTokens ELSE UNCHANGED <<token, master_token>>
    /\ \E ok \in {ret = "ok" /\ json.kind = "pair"} \cup (IF "objects" \in Faults THEN {FALSE} ELSE {}) :
          /\ error' = ~ ok
          /\ ret' = IF ok THEN "ok" ELSE "fail"
    /\ op' = "idle" /\ attributes' = attributes \ {"password"}
    /\ UNCHANGED <<stack, json, service>>

\* snowflake_term deletes the session if there is one ...
Term ==
    /\ op = "idle"
    /\ IF token # 0 /\ master_token # 0
       THEN Request("term", "delete") /\ UNCHANGED <<token, master_token, attributes>>
       ELSE /\ op' = "closed" /\ token' = 0 /\ master_token' = 0 /\ attributes' = {}
            /\ UNCHANGED <<stack, ret, answers, service>>

\* ... and frees the connection whatever the answer.
TermReturns ==
    /\ op = "term" /\ stack = <<>>
    /\ op' = "closed" /\ token' = 0 /\ master_token' = 0 /\ attributes' = {}
    /\ UNCHANGED <<stack, ret, answers, service>>

\* The steps of a call in progress.
Step ==
    \/ Retry \/ PerformFails \/ Perform \/ Renewed \/ Repeated \/ Poll \/ Polled
    \/ RenewSession \/ RenewReturns \/ ConnectReturns \/ TermReturns

=============================================================================
