---------------------------- MODULE MCStatement ----------------------------
(* Results for model checking Statement: empty, one row, and one row and two chunks; and    *)
(* attributes that make a connection by login or by a direct URL, or lack one to make it.  *)
EXTENDS Statement

MCResults ==
    {[rows |-> 0, chunks |-> 0], [rows |-> 1, chunks |-> 0], [rows |-> 1, chunks |-> 2]}

MCSettings ==
    {{"account", "user", "password"}, {"account", "password"},
     {"directURL", "directURL_param", "direct_query_token"}, {"directURL", "directURL_param"}}

=============================================================================
