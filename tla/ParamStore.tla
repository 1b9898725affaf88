----------------------------- MODULE ParamStore -----------------------------
(***************************************************************************)
(* The bind parameters of a statement: snowflake_bind_param and            *)
(* snowflake_bind_param_array, the store they fill (paramstore.c: an array *)
(* list of positions, or a hash table of red-black trees of names), the    *)
(* list of names, and the part of _snowflake_execute_ex that reads them    *)
(* back.                                                                   *)
(*                                                                         *)
(* A bind input is [idx, name, value], with idx = 0 and name = Nil when    *)
(* they are not set.  The hash of a name is given by Index.                *)
(***************************************************************************)
EXTENDS Sequences, RedBlackTree

CONSTANTS
    Inputs,     \* bind inputs of the application
    Arrays,     \* arrays of bind inputs of the application
    Index,      \* sf_treemap_get_index: the bucket of every name
    Slots,      \* names the name list has room for at first (8)
    MaxLen      \* bound: parameters counted

ASSUME ParamAssumption ==
    /\ DOMAIN Index \subseteq Nat \ {0}
    /\ \A b \in Inputs : b.idx \in Nat /\ b.name \in DOMAIN Index \cup {Nil} /\ b.value \in Nat \ {0}
    /\ \A a \in Arrays : a \in Seq(Inputs) /\ a # <<>>
    /\ {Slots, MaxLen} \subseteq Nat

VARIABLES
    params,     \* the parameters of the statement, see NoParams
    status,     \* what the last call returned
    sent,       \* the bindings of the last execution
    bound       \* reference: the value last bound to every position and name since prepare

vars == <<params, status, sent, bound>>

Buckets == {Index[n] : n \in DOMAIN Index}
Empty == [x \in {} |-> 0]
Put(f, x, v) == [y \in DOMAIN f \cup {x} |-> IF y = x THEN v ELSE f[y]]

\* A reset statement: params is NULL.  `names` is what the name list holds, `fits` whether it
\* has been big enough, `len` params_len.
NoParams == [style |-> "none", tree_map |-> Empty, array_list |-> Empty,
             names |-> {}, fits |-> TRUE, len |-> 0]

\* _snowflake_get_param_style: the style of the first input is the style of the store.
ParamStyle(b) == IF b.name # Nil /\ b.idx = 0 THEN "named" ELSE "positional"

\* sf_param_store_init, with the name list.
StoreInit(style) ==
    [NoParams EXCEPT !.style = style,
                     !.tree_map = IF style = "named" THEN [i \in Buckets |-> EmptyTree] ELSE Empty]

\* Mutant: a name bound again keeps its first value.
TreeMapSetOnce(map, b) ==
    IF Search(map[Index[b.name]], b.name) # Nil THEN map
    ELSE [map EXCEPT ![Index[b.name]] = Insert(@, b.name, b.value)]

\* sf_treemap_set with a name.
TreeMapSet(map, b) == [map EXCEPT ![Index[b.name]] = Insert(@, b.name, b.value)]

\* sf_treemap_get.
TreeMapGet(map, n) == Search(map[Index[n]], n)

\* _snowflake_add_to_named_param_list: growing asks for 2 * len bytes, not names.
AddName(p, n) == [p EXCEPT !.names = @ \cup {n}, !.fits = @ /\ p.len < Slots, !.len = @ + 1]

\* One input: a name given again is replaced, a missing name is an error, a position counts
\* every time it is bound.
BindOne(p, b) ==
    CASE p.style = "positional" ->
            [ok |-> TRUE,
             params |-> [p EXCEPT !.array_list = Put(@, b.idx, b.value), !.len = @ + 1]]
      [] p.style = "named" /\ b.name = Nil -> [ok |-> FALSE, params |-> p]
      [] p.style = "named" /\ b.name # Nil ->
            LET q == [p EXCEPT !.tree_map = TreeMapSet(@, b)]
                known == TreeMapGet(p.tree_map, b.name) # Nil
            IN  [ok |-> TRUE, params |-> IF known THEN q ELSE AddName(q, b.name)]

\* The key under which the application knows a parameter.
Key(b) == IF b.name # Nil /\ b.idx = 0 THEN <<"named", b.name>> ELSE <<"positional", b.idx>>

\* The inputs of a in order, up to the first that fails.
BindAll(p, ref, a) ==
    LET after[n \in 0..Len(a)] ==
            IF n = 0 THEN [ok |-> TRUE, params |-> p, bound |-> ref]
            ELSE LET s == after[n - 1]
                     r == BindOne(s.params, a[n])
                 IN  IF s.ok /\ r.ok
                     THEN [ok |-> TRUE, params |-> r.params, bound |-> Put(s.bound, Key(a[n]), a[n].value)]
                     ELSE [s EXCEPT !.ok = FALSE]
    IN  after[Len(a)]

\* snowflake_bind_param_array, and snowflake_bind_param for an array of one input.
BindParams(a) ==
    /\ params.len + Len(a) <= MaxLen
    /\ LET p == IF params.style = "none" THEN StoreInit(ParamStyle(a[1])) ELSE params
           r == BindAll(p, bound, a)
       IN  /\ params' = r.params /\ bound' = r.bound
           /\ status' = IF r.ok THEN "success" ELSE "other"
    /\ sent' = Empty

\* The bindings _snowflake_execute_ex sends: the positions 1 .. params_len that are bound, or
\* the names of the list that are found.
Bindings(p) ==
    LET at == {i \in 1 .. p.len : i \in DOMAIN p.array_list}
    IN  IF p.style = "positional" THEN [k \in {<<"positional", i>> : i \in at} |-> p.array_list[k[2]]]
        ELSE [k \in {<<"named", n>> : n \in p.names} |-> TreeMapGet(p.tree_map, k[2])]

\* A list that was too small holds no more than some of the names (undefined behaviour).
Execute ==
    /\ \E lost \in IF params.fits THEN {{}} ELSE SUBSET params.names :
          sent' = Bindings([params EXCEPT !.names = @ \ lost])
    /\ status' = "executed"
    /\ UNCHANGED <<params, bound>>

\* snowflake_prepare and snowflake_stmt_term free the store and the list.
Reset ==
    /\ params' = NoParams /\ bound' = Empty /\ sent' = Empty /\ status' = "success"

Init == params = NoParams /\ bound = Empty /\ sent = Empty /\ status = "success"

Next ==
    \/ \E b \in Inputs : BindParams(<<b>>)
    \/ \E a \in Arrays : BindParams(a)
    \/ Execute
    \/ Reset

Spec == Init /\ [][Next]_vars

---------------------------------------------------------------------------
\* Every tree of the store is a red-black tree: ordered, with no red node under a red one, as
\* many black nodes on every way down, and parents that match (rbtree_insert and its rotations).
TreesAreRedBlack ==
    params.style = "named" => \A i \in Buckets : IsRedBlack(params.tree_map[i])

\* An execution sends the value last bound to every parameter and nothing else, if all were
\* bound in the style of the first, the positions leave no gap and the name list was big
\* enough (snowflake_bind_param, sf_param_store_set and _get, _snowflake_execute_ex).
SentIsBound ==
    LET keys == DOMAIN bound
        gapless == \A k \in keys : k[1] = "positional" => \A i \in 1 .. k[2] : <<"positional", i>> \in keys
        oneStyle == \A k \in keys : k[1] = params.style /\ k # <<"positional", 0>>
    IN  (status = "executed" /\ oneStyle /\ gapless /\ params.fits) => sent = bound

=============================================================================
