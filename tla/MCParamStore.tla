---------------------------- MODULE MCParamStore ----------------------------
(* Inputs for model checking ParamStore: eight names that collide, one of them with two values;
   three positions; an array of names and one that mixes the styles. *)
EXTENDS ParamStore

Name(n, v) == [idx |-> 0, name |-> n, value |-> v]
Position(i, v) == [idx |-> i, name |-> Nil, value |-> v]

MCInputs ==
    {Name(n, 1) : n \in 1 .. 8} \cup {Name(3, 2)}
        \cup {Position(i, v) : i \in 1 .. 3, v \in 1 .. 2}

MCArrays == {<<Name(4, 1), Name(3, 2)>>, <<Position(1, 1), Name(2, 1)>>,
             <<Name(2, 1), Position(1, 1), Name(5, 1)>>}

\* All names are in one tree.
MCIndex == [n \in 1 .. 8 |-> 0]

=============================================================================
