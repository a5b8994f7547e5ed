----------------------------- MODULE MCKeywords -----------------------------
(***************************************************************************)
(* Every statement of StatementForms, with any one of its names spelled     *)
(* like any keyword, and any two of them like the keywords of Few.          *)
(***************************************************************************)
EXTENDS KeywordPrepass

CONSTANT Few      \* keywords that mean something behind another one

MaxNames == 7

Ids(k) == SubSeq(<<"id", "id", "id", "id", "id", "id", "id">>, 1, k)

AllSpellings ==
    [k \in 0 .. MaxNames |->
        {Ids(k)}
        \cup {[Ids(k) EXCEPT ![i] = v] : i \in 1 .. k, v \in Keywords}
        \cup {[Ids(k) EXCEPT ![i] = v, ![j] = w] :
                i \in 1 .. k, j \in 1 .. k, v \in Few, w \in Few}]

MCSpellings(k) == AllSpellings[k]
=============================================================================
