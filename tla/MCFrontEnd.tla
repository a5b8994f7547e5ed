----------------------------- MODULE MCFrontEnd -----------------------------
(* One or two sources, with or without a directory, that include headers     *)
(* one or two directories have; what d1 has is not what d2 has, and the      *)
(* header of d2 may include another.                                        *)
EXTENDS FrontEnd

MCHeaderIn == [d \in {"cwd", "d1", "d2"} |->
    CASE d = "cwd" -> {"g"} [] d = "d1" -> {"h", "g"} [] d = "d2" -> {"h", "k"}]

MCUnits == {<<"blank">>} \cup SeqOf({"correct", "recovered", "dropped"}, 2)

Always(x) == [f \in Found |-> x]
OnlyHeader(name) == [f \in Found |-> IF f = <<>> THEN name ELSE "end"]
NestedHeader == [f \in Found |-> CASE f = <<>> -> "h" [] f = <<"d2">> -> "k" [] OTHER -> "end"]

(* The units of a source are u if its first header is that of d1, or else v. *)
ByHeader(u, v) == [f \in Found |-> IF f # <<>> /\ f[1] = "d1" THEN u ELSE v]

Contents ==
    [includes : {Always("end")}, units : {Always(u) : u \in MCUnits}]
    \cup [includes : {OnlyHeader("h"), OnlyHeader("k"), NestedHeader},
          units : {ByHeader(<<"correct">>, <<"recovered", "correct">>),
                   ByHeader(<<"dropped", "correct">>, <<"correct">>),
                   ByHeader(<<"correct", "correct">>, <<"correct">>)}]
    \cup [includes : {OnlyHeader("g")}, units : {Always(<<"correct">>)}]

MCSource ==
    {[exists |-> TRUE, dir |-> d, includes |-> c.includes, units |-> c.units] :
        d \in {"d1", "d2", "none"}, c \in Contents}
    \cup {[exists |-> FALSE, dir |-> "none", includes |-> Always("end"), units |-> Always(<<>>)]}

MCCommands ==
    [verbose : BOOLEAN, dashI : {<<>>, <<"d2">>}, sources : SeqOf(MCSource, 2) \ {<<>>}]

OneErrorCommands ==
    [verbose : BOOLEAN, dashI : {<<>>},
     sources : {<<[exists |-> TRUE, dir |-> "d1", includes |-> Always("end"),
                   units |-> Always(<<"recovered", "correct">>)]>>}]
=============================================================================
