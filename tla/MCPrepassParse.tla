--------------------------- MODULE MCPrepassParse ---------------------------
(* Two labels, one of them with two spellings, every kind of line and the    *)
(* include tokens that can stand in front of a statement; legal programs of  *)
(* these lines, and any of the lines.                                       *)
EXTENDS PrepassParse

MCLabelText == {"10", "010", "20"}
MCValue == [l \in MCLabelText |-> IF l = "20" THEN 20 ELSE 10]
MCNoLabel == "none"

DoLine(kind, l)    == [pre |-> <<>>, label |-> MCNoLabel, kind |-> kind, target |-> l]
Statement(kind, l) == [pre |-> <<>>, label |-> l, kind |-> kind, target |-> MCNoLabel]

MCLines ==
    {DoLine("DO_CONTROL", l) : l \in MCLabelText}
    \cup {DoLine("DO_BLOCK", MCNoLabel)}
    \cup {Statement(kind, l) : kind \in {"ACTION", "END_DO"},
                               l \in MCLabelText \cup {MCNoLabel}}
    \cup {Statement(kind, "20") : kind \in {"ASSIGN", "GOTO", "OTHER"}}
    \cup {[Statement("ACTION", MCNoLabel) EXCEPT !.pre = <<"EOF", "INC">>]}

(* Lines the prepass does not know, in legal places.                        *)
GapLines ==
    {DoLine("DO_BARE", "10")}
    \cup {Statement(kind, "10") : kind \in {"ALLOC_TYPED", "UNLISTED"}}
    \cup {[Statement("ACTION", "20") EXCEPT !.pre = <<"INC">>],
          [DoLine("DO_CONTROL", "20") EXCEPT !.pre = <<"INC", "INC">>]}

AllLines == MCLines \cup GapLines

BareDoLines ==
    {DoLine("DO_CONTROL", "10"), DoLine("DO_BARE", "10"),
     Statement("ACTION", "10"), Statement("ACTION", MCNoLabel)}
=============================================================================
