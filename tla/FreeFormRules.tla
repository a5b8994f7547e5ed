---------------------------- MODULE FreeFormRules ----------------------------
(***************************************************************************)
(* Free source form as the Fortran standard has it: the statements and the  *)
(* comments of a text.  A scanner reads the text once; blanks are kept in   *)
(* character constants only.                                                *)
(***************************************************************************)
EXTENDS Integers, Sequences

NameChar == {"a", "c", "h", "0", "1"}

(* What the next character belongs to: a line that begins a statement or    *)
(* continues one or a character constant, a statement, a constant, the      *)
(* blanks behind an '&', or a comment, behind which "after" goes on.        *)
(* "odd" is a legal text with one of the forms FortranStream gets wrong.    *)
Start ==
    [context |-> "line", after |-> "line", statement |-> <<>>, comment |-> <<>>,
     statements |-> <<>>, comments |-> <<>>, skipped |-> FALSE, joins |-> 0,
     legal |-> TRUE, odd |-> FALSE]

BlankTo(t, k, ends) ==
    \E m \in k..Len(t) : t[m] \in ends /\ \A j \in k..(m - 1) : t[j] = " "

OnLine(t, k, c) == \E m \in k..Len(t) : t[m] = c /\ \A j \in k..m : t[j] # "nl"

(* At k is the character of a Hollerith constant of one.                    *)
Hollerith(t, k) ==
    /\ k > 3 /\ t[k - 1] = "h" /\ t[k - 2] = "1"
    /\ t[k - 3] \notin NameChar \cup {"'", "nl"}

(* More than one digit, which may also be the end of a name; or a constant   *)
(* at or near the beginning of its line, or behind another one.  A constant *)
(* that a continuation splits is odd as well.                               *)
OddHollerith(t, k) ==
    /\ k > 2 /\ t[k - 1] = "h" /\ t[k - 2] = "1"
    /\ \/ k = 3 \/ t[k - 3] \in {"1", "&", "nl"}
       \/ Hollerith(t, k) /\ (k = 4 \/ t[k - 4] \in {"nl", "&", "h"})

Take(s, c) == [s EXCEPT !.context = "statement", !.statement = Append(@, c), !.skipped = FALSE]
Illegal(s) == [s EXCEPT !.legal = FALSE]
OddIf(s, is) == [s EXCEPT !.odd = @ \/ is]
Comment(s, after) ==
    [s EXCEPT !.context = "comment", !.after = after, !.comment = <<"!">>, !.skipped = TRUE]
EndStatement(s) ==
    [s EXCEPT !.context = "line", !.statements = Append(@, s.statement), !.statement = <<>>]
Join(s, after) == [s EXCEPT !.context = "join", !.after = after, !.joins = @ + 1]

InStatement(scanned, t, k) ==
    LET c == t[k]
        s == OddIf(scanned, OddHollerith(t, k))
    IN  IF Hollerith(t, k) THEN IF c = "nl" THEN Illegal(s) ELSE Take(s, c)
        ELSE IF c = " " THEN s
        ELSE IF c = "nl" THEN EndStatement(s)
        ELSE IF c = "!" THEN Comment(EndStatement(s), "line")
        ELSE IF c = "'" THEN [Take(s, c) EXCEPT !.context = "constant"]
        ELSE IF c = "&" /\ BlankTo(t, k + 1, {"nl", "!"}) THEN
            Join(OddIf(s, s.statement # <<>> /\ s.statement[Len(s.statement)] \in {"1", "h"}), "continued")
        ELSE IF c \in {"&", "#"} THEN Illegal(s)
        ELSE Take(s, c)

InConstant(s, t, k) ==
    LET c == t[k]
    IN  IF c = "nl" THEN Illegal(s)
        ELSE IF c = "'" THEN Take(s, c)
        ELSE IF c = "&" /\ BlankTo(t, k + 1, {"nl"}) THEN Join(s, "continuedConstant")
        ELSE OddIf([Take(s, c) EXCEPT !.context = "constant"], c = "&" /\ t[k + 1] = "&")

(* The first character of a line that is not blank.  A line must not have   *)
(* an '&' only.                                                             *)
InLine(s, t, k) ==
    LET c == t[k]
        inConstant == s.context = "continuedConstant"
    IN  IF c = " " THEN s
        ELSE IF c = "nl" THEN OddIf([s EXCEPT !.skipped = TRUE], inConstant)
        ELSE IF c = "!" THEN OddIf(Comment(s, s.context), inConstant)
        ELSE IF c = "#" /\ (k = 1 \/ t[k - 1] = "nl") THEN
            OddIf([Comment(s, s.context) EXCEPT !.comment = <<c>>, !.skipped = FALSE],
                  s.skipped \/ inConstant)
        ELSE IF s.context = "line" THEN
            IF c \in {"&", "'"} THEN Illegal(s) ELSE InStatement([s EXCEPT !.context = "statement"], t, k)
        ELSE IF c = "&" THEN
            IF BlankTo(t, k + 1, {"nl", "!"}) /\ ~inConstant THEN Illegal(s)
            ELSE OddIf([s EXCEPT !.context = IF inConstant THEN "constant" ELSE "statement",
                                 !.skipped = FALSE],
                       \/ t[k + 1] = "&"
                       \/ t[k + 1] = "'" /\ \E q \in {"&", "!"} : OnLine(t, k + 2, q)
                       \/ inConstant /\ t[k + 1] = "'" /\ OnLine(t, k + 2, "'"))
        ELSE IF inConstant THEN Illegal(s)
        ELSE InStatement([s EXCEPT !.context = "statement"], t, k)

Step(s, t, k) ==
    IF s.context \in {"line", "continued", "continuedConstant"} THEN InLine(s, t, k)
    ELSE IF s.context = "statement" THEN InStatement(s, t, k)
    ELSE IF s.context = "constant" THEN InConstant(s, t, k)
    ELSE IF t[k] = "nl" THEN
        [s EXCEPT !.context = s.after, !.comment = <<>>,
                  !.comments = IF s.context = "comment" THEN Append(@, s.comment) ELSE @]
    ELSE IF s.context = "join" THEN (IF t[k] = "!" THEN Comment(s, s.after) ELSE s)
    ELSE [s EXCEPT !.comment = Append(@, t[k])]

Read(t) ==
    LET scan[k \in 0..Len(t)] == IF k = 0 THEN Start ELSE Step(scan[k - 1], t, k)
        last == scan[Len(t)]
    IN  IF last.context = "line" THEN last
        ELSE IF last.context = "statement" THEN EndStatement(last)
        ELSE IF last.context = "comment" /\ last.after = "line"
        THEN [last EXCEPT !.comments = Append(@, last.comment)]
        ELSE Illegal(last)
=============================================================================
