------------------------------ MODULE SourceForms ------------------------------
(***************************************************************************)
(* FortranStream as a whole: the form is that of the file's name, and each  *)
(* conversion is judged by the rules of its form.                           *)
(***************************************************************************)
EXTENDS FreeFormStream, FixedFormStream, SequencesExt

Free == INSTANCE FreeFormRules
Fixed == INSTANCE FixedFormRules

Next == FreeNext \/ FixedNext

Spec == Init /\ [][Next]_vars

(* The constructor of FortranStream runs to its end.                        *)
FairSpec == Spec /\ WF_vars(Next)

-----------------------------------------------------------------------------
Terminated == n > 0 /\ text[n] \in {"nl", "cr"}

(* The padding hides a look-ahead beyond the buffer unless a file in fixed   *)
(* form has two to five line ends CR LF.                                    *)
PaddingShort ==
    /\ sourceForm = "fixed"
    /\ n - Len(Lines(text)) \in 2..5

(* Digits in front of an H, be they part of a name, make a number that       *)
(* Integer.parseInt does not take.                                          *)
LargeNumberIn(t) ==
    \E h \in 0..n :
        /\ t[h] = "h"
        /\ \E k \in 0..h :
              /\ \A d \in k..(h - 1) : t[d] \in Digit
              /\ Number([d \in 1..(h - k) |-> t[k + d - 1]]) > IntMax

Convertible == Terminated /\ ~PaddingShort /\ ~LargeNumberIn(Padded(text))

(* A file that ends with a line end is converted without an exception, and   *)
(* to the end, if its padding is long enough and its numbers are not too    *)
(* large.                                                                   *)
NoCrash == pc = "crash" => ~Convertible
ConversionEnds == Convertible ~> pc = "done"

(* What the lexer makes of the new buffer: blanks are hidden, a comment and a *)
(* preprocessor line go from their sign to the end of the line.             *)
NothingRead == [statement |-> <<>>, inConstant |-> FALSE, comment |-> <<>>,
                statements |-> <<>>, comments |-> <<>>]

Flushed(s) ==
    [s EXCEPT !.statement = <<>>, !.comment = <<>>,
              !.statements = IF s.statement = <<>> THEN @ ELSE Append(@, s.statement),
              !.comments = IF s.comment = <<>> THEN @ ELSE Append(@, s.comment)]

Lexed(s, k) ==
    LET c == newData[k]
        statementAnd == [s EXCEPT !.statement = Append(@, IF c = "tab" THEN " " ELSE c)]
    IN  IF s.inConstant THEN [statementAnd EXCEPT !.inConstant = c # "'"]
        ELSE IF c = "nl" THEN Flushed(s)
        ELSE IF s.comment # <<>> \/ (c \in {"!", "#"} /\ ~Free!Hollerith(newData, k))
        THEN [s EXCEPT !.comment = Append(@, c)]
        ELSE IF c \in {" ", "tab"} /\ ~Free!Hollerith(newData, k) THEN s
        ELSE [statementAnd EXCEPT !.inConstant = c = "'" /\ ~Free!Hollerith(newData, k)]

Result == Flushed(FoldLeft(Lexed, NothingRead, [k \in DOMAIN newData |-> k]))

Source == IF sourceForm = "free" THEN Free!Read(Lines(text)) ELSE Fixed!ReadFixed(Lines(text))

Joined(lines) == SelectSeq(FlattenSeq(lines), LAMBDA c : c # " ")

(* The lexer sees the statements of the file, each on a line of its own, and *)
(* its comments in their order; in fixed form those between the lines of a  *)
(* statement may become one.                                                *)
Kept ==
    /\ Result.statements = Source.statements
    /\ IF sourceForm = "free" THEN Result.comments = Source.comments
       ELSE Joined(Result.comments) = Joined(Source.comments)

(* Legal source is converted to what the standard says it means,   *)
(* but for the forms that odd names.                                        *)
StatementsKept ==
    pc = "done" /\ Terminated /\ Source.legal /\ ~Source.odd => Kept

(* "All comments in the middle of continuation lines are moved to a location  *)
(* immediately AFTER the continued line": the next statement is none of them. *)
CommentsMovedAfter ==
    pc = "done" /\ Terminated /\ Source.legal => Result.statements = Source.statements
=============================================================================
