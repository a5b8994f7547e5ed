---------------------------- MODULE FortranStream ----------------------------
(***************************************************************************)
(* FortranStream, the characters the lexer reads: a file in free or in fixed *)
(* source form is copied into a new buffer of the same size, continued      *)
(* lines are joined, and the comments and preprocessor lines met on the way *)
(* are put behind the statement.  This module has what both forms share.    *)
(*                                                                         *)
(* Characters are abstracted to those the code tells apart: "a" for what a  *)
(* name has, "c" for the C or * that begins a comment in column 1, "h" for  *)
(* the H of a Hollerith constant, the digits "0" and "1", one kind of       *)
(* quote.  One action is one round of a loop of the code.                   *)
(***************************************************************************)
EXTENDS Integers, Sequences, FiniteSetsExt

CONSTANTS
    FreeTexts,      \* the contents a file in free source form may have
    FixedTexts,     \* ... and one in fixed source form
    IntMax          \* the largest number Integer.parseInt takes

Letter == {"a", "c", "h"}
Digit == {"0", "1"}
Char == Letter \cup Digit \cup {" ", "tab", "!", "&", "'", "#", "nl", "cr"}

ASSUME StreamAssumption ==
    FreeTexts \cup FixedTexts \subseteq Seq(Char) /\ IntMax \in Nat

VARIABLES
    text,           \* the file
    sourceForm,
    data,           \* the buffer with two more characters, from 0
    i,              \* the character of data that is processed
    newData,
    comments,       \* lines to put behind the statement
    continuation,   \* free form: the line is continued
    col,            \* fixed form: the column, 7 for all behind 6
    pc              \* the loop or branch the code is in

source == <<text, sourceForm>>

vars == <<text, sourceForm, data, i, newData, comments, continuation, col, pc>>

n == Len(text)

(* CR LF and CR become LF: the lines of the first k characters.             *)
Lines(t) ==
    LET upTo[k \in 0..Len(t)] ==
            IF k = 0 THEN <<>>
            ELSE IF t[k] = "nl" /\ k > 1 /\ t[k - 1] = "cr" THEN upTo[k - 1]
            ELSE Append(upTo[k - 1], IF t[k] = "cr" THEN "nl" ELSE t[k])
    IN  upTo[Len(t)]

(* n stays the size of the file, whatever is left of it.                    *)
Padded(t) ==
    LET lines == Lines(t)
    IN  [k \in 0..(Len(t) + 1) |->
            IF k < Len(lines) THEN lines[k + 1]
            ELSE IF k < Len(lines) + 2 THEN "nl" ELSE " "]

FirstRound == [free |-> "preprocess", fixed |-> "column1"]

Init ==
    /\ \/ sourceForm = "free" /\ text \in FreeTexts
       \/ sourceForm = "fixed" /\ text \in FixedTexts
    /\ data = Padded(text)
    /\ i = 0
    /\ newData = <<>>
    /\ comments = <<>>
    /\ continuation = FALSE
    /\ col = 1
    /\ pc = IF n = 0 THEN "done" ELSE FirstRound[sourceForm]

(* The characters from k up to, and without, m.                             *)
Span(k, m) == [d \in 1..(m - k) |-> data[k + d - 1]]

LineEnd(k) == Min({m \in k..n : m = n \/ data[m] = "nl"})
lineEndNotPassed(k) == LineEnd(k)
NextLine(k) == IF LineEnd(k) < n THEN LineEnd(k) + 1 ELSE n
NonBlank(k) == Min({m \in k..(n + 1) : m >= n \/ data[m] # " "})

IsCommentLine == NonBlank(i) = n \/ data[NonBlank(i)] \in {"!", "nl"}

(* Digits behind i, H, and as many characters of ' ' to '-' as the digits    *)
(* say; HollerithLast is the last of them, or i if there is no constant.    *)
DigitsEnd == Min({m \in (i + 1)..(n + 1) : data[m] \notin Digit})

Number(digits) ==
    LET value[d \in 0..Len(digits)] ==
            IF d = 0 THEN 0 ELSE 10 * value[d - 1] + (IF digits[d] = "1" THEN 1 ELSE 0)
    IN  value[Len(digits)]

HollerithBegins == data[i] \notin Letter /\ DigitsEnd > i + 1 /\ data[DigitsEnd] = "h"

HollerithLength == Number(Span(i + 1, DigitsEnd))

(* Integer.parseInt throws an exception.                                    *)
NumberTooLarge == HollerithBegins /\ HollerithLength > IntMax

HollerithLast ==
    LET last == DigitsEnd + HollerithLength
    IN  IF /\ HollerithBegins /\ last < n
           /\ \A m \in (DigitsEnd + 1)..last : data[m] \in {" ", "!", "#", "&", "'"}
        THEN last ELSE i

(* A character of a string, and two quotes: the position behind them.       *)
TwoQuotes == IF i + 1 < n - 1 /\ data[i + 1] = "'" /\ data[i + 2] = "'" THEN i + 3 ELSE i + 1

(* Every variable has its type and no character is stored twice: newData has *)
(* room for what is in it and in comments, though comments are copied       *)
(* before, in and behind statements without a test.                         *)
TypeOK ==
    /\ text \in Seq(Char) /\ sourceForm \in {"free", "fixed"}
    /\ data \in [0..(n + 1) -> Char \ {"cr"}]
    /\ i \in 0..(n + 1)
    /\ newData \in Seq(Char) /\ comments \in Seq(Char)
    /\ Len(newData) + Len(comments) <= Min({i, n})
    /\ continuation \in BOOLEAN /\ col \in 1..7
    /\ pc \in {"preprocess", "comment", "begin", "inside", "string", "stringEnd", "copy",
               "column1", "commentLine", "column", "quoted", "lineEnd", "done", "crash"}
=============================================================================
