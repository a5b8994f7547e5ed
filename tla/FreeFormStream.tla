--------------------------- MODULE FreeFormStream ---------------------------
(***************************************************************************)
(* FortranStream for free source form: the lines an '&' continues are        *)
(* joined, in statements and in character constants.                        *)
(***************************************************************************)
EXTENDS FortranStream

-----------------------------------------------------------------------------
(* Column 1.  Lines that are not of a statement wait in comments.           *)
ConsumeLine ==
    /\ comments' = comments \o Span(i, NextLine(i))
    /\ i' = NextLine(i)
    /\ UNCHANGED <<source, col, data, newData, continuation, pc>>

ConsumePreprocessLine == pc = "preprocess" /\ i < n /\ data[i] = "#" /\ ConsumeLine

NoPreprocessLine ==
    /\ pc = "preprocess" /\ ~(i < n /\ data[i] = "#")
    /\ pc' = "comment"
    /\ UNCHANGED <<source, col, data, i, newData, comments, continuation>>

ConsumeCommentLine == pc = "comment" /\ i < n /\ IsCommentLine /\ ConsumeLine

NoCommentLine ==
    /\ pc = "comment" /\ ~(i < n /\ IsCommentLine)
    /\ pc' = "begin"
    /\ UNCHANGED <<source, col, data, i, newData, comments, continuation>>

(* The line continues a statement: its first '&' is skipped, or else a       *)
(* string that it begins with is copied.                                    *)
BeginContinued ==
    /\ pc = "begin" /\ continuation
    /\ continuation' = FALSE
    /\ \/ /\ data[NonBlank(i)] = "&"
          /\ i' = NonBlank(i) + 1
          /\ pc' = "copy"
       \/ /\ data[NonBlank(i)] # "&"
          /\ pc' = IF i < n /\ data[i] = "'" THEN "string" ELSE "copy"
          /\ UNCHANGED i
    /\ UNCHANGED <<source, col, data, newData, comments>>

(* The comments are behind the last statement and go before this one.       *)
BeginStatement ==
    /\ pc = "begin" /\ ~continuation
    /\ newData' = newData \o comments
    /\ comments' = <<>>
    /\ pc' = IF comments # <<>> /\ i >= n THEN "done" ELSE "copy"
    /\ UNCHANGED <<source, col, data, i, continuation>>

-----------------------------------------------------------------------------
(* Columns behind 1.  A comment keeps its place.                            *)
ConsumeComment ==
    /\ pc = "inside" /\ data[i] = "!"
    /\ newData' = newData \o comments \o Span(i, LineEnd(i))
    /\ comments' = <<>>
    /\ i' = LineEnd(i)
    /\ pc' = "copy"
    /\ UNCHANGED <<source, col, data, continuation>>

(* What is behind the '&', with the end of the line.                        *)
BehindContinuation == Span(i + 1, NextLine(i))

ConsumeContinuation ==
    /\ pc = "inside" /\ data[i] = "&"
    /\ comments' = comments \o BehindContinuation
    /\ i' = NextLine(i) - 1
    /\ continuation' = TRUE
    /\ pc' = "copy"
    /\ UNCHANGED <<source, col, data, newData>>

BeginString ==
    /\ pc = "inside" /\ data[i] = "'"
    /\ pc' = "string"
    /\ UNCHANGED <<source, col, data, i, newData, comments, continuation>>

(* Or a Hollerith constant, all but its last character.                     *)
OtherCharacter ==
    /\ pc = "inside" /\ data[i] \notin {"!", "&", "'"} /\ ~NumberTooLarge
    /\ newData' = newData \o Span(i, HollerithLast)
    /\ i' = HollerithLast
    /\ pc' = "copy"
    /\ UNCHANGED <<source, col, data, comments, continuation>>

LargeNumber ==
    /\ pc = "inside" /\ data[i] \notin {"!", "&", "'"} /\ NumberTooLarge
    /\ pc' = "crash"
    /\ UNCHANGED <<source, col, data, i, newData, comments, continuation>>

-----------------------------------------------------------------------------
(* One round of the loop that copies a string: a character, two quotes, and  *)
(* an '&' that does not end the line, Ampersand being the position behind.  *)
EndsLine(k) == data[Min({m \in (k + 1)..(n + 1) : data[m] # " "})] = "nl"

Ampersand ==
    IF data[TwoQuotes] = "&" /\ ~EndsLine(TwoQuotes) THEN TwoQuotes + 1 ELSE TwoQuotes

CopyStringCharacter ==
    /\ pc = "string"
    /\ newData' = newData \o Span(i, Ampersand)
    /\ i' = Ampersand
    /\ pc' = IF i' < n /\ data[i'] \notin {"'", "&", "nl"} THEN "string" ELSE "stringEnd"
    /\ UNCHANGED <<source, col, data, comments, continuation>>

(* The string stands at its last quote, at the end of a line or of the file  *)
(* (an error), or at an '&', which is taken for a continuation.             *)
EndString ==
    /\ pc = "stringEnd" /\ data[i] # "&"
    /\ pc' = "copy"
    /\ UNCHANGED <<source, col, data, i, newData, comments, continuation>>

(* completeContinuedString: the rest of the line and the blanks of the next  *)
(* are skipped, and its '&' if it has one.                                  *)
Resume == NonBlank(LineEnd(i) + 1)

ResumeBehind == IF data[Resume] = "&" THEN Resume + 1 ELSE Resume

ContinueString ==
    /\ pc = "stringEnd" /\ data[i] = "&" /\ i + 1 < n
    /\ i' = IF ResumeBehind >= n THEN ResumeBehind - 1 ELSE ResumeBehind
    /\ pc' = IF ResumeBehind >= n THEN pc ELSE "string"
    /\ UNCHANGED <<source, col, data, newData, comments, continuation>>

(* The '&' is the last character: its position is returned again and again.  *)
StringHangs ==
    /\ pc = "stringEnd" /\ data[i] = "&" /\ i + 1 >= n
    /\ UNCHANGED vars

-----------------------------------------------------------------------------
(* The end of the round: the character is copied, behind the comments if it  *)
(* ends a line.  newData has n elements.                                    *)
commentsAnywhere == newData \o comments \o <<data[i]>>

Copied == IF data[i] = "nl" THEN newData \o comments \o <<"nl">> ELSE Append(newData, data[i])

NextRound(column1) ==
    /\ i' = i + 1
    /\ pc' = IF i + 1 >= n THEN "done" ELSE IF column1 THEN "preprocess" ELSE "inside"

CopyCharacter ==
    /\ pc = "copy" /\ ~continuation
    /\ Len(Copied) <= n
    /\ newData' = Copied
    /\ comments' = IF data[i] = "nl" THEN <<>> ELSE comments
    /\ NextRound(data[i] = "nl")
    /\ UNCHANGED <<source, col, data, continuation>>

BufferFull ==
    /\ pc = "copy" /\ ~continuation
    /\ Len(Copied) > n
    /\ pc' = "crash"
    /\ UNCHANGED <<source, col, data, i, newData, comments, continuation>>

ContinueLine ==
    /\ pc = "copy" /\ continuation
    /\ NextRound(TRUE)
    /\ UNCHANGED <<source, col, data, newData, comments, continuation>>

FreeNext ==
    \/ ConsumePreprocessLine \/ NoPreprocessLine \/ ConsumeCommentLine \/ NoCommentLine
    \/ BeginContinued \/ BeginStatement
    \/ ConsumeComment \/ ConsumeContinuation \/ BeginString \/ OtherCharacter \/ LargeNumber
    \/ CopyStringCharacter \/ EndString \/ ContinueString \/ StringHangs
    \/ CopyCharacter \/ BufferFull \/ ContinueLine
=============================================================================
