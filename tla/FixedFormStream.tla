--------------------------- MODULE FixedFormStream ---------------------------
(***************************************************************************)
(* FortranStream for fixed source form: a character in column 6, or a digit  *)
(* behind a TAB, continues the line before, with any number of comment and  *)
(* preprocessor lines between them.                                         *)
(***************************************************************************)
EXTENDS FortranStream

fixedUnchanged == <<source, continuation>>

CommentLineAt(k) ==
    /\ k < n
    /\ data[k] = "c" \/ (NonBlank(k) < n /\ data[NonBlank(k)] \in {"!", "nl"})

(* The line at k with the sign of a comment in free source form.            *)
FreeComment(k) ==
    LET line == Span(k, NextLine(k)) IN IF data[k] = "c" THEN [line EXCEPT ![1] = "!"] ELSE line

-----------------------------------------------------------------------------
(* The look-ahead at the end k of a line.  Follower is where the first line  *)
(* behind k begins that is neither a comment nor for the preprocessor, and  *)
(* TabIn has the first TAB or line end in its columns 1 to 5.               *)
PassedOver(m) ==
    m <= n + 1 /\ (data[m] = "#" \/ CommentLineAt(m)) /\ data[LineEnd(m)] = "nl"

followerIsNext(k) == k + 1
Follower(k) ==
    Min({m \in (k + 1)..(n + 2) : (m = k + 1 \/ data[m - 1] = "nl") /\ ~PassedOver(m)})

tabOnly(m) == {t \in m..(m + 4) : t <= n + 1 /\ data[t] = "tab"}
TabIn(m) == {t \in m..(m + 4) : t <= n + 1 /\ data[t] \in {"tab", "nl"}}

(* The character that says whether the line at m continues the one before.   *)
Marker(m) == IF TabIn(m) = {} THEN m + 5 ELSE Min(TabIn(m)) + 1

MarkerRead(k) == LET m == Follower(k) IN TabIn(m) = {} => Marker(m) <= n + 1

Continues(k) ==
    LET m == Follower(k)
    IN  IF TabIn(m) = {} THEN data[Marker(m)] \notin {"0", " "}
        ELSE data[Min(TabIn(m))] = "tab" /\ data[Marker(m)] = "1"

(* "WARNING, don't go beyond length of stream": with the two line ends and    *)
(* the blanks that convertInputBuffer adds there may be less than a marker.  *)
LookBeyond ==
    /\ \/ pc = "lineEnd" /\ data[i] = "nl" /\ ~MarkerRead(i)
       \/ pc = "column" /\ col # 6 /\ data[i] = "!" /\ ~MarkerRead(LineEnd(i))
    /\ pc' = "crash"
    /\ UNCHANGED <<fixedUnchanged, data, i, newData, comments, col>>

-----------------------------------------------------------------------------
(* Column 1.                                                                *)
TakeLine(line) ==
    /\ newData' = newData \o comments \o line
    /\ comments' = <<>>
    /\ i' = NextLine(i)
    /\ UNCHANGED <<fixedUnchanged, data, col, pc>>

FixedPreprocessLine ==
    pc = "column1" /\ i < n /\ data[i] = "#" /\ TakeLine(Span(i, NextLine(i)))

NoFixedPreprocessLine ==
    /\ pc = "column1" /\ ~(i < n /\ data[i] = "#")
    /\ pc' = "commentLine"
    /\ UNCHANGED <<fixedUnchanged, data, i, newData, comments, col>>

FixedCommentLine ==
    pc = "commentLine" /\ i < n /\ (IsCommentLine \/ data[i] = "c") /\ TakeLine(FreeComment(i))

BeginFixedLine ==
    /\ pc = "commentLine" /\ i < n /\ ~IsCommentLine /\ data[i] # "c"
    /\ col' = IF data[i] = "tab" THEN 5 ELSE 1
    /\ pc' = "lineEnd"
    /\ UNCHANGED <<fixedUnchanged, data, i, newData, comments>>

NoFixedLine ==
    /\ pc = "commentLine" /\ i >= n
    /\ pc' = "done"
    /\ UNCHANGED <<fixedUnchanged, data, i, newData, comments, col>>

-----------------------------------------------------------------------------
(* Columns behind 1.                                                        *)
FixedComment ==
    /\ pc = "column" /\ col # 6 /\ data[i] = "!" /\ MarkerRead(LineEnd(i))
    /\ LET all == comments \o Span(i, LineEnd(i))
       IN  IF Continues(LineEnd(i)) THEN comments' = all /\ UNCHANGED newData
           ELSE newData' = newData \o all /\ comments' = <<>>
    /\ i' = LineEnd(i)
    /\ pc' = "lineEnd"
    /\ UNCHANGED <<fixedUnchanged, data, col>>

(* A 0 in column 6 is for a line that is not continued.                     *)
Column6 ==
    /\ pc = "column" /\ col = 6
    /\ data' = IF data[i] = "0" THEN [data EXCEPT ![i] = " "] ELSE data
    /\ pc' = "lineEnd"
    /\ UNCHANGED <<fixedUnchanged, i, newData, comments, col>>

LabelCharacter ==
    /\ pc = "column" /\ col < 6 /\ data[i] # "!"
    /\ pc' = "lineEnd"
    /\ UNCHANGED <<fixedUnchanged, data, i, newData, comments, col>>

BeginFixedString ==
    /\ pc = "column" /\ col = 7 /\ data[i] = "'"
    /\ pc' = "quoted"
    /\ UNCHANGED <<fixedUnchanged, data, i, newData, comments, col>>

(* One round of the loop that copies a string; it ends at the last quote, or  *)
(* at the end of the line (an error, or a string continued).                *)
CopyFixedString ==
    /\ pc = "quoted"
    /\ newData' = newData \o Span(i, TwoQuotes)
    /\ i' = TwoQuotes
    /\ pc' = IF i' < n /\ data[i'] \notin {"'", "nl"} THEN "quoted" ELSE "lineEnd"
    /\ UNCHANGED <<fixedUnchanged, data, comments, col>>

FixedCharacter ==
    /\ pc = "column" /\ col = 7 /\ data[i] \notin {"!", "'"} /\ ~NumberTooLarge
    /\ newData' = newData \o Span(i, HollerithLast)
    /\ i' = HollerithLast
    /\ pc' = "lineEnd"
    /\ UNCHANGED <<fixedUnchanged, data, comments, col>>

FixedLargeNumber ==
    /\ pc = "column" /\ col = 7 /\ data[i] \notin {"!", "'"} /\ NumberTooLarge
    /\ pc' = "crash"
    /\ UNCHANGED <<fixedUnchanged, data, i, newData, comments, col>>

-----------------------------------------------------------------------------
(* The end of a line that is continued: one comment line behind it, or the   *)
(* first columns of the continuation.                                       *)
EndsContinued == pc = "lineEnd" /\ data[i] = "nl" /\ MarkerRead(i) /\ Continues(i)

LastOfLine(k) == NextLine(k) - 1

MoveComment ==
    /\ EndsContinued /\ Follower(i) # i + 1
    /\ comments' = comments \o FreeComment(i + 1)
    /\ i' = LastOfLine(i + 1)
    /\ UNCHANGED <<fixedUnchanged, data, newData, col, pc>>

JoinLine ==
    /\ EndsContinued /\ Follower(i) = i + 1
    /\ comments' = IF TabIn(i + 1) = {} THEN Append(comments, "nl") ELSE comments
    /\ i' = Marker(i + 1) + 1
    /\ UNCHANGED <<fixedUnchanged, data, newData, col, pc>>

(* The character is copied, and the comments behind it if it ends a line.   *)
FixedCopied == IF data[i] = "nl" THEN newData \o <<"nl">> \o comments ELSE Append(newData, data[i])

RoundEnds == pc = "lineEnd" /\ (data[i] = "nl" => MarkerRead(i) /\ ~Continues(i))

CopyFixedCharacter ==
    /\ RoundEnds /\ Len(FixedCopied) <= n
    /\ newData' = FixedCopied
    /\ IF data[i] = "nl" THEN col' = 1 /\ comments' = <<>>
       ELSE col' = Min({col + 1, 7}) /\ UNCHANGED comments
    /\ i' = i + 1
    /\ pc' = IF i + 1 >= n THEN "done" ELSE IF col' = 1 THEN "column1" ELSE "column"
    /\ UNCHANGED <<fixedUnchanged, data>>

FixedBufferFull ==
    /\ RoundEnds /\ Len(FixedCopied) > n
    /\ pc' = "crash"
    /\ UNCHANGED <<fixedUnchanged, data, i, newData, comments, col>>

FixedNext ==
    \/ FixedPreprocessLine \/ NoFixedPreprocessLine \/ FixedCommentLine
    \/ BeginFixedLine \/ NoFixedLine
    \/ FixedComment \/ Column6 \/ LabelCharacter
    \/ BeginFixedString \/ CopyFixedString \/ FixedCharacter \/ FixedLargeNumber
    \/ MoveComment \/ JoinLine \/ CopyFixedCharacter \/ FixedBufferFull \/ LookBeyond
=============================================================================
