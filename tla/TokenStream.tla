----------------------------- MODULE TokenStream ----------------------------
(***************************************************************************)
(* FortranTokenStream under FortranLexicalPrepass.performPrepass(): the     *)
(* buffered tokens are taken line by line into packedList, the prepass      *)
(* looks for the statement of the line, and the line goes to newTokenList,  *)
(* which replaces the buffer when the parser starts.                        *)
(*                                                                         *)
(* The prepass reaches a statement if lineStart ends up on its first token; *)
(* only then it turns keywords into identifiers and inserts the tokens the  *)
(* grammar asks for.  Here a statement is one that needs it, and            *)
(* T_MARK stands for the inserted token (T_ASSIGNMENT_STMT and the like).   *)
(***************************************************************************)
EXTENDS IncludeLexer

VARIABLES
    p,             \* index of the next token, 1-based; beyond the last: EOF
    newTokenList

streamVars == <<p, newTokenList>>

Mark == [type |-> "T_MARK", text |-> NoText]
Eof  == [type |-> "EOF", text |-> Main]

StreamInit == p = 1 /\ newTokenList = <<>>

-----------------------------------------------------------------------------
(* getLineLength: up to the next T_EOS, or to the end of the buffer.  T_EOF  *)
(* does not end a line.                                                     *)
LineEnd ==
    LET ends == {k \in p..Len(tokens) : tokens[k].type = "T_EOS"}
    IN  IF ends = {} THEN Len(tokens) ELSE Min(ends)

packedList == SubSeq(tokens, p, LineEnd)

HasType(line, i, type) == i <= Len(line) /\ line[i].type = type

eofNotSkipped(line) ==
    LET include == HasType(line, 1, "T_INCLUDE") /\ HasType(line, 2, "T_INCLUDE_NAME")
    IN  IF include THEN 2 ELSE 0

(* lineStart, 0-based: one T_EOF and one include are passed over, and a     *)
(* T_EOF behind the include (an empty file).                                *)
lineStart(line) ==
    LET eof     == IF HasType(line, 1, "T_EOF") THEN 1 ELSE 0
        include == HasType(line, eof + 1, "T_INCLUDE")
                   /\ HasType(line, eof + 2, "T_INCLUDE_NAME")
        empty   == HasType(line, eof + 3, "T_EOF")
    IN  eof + (IF include THEN 2 ELSE 0) + (IF include /\ empty THEN 1 ELSE 0)

(* tokens.getToken(lineStart) is null behind an include that ends the       *)
(* buffer; createPackedList adds the T_EOS a last line lacks to the list of  *)
(* the line before, and there is none for the first line.                   *)
LineCrashes(line) ==
    \/ /\ lineStart(line) = Len(line)
       /\ Last(line).type = "T_INCLUDE_NAME"
    \/ /\ Last(line).type # "T_EOS"
       /\ newTokenList = <<>>

withoutLastToken(line) == Front(line)

Finalized(line) ==
    IF HasType(line, lineStart(line) + 1, "T_STMT")
    THEN InsertAt(line, lineStart(line) + 1, Mark)
    ELSE line

(* One turn of the loop of performPrepass.                                   *)
PrepassLine ==
    /\ phase = "prepass" /\ p <= Len(tokens)
    /\ ~LineCrashes(packedList)
    /\ newTokenList' = newTokenList \o Finalized(packedList)
    /\ p' = LineEnd + 1
    /\ UNCHANGED lexerVars

PrepassCrash ==
    /\ phase = "prepass" /\ p <= Len(tokens)
    /\ LineCrashes(packedList)
    /\ phase' = "crash"
    /\ UNCHANGED <<source, input, oldStreams, prevToken, includeLine, tokens, p, newTokenList>>

(* The end of performPrepass, and finalizeTokenStream.                      *)
PrepassEof ==
    /\ phase = "prepass" /\ p > Len(tokens)
    /\ tokens' = Append(newTokenList, Eof)
    /\ newTokenList' = tokens'
    /\ p' = 1
    /\ phase' = "parse"
    /\ UNCHANGED <<source, input, oldStreams, prevToken, includeLine>>

StreamNext == PrepassLine \/ PrepassCrash \/ PrepassEof

-----------------------------------------------------------------------------
(* The prepass reaches every statement: performPrepass is to "skip the      *)
(* include tokens if they exist".                                           *)
EveryStatementReached ==
    \A i \in 1..Len(newTokenList) : newTokenList[i].type = "T_STMT" =>
        i > 1 /\ newTokenList[i - 1] = Mark

(* "need to make sure the line was terminated with a T_EOS" (createPacked-  *)
(* List): the parser gets no statement without one.                         *)
LinesTerminated ==
    phase = "parse" => \A i \in 1..(Len(tokens) - 1) : tokens[i].type = "T_STMT" =>
        tokens[i + 1].type = "T_EOS"
=============================================================================
