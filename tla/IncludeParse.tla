---------------------------- MODULE IncludeParse ----------------------------
(***************************************************************************)
(* The include handling from the characters to the action class: the lexer  *)
(* fills the buffer, the prepass rewrites it, and the parser tells the      *)
(* action class with start_of_file and end_of_file which file the           *)
(* statements come from (FortranParser.checkForInclude, which every         *)
(* statement of the grammar calls, and the loop of FrontEnd.call).          *)
(***************************************************************************)
EXTENDS TokenStream

VARIABLES
    at,        \* "include": in checkForInclude; "stmt": behind it
    events     \* the calls of the action class

parseVars == <<lexerVars, streamVars, at, events>>

Call(action, text) == [action |-> action, text |-> text]

ParseInit == LexerInit /\ StreamInit /\ at = "include" /\ events = <<>>

-----------------------------------------------------------------------------
(* The constructor of FrontEnd fills the buffer and then initializes the    *)
(* parser, which calls start_of_file for the main file.                     *)
Lex ==
    /\ LexerNext
    /\ events' = IF phase' = "prepass" THEN <<Call("start_of_file", Main)>> ELSE events
    /\ UNCHANGED <<streamVars, at>>

Prepass == StreamNext /\ UNCHANGED <<at, events>>

(* LT(k) behind the buffer is EOF.                                          *)
LT(k) == IF p + k - 1 <= Len(tokens) THEN tokens[p + k - 1] ELSE Eof
Parses(where) == phase = "parse" /\ at = where

(* checkForInclude begins with the consumption of bare T_EOS tokens.        *)
checkForInclude(next) ==
    /\ p' = Min({k \in next..(next + Len(tokens)) :
                    k <= Len(tokens) => tokens[k].type # "T_EOS"})
    /\ at' = "include"

ignoreEmptyFile(name) == <<Call("start_of_file", name)>>

(* start_of_file, and end_of_file if T_EOF follows.                          *)
EnterEvents(name) ==
    IF LT(3).type = "T_EOF"
    THEN <<Call("start_of_file", name), Call("end_of_file", LT(3).text)>>
    ELSE <<Call("start_of_file", name)>>

(* T_INCLUDE: the text of the next token, whatever it is, is split into the *)
(* name and the path.                                                       *)
EnterInclude ==
    /\ Parses("include")
    /\ LT(1).type = "T_INCLUDE"
    /\ LT(2).text \notin Unreadable
    /\ events' = events \o EnterEvents(LT(2).text)
    /\ checkForInclude(IF LT(3).type = "T_EOF" THEN p + 3 ELSE p + 2)
    /\ UNCHANGED <<lexerVars, newTokenList>>

(* The text of T_INCLUDE_NAME has no path: files[1] is out of bounds.       *)
EnterUnreadable ==
    /\ Parses("include")
    /\ LT(1).type = "T_INCLUDE"
    /\ LT(2).text \in Unreadable
    /\ phase' = "crash"
    /\ UNCHANGED <<source, input, oldStreams, prevToken, includeLine, tokens,
                   streamVars, at, events>>

(* T_EOF of an included file: end_of_file, and look again, for files end    *)
(* where the files they include end.                                        *)
LeaveInclude ==
    /\ Parses("include")
    /\ LT(1).type = "T_EOF"
    /\ events' = Append(events, Call("end_of_file", LT(1).text))
    /\ checkForInclude(p + 1)
    /\ UNCHANGED <<lexerVars, newTokenList>>

eofTakenForFile == LT(1).type \in {"T_INCLUDE", "T_EOF", "EOF"}

IncludeAhead == LT(1).type \in {"T_INCLUDE", "T_EOF"}

NothingIncluded ==
    /\ Parses("include")
    /\ ~IncludeAhead
    /\ at' = "stmt"
    /\ UNCHANGED <<lexerVars, streamVars, events>>

(* A statement the prepass has marked, and end_of_stmt: T_EOS or EOF.        *)
StatementAhead ==
    LT(1) = Mark /\ LT(2).type = "T_STMT" /\ LT(3).type \in {"T_EOS", "EOF"}

ParseStatement ==
    /\ Parses("stmt")
    /\ StatementAhead
    /\ events' = Append(events, Call("stmt", LT(2).text))
    /\ checkForInclude(p + 3)
    /\ UNCHANGED <<lexerVars, newTokenList>>

(* reportError: from here on the action class is the null action.            *)
SyntaxError ==
    /\ Parses("stmt")
    /\ ~StatementAhead /\ LT(1).type # "EOF"
    /\ phase' = "error"
    /\ UNCHANGED <<source, input, oldStreams, prevToken, includeLine, tokens,
                   streamVars, at, events>>

(* The loop of call() ends, and eofAction calls end_of_file.                *)
EndOfSource ==
    /\ Parses("stmt")
    /\ LT(1).type = "EOF"
    /\ events' = Append(events, Call("end_of_file", Main))
    /\ phase' = "done"
    /\ UNCHANGED <<source, input, oldStreams, prevToken, includeLine, tokens,
                   streamVars, at>>

ParserNext ==
    \/ EnterInclude \/ EnterUnreadable \/ LeaveInclude
    \/ NothingIncluded \/ ParseStatement \/ SyntaxError \/ EndOfSource

ParseNext == Lex \/ Prepass \/ ParserNext

ParseSpec == ParseInit /\ [][ParseNext]_parseVars

(* One thread calls nextToken, performPrepass and the parser in turn.        *)
FairParseSpec == ParseSpec /\ WF_parseVars(ParseNext)

-----------------------------------------------------------------------------
(* What the action class is to see of a lexeme, when told has what it is to   *)
(* see of each file.  A file that is not found has a start_of_file and       *)
(* nothing else.                                                            *)
CallsOf(lexeme, told) ==
    IF lexeme.type = "T_STMT" THEN <<Call("stmt", lexeme.text)>>
    ELSE IF lexeme.type # "T_INCLUDE" THEN <<>>
    ELSE IF lexeme.text \in File THEN told[lexeme.text]
    ELSE <<Call("start_of_file", lexeme.text)>>

(* ... and of the first lexemes of the file f.                              *)
Beginnings(src, told, f) ==
    LET upTo[k \in 0..Len(src[f])] ==
            IF k = 0 THEN <<Call("start_of_file", f)>>
            ELSE upTo[k - 1] \o CallsOf(src[f][k], told)
    IN  upTo

(* What it is to see of each file, for inclusions up to depth d: its         *)
(* statements, and the files it includes where it includes them.            *)
Expansion(src) ==
    LET Expand[d \in 0..Cardinality(File)] ==
            [f \in File |->
                IF d = 0 THEN <<>>
                ELSE Append(Beginnings(src, Expand[d - 1], f)[Len(src[f])],
                            Call("end_of_file", f))]
    IN  Expand[Cardinality(File)][Main]

(* An INCLUDE line has nothing behind the name and ends with a line end: at   *)
(* the end of a file the lexer never replaces it, and the next T_EOS of      *)
(* another file takes its place.                                            *)
IncludeLinesEnd(src) ==
    \A f \in File : \A k \in 1..Len(src[f]) : src[f][k].type = "T_INCLUDE" =>
        k < Len(src[f]) /\ src[f][k + 1].type = "T_EOS"

(* An action class that builds a tree of the source files gets each          *)
(* statement once, in order, in its own file, and if the parser ends without *)
(* an error nothing is missing.                                             *)
EventsAsIncluded ==
    IncludeLinesEnd(source) =>
        /\ IsPrefix(events, Expansion(source))
        /\ phase = "done" => events = Expansion(source)

(* No exception ends the program.                                            *)
NoCrash == phase # "crash"

(* The parser accepts the source.                                            *)
Accepted == phase # "error"

(* The front end comes to an end.                                            *)
FrontEndEnds == <>(phase \in {"done", "error", "crash"})
=============================================================================
