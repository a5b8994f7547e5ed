---------------------------- MODULE PrepassParse ----------------------------
(***************************************************************************)
(* The prepass and the parser of DO constructs, run on legal programs and   *)
(* on any lines.                                                            *)
(*                                                                         *)
(* FortranParser cannot see which statement ends a labelled loop: its rules *)
(* block_do_construct and end_do rely on the T_LABEL_DO_TERMINAL tokens     *)
(* that the prepass has put into newTokenList.  The parser runs after the   *)
(* prepass has reached the end of the file.                                 *)
(***************************************************************************)
EXTENDS LexicalPrepass

CONSTANT MaxAnyLines    \* lines of a program that need not be legal

VARIABLES
    legal,       \* source: it is a legal program so far
    nest,        \* source: the open loops, by DO line and the label it names
    used,        \* source: the statement labels seen so far
    sourceEnds,  \* source: the loops that have ended, <<DO line, end line>>
    known,       \* source: all its lines are of a form the prepass looks into
    pos,         \* parser: the tokens of newTokenList it has consumed
    doStack,     \* parser: the do_stmts of the block_do_constructs it is in
    parsedEnds,  \* parser: the block_do_constructs recognised, as sourceEnds
    syntaxError  \* parser: no viable alternative

sourceVars == <<legal, nest, used, sourceEnds, known>>
parserVars == <<pos, doStack, parsedEnds, syntaxError>>
allVars    == <<vars, sourceVars, parserVars>>

ParseInit ==
    /\ Init
    /\ legal \in BOOLEAN
    /\ nest = <<>> /\ used = {} /\ sourceEnds = {} /\ known = TRUE
    /\ pos = 0 /\ doStack = <<>> /\ parsedEnds = {} /\ syntaxError = FALSE

-----------------------------------------------------------------------------
(* Legal programs.  A loop of nest has the label its DO names, NoLabel if   *)
(* the DO names none.                                                       *)
SameLabel(l, m) == l # NoLabel /\ m # NoLabel /\ Value[l] = Value[m]
Fresh(l)        == ~ \E m \in used : SameLabel(l, m)
Innermost(n, l) == n # <<>> /\ SameLabel(n[Len(n)].text, l)
Names(n, l)     == \E i \in DOMAIN n : SameLabel(n[i].text, l)
Outer(n)        == SubSeq(n, 1, Len(n) - 1)

(* Action statements that may end a labelled loop (of the ACTION lines the  *)
(* source takes CONTINUE, CALL and the like, not STOP or RETURN).           *)
ActionKind == {"ACTION", "IO", "ASSIGN", "ONE_LINE", "ALLOC_TYPED", "UNLISTED"}

(* The loops left when a statement labelled l has ended those it ends.      *)
LeftBy(l) ==
    CHOOSE n \in {SubSeq(nest, 1, k) : k \in 0 .. Len(nest)} :
        /\ ~ Innermost(n, l)
        /\ \A i \in Len(n) + 1 .. Len(nest) : SameLabel(nest[i].text, l)

(* Labels are unique and a DO names a label that is still to come.  A       *)
(* statement with the label of an open loop ends the loops that name it,    *)
(* and they are the innermost ones; END DO ends the innermost loop only.    *)
LegalDo(line) ==
    /\ line.kind \in DoKind
    /\ line.label = NoLabel
    /\ Fresh(line.target)
    /\ nest' = Append(nest, [text |-> line.target, line |-> lineNo + 1])

LegalEndDo(line) ==
    /\ line.kind = "END_DO"
    /\ nest # <<>>
    /\ nest[Len(nest)].text = NoLabel \/ Innermost(nest, line.label)
    /\ ~ Names(Outer(nest), line.label)
    /\ nest' = Outer(nest)

LegalStatement(line) ==
    /\ line.kind \notin DoKind \cup {"END_DO"}
    /\ Names(nest, line.label) =>
          line.kind \in ActionKind /\ Innermost(nest, line.label)
    /\ ~ Names(LeftBy(line.label), line.label)
    /\ nest' = LeftBy(line.label)

(* A DO without loop control, ALLOCATE with a type, a statement that is not *)
(* on the prepass's list, a label behind include tokens and a statement     *)
(* behind more of them than performPrepass steps over are legal, but the    *)
(* prepass does not see their labels.                                       *)
Known(line) ==
    /\ line.kind \notin {"DO_BARE", "ALLOC_TYPED", "UNLISTED"}
    /\ line.pre \in Skippable
    /\ line.pre # <<>> => line.label = NoLabel

SourceLine(line) ==
    /\ legal
    /\ Fresh(line.label)
    /\ LegalDo(line) \/ LegalEndDo(line) \/ LegalStatement(line)
    /\ used' = used \cup ({line.label} \ {NoLabel})
    /\ known' = (known /\ Known(line))
    /\ sourceEnds' = sourceEnds \cup
          {<<nest[i].line, lineNo + 1>> : i \in Len(nest') + 1 .. Len(nest)}
    /\ PrepassLine(line)
    /\ UNCHANGED <<legal, parserVars>>

(* A program that need not be legal: any lines.                             *)
AnyLine(line) ==
    /\ ~legal /\ lineNo < MaxAnyLines
    /\ PrepassLine(line)
    /\ UNCHANGED <<sourceVars, parserVars>>

(* A legal program ends when its loops have ended.                          *)
SourceEnd ==
    /\ nest = <<>>
    /\ PrepassEnd
    /\ UNCHANGED <<sourceVars, parserVars>>

-----------------------------------------------------------------------------
(* The parser, one token at a time: do_stmt begins a block_do_construct and *)
(* end_do, which is end_do_stmt or do_term_action_stmt, ends one.           *)
EndDoToken == {"T_ENDDO", "T_LABEL_DO_TERMINAL", "T_LABEL_DO_TERMINAL_INSERTED"}

NextToken == newTokenList[pos + 1]

ParserReady == eof /\ ~ syntaxError /\ pos < Len(newTokenList)

do_stmt ==
    /\ ParserReady
    /\ NextToken.type = "T_DO"
    /\ doStack' = Append(doStack, NextToken)
    /\ pos' = pos + 1
    /\ UNCHANGED <<parsedEnds, syntaxError, vars, sourceVars>>

end_do ==
    /\ ParserReady
    /\ NextToken.type \in EndDoToken
    /\ doStack # <<>>
    /\ parsedEnds' = parsedEnds \cup {<<doStack[Len(doStack)].line, NextToken.line>>}
    /\ doStack' = Outer(doStack)
    /\ pos' = pos + 1
    /\ UNCHANGED <<syntaxError, vars, sourceVars>>

other_stmt ==
    /\ ParserReady
    /\ NextToken.type = "STMT"
    /\ pos' = pos + 1
    /\ UNCHANGED <<doStack, parsedEnds, syntaxError, vars, sourceVars>>

noEndDoExpected == pos < Len(newTokenList) /\ NextToken.type \in EndDoToken /\ doStack = <<>>

(* end_do where no block_do_construct is open, or the end of the file in    *)
(* one.                                                                     *)
NoViableAlternative ==
    IF pos < Len(newTokenList) THEN NextToken.type \in EndDoToken /\ doStack = <<>>
                               ELSE doStack # <<>>

syntax_error ==
    /\ eof /\ ~ syntaxError /\ NoViableAlternative
    /\ syntaxError' = TRUE
    /\ UNCHANGED <<pos, doStack, parsedEnds, vars, sourceVars>>

Parse == do_stmt \/ end_do \/ other_stmt \/ syntax_error

ParseNext == (\E line \in Lines : SourceLine(line) \/ AnyLine(line)) \/ SourceEnd \/ Parse

ParseSpec == ParseInit /\ [][ParseNext]_allVars

(* FrontEnd.call() parses until the end of the file or a syntax error.      *)
FairParseSpec == ParseSpec /\ WF_allVars(Parse)
-----------------------------------------------------------------------------
(* While it reads a legal program of forms it knows the prepass has on its  *)
(* stack exactly the labelled loops that are open in the source, outermost  *)
(* first: no loop is missed and none is left behind by an end that was not  *)
(* recognised.                                                              *)
StackIsNest ==
    legal /\ known =>
        /\ {doLabels[i] : i \in DOMAIN doLabels}
              = {nest[i] : i \in {j \in DOMAIN nest : nest[j].text # NoLabel}}
        /\ \A i, j \in DOMAIN doLabels : i < j => doLabels[i].line < doLabels[j].line

(* A legal program is not rejected over its DO loops: "this will help the   *)
(* parser recognize a do loop being terminated".                            *)
LegalProgramAccepted == legal => ~ syntaxError

(* It is not, if the prepass knows the forms of its lines.                  *)
KnownProgramAccepted == legal /\ known => ~ syntaxError

(* A legal program that is accepted has the loops it has in the source:     *)
(* every DO is paired with the statement that ends it there.                *)
LoopsAsInSource ==
    (legal /\ eof /\ ~ syntaxError /\ pos = Len(newTokenList) /\ doStack = <<>>)
        => parsedEnds = sourceEnds

(* A program that has been read is parsed to its end, or rejected.          *)
ParseEnds == eof ~> (syntaxError \/ (pos = Len(newTokenList) /\ doStack = <<>>))
=============================================================================
