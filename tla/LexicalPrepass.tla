--------------------------- MODULE LexicalPrepass ---------------------------
(***************************************************************************)
(* The labelled DO bookkeeping of FortranLexicalPrepass.performPrepass():   *)
(* Sale's prepass walks the token stream line by line, keeps in doLabels    *)
(* the labels of the DO statements that are still open and marks the        *)
(* statement that ends a loop with T_LABEL_DO_TERMINAL, followed by one     *)
(* T_LABEL_DO_TERMINAL_INSERTED for every further loop that shares it.  The *)
(* parser has no other way of telling that a labelled loop ends.            *)
(*                                                                         *)
(* A line is abstracted to what the bookkeeping looks at: the include       *)
(* tokens the lexer put in front of the statement, the statement label, the *)
(* branch of performPrepass the statement takes, and the label a DO names.  *)
(***************************************************************************)
EXTENDS Naturals, Sequences, FiniteSets

CONSTANTS
    LabelText,   \* the spellings of statement labels
    Value,       \* Integer.parseInt of a spelling
    NoLabel,     \* no label
    Lines,       \* the source lines the environment may present
    MaxLines     \* bound: the lines of a run

(* A line starts with a sequence of include marks: "INC" is the pair         *)
(* T_INCLUDE T_INCLUDE_NAME, "EOF" the T_EOF of a file just left.            *)
Mark == {"INC", "EOF"}

(* The branches of performPrepass, by what they do to the labels.           *)
DoKind     == {"DO_CONTROL",    \* DO label loop-control
               "DO_BARE",       \* DO label
               "DO_BLOCK"}      \* DO without a label
FixupKind  == {"ACTION",        \* matchActionStmt, other than the two below
               "IO",            \* matchIOStmt
               "ASSIGN",        \* matchAssignStmt
               "ONE_LINE",      \* matchOneLineStmt: IF, WHERE, FORALL stmt
               "END_DO"}        \* matchEnd, for END DO
PlainKind  == {"GOTO",          \* matchActionStmt, T_GOTO
               "ALLOC_TYPED",   \* matchActionStmt, ALLOCATE(type :: list)
               "UNLISTED",      \* an action-stmt matchLine has no case for
               "OTHER"}         \* every other statement
Kind == DoKind \cup FixupKind \cup PlainKind

Line == [pre : Seq(Mark), label : LabelText \cup {NoLabel},
         kind : Kind, target : LabelText \cup {NoLabel}]

ASSUME PrepassAssumption ==
    /\ NoLabel \notin LabelText
    /\ Value \in [LabelText -> Nat]
    /\ Lines \subseteq Line
    /\ \A line \in Lines :
          (line.target # NoLabel) <=> (line.kind \in {"DO_CONTROL", "DO_BARE"})
    /\ MaxLines \in Nat

(* The types of the tokens that matter here; STMT stands for the statement's *)
(* own tokens.                                                              *)
TokenType == {"STMT", "T_DO", "T_ENDDO", "T_LABEL_DO_TERMINAL",
              "T_LABEL_DO_TERMINAL_INSERTED"}
LabelToken == [text : LabelText, line : Nat]
Token == [type : TokenType, text : LabelText \cup {NoLabel}, line : Nat]

VARIABLES
    lineNo,        \* the lines processed so far
    doLabels,      \* Stack<Token>: text and line of the pushed label tokens
    newTokenList,  \* FortranTokenStream.newTokenList
    closed,        \* history: the pairs <DO line, line that popped it>
    eof            \* the loop of performPrepass has ended

vars == <<lineNo, doLabels, newTokenList, closed, eof>>

Init ==
    /\ lineNo = 0
    /\ doLabels = <<>>
    /\ newTokenList = <<>>
    /\ closed = {}
    /\ eof = FALSE

-----------------------------------------------------------------------------
(* The marks performPrepass steps over: one T_EOF, then one include, and    *)
(* behind the include one T_EOF (an empty included file).                   *)
Skippable == {<<>>, <<"EOF">>, <<"INC">>, <<"INC", "EOF">>,
              <<"EOF", "INC">>, <<"EOF", "INC", "EOF">>}

(* lineStart ends up on the statement.  matchLabel looks at the first token *)
(* of the line whatever was skipped, so that behind a mark a label stays in *)
(* front of the statement and no match routine knows the line.              *)
Recognised(line) ==
    /\ line.pre \in Skippable
    /\ line.label # NoLabel => line.pre = <<>>

labelNotBehind(l, m) == Value[l] <= Value[m]

labelsMatch(l, m) == Value[l] = Value[m]

pushesAnyDo(line) == Recognised(line) /\ line.kind \in {"DO_CONTROL", "DO_BLOCK"}

(* matchDoStmt returns before it looks for a label if no loop-control       *)
(* follows.                                                                 *)
matchDoStmtPushes(line) == Recognised(line) /\ line.kind = "DO_CONTROL"

(* The routines that call fixupLabeledEndDo.  matchActionStmt does so if the *)
(* token in front of lineStart is the label, which it is not once it has    *)
(* stepped over the T_ALLOCATE_STMT_1 it inserts for ALLOCATE(type :: list); *)
(* a GOTO is left out on purpose.                                           *)
matchActionStmtFixes(line)  == line.kind = "ACTION"
matchIOStmtFixes(line)      == line.kind = "IO"
matchAssignStmtFixes(line)  == line.kind = "ASSIGN"
matchOneLineStmtFixes(line) == line.kind = "ONE_LINE"
matchEndFixes(line)         == line.kind = "END_DO"

callsFixup(line) ==
    /\ Recognised(line)
    /\ line.label # NoLabel
    /\ \/ matchActionStmtFixes(line) \/ matchIOStmtFixes(line)
       \/ matchAssignStmtFixes(line) \/ matchOneLineStmtFixes(line)
       \/ matchEndFixes(line)

(* fixupLabeledEndDo finds its label on top of the stack.                   *)
TerminatesDo(line) ==
    /\ callsFixup(line)
    /\ doLabels # <<>>
    /\ labelsMatch(doLabels[Len(doLabels)].text, line.label)

popsOne(k, l) == k = Len(doLabels) - 1

(* The entries 1..k stay when every entry of label l above them is popped.  *)
PopsDownTo(k, l) ==
    /\ \A i \in k + 1 .. Len(doLabels) : labelsMatch(doLabels[i].text, l)
    /\ k > 0 => ~ labelsMatch(doLabels[k].text, l)

terminalForOuterOnly(line, n, count) ==
    [i \in 1 .. count - 1 |->
        [type |-> "T_LABEL_DO_TERMINAL_INSERTED", text |-> line.label, line |-> n]]

(* T_LABEL_DO_TERMINAL behind the label, the INSERTED tokens behind the     *)
(* T_EOS of the line.                                                       *)
TerminalTokens(line, n, count) ==
    [i \in 1 .. count |->
        [type |-> IF i = 1 THEN "T_LABEL_DO_TERMINAL"
                           ELSE "T_LABEL_DO_TERMINAL_INSERTED",
         text |-> line.label, line |-> n]]

StatementToken(line, n) ==
    [type |-> IF line.kind \in DoKind THEN "T_DO"
              ELSE IF line.kind = "END_DO" THEN "T_ENDDO" ELSE "STMT",
     text |-> IF line.kind \in DoKind THEN line.target ELSE line.label,
     line |-> n]

(* One round of the loop of performPrepass, by what it does to doLabels.    *)
(* Definitions without a comment, such as fixupOutermostDo, are faults: the *)
(* definition that follows is replaced by one to see a property fail.       *)
PushLabel(line) ==
    /\ matchDoStmtPushes(line)
    /\ doLabels' = Append(doLabels, [text |-> line.target, line |-> lineNo + 1])
    /\ newTokenList' = Append(newTokenList, StatementToken(line, lineNo + 1))
    /\ UNCHANGED closed

fixupOutermostDo(line) ==
    /\ TerminatesDo(line)
    /\ doLabels' = Tail(doLabels)
    /\ newTokenList' = newTokenList \o TerminalTokens(line, lineNo + 1, 1)
    /\ closed' = closed \cup {<<doLabels[1].line, lineNo + 1>>}

fixupWithoutPop(line) ==
    /\ TerminatesDo(line)
    /\ newTokenList' = newTokenList \o TerminalTokens(line, lineNo + 1, 1)
    /\ closed' = closed \cup {<<doLabels[Len(doLabels)].line, lineNo + 1>>}
    /\ UNCHANGED doLabels

fixupLabeledEndDo(line) ==
    /\ TerminatesDo(line)
    /\ \E k \in 0 .. Len(doLabels) - 1 :
          /\ PopsDownTo(k, line.label)
          /\ doLabels' = SubSeq(doLabels, 1, k)
          /\ newTokenList' = newTokenList \o
                TerminalTokens(line, lineNo + 1, Len(doLabels) - k)
          /\ closed' = closed \cup
                {<<doLabels[i].line, lineNo + 1>> : i \in k + 1 .. Len(doLabels)}

LeaveLabels(line) ==
    /\ ~ matchDoStmtPushes(line)
    /\ ~ TerminatesDo(line)
    /\ newTokenList' = Append(newTokenList, StatementToken(line, lineNo + 1))
    /\ UNCHANGED <<doLabels, closed>>

PrepassLine(line) ==
    /\ ~ eof
    /\ lineNo < MaxLines
    /\ PushLabel(line) \/ fixupLabeledEndDo(line) \/ LeaveLabels(line)
    /\ lineNo' = lineNo + 1
    /\ UNCHANGED eof

(* LA(1) is EOF: the loop ends; doLabels is never looked at again.          *)
PrepassEnd ==
    /\ ~ eof
    /\ eof' = TRUE
    /\ UNCHANGED <<lineNo, doLabels, newTokenList, closed>>

Next == (\E line \in Lines : PrepassLine(line)) \/ PrepassEnd

Spec == Init /\ [][Next]_vars
-----------------------------------------------------------------------------
(* Every variable has its type; in particular doLabels holds labels only.   *)
TypeOK ==
    /\ lineNo \in Nat
    /\ doLabels \in Seq(LabelToken)
    /\ newTokenList \in Seq(Token)
    /\ closed \subseteq Nat \X Nat
    /\ eof \in BOOLEAN

(* The stack of labels seen as the set of the DO lines that are open.       *)
Nest == INSTANCE LoopNest WITH
            now  <- lineNo,
            open <- {doLabels[i].line : i \in DOMAIN doLabels}

(* The stack discipline of doLabels keeps what LoopNest promises: a line     *)
(* ends only loops that are open, and the innermost ones of them.           *)
ImplementsNest == Nest!NestSpec

(* The loops marked for the parser never overlap, and no DO line is closed   *)
(* twice or is still on the stack after it has been closed.                 *)
LoopsWellNested == Nest!WellNested /\ Nest!ClosedOnce /\ Nest!InnermostFirst

(* The stream handed to the parser holds one terminal token for every       *)
(* closed loop, on the line that closes it, and the first of them is the    *)
(* only T_LABEL_DO_TERMINAL of the line.                                    *)
TerminalsMatchClosed ==
    \A n \in 1 .. lineNo :
        LET count(types) == Cardinality({i \in DOMAIN newTokenList :
                                /\ newTokenList[i].line = n
                                /\ newTokenList[i].type \in types})
            ended == Cardinality({p \in closed : p[2] = n})
        IN  /\ count({"T_LABEL_DO_TERMINAL"}) = IF ended = 0 THEN 0 ELSE 1
            /\ count({"T_LABEL_DO_TERMINAL", "T_LABEL_DO_TERMINAL_INSERTED"}) = ended
=============================================================================
