--------------------------- MODULE PrepassProofs ---------------------------
(***************************************************************************)
(* The prepass implements LoopNest for every set of labels and lines, and   *)
(* therefore marks well nested loops; and the parser, which knows of the    *)
(* ends of labelled loops only by these marks, takes every legal program    *)
(* whose lines the prepass knows and pairs no DO with a wrong end.          *)
(***************************************************************************)
EXTENDS PrepassParse, SequenceTheorems, FiniteSetTheorems, NaturalsLemmas

NestProofs == INSTANCE LoopNestProofs WITH
                  now  <- lineNo,
                  open <- {doLabels[i].line : i \in DOMAIN doLabels}

(* The labels of the stack were pushed in line order.                       *)
StackSorted ==
    /\ \A i \in 1 .. Len(doLabels) : doLabels[i].line \in 1 .. lineNo
    /\ \A i, j \in 1 .. Len(doLabels) :
          i < j => doLabels[i].line < doLabels[j].line

PrepassInv == TypeOK /\ StackSorted

-----------------------------------------------------------------------------
(* What a stack of label tokens, a push and a pop look like.                *)
LEMMA StackFacts ==
    ASSUME NEW s \in Seq(LabelToken)
    PROVE  /\ Len(s) \in Nat
           /\ DOMAIN s = 1 .. Len(s)
           /\ \A i \in 1 .. Len(s) : s[i] \in LabelToken /\ s[i].line \in Nat
<1>1. Len(s) \in Nat /\ DOMAIN s = 1 .. Len(s)
  BY LenProperties
<1>2. \A i \in 1 .. Len(s) : s[i] \in LabelToken
  BY ElementOfSeq
<1> QED
  BY <1>1, <1>2 DEF LabelToken

LEMMA PushFacts ==
    ASSUME NEW s \in Seq(LabelToken), NEW e \in LabelToken
    PROVE  /\ Append(s, e) \in Seq(LabelToken)
           /\ Len(Append(s, e)) = Len(s) + 1
           /\ \A i \in 1 .. Len(s) : Append(s, e)[i] = s[i]
           /\ Append(s, e)[Len(s) + 1] = e
BY AppendProperties

LEMMA PopFacts ==
    ASSUME NEW s \in Seq(LabelToken), NEW k \in 0 .. Len(s) - 1
    PROVE  /\ SubSeq(s, 1, k) \in Seq(LabelToken)
           /\ Len(SubSeq(s, 1, k)) = k
           /\ \A i \in 1 .. k : SubSeq(s, 1, k)[i] = s[i]
<1>1. k \in Int /\ Len(s) \in Nat /\ k < Len(s)
  BY StackFacts
<1>2. \A i \in 1 .. k : s[i] \in LabelToken
  BY <1>1, StackFacts
<1>3. /\ SubSeq(s, 1, k) \in Seq(LabelToken)
      /\ Len(SubSeq(s, 1, k)) = IF 1 <= k THEN k - 1 + 1 ELSE 0
      /\ \A i \in 1 .. k - 1 + 1 : SubSeq(s, 1, k)[i] = s[1 + i - 1]
  BY <1>1, <1>2, SubSeqProperties
<1> QED
  BY <1>1, <1>3

(* The tokens a line adds are tokens.                                       *)
LEMMA TerminalTokensType ==
    ASSUME NEW line \in Lines, line.label \in LabelText,
           NEW n \in Nat, NEW count \in Nat
    PROVE  TerminalTokens(line, n, count) \in Seq(Token)
<1> DEFINE tok(i) ==
      [type |-> IF i = 1 THEN "T_LABEL_DO_TERMINAL"
                         ELSE "T_LABEL_DO_TERMINAL_INSERTED",
       text |-> line.label, line |-> n]
<1>1. \A i \in 1 .. count : tok(i) \in Token
  BY DEF Token, TokenType
<1> HIDE DEF tok
<1>2. [i \in 1 .. count |-> tok(i)] \in Seq(Token)
  BY <1>1, IsASeq
<1> QED
  BY <1>2 DEF TerminalTokens, tok

LEMMA StatementTokenType ==
    ASSUME NEW line \in Lines, NEW n \in Nat
    PROVE  StatementToken(line, n) \in Token
BY PrepassAssumption DEF StatementToken, Token, TokenType, Line

-----------------------------------------------------------------------------
(* The three things a line can do, as facts about the stack.                *)
LEMMA LineEffect ==
    ASSUME TypeOK, NEW line \in Lines, PrepassLine(line)
    PROVE  /\ lineNo' = lineNo + 1
           /\ UNCHANGED eof
           /\ newTokenList' \in Seq(Token)
           /\ \/ /\ \E e \in LabelToken :
                       e.line = lineNo + 1 /\ doLabels' = Append(doLabels, e)
                 /\ closed' = closed
              \/ \E k \in 0 .. Len(doLabels) - 1 :
                    /\ doLabels' = SubSeq(doLabels, 1, k)
                    /\ closed' = closed \cup {<<doLabels[i].line, lineNo + 1>> :
                                                 i \in k + 1 .. Len(doLabels)}
              \/ UNCHANGED <<doLabels, closed>>
<1>1. lineNo' = lineNo + 1 /\ UNCHANGED eof /\ lineNo + 1 \in Nat
  BY DEF PrepassLine, TypeOK
<1>2. Append(newTokenList, StatementToken(line, lineNo + 1)) \in Seq(Token)
  BY <1>1, StatementTokenType, AppendProperties DEF TypeOK
<1>3. CASE PushLabel(line)
  <2>1. line.target \in LabelText
    BY <1>3, PrepassAssumption DEF PushLabel, matchDoStmtPushes, Line
  <2>2. [text |-> line.target, line |-> lineNo + 1] \in LabelToken
    BY <1>1, <2>1 DEF LabelToken
  <2>3. [text |-> line.target, line |-> lineNo + 1].line = lineNo + 1
    OBVIOUS
  <2> QED
    BY <1>1, <1>2, <1>3, <2>2, <2>3 DEF PushLabel
<1>4. CASE fixupLabeledEndDo(line)
  <2>1. line.label \in LabelText
    BY <1>4, PrepassAssumption
       DEF fixupLabeledEndDo, TerminatesDo, callsFixup, Line
  <2>2. PICK k \in 0 .. Len(doLabels) - 1 :
           /\ doLabels' = SubSeq(doLabels, 1, k)
           /\ newTokenList' = newTokenList \o
                 TerminalTokens(line, lineNo + 1, Len(doLabels) - k)
           /\ closed' = closed \cup {<<doLabels[i].line, lineNo + 1>> :
                                        i \in k + 1 .. Len(doLabels)}
    BY <1>4 DEF fixupLabeledEndDo
  <2>3. Len(doLabels) - k \in Nat
    BY StackFacts DEF TypeOK
  <2>4. TerminalTokens(line, lineNo + 1, Len(doLabels) - k) \in Seq(Token)
    BY <1>1, <2>1, <2>3, TerminalTokensType
  <2>5. newTokenList' \in Seq(Token)
    BY <2>2, <2>4, ConcatProperties DEF TypeOK
  <2> QED
    BY <1>1, <2>2, <2>5
<1>5. CASE LeaveLabels(line)
  BY <1>1, <1>2, <1>5 DEF LeaveLabels
<1> QED
  BY <1>3, <1>4, <1>5 DEF PrepassLine

(* Every action of the prepass keeps the types.                             *)
LEMMA PrepassTypeStep == TypeOK /\ [Next]_vars => TypeOK'
<1> SUFFICES ASSUME TypeOK, [Next]_vars
             PROVE  TypeOK'
  OBVIOUS
<1>1. ASSUME NEW line \in Lines, PrepassLine(line)
      PROVE  TypeOK'
  <2>1. doLabels' \in Seq(LabelToken)
    BY <1>1, LineEffect, PushFacts, PopFacts DEF TypeOK
  <2>2. closed' \subseteq Nat \X Nat
    BY <1>1, LineEffect, StackFacts DEF TypeOK
  <2> QED
    BY <1>1, <2>1, <2>2, LineEffect DEF TypeOK
<1>2. CASE PrepassEnd
  BY <1>2 DEF PrepassEnd, TypeOK
<1>3. CASE UNCHANGED vars
  BY <1>3 DEF vars, TypeOK
<1> QED
  BY <1>1, <1>2, <1>3 DEF Next

(* The line pushed last is the current one, and a pop keeps a prefix.       *)
LEMMA StackSortedStep == PrepassInv /\ [Next]_vars => StackSorted'
<1> SUFFICES ASSUME PrepassInv, [Next]_vars
             PROVE  StackSorted'
  OBVIOUS
<1> USE DEF PrepassInv
<1>0. doLabels \in Seq(LabelToken) /\ Len(doLabels) \in Nat /\ lineNo \in Nat
  BY StackFacts DEF TypeOK
<1>1. ASSUME NEW line \in Lines, PrepassLine(line)
      PROVE  StackSorted'
  <2>0. lineNo' = lineNo + 1
    BY <1>1, LineEffect
  <2>1. ASSUME NEW e \in LabelToken, e.line = lineNo + 1,
               doLabels' = Append(doLabels, e)
        PROVE  StackSorted'
    BY <1>0, <2>0, <2>1, PushFacts DEF StackSorted
  <2>2. ASSUME NEW k \in 0 .. Len(doLabels) - 1,
               doLabels' = SubSeq(doLabels, 1, k)
        PROVE  StackSorted'
    BY <1>0, <2>0, <2>2, PopFacts DEF StackSorted
  <2>3. CASE UNCHANGED doLabels
    BY <1>0, <2>0, <2>3 DEF StackSorted
  <2> QED
    BY <1>1, <2>1, <2>2, <2>3, LineEffect
<1>2. CASE PrepassEnd
  BY <1>2 DEF PrepassEnd, StackSorted
<1>3. CASE UNCHANGED vars
  BY <1>3 DEF vars, StackSorted
<1> QED
  BY <1>1, <1>2, <1>3 DEF Next

(* Every step of the prepass is a step of the nest, or changes none of it.  *)
LEMMA PrepassStepIsNestStep ==
    PrepassInv /\ [Next]_vars => [Nest!NestNext]_(Nest!nestVars)
<1> SUFFICES ASSUME PrepassInv, [Next]_vars
             PROVE  [Nest!NestNext]_(Nest!nestVars)
  OBVIOUS
<1> DEFINE open == {doLabels[i].line : i \in DOMAIN doLabels}
<1>0. /\ doLabels \in Seq(LabelToken) /\ Len(doLabels) \in Nat /\ lineNo \in Nat
      /\ DOMAIN doLabels = 1 .. Len(doLabels)
  BY StackFacts DEF PrepassInv, TypeOK
<1>1. ASSUME NEW line \in Lines, PrepassLine(line)
      PROVE  Nest!NestNext
  <2>0. lineNo' = lineNo + 1
    BY <1>1, LineEffect DEF PrepassInv
  <2>1. ASSUME NEW e \in LabelToken, e.line = lineNo + 1,
               doLabels' = Append(doLabels, e), closed' = closed
        PROVE  Nest!NestNext
    <3>1. /\ DOMAIN doLabels' = 1 .. Len(doLabels) + 1
          /\ \A i \in 1 .. Len(doLabels) : doLabels'[i] = doLabels[i]
          /\ doLabels'[Len(doLabels) + 1] = e
      BY <1>0, <2>1, PushFacts, StackFacts
    <3>2. open' = open \cup {lineNo + 1}
      BY <1>0, <2>1, <3>1
    <3>3. Nest!BeginLoop
      BY <2>0, <2>1, <3>2 DEF Nest!BeginLoop
    <3> QED
      BY <3>3 DEF Nest!NestNext
  <2>2. ASSUME NEW k \in 0 .. Len(doLabels) - 1,
               doLabels' = SubSeq(doLabels, 1, k),
               closed' = closed \cup {<<doLabels[i].line, lineNo + 1>> :
                                         i \in k + 1 .. Len(doLabels)}
        PROVE  Nest!NestNext
    <3> DEFINE S    == {doLabels[i].line : i \in k + 1 .. Len(doLabels)}
               kept == {doLabels[i].line : i \in 1 .. k}
    <3>1. /\ DOMAIN doLabels' = 1 .. k
          /\ \A i \in 1 .. k : doLabels'[i] = doLabels[i]
      BY <1>0, <2>2, PopFacts, StackFacts
    <3>2. DOMAIN doLabels = (1 .. k) \cup (k + 1 .. Len(doLabels))
      BY <1>0
    <3>3. k + 1 \in k + 1 .. Len(doLabels)
      BY <1>0
    <3>4. S \in SUBSET open /\ S # {}
      BY <3>2, <3>3
    <3>5. open' = kept
      BY <3>1
    <3>6. \A d \in S, o \in kept : o < d
      BY <1>0 DEF PrepassInv, StackSorted
    <3>7. \A d \in kept : d \in Nat
      BY <1>0, StackFacts
    <3>8. open = S \cup kept
      BY <3>2
    <3>9. open \ S = kept
      <4> HIDE DEF open, S, kept
      <4>1. \A d \in S : d \notin kept
        BY <3>6, <3>7
      <4> QED
        BY <3>8, <4>1
    <3>10. closed' = closed \cup {<<d, lineNo + 1>> : d \in S}
      BY <2>2
    <3> QED
      BY <2>0, <3>4, <3>5, <3>6, <3>9, <3>10 DEF Nest!EndLoops, Nest!NestNext
  <2>3. CASE UNCHANGED <<doLabels, closed>>
    BY <2>0, <2>3 DEF Nest!OtherLine, Nest!NestNext
  <2> QED
    BY <1>1, <2>1, <2>2, <2>3, LineEffect DEF PrepassInv
<1>2. CASE PrepassEnd
  BY <1>2 DEF PrepassEnd, Nest!nestVars
<1>3. CASE UNCHANGED vars
  BY <1>3 DEF vars, Nest!nestVars
<1> QED
  BY <1>1, <1>2, <1>3 DEF Next

(* Nothing is open or closed before the first line.                         *)
LEMMA PrepassInitial == Init => PrepassInv /\ Nest!NestInit
<1> SUFFICES ASSUME Init
             PROVE  PrepassInv /\ Nest!NestInit
  OBVIOUS
<1>1. /\ doLabels \in Seq(LabelToken) /\ Len(doLabels) = 0
      /\ newTokenList \in Seq(Token)
  BY EmptySeq DEF Init
<1>2. DOMAIN doLabels = {}
  BY <1>1, StackFacts
<1>3. PrepassInv
  <2>1. TypeOK
    BY <1>1 DEF Init, TypeOK
  <2>2. StackSorted
    BY <1>1 DEF StackSorted
  <2> QED
    BY <2>1, <2>2 DEF PrepassInv
<1>4. Nest!NestInit
  BY <1>2 DEF Init, Nest!NestInit
<1> QED
  BY <1>3, <1>4

-----------------------------------------------------------------------------
(* Type correctness of the prepass: doLabels only ever holds label tokens.  *)
THEOREM PrepassTypeCorrect == Spec => []TypeOK
<1>1. Init => TypeOK
  BY PrepassInitial DEF PrepassInv
<1> QED
  BY <1>1, PrepassTypeStep, PTL DEF Spec

(* The strengthened invariant that the refinement needs.                    *)
THEOREM PrepassInvariant == Spec => []PrepassInv
<1>1. PrepassInv /\ [Next]_vars => PrepassInv'
  BY PrepassTypeStep, StackSortedStep DEF PrepassInv
<1> QED
  BY <1>1, PrepassInitial, PTL DEF Spec

(* The prepass implements the nest of loops: a terminal token ends only     *)
(* loops that are open, and the innermost ones of them.                     *)
THEOREM PrepassImplementsNest == Spec => ImplementsNest
<1> QED
  BY PrepassInitial, PrepassInvariant, PrepassStepIsNestStep, PTL
     DEF Spec, ImplementsNest, Nest!NestSpec

(* The loops the prepass marks are well nested, and each ends once.         *)
THEOREM PrepassLoopsWellNested == Spec => []LoopsWellNested
<1> DEFINE Inv == PrepassInv /\ NestProofs!NestInv
<1>1. Init => Inv
  <2>1. Init => NestProofs!NestInit
    BY PrepassInitial DEF Nest!NestInit, NestProofs!NestInit
  <2>2. NestProofs!NestInit => NestProofs!NestInv
    BY DEF NestProofs!NestInit, NestProofs!NestInv, NestProofs!NestTypeOK,
           NestProofs!InnermostFirst, NestProofs!ClosedOnce, NestProofs!WellNested
  <2> QED
    BY <2>1, <2>2, PrepassInitial
<1>2. Inv /\ [Next]_vars => Inv'
  <2> SUFFICES ASSUME Inv, [Next]_vars
               PROVE  Inv'
    OBVIOUS
  <2>1. [NestProofs!NestNext]_(NestProofs!nestVars)
    BY PrepassStepIsNestStep
       DEF Nest!NestNext, Nest!nestVars, Nest!BeginLoop, Nest!EndLoops,
           Nest!OtherLine, NestProofs!NestNext, NestProofs!nestVars,
           NestProofs!BeginLoop, NestProofs!EndLoops, NestProofs!OtherLine
  <2>2. NestProofs!NestInv'
    BY <2>1, NestProofs!NestStep
  <2> QED
    BY <2>2, PrepassTypeStep, StackSortedStep DEF PrepassInv
<1>3. Inv => LoopsWellNested
  BY DEF LoopsWellNested, Nest!WellNested, Nest!ClosedOnce, Nest!InnermostFirst,
         NestProofs!NestInv, NestProofs!WellNested, NestProofs!ClosedOnce,
         NestProofs!InnermostFirst
<1> QED
  BY <1>1, <1>2, <1>3, PTL DEF Spec

-----------------------------------------------------------------------------
(* The tokens of the given types a line has put into the stream, and the    *)
(* loops it has ended.                                                      *)
TokensOf(types, n) ==
    {i \in DOMAIN newTokenList : newTokenList[i].line = n /\ newTokenList[i].type \in types}

EndedBy(n) == {p \in closed : p[2] = n}

LinesSeen ==
    /\ \A i \in DOMAIN newTokenList : newTokenList[i].line \in 1 .. lineNo
    /\ \A p \in closed : p[2] \in 1 .. lineNo

TerminalsInv == PrepassInv /\ LinesSeen /\ TerminalsMatchClosed

Terminal == {"T_LABEL_DO_TERMINAL"}
AnyTerminal == {"T_LABEL_DO_TERMINAL", "T_LABEL_DO_TERMINAL_INSERTED"}

Matched(n) ==
    /\ Cardinality(TokensOf(Terminal, n)) = IF Cardinality(EndedBy(n)) = 0 THEN 0 ELSE 1
    /\ Cardinality(TokensOf(AnyTerminal, n)) = Cardinality(EndedBy(n))

LEMMA MatchedIsTerminalsMatchClosed ==
    /\ TerminalsMatchClosed <=> \A n \in 1 .. lineNo : Matched(n)
    /\ TerminalsMatchClosed' <=> \A n \in 1 .. lineNo' : Matched(n)'
BY DEF TerminalsMatchClosed, Matched, TokensOf, EndedBy, Terminal, AnyTerminal

(* The tokens of a line leave those of earlier lines where they are.        *)
LEMMA AddedTokens ==
    ASSUME TypeOK, LinesSeen, NEW more \in Seq(Token), newTokenList' = newTokenList \o more,
           lineNo' = lineNo + 1, \A j \in 1 .. Len(more) : more[j].line = lineNo + 1, NEW types
    PROVE  /\ \A i \in DOMAIN newTokenList' : newTokenList'[i].line \in 1 .. lineNo'
           /\ \A n \in 1 .. lineNo : TokensOf(types, n)' = TokensOf(types, n)
           /\ \A n \in Nat : n = lineNo + 1 =>
                 TokensOf(types, n)' = {i \in Len(newTokenList) + 1 .. Len(newTokenList) + Len(more) :
                                           more[i - Len(newTokenList)].type \in types}
<1> DEFINE old == Len(newTokenList)
<1>1. /\ newTokenList \in Seq(Token) /\ old \in Nat /\ DOMAIN newTokenList = 1 .. old
      /\ Len(more) \in Nat /\ lineNo \in Nat
  BY LenProperties DEF TypeOK
<1>2. /\ newTokenList' \in Seq(Token) /\ Len(newTokenList') = old + Len(more)
      /\ \A i \in 1 .. old + Len(more) :
            newTokenList'[i] = IF i <= old THEN newTokenList[i] ELSE more[i - old]
  BY <1>1, ConcatProperties
<1>3. DOMAIN newTokenList' = 1 .. old + Len(more)
  BY <1>2, LenProperties
<1>4. \A i \in 1 .. old : newTokenList'[i] = newTokenList[i] /\ newTokenList[i].line \in 1 .. lineNo
                          /\ i \in 1 .. old + Len(more)
  BY <1>1, <1>2 DEF LinesSeen
<1>5. \A i \in old + 1 .. old + Len(more) :
         newTokenList'[i] = more[i - old] /\ newTokenList'[i].line = lineNo + 1
         /\ i \in 1 .. old + Len(more)
  <2> SUFFICES ASSUME NEW i \in old + 1 .. old + Len(more)
               PROVE  newTokenList'[i] = more[i - old] /\ newTokenList'[i].line = lineNo + 1
                      /\ i \in 1 .. old + Len(more)
    OBVIOUS
  <2>1. i - old \in 1 .. Len(more) /\ i \in 1 .. old + Len(more) /\ ~ (i <= old)
    BY <1>1
  <2> QED
    BY <1>2, <2>1
<1>6. 1 .. old + Len(more) = (1 .. old) \cup (old + 1 .. old + Len(more))
  BY <1>1
<1> HIDE DEF old
<1> QED
  <2>1. \A i \in DOMAIN newTokenList' : newTokenList'[i].line \in 1 .. lineNo'
    <3>1. lineNo' = lineNo + 1 /\ lineNo + 1 \in 1 .. lineNo + 1
          /\ \A k \in 1 .. lineNo : k \in 1 .. lineNo + 1
      BY <1>1
    <3> QED
      BY <1>3, <1>4, <1>5, <1>6, <3>1
  <2>2. ASSUME NEW n \in 1 .. lineNo PROVE TokensOf(types, n)' = TokensOf(types, n)
    <3>1. n # lineNo + 1
      BY <1>1
    <3>2. \A i \in old + 1 .. old + Len(more) : newTokenList'[i].line # n
      BY <1>5, <3>1
    <3> QED
      BY <1>1, <1>3, <1>4, <1>6, <3>2 DEF TokensOf
  <2>3. ASSUME NEW n \in Nat, n = lineNo + 1
        PROVE  TokensOf(types, n)' = {i \in old + 1 .. old + Len(more) : more[i - old].type \in types}
    <3>1. \A i \in 1 .. old : newTokenList'[i].line # n
      <4>1. \A k \in 1 .. lineNo : k # n
        BY <1>1, <2>3
      <4> QED
        BY <1>4, <4>1
    <3> QED
      BY <1>3, <1>5, <1>6, <2>3, <3>1 DEF TokensOf
  <2> QED
    BY <2>1, <2>2, <2>3 DEF old

(* A line that ends no loop has no terminal token.                          *)
LEMMA LineEndsNothing ==
    ASSUME TerminalsInv, NEW t \in Token, newTokenList' = Append(newTokenList, t),
           t.type \notin AnyTerminal, t.line = lineNo + 1, lineNo' = lineNo + 1,
           UNCHANGED closed
    PROVE  LinesSeen' /\ TerminalsMatchClosed'
<1>1. <<t>> \in Seq(Token) /\ Len(<<t>>) = 1 /\ <<t>>[1] = t
  OBVIOUS
<1>2. newTokenList' = newTokenList \o <<t>>
  BY AppendIsConcat DEF TerminalsInv, PrepassInv, TypeOK
<1>3. lineNo \in Nat /\ Len(newTokenList) \in Nat
  BY LenProperties DEF TerminalsInv, PrepassInv, TypeOK
<1>4. \A n \in 1 .. lineNo' : n \in 1 .. lineNo \/ n = lineNo + 1
  BY <1>3
<1>5. ASSUME NEW types \in {Terminal, AnyTerminal}
      PROVE  /\ \A i \in DOMAIN newTokenList' : newTokenList'[i].line \in 1 .. lineNo'
             /\ \A n \in 1 .. lineNo : TokensOf(types, n)' = TokensOf(types, n)
             /\ \A n \in Nat : n = lineNo + 1 => TokensOf(types, n)' = {}
  <2>1. t.type \notin types
    BY DEF Terminal, AnyTerminal
  <2>2. \A j \in 1 .. Len(<<t>>) : <<t>>[j].line = lineNo + 1
    BY <1>1
  <2>3. \A i \in Len(newTokenList) + 1 .. Len(newTokenList) + Len(<<t>>) :
           <<t>>[i - Len(newTokenList)].type \notin types
    <3> SUFFICES ASSUME NEW i \in Len(newTokenList) + 1 .. Len(newTokenList) + Len(<<t>>)
                 PROVE  <<t>>[i - Len(newTokenList)].type \notin types
      OBVIOUS
    <3>1. i - Len(newTokenList) = 1
      BY <1>1, <1>3
    <3> QED
      BY <1>1, <2>1, <3>1
  <2>4. /\ \A i \in DOMAIN newTokenList' : newTokenList'[i].line \in 1 .. lineNo'
        /\ \A n \in 1 .. lineNo : TokensOf(types, n)' = TokensOf(types, n)
        /\ \A n \in Nat : n = lineNo + 1 =>
              TokensOf(types, n)' = {i \in Len(newTokenList) + 1 .. Len(newTokenList) + Len(<<t>>) :
                                        <<t>>[i - Len(newTokenList)].type \in types}
    BY <1>1, <1>2, <2>2, AddedTokens DEF TerminalsInv, PrepassInv
  <2> QED
    BY <2>3, <2>4
<1>6. LinesSeen'
  BY <1>3, <1>5 DEF TerminalsInv, LinesSeen
<1>7. \A n \in 1 .. lineNo' : Matched(n)'
  <2>1. \A n \in 1 .. lineNo : EndedBy(n)' = EndedBy(n) /\ Matched(n)
    BY MatchedIsTerminalsMatchClosed DEF EndedBy, TerminalsInv
  <2>2. \A n \in 1 .. lineNo : Matched(n)'
    BY <1>5, <2>1 DEF Matched
  <2>3. ASSUME NEW n \in Nat, n = lineNo + 1 PROVE Matched(n)'
    <3>1. EndedBy(n)' = {}
      BY <1>3, <2>3 DEF EndedBy, TerminalsInv, LinesSeen
    <3>2. TokensOf(Terminal, n)' = {} /\ TokensOf(AnyTerminal, n)' = {}
      BY <1>5, <2>3
    <3> QED
      BY <3>1, <3>2, FS_EmptySet DEF Matched
  <2> QED
    BY <1>3, <1>4, <2>2, <2>3
<1> QED
  BY <1>6, <1>7, MatchedIsTerminalsMatchClosed

(* A line that ends the loops above the k-th has one terminal token for     *)
(* each, for they began on different lines.                                 *)
LEMMA LineEndsLoops ==
    ASSUME TerminalsInv, NEW line \in Lines, line.label \in LabelText,
           NEW k \in 0 .. Len(doLabels) - 1, lineNo' = lineNo + 1,
           newTokenList' = newTokenList \o TerminalTokens(line, lineNo + 1, Len(doLabels) - k),
           closed' = closed \cup {<<doLabels[i].line, lineNo + 1>> : i \in k + 1 .. Len(doLabels)}
    PROVE  LinesSeen' /\ TerminalsMatchClosed'
<1> DEFINE count == Len(doLabels) - k
           more == TerminalTokens(line, lineNo + 1, count)
           old == Len(newTokenList)
<1>1. /\ lineNo \in Nat /\ old \in Nat /\ Len(doLabels) \in Nat /\ count \in Nat \ {0} /\ k \in Nat
      /\ doLabels \in Seq(LabelToken)
  BY LenProperties DEF TerminalsInv, PrepassInv, TypeOK
<1>2. more \in Seq(Token)
  <2>1. lineNo + 1 \in Nat /\ count \in Nat
    BY <1>1
  <2> HIDE DEF count
  <2> QED
    BY <2>1, TerminalTokensType
<1>3. Len(more) = count
      /\ \A j \in 1 .. count : /\ more[j].line = lineNo + 1
                               /\ more[j].type = IF j = 1 THEN "T_LABEL_DO_TERMINAL"
                                                 ELSE "T_LABEL_DO_TERMINAL_INSERTED"
  <2> HIDE DEF count
  <2> QED
    BY <1>1 DEF TerminalTokens
<1> HIDE DEF count, more, old
<1>4. ASSUME NEW types
      PROVE  /\ \A i \in DOMAIN newTokenList' : newTokenList'[i].line \in 1 .. lineNo'
             /\ \A n \in 1 .. lineNo : TokensOf(types, n)' = TokensOf(types, n)
             /\ \A n \in Nat : n = lineNo + 1 =>
                   TokensOf(types, n)' = {i \in old + 1 .. old + count : more[i - old].type \in types}
  <2>1. newTokenList' = newTokenList \o more /\ lineNo' = lineNo + 1
    BY DEF more, count
  <2>2. TypeOK /\ LinesSeen
    BY DEF TerminalsInv, PrepassInv
  <2>3. \A j \in 1 .. Len(more) : more[j].line = lineNo + 1
    BY <1>3
  <2>4. Len(more) = count
    BY <1>3
  <2>5. /\ \A i \in DOMAIN newTokenList' : newTokenList'[i].line \in 1 .. lineNo'
        /\ \A n \in 1 .. lineNo : TokensOf(types, n)' = TokensOf(types, n)
        /\ \A n \in Nat : n = lineNo + 1 =>
              TokensOf(types, n)' = {i \in Len(newTokenList) + 1 .. Len(newTokenList) + Len(more) :
                                        more[i - Len(newTokenList)].type \in types}
    BY <1>2, <2>1, <2>2, <2>3, AddedTokens
  <2> QED
    BY <2>4, <2>5 DEF old
<1>5. \A i \in old + 1 .. old + count :
         more[i - old].type = IF i = old + 1 THEN "T_LABEL_DO_TERMINAL"
                              ELSE "T_LABEL_DO_TERMINAL_INSERTED"
  <2> SUFFICES ASSUME NEW i \in old + 1 .. old + count
               PROVE  more[i - old].type = IF i = old + 1 THEN "T_LABEL_DO_TERMINAL"
                                           ELSE "T_LABEL_DO_TERMINAL_INSERTED"
    OBVIOUS
  <2>1. i - old \in 1 .. count /\ (i - old = 1 <=> i = old + 1)
    BY <1>1
  <2> QED
    BY <1>3, <2>1
<1>6. ASSUME NEW n \in Nat, n = lineNo + 1 PROVE Matched(n)'
  <2>1. TokensOf(Terminal, n)' = {old + 1}
    <3>1. old + 1 \in old + 1 .. old + count
      BY <1>1
    <3>2. \A i \in old + 1 .. old + count : more[i - old].type \in Terminal <=> i = old + 1
      BY <1>5 DEF Terminal
    <3>3. TokensOf(Terminal, n)' = {i \in old + 1 .. old + count : more[i - old].type \in Terminal}
      BY <1>4, <1>6
    <3> QED
      BY <3>1, <3>2, <3>3
  <2>2. TokensOf(AnyTerminal, n)' = old + 1 .. old + count
    <3>1. \A i \in old + 1 .. old + count : more[i - old].type \in AnyTerminal
      BY <1>5 DEF AnyTerminal
    <3> QED
      BY <1>4, <1>6, <3>1
  <2>3. Cardinality(TokensOf(Terminal, n)') = 1
    BY <2>1, FS_Singleton
  <2>4. Cardinality(TokensOf(AnyTerminal, n)') = count
    <3> DEFINE first == old + 1
               last == old + count
    <3>1. first \in Int /\ last \in Int /\ ~ (first > last) /\ last - first + 1 = count
      BY <1>1
    <3>2. Cardinality(first .. last) = count
      <4> HIDE DEF first, last
      <4> QED
        BY <3>1, FS_Interval
    <3> QED
      BY <2>2, <3>2
  <2>5. Cardinality(EndedBy(n)') = count
    <3> DEFINE popped == k + 1 .. Len(doLabels)
               ended == {<<doLabels[i].line, n>> : i \in popped}
               f == [i \in popped |-> <<doLabels[i].line, n>>]
    <3>1. EndedBy(n)' = ended
      BY <1>1, <1>6 DEF EndedBy, TerminalsInv, LinesSeen
    <3>2. f \in Surjection(popped, ended)
      BY DEF Surjection
    <3>3. f \in Injection(popped, ended)
      <4>1. \A i, j \in popped : i < j => doLabels[i].line < doLabels[j].line
        BY <1>1 DEF TerminalsInv, PrepassInv, StackSorted
      <4>2. \A i \in popped : doLabels[i].line \in Nat
        BY <1>1, StackFacts
      <4>3. \A i, j \in popped : doLabels[i].line = doLabels[j].line => i = j
        <5>1. \A i, j \in popped : i < j \/ j < i \/ i = j
          BY <1>1
        <5> HIDE DEF popped
        <5> QED
          BY <4>1, <4>2, <5>1
      <4> QED
        BY <4>3 DEF Injection, IsInjective
    <3>4. IsFiniteSet(popped) /\ Cardinality(popped) = count
      <4>1. k + 1 \in Int /\ Len(doLabels) \in Int /\ ~ (k + 1 > Len(doLabels))
            /\ Len(doLabels) - (k + 1) + 1 = count
        BY <1>1 DEF count
      <4> QED
        BY <4>1, FS_Interval
    <3> HIDE DEF popped, ended, f
    <3> QED
      BY <3>1, <3>2, <3>3, <3>4, FS_Surjection
  <2> QED
    BY <1>1, <2>3, <2>4, <2>5 DEF Matched
<1>7. \A n \in 1 .. lineNo : Matched(n)'
  <2>1. \A n \in 1 .. lineNo : EndedBy(n)' = EndedBy(n) /\ Matched(n)
    BY <1>1, MatchedIsTerminalsMatchClosed DEF EndedBy, TerminalsInv
  <2> QED
    BY <1>4, <2>1 DEF Matched
<1>8. \A n \in 1 .. lineNo' : n \in 1 .. lineNo \/ (n = lineNo + 1 /\ n \in Nat)
  BY <1>1
<1>9. LinesSeen'
  <2>1. \A i \in DOMAIN newTokenList' : newTokenList'[i].line \in 1 .. lineNo'
    BY <1>4
  <2>2. \A p \in closed' : p \in closed \/ p[2] = lineNo + 1
    OBVIOUS
  <2>3. \A p \in closed' : p[2] \in 1 .. lineNo'
    BY <1>1, <2>2 DEF TerminalsInv, LinesSeen
  <2> QED
    BY <2>1, <2>3 DEF LinesSeen
<1> QED
  BY <1>6, <1>7, <1>8, <1>9, MatchedIsTerminalsMatchClosed

LEMMA TerminalsStep == TerminalsInv /\ [Next]_vars => LinesSeen' /\ TerminalsMatchClosed'
<1> SUFFICES ASSUME TerminalsInv, [Next]_vars PROVE LinesSeen' /\ TerminalsMatchClosed'
  OBVIOUS
<1>0. lineNo \in Nat
  BY DEF TerminalsInv, PrepassInv, TypeOK
<1>1. ASSUME NEW line \in Lines, PrepassLine(line) PROVE LinesSeen' /\ TerminalsMatchClosed'
  <2>1. lineNo' = lineNo + 1
    BY <1>1 DEF PrepassLine
  <2>2. CASE PushLabel(line) \/ LeaveLabels(line)
    <3> DEFINE t == StatementToken(line, lineNo + 1)
    <3>1. t \in Token /\ t.line = lineNo + 1 /\ t.type \notin AnyTerminal
      BY <1>0, StatementTokenType DEF StatementToken, AnyTerminal
    <3>2. newTokenList' = Append(newTokenList, t) /\ UNCHANGED closed
      BY <2>2 DEF PushLabel, LeaveLabels
    <3> HIDE DEF t
    <3> QED
      BY <2>1, <3>1, <3>2, LineEndsNothing
  <2>3. CASE fixupLabeledEndDo(line)
    <3>1. line.label \in LabelText
      BY <2>3, PrepassAssumption DEF fixupLabeledEndDo, TerminatesDo, callsFixup, Line
    <3>2. PICK k \in 0 .. Len(doLabels) - 1 :
            /\ newTokenList' = newTokenList \o TerminalTokens(line, lineNo + 1, Len(doLabels) - k)
            /\ closed' = closed \cup
                  {<<doLabels[i].line, lineNo + 1>> : i \in k + 1 .. Len(doLabels)}
      BY <2>3 DEF fixupLabeledEndDo
    <3> QED
      BY <2>1, <3>1, <3>2, LineEndsLoops
  <2> QED
    BY <1>1, <2>2, <2>3 DEF PrepassLine
<1>2. CASE UNCHANGED <<lineNo, newTokenList, closed>>
  <2>1. LinesSeen'
    BY <1>2 DEF TerminalsInv, LinesSeen
  <2>2. \A n : Matched(n)' <=> Matched(n)
    BY <1>2 DEF Matched, TokensOf, EndedBy
  <2> QED
    BY <1>2, <2>1, <2>2, MatchedIsTerminalsMatchClosed DEF TerminalsInv
<1>3. PrepassEnd \/ UNCHANGED vars => UNCHANGED <<lineNo, newTokenList, closed>>
  BY DEF PrepassEnd, vars
<1>4. (\E line \in Lines : PrepassLine(line)) \/ PrepassEnd \/ UNCHANGED vars
  BY DEF Next
<1> QED
  BY <1>1, <1>2, <1>3, <1>4

(* However many loops share a terminal statement, its line has one terminal  *)
(* token for each: TerminalsMatchClosed of LexicalPrepass.                   *)
THEOREM PrepassMarksEveryEnd == Spec => []TerminalsMatchClosed
<1>1. Init => TerminalsInv
  <2> SUFFICES ASSUME Init PROVE LinesSeen /\ TerminalsMatchClosed
    BY PrepassInitial DEF TerminalsInv
  <2>1. LinesSeen
    BY DEF Init, LinesSeen
  <2>2. 1 .. lineNo = {}
    BY DEF Init
  <2> QED
    BY <2>1, <2>2 DEF TerminalsMatchClosed
<1>2. TerminalsInv /\ [Next]_vars => TerminalsInv'
  BY TerminalsStep, PrepassTypeStep, StackSortedStep DEF TerminalsInv, PrepassInv
<1>3. TerminalsInv => TerminalsMatchClosed
  BY DEF TerminalsInv
<1> QED
  BY <1>1, <1>2, <1>3, PTL DEF Spec

-----------------------------------------------------------------------------
(* What a legal program has in common with the stack of the prepass.  The    *)
(* label of a loop that is open has not been seen, and a label on the stack  *)
(* that has not been seen is that of an open loop: what is left behind by an *)
(* end that was not recognised can never be matched again.                  *)
Loop == [text : LabelText \cup {NoLabel}, line : Nat]

NestFacts ==
    /\ nest \in Seq(Loop) /\ used \subseteq LabelText
    /\ \A i \in 1 .. Len(nest) : nest[i].line \in 1 .. lineNo /\ Fresh(nest[i].text)
    /\ \A i, j \in 1 .. Len(nest) : i < j => nest[i].line < nest[j].line

OpenOrUsed ==
    \A i \in 1 .. Len(doLabels) :
        Fresh(doLabels[i].text) => \E j \in 1 .. Len(nest) : nest[j] = doLabels[i]

StackComplete ==
    known =>
        /\ \A i \in 1 .. Len(doLabels) : \E j \in 1 .. Len(nest) : nest[j] = doLabels[i]
        /\ \A j \in 1 .. Len(nest) :
              nest[j].text # NoLabel => \E i \in 1 .. Len(doLabels) : nest[j] = doLabels[i]

SourceInv == legal => NestFacts /\ OpenOrUsed /\ StackComplete

-----------------------------------------------------------------------------
(* Labels are the same if their numbers are.                                *)
LEMMA SameLabelFacts ==
    ASSUME NEW l \in LabelText \cup {NoLabel}, NEW m \in LabelText \cup {NoLabel}
    PROVE  /\ SameLabel(l, m) <=> l \in LabelText /\ m \in LabelText /\ labelsMatch(l, m)
           /\ SameLabel(l, m) => SameLabel(m, l)
           /\ \A k \in LabelText \cup {NoLabel} : SameLabel(k, l) /\ SameLabel(l, m) => SameLabel(k, m)
BY PrepassAssumption DEF SameLabel, labelsMatch

LEMMA LoopFacts ==
    ASSUME NEW n \in Seq(Loop)
    PROVE  /\ Len(n) \in Nat
           /\ DOMAIN n = 1 .. Len(n)
           /\ \A i \in 1 .. Len(n) : n[i] \in Loop /\ n[i].line \in Nat
                                     /\ n[i].text \in LabelText \cup {NoLabel}
<1>1. Len(n) \in Nat /\ DOMAIN n = 1 .. Len(n)
  BY LenProperties
<1>2. \A i \in 1 .. Len(n) : n[i] \in Loop
  BY ElementOfSeq
<1> QED
  BY <1>1, <1>2 DEF Loop

LEMMA KeepFacts ==
    ASSUME NEW n \in Seq(Loop), NEW m \in 0 .. Len(n)
    PROVE  /\ SubSeq(n, 1, m) \in Seq(Loop)
           /\ Len(SubSeq(n, 1, m)) = m /\ m \in Nat
           /\ \A i \in 1 .. m : SubSeq(n, 1, m)[i] = n[i]
<1>1. m \in Int /\ Len(n) \in Nat /\ m <= Len(n) /\ m >= 0
  BY LoopFacts
<1>2. \A i \in 1 .. m : n[i] \in Loop
  BY <1>1, LoopFacts
<1>3. /\ SubSeq(n, 1, m) \in Seq(Loop)
      /\ Len(SubSeq(n, 1, m)) = IF 1 <= m THEN m - 1 + 1 ELSE 0
      /\ \A i \in 1 .. m - 1 + 1 : SubSeq(n, 1, m)[i] = n[1 + i - 1]
  BY <1>1, <1>2, SubSeqProperties
<1> QED
  BY <1>1, <1>3

(* There are loops left by a statement labelled l: those below the lowest    *)
(* from which on every loop has that label.                                 *)
LEMMA LeftByFacts ==
    ASSUME nest \in Seq(Loop), NEW l \in LabelText \cup {NoLabel}
    PROVE  \E m \in 0 .. Len(nest) :
              /\ LeftBy(l) = SubSeq(nest, 1, m)
              /\ \A i \in m + 1 .. Len(nest) : SameLabel(nest[i].text, l)
<1> DEFINE ends == {m \in 0 .. Len(nest) :
                       \A i \in m + 1 .. Len(nest) : SameLabel(nest[i].text, l)}
           Left(n) == /\ ~ Innermost(n, l)
                      /\ \A i \in Len(n) + 1 .. Len(nest) : SameLabel(nest[i].text, l)
<1>0. Len(nest) \in Nat
  BY LoopFacts
<1>1. ends \in SUBSET Nat /\ Len(nest) \in ends
  BY <1>0
<1>2. PICK least \in ends : \A m \in ends : least <= m
  <2> HIDE DEF ends
  <2> QED
    BY <1>1, LeastElement
<1>3. least \in 0 .. Len(nest) /\ least \in Nat
  BY <1>0, <1>2
<1>4. Len(SubSeq(nest, 1, least)) = least
      /\ \A i \in 1 .. least : SubSeq(nest, 1, least)[i] = nest[i]
  BY <1>3, KeepFacts
<1>5. Left(SubSeq(nest, 1, least))
  <2>1. ASSUME Innermost(SubSeq(nest, 1, least), l) PROVE FALSE
    <3>1. least > 0
      BY <1>3, <1>4, <2>1 DEF Innermost
    <3>2. SameLabel(nest[least].text, l)
      BY <1>3, <1>4, <2>1, <3>1 DEF Innermost
    <3>3. \A i \in least - 1 + 1 .. Len(nest) : i = least \/ i \in least + 1 .. Len(nest)
      BY <1>0, <1>3
    <3>4. \A i \in least + 1 .. Len(nest) : SameLabel(nest[i].text, l)
      BY <1>2
    <3>5. \A i \in least - 1 + 1 .. Len(nest) : SameLabel(nest[i].text, l)
      BY <3>2, <3>3, <3>4
    <3>6. least - 1 \in 0 .. Len(nest)
      BY <1>0, <1>3, <3>1
    <3>7. least - 1 \in ends
      BY <3>5, <3>6
    <3>8. least <= least - 1
      <4> HIDE DEF ends
      <4> QED
        BY <1>2, <3>7
    <3> QED
      BY <1>3, <3>8
  <2> QED
    BY <1>2, <1>4, <2>1
<1>6. SubSeq(nest, 1, least) \in {SubSeq(nest, 1, k) : k \in 0 .. Len(nest)}
  BY <1>3
<1>7. LeftBy(l) \in {SubSeq(nest, 1, k) : k \in 0 .. Len(nest)} /\ Left(LeftBy(l))
  BY <1>5, <1>6 DEF LeftBy
<1>8. PICK m \in 0 .. Len(nest) : LeftBy(l) = SubSeq(nest, 1, m)
  BY <1>7
<1>9. Len(LeftBy(l)) = m
  BY <1>8, KeepFacts
<1> QED
  BY <1>7, <1>8, <1>9

-----------------------------------------------------------------------------
(* The statement ends the loops of nest above the m-th: those with its      *)
(* label, or with none for END DO.                                          *)
EndsDownTo(line, m) ==
    /\ nest' = SubSeq(nest, 1, m)
    /\ Fresh(line.label)
    /\ line.kind \notin DoKind
    /\ \A i \in 1 .. m : ~ SameLabel(nest[i].text, line.label)
    /\ \A i \in m + 1 .. Len(nest) :
          nest[i].text # NoLabel => SameLabel(nest[i].text, line.label)
    /\ line.kind = "END_DO" => m + 1 = Len(nest)
    /\ line.kind # "END_DO" /\ m < Len(nest) =>
          line.kind \in ActionKind /\ \A i \in m + 1 .. Len(nest) : nest[i].text # NoLabel

LEMMA LineType ==
    ASSUME NEW line \in Lines
    PROVE  /\ line.label \in LabelText \cup {NoLabel} /\ line.target \in LabelText \cup {NoLabel}
           /\ line.target # NoLabel <=> line.kind \in {"DO_CONTROL", "DO_BARE"}
           /\ line.kind \in Kind
BY PrepassAssumption DEF Line

LEMMA LegalEnds ==
    ASSUME NestFacts, NEW line \in Lines, SourceLine(line),
           LegalEndDo(line) \/ LegalStatement(line)
    PROVE  \E m \in 0 .. Len(nest) : EndsDownTo(line, m)
<1>0. /\ nest \in Seq(Loop) /\ Len(nest) \in Nat /\ DOMAIN nest = 1 .. Len(nest)
      /\ line.label \in LabelText \cup {NoLabel} /\ Fresh(line.label)
  BY LoopFacts, LineType DEF NestFacts, SourceLine
<1>1. CASE LegalEndDo(line)
  <2> DEFINE m == Len(nest) - 1
  <2>1. m \in 0 .. Len(nest) /\ m + 1 = Len(nest)
    BY <1>0, <1>1, EmptySeq DEF LegalEndDo
  <2>2. Outer(nest) = SubSeq(nest, 1, m) /\ nest' = Outer(nest) /\ ~ Names(Outer(nest), line.label)
        /\ (nest[Len(nest)].text = NoLabel \/ Innermost(nest, line.label))
        /\ line.kind = "END_DO"
    BY <1>1 DEF LegalEndDo, Outer
  <2> HIDE DEF m
  <2>3. /\ DOMAIN Outer(nest) = 1 .. m /\ \A i \in 1 .. m : Outer(nest)[i] = nest[i]
    BY <1>0, <2>1, <2>2, KeepFacts, LoopFacts
  <2>4. \A i \in 1 .. m : ~ SameLabel(nest[i].text, line.label)
    BY <2>2, <2>3 DEF Names
  <2>5. \A i \in m + 1 .. Len(nest) : i = Len(nest)
    <3>1. \A n \in Nat : \A i \in n .. n : i = n
      OBVIOUS
    <3> QED
      BY <1>0, <2>1, <3>1
  <2> QED
    BY <1>0, <2>1, <2>2, <2>4, <2>5 DEF EndsDownTo, Innermost, DoKind
<1>2. CASE LegalStatement(line)
  <2>1. PICK m \in 0 .. Len(nest) :
          /\ LeftBy(line.label) = SubSeq(nest, 1, m)
          /\ \A i \in m + 1 .. Len(nest) : SameLabel(nest[i].text, line.label)
    BY <1>0, LeftByFacts
  <2>2. /\ nest' = SubSeq(nest, 1, m) /\ ~ Names(SubSeq(nest, 1, m), line.label)
        /\ Names(nest, line.label) => line.kind \in ActionKind
        /\ line.kind \notin DoKind \cup {"END_DO"}
    BY <1>2, <2>1 DEF LegalStatement
  <2>3. /\ DOMAIN SubSeq(nest, 1, m) = 1 .. m /\ m \in Nat
        /\ \A i \in 1 .. m : SubSeq(nest, 1, m)[i] = nest[i]
    BY <1>0, KeepFacts, LoopFacts
  <2>4. \A i \in 1 .. m : ~ SameLabel(nest[i].text, line.label)
    BY <2>2, <2>3 DEF Names
  <2>5. m < Len(nest) => Len(nest) \in m + 1 .. Len(nest) /\ Len(nest) \in DOMAIN nest
    BY <1>0, <2>3
  <2>6. m < Len(nest) => Names(nest, line.label)
    BY <2>1, <2>5 DEF Names
  <2>7. \A i \in m + 1 .. Len(nest) : nest[i].text # NoLabel
    BY <2>1 DEF SameLabel
  <2> QED
    BY <1>0, <2>1, <2>2, <2>4, <2>6, <2>7 DEF EndsDownTo
<1> QED
  BY <1>1, <1>2

(* If every loop of s above the a-th is one of t above the b-th, there are   *)
(* no more of them, for they began on different lines.                      *)
LEMMA CountByLine ==
    ASSUME NEW s \in Seq(Loop), NEW t \in Seq(Loop), NEW a \in 0 .. Len(s), NEW b \in 0 .. Len(t),
           \A i, j \in 1 .. Len(s) : i < j => s[i].line < s[j].line,
           \A i \in a + 1 .. Len(s) : \E j \in b + 1 .. Len(t) : t[j] = s[i]
    PROVE  Len(s) - a <= Len(t) - b
<1> DEFINE S == a + 1 .. Len(s)
           T == b + 1 .. Len(t)
           f == [i \in S |-> CHOOSE j \in T : t[j] = s[i]]
<1>0. Len(s) \in Nat /\ Len(t) \in Nat /\ a \in Nat /\ b \in Nat /\ a <= Len(s) /\ b <= Len(t)
  BY LoopFacts
<1>1. \A i \in S : f[i] \in T /\ t[f[i]] = s[i]
  OBVIOUS
<1>2. \A i, j \in S : s[i] = s[j] => i = j
  <2>1. \A i \in S : i \in 1 .. Len(s) /\ s[i].line \in Nat
    BY <1>0, LoopFacts
  <2>2. \A i, j \in S : i < j \/ j < i \/ i = j
    BY <1>0
  <2>3. \A i, j \in S : i < j => s[i].line < s[j].line
    BY <2>1
  <2> HIDE DEF S
  <2>4. ASSUME NEW i \in S, NEW j \in S, s[i] = s[j] PROVE i = j
    <3>1. ~ (s[i].line < s[j].line) /\ ~ (s[j].line < s[i].line)
      BY <2>1, <2>4
    <3> QED
      BY <2>2, <2>3, <3>1
  <2> QED
    BY <2>4
<1>3. f \in Injection(S, T)
  <2>1. f \in [S -> T]
    BY <1>1
  <2>2. \A i, j \in S : f[i] = f[j] => i = j
    <3> HIDE DEF f, S, T
    <3> QED
      BY <1>1, <1>2
  <2> HIDE DEF f, S, T
  <2> QED
    BY <2>1, <2>2 DEF Injection, IsInjective
<1>4. IsFiniteSet(T) /\ Cardinality(T) = Len(t) - b
  <2> DEFINE first == b + 1
             last == Len(t)
  <2>1. first \in Int /\ last \in Int /\ (first > last => last - b = 0) /\ last - first + 1 = last - b
    BY <1>0
  <2>2. IsFiniteSet(first .. last) /\ Cardinality(first .. last) = last - b
    <3> HIDE DEF first, last
    <3> QED
      BY <2>1, FS_Interval
  <2> QED
    BY <2>2
<1>5. IsFiniteSet(S) /\ Cardinality(S) = Len(s) - a
  <2> DEFINE first == a + 1
             last == Len(s)
  <2>1. first \in Int /\ last \in Int /\ (first > last => last - a = 0) /\ last - first + 1 = last - a
    BY <1>0
  <2>2. IsFiniteSet(first .. last) /\ Cardinality(first .. last) = last - a
    <3> HIDE DEF first, last
    <3> QED
      BY <2>1, FS_Interval
  <2> QED
    BY <2>2
<1> HIDE DEF S, T, f
<1> QED
  BY <1>3, <1>4, <1>5, FS_Injection

-----------------------------------------------------------------------------
(* A label that matches that of a statement whose label has not been seen    *)
(* has not been seen either.                                                *)
LEMMA FreshMatch ==
    ASSUME used \subseteq LabelText, NEW l \in LabelText, NEW m \in LabelText,
           labelsMatch(m, l), Fresh(l)
    PROVE  Fresh(m)
BY PrepassAssumption DEF Fresh, SameLabel, labelsMatch

(* What the prepass pops the statement ends in the source, ...               *)
LEMMA PoppedAreEnded ==
    ASSUME PrepassInv, NestFacts, OpenOrUsed, NEW line \in Lines, line.label \in LabelText,
           NEW m \in 0 .. Len(nest), EndsDownTo(line, m),
           NEW k \in 0 .. Len(doLabels) - 1, PopsDownTo(k, line.label)
    PROVE  /\ \A i \in k + 1 .. Len(doLabels) : \E j \in m + 1 .. Len(nest) : nest[j] = doLabels[i]
           /\ Len(doLabels) - k <= Len(nest) - m
<1>0. /\ doLabels \in Seq(LabelToken) /\ Len(doLabels) \in Nat /\ k \in Nat /\ m \in Nat
      /\ nest \in Seq(Loop) /\ Len(nest) \in Nat
      /\ doLabels \in Seq(Loop)
  <2>1. doLabels \in Seq(LabelToken) /\ nest \in Seq(Loop)
    BY DEF PrepassInv, TypeOK, NestFacts
  <2>2. LabelToken \subseteq Loop
    BY DEF LabelToken, Loop
  <2> QED
    BY <2>1, <2>2, StackFacts, LoopFacts, SeqMonotonic
<1>1. ASSUME NEW i \in k + 1 .. Len(doLabels)
      PROVE  \E j \in m + 1 .. Len(nest) : nest[j] = doLabels[i]
  <2>1. i \in 1 .. Len(doLabels)
    BY <1>0
  <2>2. labelsMatch(doLabels[i].text, line.label) /\ doLabels[i].text \in LabelText
    BY <1>0, <2>1, StackFacts DEF PopsDownTo, LabelToken
  <2>3. Fresh(doLabels[i].text)
    BY <2>2, FreshMatch DEF NestFacts, EndsDownTo
  <2>4. PICK j \in 1 .. Len(nest) : nest[j] = doLabels[i]
    BY <2>1, <2>3 DEF OpenOrUsed
  <2>5. SameLabel(nest[j].text, line.label)
    BY <2>2, <2>4, SameLabelFacts
  <2>6. j \notin 1 .. m
    BY <2>5 DEF EndsDownTo
  <2>7. j \in m + 1 .. Len(nest)
    BY <1>0, <2>6
  <2> QED
    BY <2>4, <2>7
<1>2. k \in 0 .. Len(doLabels)
  BY <1>0
<1>3. \A i, j \in 1 .. Len(doLabels) : i < j => doLabels[i].line < doLabels[j].line
  BY DEF PrepassInv, StackSorted
<1> QED
  BY <1>0, <1>1, <1>2, <1>3, CountByLine

(* ... and if the prepass has known all lines so far it pops them all.       *)
LEMMA EndedArePopped ==
    ASSUME PrepassInv, NestFacts, OpenOrUsed, StackComplete, known,
           NEW line \in Lines, line.label \in LabelText,
           NEW m \in 0 .. Len(nest), EndsDownTo(line, m),
           NEW k \in 0 .. Len(doLabels) - 1, PopsDownTo(k, line.label)
    PROVE  /\ \A i \in 1 .. k : \E j \in 1 .. m : nest[j] = doLabels[i]
           /\ \A j \in 1 .. m : nest[j].text # NoLabel => \E i \in 1 .. k : nest[j] = doLabels[i]
           /\ line.kind # "END_DO" => Len(nest) - m <= Len(doLabels) - k
<1>0. /\ doLabels \in Seq(LabelToken) /\ Len(doLabels) \in Nat /\ k \in Nat /\ m \in Nat
      /\ nest \in Seq(Loop) /\ Len(nest) \in Nat
      /\ doLabels \in Seq(Loop) /\ k <= Len(doLabels) - 1 /\ m <= Len(nest)
  <2>1. doLabels \in Seq(LabelToken) /\ nest \in Seq(Loop)
    BY DEF PrepassInv, TypeOK, NestFacts
  <2>2. LabelToken \subseteq Loop
    BY DEF LabelToken, Loop
  <2> QED
    BY <2>1, <2>2, StackFacts, LoopFacts, SeqMonotonic
<1>1. /\ \A i \in 1 .. Len(doLabels) : \E j \in 1 .. Len(nest) : nest[j] = doLabels[i]
      /\ \A j \in 1 .. Len(nest) :
            nest[j].text # NoLabel => \E i \in 1 .. Len(doLabels) : nest[j] = doLabels[i]
  BY DEF StackComplete
<1>2. \A i \in 1 .. Len(doLabels) : /\ doLabels[i].text \in LabelText /\ doLabels[i].line \in Nat
                                    /\ doLabels[i].text # NoLabel
  BY <1>0, StackFacts, PrepassAssumption DEF LabelToken
<1>3. /\ \A i, j \in 1 .. Len(doLabels) : i < j => doLabels[i].line < doLabels[j].line
      /\ \A i, j \in 1 .. Len(nest) : i < j => nest[i].line < nest[j].line
  BY DEF PrepassInv, StackSorted, NestFacts
(* The loops below the k-th label of the stack go on.                        *)
<1>4. ASSUME NEW i \in 1 .. k, NEW j \in 1 .. Len(nest), nest[j] = doLabels[i]
      PROVE  j <= m
  <2> SUFFICES ASSUME ~ (j <= m) PROVE FALSE
    OBVIOUS
  <2>1. k \in 1 .. Len(doLabels) /\ i \in 1 .. Len(doLabels) /\ k > 0
    BY <1>0
  <2>2. PICK top \in 1 .. Len(nest) : nest[top] = doLabels[k]
    BY <1>1, <2>1
  <2>3. i < k \/ i = k
    BY <1>0
  <2>4. nest[j].line < nest[top].line \/ nest[j].line = nest[top].line
    BY <1>3, <1>4, <2>1, <2>2, <2>3
  <2>5. nest[j].line \in Nat /\ nest[top].line \in Nat
    BY <1>0, LoopFacts
  <2>6. ~ (top < j)
    BY <1>3, <2>4, <2>5
  <2>7. top \in m + 1 .. Len(nest)
    BY <1>0, <2>6
  <2>8. SameLabel(nest[top].text, line.label)
    BY <1>2, <2>1, <2>2, <2>7 DEF EndsDownTo
  <2>9. labelsMatch(doLabels[k].text, line.label)
    BY <1>2, <2>1, <2>2, <2>8, SameLabelFacts
  <2> QED
    BY <2>1, <2>9 DEF PopsDownTo
<1>5. \A i \in 1 .. k : \E j \in 1 .. m : nest[j] = doLabels[i]
  <2> SUFFICES ASSUME NEW i \in 1 .. k PROVE \E j \in 1 .. m : nest[j] = doLabels[i]
    OBVIOUS
  <2>0. i \in 1 .. Len(doLabels)
    BY <1>0
  <2>1. PICK j \in 1 .. Len(nest) : nest[j] = doLabels[i]
    BY <1>1, <2>0
  <2>2. j \in 1 .. m
    BY <1>0, <1>4, <2>1
  <2> QED
    BY <2>1, <2>2
<1>6. ASSUME NEW j \in 1 .. m, nest[j].text # NoLabel
      PROVE  \E i \in 1 .. k : nest[j] = doLabels[i]
  <2>1. j \in 1 .. Len(nest)
    BY <1>0
  <2>2. PICK i \in 1 .. Len(doLabels) : nest[j] = doLabels[i]
    BY <1>1, <1>6, <2>1
  <2>3. ASSUME ~ (i \in 1 .. k) PROVE FALSE
    <3>1. i \in k + 1 .. Len(doLabels)
      BY <1>0, <2>3
    <3>2. labelsMatch(doLabels[i].text, line.label)
      BY <3>1 DEF PopsDownTo
    <3>3. SameLabel(nest[j].text, line.label)
      BY <1>2, <2>2, <3>2, SameLabelFacts
    <3> QED
      BY <3>3 DEF EndsDownTo
  <2> QED
    BY <2>2, <2>3
<1>7. ASSUME line.kind # "END_DO"
      PROVE  Len(nest) - m <= Len(doLabels) - k
  <2>1. ASSUME NEW j \in m + 1 .. Len(nest)
        PROVE  \E i \in k + 1 .. Len(doLabels) : doLabels[i] = nest[j]
    <3>1. j \in 1 .. Len(nest) /\ ~ (j <= m) /\ m < Len(nest)
      BY <1>0
    <3>2. nest[j].text # NoLabel
      BY <1>7, <3>1 DEF EndsDownTo
    <3>3. PICK i \in 1 .. Len(doLabels) : nest[j] = doLabels[i]
      BY <1>1, <3>1, <3>2
    <3>4. ~ (i \in 1 .. k)
      BY <1>4, <3>1, <3>3
    <3>5. i \in k + 1 .. Len(doLabels)
      BY <1>0, <3>4
    <3> QED
      BY <3>3, <3>5
  <2>2. k \in 0 .. Len(doLabels)
    BY <1>0
  <2> QED
    BY <1>0, <1>3, <2>1, <2>2, CountByLine
<1> QED
  BY <1>5, <1>6, <1>7

(* A statement of a form the prepass knows is seen to end a labelled loop.   *)
LEMMA KnownTerminates ==
    ASSUME PrepassInv, NestFacts, StackComplete, known, NEW line \in Lines, Known(line),
           NEW m \in 0 .. Len(nest), EndsDownTo(line, m), m < Len(nest),
           nest[Len(nest)].text # NoLabel
    PROVE  TerminatesDo(line)
<1>0. /\ doLabels \in Seq(LabelToken) /\ Len(doLabels) \in Nat /\ m \in Nat
      /\ nest \in Seq(Loop) /\ Len(nest) \in Nat
  BY StackFacts, LoopFacts DEF PrepassInv, TypeOK, NestFacts
<1>1. Len(nest) \in m + 1 .. Len(nest) /\ Len(nest) \in 1 .. Len(nest)
  BY <1>0
<1>2. SameLabel(nest[Len(nest)].text, line.label)
  BY <1>1 DEF EndsDownTo
<1>3. line.label # NoLabel
  BY <1>2 DEF SameLabel
<1>4. callsFixup(line)
  <2>1. Recognised(line)
    BY <1>3 DEF Known, Recognised
  <2>2. line.kind \in {"ACTION", "IO", "ASSIGN", "ONE_LINE", "END_DO"}
    BY DEF EndsDownTo, ActionKind, Known
  <2> QED
    BY <1>3, <2>1, <2>2 DEF callsFixup, matchActionStmtFixes, matchIOStmtFixes,
        matchAssignStmtFixes, matchOneLineStmtFixes, matchEndFixes
<1>5. PICK i \in 1 .. Len(doLabels) : nest[Len(nest)] = doLabels[i]
  BY <1>1 DEF StackComplete
<1>6. Len(doLabels) \in 1 .. Len(doLabels) /\ doLabels # <<>>
  BY <1>0, <1>5
<1>7. PICK j \in 1 .. Len(nest) : nest[j] = doLabels[Len(doLabels)]
  BY <1>6 DEF StackComplete
<1>8. j = Len(nest)
  <2>1. doLabels[i].line < doLabels[Len(doLabels)].line \/ i = Len(doLabels)
    BY <1>0, <1>6 DEF PrepassInv, StackSorted
  <2>2. nest[Len(nest)].line < nest[j].line \/ nest[Len(nest)].line = nest[j].line
    BY <1>5, <1>7, <2>1
  <2>3. nest[Len(nest)].line \in Nat /\ nest[j].line \in Nat
    BY <1>0, <1>1, LoopFacts
  <2>4. ~ (j < Len(nest))
    BY <1>1, <2>2, <2>3 DEF NestFacts
  <2> QED
    BY <1>0, <2>4
<1>9. doLabels[Len(doLabels)].text \in LabelText
  BY <1>0, <1>6, StackFacts DEF LabelToken
<1>10. labelsMatch(doLabels[Len(doLabels)].text, line.label)
  BY <1>2, <1>7, <1>8, <1>9, LineType, SameLabelFacts
<1> QED
  BY <1>4, <1>6, <1>10 DEF TerminatesDo

-----------------------------------------------------------------------------
(* A label is fresh behind a statement if it was and is not that of the      *)
(* statement.                                                               *)
LEMMA FreshLater ==
    ASSUME used \subseteq LabelText, NEW l \in LabelText \cup {NoLabel},
           used' = used \cup ({l} \ {NoLabel}), NEW t \in LabelText \cup {NoLabel}
    PROVE  (~ \E u \in used' : SameLabel(t, u)) <=> Fresh(t) /\ ~ SameLabel(t, l)
BY PrepassAssumption DEF Fresh, SameLabel

(* A DO statement opens its loop on both sides, if the prepass knows it.     *)
LEMMA DoStep ==
    ASSUME PrepassInv, NestFacts, OpenOrUsed, StackComplete, NEW line \in Lines,
           SourceLine(line), LegalDo(line)
    PROVE  (NestFacts /\ OpenOrUsed /\ StackComplete)'
<1> DEFINE loop == [text |-> line.target, line |-> lineNo + 1]
<1>0. /\ doLabels \in Seq(LabelToken) /\ Len(doLabels) \in Nat /\ lineNo \in Nat
      /\ nest \in Seq(Loop) /\ Len(nest) \in Nat
  BY StackFacts, LoopFacts DEF PrepassInv, TypeOK, NestFacts
<1>1. /\ nest' = Append(nest, loop) /\ loop \in Loop /\ Fresh(line.target)
      /\ line.kind \in DoKind /\ line.label = NoLabel
      /\ lineNo' = lineNo + 1 /\ known' = (known /\ Known(line))
  BY <1>0, LineType DEF SourceLine, LegalDo, PrepassLine, Loop
<1>2. used' = used
  BY <1>1 DEF SourceLine
<1>3. \A t : Fresh(t)' <=> Fresh(t)
  BY <1>2 DEF Fresh
<1>4. /\ nest' \in Seq(Loop) /\ Len(nest') = Len(nest) + 1
      /\ nest'[Len(nest) + 1] = loop
      /\ \A i \in 1 .. Len(nest) : nest'[i] = nest[i]
  BY <1>0, <1>1, AppendProperties
<1>5. \A i \in 1 .. Len(nest) + 1 : i \in 1 .. Len(nest) \/ i = Len(nest) + 1
  BY <1>0
<1>6. NestFacts'
  <2> HIDE DEF loop
  <2>0. loop.line = lineNo + 1 /\ loop.text = line.target
    BY DEF loop
  <2>1. \A i \in 1 .. Len(nest') : nest'[i].line \in 1 .. lineNo'
    BY <1>0, <1>1, <1>4, <1>5, <2>0 DEF NestFacts
  <2>2. \A i \in 1 .. Len(nest') : ~ \E u \in used' : SameLabel(nest'[i].text, u)
    BY <1>1, <1>2, <1>4, <1>5, <2>0 DEF NestFacts, Fresh
  <2>3. \A i, j \in 1 .. Len(nest') : i < j => nest'[i].line < nest'[j].line
    <3> SUFFICES ASSUME NEW i \in 1 .. Len(nest'), NEW j \in 1 .. Len(nest'), i < j
                 PROVE  nest'[i].line < nest'[j].line
      OBVIOUS
    <3>1. i \in 1 .. Len(nest)
      BY <1>0, <1>4
    <3>2. nest'[i] = nest[i] /\ nest[i].line \in 1 .. lineNo
      BY <1>4, <3>1 DEF NestFacts
    <3>3. CASE j \in 1 .. Len(nest)
      BY <1>4, <3>1, <3>2, <3>3 DEF NestFacts
    <3>4. CASE j = Len(nest) + 1
      <4>1. nest'[j].line = lineNo + 1
        BY <1>4, <2>0, <3>4
      <4> QED
        BY <1>0, <3>2, <4>1
    <3> QED
      BY <1>4, <1>5, <3>3, <3>4
  <2> QED
    BY <1>2, <1>4, <2>1, <2>2, <2>3 DEF NestFacts, Fresh
<1>7. ~ TerminatesDo(line)
  BY <1>1 DEF TerminatesDo, callsFixup
<1>8. \/ matchDoStmtPushes(line) /\ doLabels' = Append(doLabels, loop) /\ line.target # NoLabel
      \/ ~ matchDoStmtPushes(line) /\ doLabels' = doLabels
  BY <1>7, LineType DEF SourceLine, PrepassLine, PushLabel, fixupLabeledEndDo, LeaveLabels,
     matchDoStmtPushes
<1>9. known' => \/ line.target = NoLabel
                \/ matchDoStmtPushes(line)
  BY <1>1, LineType DEF Known, matchDoStmtPushes, Recognised, DoKind
<1>10. CASE doLabels' = doLabels /\ ~ matchDoStmtPushes(line)
  <2>1. \A i \in 1 .. Len(doLabels) : (\E j \in 1 .. Len(nest) : nest[j] = doLabels[i])
            => \E j \in 1 .. Len(nest') : nest'[j] = doLabels[i]
    BY <1>0, <1>4
  <2>2. OpenOrUsed'
    BY <1>3, <1>10, <2>1 DEF OpenOrUsed, Fresh
  <2>3. known' => loop.text = NoLabel
    BY <1>9, <1>10
  <2> HIDE DEF loop
  <2>4. StackComplete'
    <3> SUFFICES ASSUME known' PROVE
             /\ \A i \in 1 .. Len(doLabels') : \E j \in 1 .. Len(nest') : nest'[j] = doLabels'[i]
             /\ \A j \in 1 .. Len(nest') :
                   nest'[j].text # NoLabel => \E i \in 1 .. Len(doLabels') : nest'[j] = doLabels'[i]
      BY DEF StackComplete
    <3>1. /\ \A i \in 1 .. Len(doLabels) : \E j \in 1 .. Len(nest) : nest[j] = doLabels[i]
          /\ \A j \in 1 .. Len(nest) :
               nest[j].text # NoLabel => \E i \in 1 .. Len(doLabels) : nest[j] = doLabels[i]
      BY <1>1 DEF StackComplete
    <3> QED
      BY <1>4, <1>5, <1>10, <2>1, <2>3, <3>1
  <2> QED
    BY <1>6, <2>2, <2>4
<1>11. CASE doLabels' = Append(doLabels, loop) /\ line.target # NoLabel
  <2>1. loop \in LabelToken
    BY <1>0, <1>11, LineType DEF LabelToken
  <2> HIDE DEF loop
  <2>2. /\ Len(doLabels') = Len(doLabels) + 1 /\ doLabels'[Len(doLabels) + 1] = loop
        /\ \A i \in 1 .. Len(doLabels) : doLabels'[i] = doLabels[i]
    BY <1>0, <1>11, <2>1, PushFacts
  <2>3. \A i \in 1 .. Len(doLabels) + 1 : i \in 1 .. Len(doLabels) \/ i = Len(doLabels) + 1
    BY <1>0
  <2>4. /\ Len(nest) + 1 \in 1 .. Len(nest') /\ Len(doLabels) + 1 \in 1 .. Len(doLabels')
        /\ \A j \in 1 .. Len(nest) : j \in 1 .. Len(nest')
        /\ \A i \in 1 .. Len(doLabels) : i \in 1 .. Len(doLabels')
    BY <1>0, <1>4, <2>2
  <2>5. OpenOrUsed'
    <3>1. \A i \in 1 .. Len(doLabels') : (~ \E u \in used' : SameLabel(doLabels'[i].text, u))
             => \E j \in 1 .. Len(nest') : nest'[j] = doLabels'[i]
      BY <1>2, <1>4, <2>2, <2>3, <2>4 DEF OpenOrUsed, Fresh
    <3> QED
      BY <3>1 DEF OpenOrUsed, Fresh
  <2>6. StackComplete'
    <3> SUFFICES ASSUME known' PROVE
             /\ \A i \in 1 .. Len(doLabels') : \E j \in 1 .. Len(nest') : nest'[j] = doLabels'[i]
             /\ \A j \in 1 .. Len(nest') :
                   nest'[j].text # NoLabel => \E i \in 1 .. Len(doLabels') : nest'[j] = doLabels'[i]
      BY DEF StackComplete
    <3>1. /\ \A i \in 1 .. Len(doLabels) : \E j \in 1 .. Len(nest) : nest[j] = doLabels[i]
          /\ \A j \in 1 .. Len(nest) :
               nest[j].text # NoLabel => \E i \in 1 .. Len(doLabels) : nest[j] = doLabels[i]
      BY <1>1 DEF StackComplete
    <3>2. \A i \in 1 .. Len(doLabels') : \E j \in 1 .. Len(nest') : nest'[j] = doLabels'[i]
      BY <1>4, <2>2, <2>3, <2>4, <3>1
    <3>3. \A j \in 1 .. Len(nest') :
             nest'[j].text # NoLabel => \E i \in 1 .. Len(doLabels') : nest'[j] = doLabels'[i]
      BY <1>4, <1>5, <2>2, <2>4, <3>1
    <3> QED
      BY <3>2, <3>3
  <2> QED
    BY <1>6, <2>5, <2>6
<1> QED
  BY <1>8, <1>10, <1>11

(* A statement that ends loops ends them on both sides, if the prepass       *)
(* knows it; if not, what stays on the stack has a label that has been seen. *)
LEMMA EndStep ==
    ASSUME PrepassInv, NestFacts, OpenOrUsed, StackComplete, NEW line \in Lines,
           SourceLine(line), NEW m \in 0 .. Len(nest), EndsDownTo(line, m)
    PROVE  (NestFacts /\ OpenOrUsed /\ StackComplete)'
<1>0. /\ doLabels \in Seq(LabelToken) /\ Len(doLabels) \in Nat /\ lineNo \in Nat
      /\ nest \in Seq(Loop) /\ Len(nest) \in Nat /\ m \in Nat /\ m <= Len(nest)
      /\ used \subseteq LabelText /\ line.label \in LabelText \cup {NoLabel}
  BY StackFacts, LoopFacts, LineType DEF PrepassInv, TypeOK, NestFacts
<1>1. /\ lineNo' = lineNo + 1 /\ known' = (known /\ Known(line))
      /\ used' = used \cup ({line.label} \ {NoLabel})
  BY DEF SourceLine, PrepassLine
<1>2. /\ nest' \in Seq(Loop) /\ Len(nest') = m /\ \A i \in 1 .. m : nest'[i] = nest[i]
      /\ 1 .. m \subseteq 1 .. Len(nest)
  BY <1>0, KeepFacts DEF EndsDownTo
<1>3. \A i \in 1 .. Len(nest) : nest[i].text \in LabelText \cup {NoLabel}
  BY <1>0, LoopFacts
<1>4. \A i \in 1 .. Len(doLabels) : /\ doLabels[i].text \in LabelText
                                    /\ doLabels[i].text # NoLabel
  BY <1>0, StackFacts, PrepassAssumption DEF LabelToken
<1>5. NestFacts'
  <2>1. \A i \in 1 .. Len(nest') : ~ \E u \in used' : SameLabel(nest'[i].text, u)
    <3> SUFFICES ASSUME NEW i \in 1 .. m PROVE ~ \E u \in used' : SameLabel(nest[i].text, u)
      BY <1>2
    <3>1. Fresh(nest[i].text) /\ ~ SameLabel(nest[i].text, line.label)
          /\ nest[i].text \in LabelText \cup {NoLabel}
      BY <1>2, <1>3 DEF NestFacts, EndsDownTo
    <3> QED
      BY <1>0, <1>1, <3>1, FreshLater
  <2>2. \A i \in 1 .. Len(nest') : nest'[i].line \in 1 .. lineNo'
    BY <1>0, <1>1, <1>2 DEF NestFacts
  <2>3. \A i, j \in 1 .. Len(nest') : i < j => nest'[i].line < nest'[j].line
    BY <1>2 DEF NestFacts
  <2>4. used' \subseteq LabelText
    BY <1>0, <1>1
  <2> QED
    BY <1>2, <2>1, <2>2, <2>3, <2>4 DEF NestFacts, Fresh
(* What is on the stack afterwards was there before.                        *)
<1>6. \E n \in 0 .. Len(doLabels) :
         /\ Len(doLabels') = n /\ 1 .. n \subseteq 1 .. Len(doLabels)
         /\ \A i \in 1 .. n : doLabels'[i] = doLabels[i]
         /\ \/ /\ TerminatesDo(line) /\ PopsDownTo(n, line.label) /\ n \in 0 .. Len(doLabels) - 1
            \/ ~ TerminatesDo(line) /\ n = Len(doLabels)
  <2>1. CASE fixupLabeledEndDo(line)
    <3>1. PICK k \in 0 .. Len(doLabels) - 1 :
            PopsDownTo(k, line.label) /\ doLabels' = SubSeq(doLabels, 1, k)
      BY <2>1 DEF fixupLabeledEndDo
    <3>2. Len(doLabels') = k /\ \A i \in 1 .. k : doLabels'[i] = doLabels[i]
      BY <1>0, <3>1, PopFacts
    <3>3. k \in 0 .. Len(doLabels) /\ 1 .. k \subseteq 1 .. Len(doLabels)
      BY <1>0
    <3> QED
      BY <2>1, <3>1, <3>2, <3>3 DEF fixupLabeledEndDo
  <2>2. CASE LeaveLabels(line)
    <3>1. Len(doLabels) \in 0 .. Len(doLabels) /\ doLabels' = doLabels /\ ~ TerminatesDo(line)
      BY <1>0, <2>2 DEF LeaveLabels
    <3> QED
      BY <3>1
  <2>3. ~ PushLabel(line)
    BY DEF PushLabel, matchDoStmtPushes, EndsDownTo, DoKind
  <2> QED
    BY <2>1, <2>2, <2>3 DEF SourceLine, PrepassLine
<1>7. PICK n \in 0 .. Len(doLabels) :
         /\ Len(doLabels') = n /\ 1 .. n \subseteq 1 .. Len(doLabels)
         /\ \A i \in 1 .. n : doLabels'[i] = doLabels[i]
         /\ \/ /\ TerminatesDo(line) /\ PopsDownTo(n, line.label) /\ n \in 0 .. Len(doLabels) - 1
            \/ ~ TerminatesDo(line) /\ n = Len(doLabels)
  BY <1>6
(* A labelled loop that is not one of the statement's stays open.           *)
<1>8. ASSUME NEW j \in 1 .. Len(nest), nest[j].text # NoLabel,
             ~ SameLabel(nest[j].text, line.label)
      PROVE  j \in 1 .. m
  <2>1. j \notin m + 1 .. Len(nest)
    BY <1>8 DEF EndsDownTo
  <2> QED
    BY <1>0, <2>1
<1>9. OpenOrUsed'
  <2>1. ASSUME NEW i \in 1 .. n, ~ \E u \in used' : SameLabel(doLabels[i].text, u)
        PROVE  \E j \in 1 .. m : nest[j] = doLabels[i]
    <3>1. i \in 1 .. Len(doLabels) /\ doLabels[i].text \in LabelText \cup {NoLabel}
      BY <1>4, <1>7
    <3>2. Fresh(doLabels[i].text) /\ ~ SameLabel(doLabels[i].text, line.label)
      BY <1>0, <1>1, <2>1, <3>1, FreshLater
    <3>3. PICK j \in 1 .. Len(nest) : nest[j] = doLabels[i]
      BY <3>1, <3>2 DEF OpenOrUsed
    <3>4. j \in 1 .. m
      BY <1>4, <1>8, <3>1, <3>2, <3>3
    <3> QED
      BY <3>3, <3>4
  <2>2. \A i \in 1 .. Len(doLabels') : (~ \E u \in used' : SameLabel(doLabels'[i].text, u))
           => \E j \in 1 .. Len(nest') : nest'[j] = doLabels'[i]
    BY <1>2, <1>7, <2>1
  <2> QED
    BY <2>2 DEF OpenOrUsed, Fresh
<1>10. StackComplete'
  <2> SUFFICES ASSUME known'
               PROVE  /\ \A i \in 1 .. n : \E j \in 1 .. m : nest[j] = doLabels[i]
                      /\ \A j \in 1 .. m :
                            nest[j].text # NoLabel => \E i \in 1 .. n : nest[j] = doLabels[i]
    <3>1. Len(nest') = m /\ Len(doLabels') = n
      BY <1>2, <1>7
    <3>2. /\ \A i \in 1 .. n : \A j \in 1 .. m : nest'[j] = doLabels'[i] <=> nest[j] = doLabels[i]
          /\ \A j \in 1 .. m : nest'[j].text = nest[j].text
      BY <1>2, <1>7
    <3> QED
      BY <3>1, <3>2 DEF StackComplete
  <2>0. known /\ Known(line)
    BY <1>1
  <2>1. CASE TerminatesDo(line)
    <3>1. PopsDownTo(n, line.label) /\ n \in 0 .. Len(doLabels) - 1
      BY <1>7, <2>1
    <3>2. line.label \in LabelText
      BY <1>0, <2>1 DEF TerminatesDo, callsFixup
    <3> QED
      BY <2>0, <3>1, <3>2, EndedArePopped
  <2>2. CASE ~ TerminatesDo(line)
    <3>1. n = Len(doLabels)
      BY <1>7, <2>2
    <3>2. m < Len(nest) => nest[Len(nest)].text = NoLabel
      BY <2>0, <2>2, KnownTerminates
    <3>3. \A j \in 1 .. Len(nest) : nest[j].text # NoLabel => j \in 1 .. m
      <4> SUFFICES ASSUME NEW j \in m + 1 .. Len(nest), nest[j].text # NoLabel PROVE FALSE
        BY <1>0
      <4>1. m < Len(nest) /\ Len(nest) \in m + 1 .. Len(nest)
        BY <1>0
      <4>2. line.kind = "END_DO"
        BY <3>2, <4>1 DEF EndsDownTo
      <4>3. j = Len(nest)
        BY <1>0, <4>2 DEF EndsDownTo
      <4> QED
        BY <3>2, <4>1, <4>3
    <3>4. /\ \A i \in 1 .. Len(doLabels) : \E j \in 1 .. Len(nest) : nest[j] = doLabels[i]
          /\ \A j \in 1 .. Len(nest) :
               nest[j].text # NoLabel => \E i \in 1 .. Len(doLabels) : nest[j] = doLabels[i]
      BY <2>0 DEF StackComplete
    <3> QED
      BY <1>2, <1>4, <3>1, <3>3, <3>4
  <2> QED
    BY <2>1, <2>2
<1> QED
  BY <1>5, <1>9, <1>10

-----------------------------------------------------------------------------
(* The prepass runs in the first part of a run of both.                     *)
LEMMA ParseStepIsPrepassStep == [ParseNext]_allVars => [Next]_vars
<1> SUFFICES ASSUME [ParseNext]_allVars PROVE [Next]_vars
  OBVIOUS
<1>1. ASSUME NEW line \in Lines, SourceLine(line) \/ AnyLine(line) PROVE Next
  BY <1>1 DEF SourceLine, AnyLine, Next
<1>2. CASE SourceEnd
  BY <1>2 DEF SourceEnd, Next
<1>3. CASE Parse
  BY <1>3 DEF Parse, do_stmt, end_do, other_stmt, syntax_error
<1>4. CASE UNCHANGED allVars
  BY <1>4 DEF allVars
<1> QED
  BY <1>1, <1>2, <1>3, <1>4 DEF ParseNext

(* What the prepass keeps on its own it keeps when the parser follows it.    *)
THEOREM ParseRunsPrepass == ParseSpec => Spec
<1>1. ParseInit => Init
  BY DEF ParseInit
<1> QED
  BY <1>1, ParseStepIsPrepassStep, PTL DEF ParseSpec, Spec

(* Every source line keeps what a legal program and the stack have in common.*)
LEMMA SourceStep == PrepassInv /\ SourceInv /\ [ParseNext]_allVars => SourceInv'
<1> SUFFICES ASSUME PrepassInv, SourceInv, [ParseNext]_allVars, legal'
             PROVE  (NestFacts /\ OpenOrUsed /\ StackComplete)'
  BY DEF SourceInv
<1>1. legal
  BY DEF ParseNext, SourceLine, AnyLine, SourceEnd, Parse, do_stmt, end_do, other_stmt,
         syntax_error, allVars, sourceVars
<1>2. NestFacts /\ OpenOrUsed /\ StackComplete
  BY <1>1 DEF SourceInv
<1>3. ASSUME NEW line \in Lines, SourceLine(line)
      PROVE  (NestFacts /\ OpenOrUsed /\ StackComplete)'
  <2>1. CASE LegalDo(line)
    BY <1>2, <1>3, <2>1, DoStep
  <2>2. CASE LegalEndDo(line) \/ LegalStatement(line)
    BY <1>2, <1>3, <2>2, LegalEnds, EndStep
  <2> QED
    BY <1>3, <2>1, <2>2 DEF SourceLine
<1>4. CASE UNCHANGED <<lineNo, doLabels, sourceVars>>
  BY <1>2, <1>4 DEF sourceVars, NestFacts, OpenOrUsed, StackComplete, Fresh
<1>5. ASSUME NEW line \in Lines PROVE ~ AnyLine(line)
  BY <1>1 DEF AnyLine
<1>6. SourceEnd \/ Parse \/ UNCHANGED allVars => UNCHANGED <<lineNo, doLabels, sourceVars>>
  BY DEF SourceEnd, PrepassEnd, Parse, do_stmt, end_do, other_stmt, syntax_error, vars, allVars
<1> QED
  BY <1>3, <1>4, <1>5, <1>6 DEF ParseNext

LEMMA SourceInitial == ParseInit => PrepassInv /\ SourceInv
<1> SUFFICES ASSUME ParseInit PROVE NestFacts /\ OpenOrUsed /\ StackComplete
  BY PrepassInitial DEF ParseInit, SourceInv
<1>1. nest = <<>> /\ used = {} /\ doLabels = <<>>
  BY DEF ParseInit, Init
<1>2. Len(nest) = 0 /\ Len(doLabels) = 0 /\ nest \in Seq(Loop)
  BY <1>1
<1> QED
  BY <1>1, <1>2 DEF NestFacts, OpenOrUsed, StackComplete

(* The prepass keeps up with the source: what is open there and known is on  *)
(* the stack, and what is on the stack is open or names a label in use.      *)
THEOREM SourceInvariant == ParseSpec => [](PrepassInv /\ SourceInv)
<1>1. PrepassInv /\ SourceInv /\ [ParseNext]_allVars => PrepassInv' /\ SourceInv'
  BY ParseStepIsPrepassStep, PrepassTypeStep, StackSortedStep, SourceStep DEF PrepassInv
<1> QED
  BY <1>1, SourceInitial, PTL DEF ParseSpec

(* While the lines of a legal program are of forms the prepass knows, the    *)
(* labels on its stack are those of the open labelled loops, outermost       *)
(* first: StackIsNest of PrepassParse.                                       *)
THEOREM StackIsTheNest == ParseSpec => []StackIsNest
<1>1. PrepassInv /\ SourceInv => StackIsNest
  <2> SUFFICES ASSUME PrepassInv, SourceInv, legal, known
               PROVE  /\ {doLabels[i] : i \in DOMAIN doLabels}
                            = {nest[i] : i \in {j \in DOMAIN nest : nest[j].text # NoLabel}}
                      /\ \A i, j \in DOMAIN doLabels : i < j => doLabels[i].line < doLabels[j].line
    BY DEF StackIsNest
  <2>1. doLabels \in Seq(LabelToken) /\ nest \in Seq(Loop)
    BY DEF PrepassInv, TypeOK, SourceInv, NestFacts
  <2>2. DOMAIN doLabels = 1 .. Len(doLabels) /\ DOMAIN nest = 1 .. Len(nest)
        /\ \A i \in 1 .. Len(doLabels) : doLabels[i].text # NoLabel
    BY <2>1, StackFacts, LoopFacts, PrepassAssumption DEF LabelToken
  <2>3. /\ \A i \in 1 .. Len(doLabels) : \E j \in 1 .. Len(nest) : nest[j] = doLabels[i]
        /\ \A j \in 1 .. Len(nest) :
              nest[j].text # NoLabel => \E i \in 1 .. Len(doLabels) : nest[j] = doLabels[i]
    BY DEF SourceInv, StackComplete
  <2>4. {doLabels[i] : i \in DOMAIN doLabels}
          = {nest[i] : i \in {j \in DOMAIN nest : nest[j].text # NoLabel}}
    <3> DEFINE labelled == {j \in DOMAIN nest : nest[j].text # NoLabel}
    <3>1. ASSUME NEW i \in 1 .. Len(doLabels) PROVE \E j \in labelled : nest[j] = doLabels[i]
      BY <2>2, <2>3
    <3>2. ASSUME NEW j \in labelled PROVE \E i \in 1 .. Len(doLabels) : nest[j] = doLabels[i]
      BY <2>2, <2>3
    <3> HIDE DEF labelled
    <3>3. {doLabels[i] : i \in DOMAIN doLabels} \subseteq {nest[j] : j \in labelled}
      BY <2>2, <3>1
    <3>4. {nest[j] : j \in labelled} \subseteq {doLabels[i] : i \in DOMAIN doLabels}
      BY <2>2, <3>2
    <3> QED
      BY <3>3, <3>4 DEF labelled
  <2> QED
    BY <2>2, <2>4 DEF PrepassInv, StackSorted
<1> QED
  BY <1>1, SourceInvariant, PTL

-----------------------------------------------------------------------------
(* What a token does to the parser: s and r are the lines of the DO          *)
(* statements whose constructs it is in, before and behind the token.        *)
Consumes(s, t, r) ==
    \/ t.type = "T_DO" /\ r = Append(s, t.line)
    \/ t.type \in EndDoToken /\ s # <<>> /\ r = Outer(s)
    \/ t.type = "STMT" /\ r = s

(* The parser gets through the tokens tl with the stacks S[0] = s, S[1], ..., *)
(* and pairs each end with the innermost DO.                                *)
GoesThrough(S, s, tl) ==
    /\ S \in [0 .. Len(tl) -> Seq(Nat)]
    /\ S[0] = s
    /\ \A i \in 1 .. Len(tl) : Consumes(S[i - 1], tl[i], S[i])

RunOf(S, tl) == GoesThrough(S, <<>>, tl)

PairOf(S, tl, i) == <<S[i - 1][Len(S[i - 1])], tl[i].line>>

EndsIn(tl, p) == {i \in 1 .. p : tl[i].type \in EndDoToken}

EndsOf(S, tl, p) == {PairOf(S, tl, i) : i \in EndsIn(tl, p)}

(* Behind the last token the parser is in no fewer constructs than there are *)
(* loops open in the source, for the prepass marks no more ends than there   *)
(* are; if it is in no more, every end has been marked.                      *)
AsInSource(S) ==
    LET last == S[Len(newTokenList)] IN
    /\ Len(last) >= Len(nest)
    /\ known => Len(last) = Len(nest)
    /\ Len(last) = Len(nest) =>
          /\ \A i \in 1 .. Len(nest) : last[i] = nest[i].line
          /\ EndsOf(S, newTokenList, Len(newTokenList)) = sourceEnds

ParserAt(S) ==
    /\ pos \in 0 .. Len(newTokenList)
    /\ Len(doStack) = Len(S[pos])
    /\ \A i \in 1 .. Len(doStack) : doStack[i].line = S[pos][i]
    /\ parsedEnds = EndsOf(S, newTokenList, pos)

ParserInv ==
    /\ doStack \in Seq(Token) /\ pos \in 0 .. Len(newTokenList)
    /\ ~ eof => pos = 0 /\ doStack = <<>> /\ parsedEnds = {} /\ ~ syntaxError
    /\ legal =>
        /\ eof => nest = <<>>
        /\ known => ~ syntaxError
        /\ \E S : RunOf(S, newTokenList) /\ AsInSource(S) /\ ParserAt(S)

(* T is the run S through tl, then R through more.                          *)
CarriesOn(T, S, tl, R, more) ==
    /\ RunOf(T, tl \o more)
    /\ T[Len(tl) + Len(more)] = R[Len(more)]
    /\ EndsOf(T, tl \o more, Len(tl) + Len(more))
          = EndsOf(S, tl, Len(tl)) \cup EndsOf(R, more, Len(more))

(* More tokens carry a run of the parser on.                                *)
LEMMA RunGoesOn ==
    ASSUME NEW tl \in Seq(Token), NEW S, RunOf(S, tl), NEW more \in Seq(Token),
           NEW R, GoesThrough(R, S[Len(tl)], more)
    PROVE  \E T : CarriesOn(T, S, tl, R, more)
<1> DEFINE old == Len(tl)
           new == old + Len(more)
           all == tl \o more
           T == [i \in 0 .. new |-> IF i <= old THEN S[i] ELSE R[i - old]]
<1>1. old \in Nat /\ Len(more) \in Nat /\ new \in Nat
  BY LenProperties
<1>2. /\ Len(all) = new
      /\ \A i \in 1 .. new : all[i] = IF i <= old THEN tl[i] ELSE more[i - old]
  BY ConcatProperties
<1>3. /\ S \in [0 .. old -> Seq(Nat)] /\ S[0] = <<>>
      /\ \A i \in 1 .. old : Consumes(S[i - 1], tl[i], S[i])
      /\ R \in [0 .. Len(more) -> Seq(Nat)] /\ R[0] = S[old]
      /\ \A j \in 1 .. Len(more) : Consumes(R[j - 1], more[j], R[j])
  BY DEF RunOf, GoesThrough
<1>4. /\ \A i \in 0 .. new : i \in 0 .. old \/ (~ (i <= old) /\ i - old \in 0 .. Len(more))
      /\ \A i \in 0 .. old : i \in 0 .. new /\ i <= old
      /\ \A j \in 0 .. Len(more) : \E i \in 0 .. new : i = old + j
      /\ \A j \in 0 .. Len(more), i \in 0 .. new :
            i = old + j => i - old = j /\ (i <= old => j = 0 /\ i = old)
  <2>1. \A j \in 0 .. Len(more) : old + j \in 0 .. new
    BY <1>1
  <2> QED
    BY <1>1, <2>1
<1>5. \A i \in 0 .. new : T[i] = IF i <= old THEN S[i] ELSE R[i - old]
  OBVIOUS
<1>6. T \in [0 .. new -> Seq(Nat)] /\ T[0] = <<>>
  <2>1. \A i \in 0 .. new : (IF i <= old THEN S[i] ELSE R[i - old]) \in Seq(Nat)
    <3> HIDE DEF new, old
    <3> QED
      BY <1>3, <1>4
  <2>2. 0 \in 0 .. new /\ 0 <= old
    BY <1>1
  <2> HIDE DEF new, old
  <2> QED
    BY <1>3, <1>5, <2>1, <2>2
<1> HIDE DEF T, all, old
<1>7. \A j \in 0 .. Len(more), i \in 0 .. new : i = old + j => T[i] = R[j]
  <2> HIDE DEF new
  <2> SUFFICES ASSUME NEW j \in 0 .. Len(more), NEW i \in 0 .. new, i = old + j PROVE T[i] = R[j]
    OBVIOUS
  <2> QED
    BY <1>3, <1>4, <1>5
<1>8. \A i \in 0 .. old : T[i] = S[i]
  <2> HIDE DEF new
  <2> QED
    BY <1>4, <1>5
<1>9. ASSUME NEW i \in 1 .. old
      PROVE  i \in 1 .. new /\ all[i] = tl[i] /\ T[i - 1] = S[i - 1] /\ T[i] = S[i]
  <2>1. i \in 1 .. new /\ i <= old /\ i \in 0 .. old /\ i - 1 \in 0 .. old
    BY <1>1
  <2> QED
    BY <1>2, <1>8, <2>1
<1>10. ASSUME NEW j \in 1 .. Len(more), NEW i \in 1 .. new, i = old + j
       PROVE  all[i] = more[j] /\ T[i - 1] = R[j - 1] /\ T[i] = R[j]
  <2>1. /\ ~ (i <= old) /\ i - old = j /\ i - 1 = old + (j - 1)
        /\ i - 1 \in 0 .. new /\ i \in 0 .. new /\ j \in 0 .. Len(more) /\ j - 1 \in 0 .. Len(more)
    BY <1>1, <1>10
  <2>2. all[i] = more[j]
    BY <1>2, <2>1
  <2> QED
    BY <1>7, <1>10, <2>1, <2>2
<1>11. \A i \in 1 .. new : i \in 1 .. old \/ \E j \in 1 .. Len(more) : i = old + j
  <2>1. \A i \in 1 .. new : i \in 1 .. old \/ (i - old \in 1 .. Len(more) /\ i = old + (i - old))
    BY <1>1
  <2> QED
    BY <2>1
<1>12. \A j \in 1 .. Len(more) : \E i \in 1 .. new : i = old + j
  <2>1. \A j \in 1 .. Len(more) : old + j \in 1 .. new
    BY <1>1
  <2> QED
    BY <2>1
<1> HIDE DEF new
<1>13. ASSUME NEW i \in 1 .. new PROVE Consumes(T[i - 1], all[i], T[i])
  <2>1. CASE i \in 1 .. old
    BY <1>3, <1>9, <2>1
  <2>2. ASSUME NEW j \in 1 .. Len(more), i = old + j PROVE Consumes(T[i - 1], all[i], T[i])
    <3>1. all[i] = more[j] /\ T[i - 1] = R[j - 1] /\ T[i] = R[j]
      BY <1>10, <2>2
    <3> QED
      BY <1>3, <3>1
  <2> QED
    BY <1>11, <2>1, <2>2
<1>14. RunOf(T, all)
  BY <1>2, <1>6, <1>13 DEF RunOf, GoesThrough
<1>15. T[new] = R[Len(more)]
  BY <1>1, <1>7 DEF new
<1>16. EndsOf(T, all, new) = EndsOf(S, tl, old) \cup EndsOf(R, more, Len(more))
  <2>1. ASSUME NEW i \in 1 .. old
        PROVE  /\ PairOf(T, all, i) = PairOf(S, tl, i)
               /\ i \in EndsIn(all, new) <=> i \in EndsIn(tl, old)
    BY <1>9 DEF PairOf, EndsIn
  <2>2. ASSUME NEW j \in 1 .. Len(more), NEW i \in 1 .. new, i = old + j
        PROVE  /\ PairOf(T, all, i) = PairOf(R, more, j)
               /\ i \in EndsIn(all, new) <=> j \in EndsIn(more, Len(more))
    <3>1. all[i] = more[j] /\ T[i - 1] = R[j - 1]
      BY <1>10, <2>2
    <3> QED
      BY <3>1 DEF PairOf, EndsIn
  <2>3. /\ EndsIn(all, new) \subseteq 1 .. new /\ EndsIn(tl, old) \subseteq 1 .. old
        /\ EndsIn(more, Len(more)) \subseteq 1 .. Len(more)
    BY DEF EndsIn
  <2>4. ASSUME NEW i \in EndsIn(all, new)
        PROVE  PairOf(T, all, i) \in EndsOf(S, tl, old) \cup EndsOf(R, more, Len(more))
    <3>1. CASE i \in 1 .. old
      BY <2>1, <2>4, <3>1 DEF EndsOf
    <3>2. ASSUME NEW j \in 1 .. Len(more), i = old + j
          PROVE  PairOf(T, all, i) \in EndsOf(R, more, Len(more))
      BY <2>2, <2>3, <2>4, <3>2 DEF EndsOf
    <3> QED
      BY <1>11, <2>3, <3>1, <3>2
  <2>5. ASSUME NEW i \in EndsIn(tl, old)
        PROVE  PairOf(S, tl, i) \in EndsOf(T, all, new)
    BY <2>1, <2>3 DEF EndsOf
  <2>6. ASSUME NEW j \in EndsIn(more, Len(more))
        PROVE  PairOf(R, more, j) \in EndsOf(T, all, new)
    <3>1. PICK i \in 1 .. new : i = old + j
      BY <1>12, <2>3
    <3> QED
      BY <2>2, <2>3, <3>1 DEF EndsOf
  <2>7. EndsOf(T, all, new) \subseteq EndsOf(S, tl, old) \cup EndsOf(R, more, Len(more))
    BY <2>4 DEF EndsOf
  <2>8. EndsOf(S, tl, old) \cup EndsOf(R, more, Len(more)) \subseteq EndsOf(T, all, new)
    BY <2>5, <2>6 DEF EndsOf
  <2> QED
    BY <2>7, <2>8
<1> QED
  BY <1>14, <1>15, <1>16 DEF all, new, old, CarriesOn

(* A token that is no end: a DO statement or another.                       *)
LEMMA OneToken ==
    ASSUME NEW tl \in Seq(Token), NEW S, RunOf(S, tl), NEW t \in Token, t.type \notin EndDoToken,
           NEW r \in Seq(Nat), Consumes(S[Len(tl)], t, r)
    PROVE  \E T : /\ RunOf(T, Append(tl, t))
                  /\ T[Len(Append(tl, t))] = r
                  /\ EndsOf(T, Append(tl, t), Len(Append(tl, t))) = EndsOf(S, tl, Len(tl))
<1> DEFINE last == S[Len(tl)]
           R == [j \in 0 .. 1 |-> IF j = 0 THEN last ELSE r]
           more == <<t>>
<1>0. Len(tl) \in Nat /\ last \in Seq(Nat)
  BY LenProperties DEF RunOf, GoesThrough
<1>1. more \in Seq(Token) /\ Len(more) = 1 /\ more[1] = t /\ Append(tl, t) = tl \o more
  BY AppendIsConcat
<1>2. Len(Append(tl, t)) = Len(tl) + Len(more)
  BY <1>1, AppendProperties
<1> HIDE DEF more
<1>3. R \in [0 .. Len(more) -> Seq(Nat)] /\ R[0] = S[Len(tl)]
  BY <1>0, <1>1
<1>4. \A j \in 1 .. Len(more) : Consumes(R[j - 1], more[j], R[j])
  <2>1. \A j \in 1 .. Len(more) : j = 1
    BY <1>1
  <2>2. R[1 - 1] = last /\ R[1] = r
    OBVIOUS
  <2> HIDE DEF R
  <2>3. Consumes(R[1 - 1], more[1], R[1])
    BY <1>1, <2>2
  <2> QED
    BY <2>1, <2>3
<1>5. EndsOf(R, more, Len(more)) = {}
  <2>1. \A j \in 1 .. Len(more) : more[j].type \notin EndDoToken
    BY <1>1
  <2>2. EndsIn(more, Len(more)) = {}
    BY <2>1 DEF EndsIn
  <2> QED
    BY <2>2 DEF EndsOf
<1>6. R[Len(more)] = r
  BY <1>1
<1> HIDE DEF R, last
<1>7. GoesThrough(R, S[Len(tl)], more)
  BY <1>3, <1>4 DEF GoesThrough
<1>8. PICK T : CarriesOn(T, S, tl, R, more)
  BY <1>1, <1>7, RunGoesOn
<1> QED
  BY <1>1, <1>2, <1>5, <1>6, <1>8 DEF CarriesOn

(* The first elements of a stack, and the first of these.                   *)
LEMMA LowerPart ==
    ASSUME NEW s \in Seq(Nat), NEW d \in Nat, d <= Len(s)
    PROVE  /\ SubSeq(s, 1, d) \in Seq(Nat)
           /\ Len(SubSeq(s, 1, d)) = d
           /\ \A i \in 1 .. d : SubSeq(s, 1, d)[i] = s[i]
<1>1. Len(s) \in Nat /\ d \in Int /\ d - 1 + 1 = d
  BY LenProperties
<1>2. \A i \in 1 .. d : s[i] \in Nat
  BY <1>1, ElementOfSeq
<1>3. /\ SubSeq(s, 1, d) \in Seq(Nat)
      /\ Len(SubSeq(s, 1, d)) = IF 1 <= d THEN d - 1 + 1 ELSE 0
      /\ \A i \in 1 .. d - 1 + 1 : SubSeq(s, 1, d)[i] = s[1 + i - 1]
  BY <1>2, SubSeqProperties
<1>4. Len(SubSeq(s, 1, d)) = d
  BY <1>1, <1>3
<1>5. ASSUME NEW i \in 1 .. d PROVE SubSeq(s, 1, d)[i] = s[i]
  <2>1. i \in 1 .. d - 1 + 1 /\ 1 + i - 1 = i
    BY <1>1
  <2> QED
    BY <1>3, <2>1
<1> QED
  BY <1>3, <1>4, <1>5

LEMMA LowerPartOfLowerPart ==
    ASSUME NEW s \in Seq(Nat), NEW d \in Nat, d + 1 <= Len(s)
    PROVE  SubSeq(SubSeq(s, 1, d + 1), 1, d) = SubSeq(s, 1, d)
<1> DEFINE r == SubSeq(s, 1, d + 1)
<1>1. d + 1 \in Nat /\ d <= Len(s) /\ d <= d + 1 /\ \A i \in 1 .. d : i \in 1 .. d + 1
  BY LenProperties
<1>2. r \in Seq(Nat) /\ Len(r) = d + 1 /\ \A i \in 1 .. d + 1 : r[i] = s[i]
  BY <1>1, LowerPart
<1>3. SubSeq(s, 1, d) \in Seq(Nat) /\ Len(SubSeq(s, 1, d)) = d
      /\ \A i \in 1 .. d : SubSeq(s, 1, d)[i] = s[i]
  BY <1>1, LowerPart
<1> HIDE DEF r
<1>4. SubSeq(r, 1, d) \in Seq(Nat) /\ Len(SubSeq(r, 1, d)) = d
      /\ \A i \in 1 .. d : SubSeq(r, 1, d)[i] = r[i]
  BY <1>1, <1>2, LowerPart
<1>5. \A i \in 1 .. d : SubSeq(r, 1, d)[i] = SubSeq(s, 1, d)[i]
  BY <1>1, <1>2, <1>3, <1>4
<1>6. SubSeq(r, 1, d) = SubSeq(s, 1, d)
  BY <1>3, <1>4, <1>5, SeqEqual
<1> QED
  BY <1>6 DEF r

(* T is the run S through tl, then out of one construct for each token of    *)
(* more; the stack of S behind tl is last.                                  *)
GoesOut(T, S, tl, more, last, n) ==
    /\ RunOf(T, tl \o more)
    /\ T[Len(tl \o more)] = SubSeq(last, 1, Len(last) - Len(more))
    /\ EndsOf(T, tl \o more, Len(tl \o more)) = EndsOf(S, tl, Len(tl)) \cup
          {<<last[i], n>> : i \in Len(last) - Len(more) + 1 .. Len(last)}

(* Ends on line n take the parser out of the innermost constructs.          *)
LEMMA EndTokens ==
    ASSUME NEW tl \in Seq(Token), NEW S, RunOf(S, tl), NEW more \in Seq(Token), NEW n,
           \A j \in 1 .. Len(more) : more[j].type \in EndDoToken /\ more[j].line = n,
           NEW last \in Seq(Nat), last = S[Len(tl)], Len(more) <= Len(last)
    PROVE  \E T : GoesOut(T, S, tl, more, last, n)
<1> DEFINE depth == Len(last)
           count == Len(more)
           R == [j \in 0 .. count |-> SubSeq(last, 1, depth - j)]
<1>0. depth \in Nat /\ count \in Nat /\ count <= depth /\ Len(tl) \in Nat
  BY LenProperties
<1>1. \A j \in 0 .. count : /\ SubSeq(last, 1, depth - j) \in Seq(Nat)
                            /\ Len(SubSeq(last, 1, depth - j)) = depth - j
                            /\ \A i \in 1 .. depth - j : SubSeq(last, 1, depth - j)[i] = last[i]
  <2> SUFFICES ASSUME NEW j \in 0 .. count
               PROVE  /\ SubSeq(last, 1, depth - j) \in Seq(Nat)
                      /\ Len(SubSeq(last, 1, depth - j)) = depth - j
                      /\ \A i \in 1 .. depth - j : SubSeq(last, 1, depth - j)[i] = last[i]
    OBVIOUS
  <2>1. depth - j \in Nat /\ depth - j <= depth
    BY <1>0
  <2> QED
    BY <2>1, LowerPart
<1>2. \A j \in 0 .. count : R[j] = SubSeq(last, 1, depth - j)
  OBVIOUS
<1>3. R \in [0 .. count -> Seq(Nat)]
  BY <1>1
<1>4. R[0] = last
  <2>1. 0 \in 0 .. count /\ depth - 0 = depth
    BY <1>0
  <2> QED
    BY <1>2, <2>1, SubSeqFull
<1> HIDE DEF R
<1>5. ASSUME NEW j \in 1 .. count
      PROVE  /\ Consumes(R[j - 1], more[j], R[j])
             /\ PairOf(R, more, j) = <<last[depth - j + 1], n>>
  <2>1. j - 1 \in 0 .. count /\ j \in 0 .. count /\ depth - (j - 1) = depth - j + 1
        /\ depth - j \in Nat
    BY <1>0
  <2>2. Len(R[j - 1]) = depth - j + 1 /\ R[j - 1] = SubSeq(last, 1, depth - j + 1)
    BY <1>1, <1>2, <2>1
  <2>3. R[j - 1] # <<>>
    <3>1. Len(R[j - 1]) > 0
      BY <2>1, <2>2
    <3> QED
      BY <3>1, EmptySeq
  <2>4. Outer(R[j - 1]) = SubSeq(SubSeq(last, 1, depth - j + 1), 1, depth - j)
    BY <2>1, <2>2 DEF Outer
  <2>5. SubSeq(SubSeq(last, 1, depth - j + 1), 1, depth - j) = SubSeq(last, 1, depth - j)
    <3> DEFINE d == depth - j
    <3>1. d \in Nat /\ d + 1 <= depth
      BY <1>0
    <3> HIDE DEF d
    <3>2. SubSeq(SubSeq(last, 1, d + 1), 1, d) = SubSeq(last, 1, d)
      BY <3>1, LowerPartOfLowerPart
    <3> QED
      BY <3>2 DEF d
  <2>6. R[j] = Outer(R[j - 1])
    BY <1>2, <2>1, <2>4, <2>5
  <2>7. R[j - 1][Len(R[j - 1])] = last[depth - j + 1]
    <3>1. depth - j + 1 \in 1 .. depth - (j - 1)
      BY <2>1
    <3> QED
      BY <1>1, <1>2, <2>1, <2>2, <3>1
  <2> QED
    BY <2>3, <2>6, <2>7 DEF Consumes, PairOf
<1>6. EndsOf(R, more, count) = {<<last[i], n>> : i \in depth - count + 1 .. depth}
  <2>1. EndsIn(more, count) = 1 .. count
    BY DEF EndsIn
  <2>2. \A j \in 1 .. count : depth - j + 1 \in depth - count + 1 .. depth
    BY <1>0
  <2>3. \A i \in depth - count + 1 .. depth : /\ depth - i + 1 \in 1 .. count
                                              /\ depth - (depth - i + 1) + 1 = i
    BY <1>0
  <2> HIDE DEF depth, count
  <2>4. \A j \in 1 .. count : PairOf(R, more, j) \in {<<last[i], n>> : i \in depth - count + 1 .. depth}
    BY <1>5, <2>2
  <2>5. ASSUME NEW i \in depth - count + 1 .. depth
        PROVE  \E j \in 1 .. count : PairOf(R, more, j) = <<last[i], n>>
    <3> DEFINE j == depth - i + 1
    <3>1. j \in 1 .. count /\ depth - j + 1 = i
      BY <2>3
    <3> HIDE DEF j
    <3> QED
      BY <1>5, <3>1
  <2>6. EndsOf(R, more, count) = {PairOf(R, more, j) : j \in 1 .. count}
    BY <2>1 DEF EndsOf
  <2> QED
    BY <2>4, <2>5, <2>6
<1>7. Len(tl \o more) = Len(tl) + Len(more)
  BY ConcatProperties
<1>8. R[count] = SubSeq(last, 1, depth - count)
  BY <1>0, <1>2
<1>9. GoesThrough(R, S[Len(tl)], more)
  BY <1>3, <1>4, <1>5 DEF GoesThrough
<1>10. PICK T : CarriesOn(T, S, tl, R, more)
  BY <1>9, RunGoesOn
<1> QED
  BY <1>6, <1>7, <1>8, <1>10 DEF CarriesOn, GoesOut
-----------------------------------------------------------------------------
(* A run of the parser is carried on by what a DO statement adds, ...        *)
LEMMA RunDo ==
    ASSUME PrepassInv, NestFacts, NEW line \in Lines, SourceLine(line), LegalDo(line),
           NEW S, RunOf(S, newTokenList), AsInSource(S)
    PROVE  \E T : RunOf(T, newTokenList') /\ AsInSource(T)'
<1> DEFINE tok == StatementToken(line, lineNo + 1)
           last == S[Len(newTokenList)]
           loop == [text |-> line.target, line |-> lineNo + 1]
<1>0. /\ newTokenList \in Seq(Token) /\ Len(newTokenList) \in Nat /\ lineNo + 1 \in Nat
      /\ nest \in Seq(Loop) /\ Len(nest) \in Nat
  BY LenProperties, LoopFacts DEF PrepassInv, TypeOK, NestFacts
<1>1. last \in Seq(Nat) /\ Len(last) \in Nat
  BY <1>0, LenProperties DEF RunOf, GoesThrough
<1>2. newTokenList' = Append(newTokenList, tok)
  <2>1. ~ TerminatesDo(line)
    BY DEF LegalDo, TerminatesDo, callsFixup
  <2> QED
    BY <2>1 DEF SourceLine, PrepassLine, PushLabel, fixupLabeledEndDo, LeaveLabels
<1>3. tok \in Token /\ tok.type = "T_DO" /\ tok.line = lineNo + 1
  BY <1>0, StatementTokenType DEF LegalDo, StatementToken
<1>4. /\ Len(nest') = Len(nest) + 1 /\ nest'[Len(nest) + 1].line = lineNo + 1
      /\ \A i \in 1 .. Len(nest) : nest'[i] = nest[i]
  <2>1. nest' = Append(nest, loop) /\ loop \in Loop /\ loop.line = lineNo + 1
    BY <1>0, LineType DEF LegalDo, Loop
  <2> HIDE DEF loop
  <2> QED
    BY <1>0, <2>1, AppendProperties
<1>5. sourceEnds' = sourceEnds
  <2>1. Len(nest') + 1 .. Len(nest) = {}
    BY <1>0, <1>4
  <2>2. {<<nest[i].line, lineNo + 1>> : i \in Len(nest') + 1 .. Len(nest)} = {}
    BY <2>1
  <2> QED
    BY <2>2 DEF SourceLine
<1> DEFINE r == Append(last, lineNo + 1)
<1> HIDE DEF tok, last
<1>6. /\ r \in Seq(Nat) /\ Len(r) = Len(last) + 1 /\ r[Len(last) + 1] = lineNo + 1
      /\ \A i \in 1 .. Len(last) : r[i] = last[i]
  BY <1>0, <1>1, AppendProperties
<1>7. Consumes(last, tok, r) /\ tok.type \notin EndDoToken
  BY <1>3 DEF Consumes, EndDoToken
<1> HIDE DEF r
<1>8. PICK T : /\ RunOf(T, newTokenList')
               /\ T[Len(newTokenList')] = r
               /\ EndsOf(T, newTokenList', Len(newTokenList'))
                     = EndsOf(S, newTokenList, Len(newTokenList))
  BY <1>0, <1>2, <1>3, <1>6, <1>7, OneToken DEF last
<1>9. /\ Len(last) >= Len(nest) /\ (known => Len(last) = Len(nest))
      /\ Len(last) = Len(nest) =>
            /\ \A i \in 1 .. Len(nest) : last[i] = nest[i].line
            /\ EndsOf(S, newTokenList, Len(newTokenList)) = sourceEnds
  BY DEF AsInSource, last
<1>10. known' => known
  BY DEF SourceLine
<1>11. Len(r) >= Len(nest') /\ (known' => Len(r) = Len(nest'))
       /\ (Len(r) = Len(nest') => Len(last) = Len(nest))
  BY <1>0, <1>1, <1>4, <1>6, <1>9, <1>10
<1>12. ASSUME Len(last) = Len(nest), NEW i \in 1 .. Len(nest') PROVE r[i] = nest'[i].line
  <2>1. i \in 1 .. Len(nest) \/ i = Len(nest) + 1
    BY <1>0, <1>4
  <2> QED
    BY <1>4, <1>6, <1>9, <1>12, <2>1
<1> QED
  BY <1>5, <1>8, <1>9, <1>11, <1>12 DEF AsInSource

(* ... by the ends a statement is marked with, which are no more than the    *)
(* loops it ends, ...                                                       *)
LEMMA RunEnds ==
    ASSUME PrepassInv, NestFacts, NEW line \in Lines, SourceLine(line), NEW m \in 0 .. Len(nest),
           nest' = SubSeq(nest, 1, m), NEW more \in Seq(Token),
           newTokenList' = newTokenList \o more,
           \A j \in 1 .. Len(more) : more[j].type \in EndDoToken /\ more[j].line = lineNo + 1,
           Len(more) <= Len(nest) - m, known' => Len(more) = Len(nest) - m,
           NEW S, RunOf(S, newTokenList), AsInSource(S)
    PROVE  \E T : RunOf(T, newTokenList') /\ AsInSource(T)'
<1> DEFINE last == S[Len(newTokenList)]
           now == lineNo + 1
           left == Len(last) - Len(more)
           r == SubSeq(last, 1, left)
<1>0. /\ newTokenList \in Seq(Token) /\ Len(newTokenList) \in Nat /\ Len(more) \in Nat
      /\ nest \in Seq(Loop) /\ Len(nest) \in Nat /\ m \in Nat /\ m <= Len(nest)
  BY LenProperties, LoopFacts DEF PrepassInv, TypeOK, NestFacts
<1>1. last \in Seq(Nat) /\ Len(last) \in Nat
  <2>1. S \in [0 .. Len(newTokenList) -> Seq(Nat)]
    BY DEF RunOf, GoesThrough
  <2>2. Len(newTokenList) \in 0 .. Len(newTokenList)
    BY <1>0
  <2>3. last \in Seq(Nat)
    BY <2>1, <2>2
  <2> HIDE DEF last
  <2> QED
    BY <2>3, LenProperties
<1>2. Len(nest') = m /\ \A i \in 1 .. m : nest'[i] = nest[i]
  BY <1>0, KeepFacts
<1>3. sourceEnds' = sourceEnds \cup {<<nest[i].line, now>> : i \in m + 1 .. Len(nest)}
  BY <1>2 DEF SourceLine
<1>4. /\ Len(last) >= Len(nest) /\ (known => Len(last) = Len(nest))
      /\ Len(last) = Len(nest) =>
            /\ \A i \in 1 .. Len(nest) : last[i] = nest[i].line
            /\ EndsOf(S, newTokenList, Len(newTokenList)) = sourceEnds
  BY DEF AsInSource
<1>5. known' => known
  BY DEF SourceLine
<1> HIDE DEF last, now
<1>6. left \in Nat /\ left <= Len(last) /\ left >= m /\ (known' => left = m)
      /\ (left = m => Len(last) = Len(nest)) /\ Len(more) <= Len(last)
  BY <1>0, <1>1, <1>4, <1>5
<1>7. Len(r) = left /\ \A i \in 1 .. left : r[i] = last[i]
  <2> HIDE DEF left
  <2>1. left \in Int /\ \A i \in 1 .. left : last[i] \in Nat
    BY <1>1, <1>6, ElementOfSeq
  <2>2. /\ Len(r) = IF 1 <= left THEN left - 1 + 1 ELSE 0
        /\ \A i \in 1 .. left - 1 + 1 : r[i] = last[1 + i - 1]
    BY <2>1, SubSeqProperties
  <2> QED
    BY <1>6, <2>2
<1>8. PICK T : /\ RunOf(T, newTokenList')
               /\ T[Len(newTokenList')] = r
               /\ EndsOf(T, newTokenList', Len(newTokenList'))
                     = EndsOf(S, newTokenList, Len(newTokenList))
                          \cup {<<last[i], now>> : i \in left + 1 .. Len(last)}
  <2>1. last = S[Len(newTokenList)]
        /\ \A j \in 1 .. Len(more) : more[j].type \in EndDoToken /\ more[j].line = now
    BY DEF last, now
  <2>2. PICK T : GoesOut(T, S, newTokenList, more, last, now)
    BY <1>0, <1>1, <1>6, <2>1, EndTokens
  <2> QED
    BY <2>2 DEF GoesOut
<1> HIDE DEF left, r
<1>9. ASSUME left = m
      PROVE  /\ \A i \in 1 .. m : r[i] = nest'[i].line
             /\ {<<last[i], now>> : i \in left + 1 .. Len(last)}
                   = {<<nest[i].line, now>> : i \in m + 1 .. Len(nest)}
  <2>1. Len(last) = Len(nest) /\ \A i \in 1 .. Len(nest) : last[i] = nest[i].line
    BY <1>4, <1>6, <1>9
  <2>2. \A i \in m + 1 .. Len(nest) : i \in 1 .. Len(nest)
    BY <1>0
  <2>3. \A i \in 1 .. m : i \in 1 .. Len(nest)
    BY <1>0
  <2> QED
    BY <1>2, <1>7, <1>9, <2>1, <2>2, <2>3
<1>10. left = m => EndsOf(T, newTokenList', Len(newTokenList')) = sourceEnds'
  BY <1>3, <1>4, <1>6, <1>8, <1>9
<1>11. /\ Len(r) >= Len(nest') /\ (known' => Len(r) = Len(nest'))
       /\ Len(r) = Len(nest') =>
             /\ \A i \in 1 .. Len(nest') : r[i] = nest'[i].line
             /\ EndsOf(T, newTokenList', Len(newTokenList')) = sourceEnds'
  BY <1>2, <1>6, <1>7, <1>9, <1>10
<1> QED
  BY <1>8, <1>11 DEF AsInSource

(* ... and by a statement without such a mark.                              *)
LEMMA RunStatement ==
    ASSUME PrepassInv, NestFacts, NEW line \in Lines, SourceLine(line), NEW m \in 0 .. Len(nest),
           nest' = SubSeq(nest, 1, m), NEW tok \in Token, tok.type = "STMT",
           newTokenList' = Append(newTokenList, tok), known' => m = Len(nest),
           NEW S, RunOf(S, newTokenList), AsInSource(S)
    PROVE  \E T : RunOf(T, newTokenList') /\ AsInSource(T)'
<1> DEFINE last == S[Len(newTokenList)]
<1>0. /\ newTokenList \in Seq(Token) /\ Len(newTokenList) \in Nat
      /\ nest \in Seq(Loop) /\ Len(nest) \in Nat /\ m \in Nat /\ m <= Len(nest)
  BY LenProperties, LoopFacts DEF PrepassInv, TypeOK, NestFacts
<1>1. last \in Seq(Nat) /\ Len(last) \in Nat
  <2>1. S \in [0 .. Len(newTokenList) -> Seq(Nat)]
    BY DEF RunOf, GoesThrough
  <2>2. Len(newTokenList) \in 0 .. Len(newTokenList)
    BY <1>0
  <2>3. last \in Seq(Nat)
    BY <2>1, <2>2
  <2> HIDE DEF last
  <2> QED
    BY <2>3, LenProperties
<1>2. Len(nest') = m /\ \A i \in 1 .. m : nest'[i] = nest[i]
  BY <1>0, KeepFacts
<1>3. /\ Len(last) >= Len(nest) /\ (known => Len(last) = Len(nest))
      /\ Len(last) = Len(nest) =>
            /\ \A i \in 1 .. Len(nest) : last[i] = nest[i].line
            /\ EndsOf(S, newTokenList, Len(newTokenList)) = sourceEnds
  BY DEF AsInSource
<1>4. known' => known
  BY DEF SourceLine
<1>5. m = Len(nest) => sourceEnds' = sourceEnds
  <2>1. m = Len(nest) => Len(nest') + 1 .. Len(nest) = {}
    BY <1>0, <1>2
  <2>2. Len(nest') + 1 .. Len(nest) = {}
           => {<<nest[i].line, lineNo + 1>> : i \in Len(nest') + 1 .. Len(nest)} = {}
    OBVIOUS
  <2> QED
    BY <2>1, <2>2 DEF SourceLine
<1>6. Consumes(last, tok, last) /\ tok.type \notin EndDoToken
  BY DEF Consumes, EndDoToken
<1> HIDE DEF last
<1>7. PICK T : /\ RunOf(T, newTokenList')
               /\ T[Len(newTokenList')] = last
               /\ EndsOf(T, newTokenList', Len(newTokenList'))
                     = EndsOf(S, newTokenList, Len(newTokenList))
  BY <1>0, <1>1, <1>6, OneToken DEF last
<1>8. /\ Len(last) >= Len(nest') /\ (known' => Len(last) = Len(nest'))
      /\ Len(last) = Len(nest') => m = Len(nest)
  BY <1>0, <1>1, <1>2, <1>3, <1>4
<1>9. Len(last) = Len(nest') =>
         /\ \A i \in 1 .. Len(nest') : last[i] = nest'[i].line
         /\ EndsOf(T, newTokenList', Len(newTokenList')) = sourceEnds'
  BY <1>2, <1>3, <1>5, <1>7, <1>8
<1> QED
  BY <1>7, <1>8, <1>9 DEF AsInSource


(* Every line of a legal program carries it on.                             *)
LEMMA RunLine ==
    ASSUME PrepassInv, NestFacts, OpenOrUsed, StackComplete, NEW line \in Lines,
           SourceLine(line), NEW S, RunOf(S, newTokenList), AsInSource(S)
    PROVE  \E T : RunOf(T, newTokenList') /\ AsInSource(T)'
<1> DEFINE tok == StatementToken(line, lineNo + 1)
<1>0. /\ newTokenList \in Seq(Token) /\ lineNo + 1 \in Nat
      /\ doLabels \in Seq(LabelToken) /\ Len(doLabels) \in Nat
      /\ nest \in Seq(Loop) /\ Len(nest) \in Nat /\ tok \in Token
  BY StackFacts, LoopFacts, StatementTokenType DEF PrepassInv, TypeOK, NestFacts
<1>1. CASE LegalDo(line)
  BY <1>1, RunDo
<1>2. CASE LegalEndDo(line) \/ LegalStatement(line)
  <2>1. PICK m \in 0 .. Len(nest) : EndsDownTo(line, m)
    BY <1>2, LegalEnds
  <2>2. /\ nest' = SubSeq(nest, 1, m) /\ line.kind \notin DoKind
        /\ line.kind = "END_DO" => Len(nest) - m = 1
        /\ known' => known /\ Known(line)
    <3>1. known' => known /\ Known(line)
      BY DEF SourceLine
    <3>2. /\ nest' = SubSeq(nest, 1, m) /\ line.kind \notin DoKind
          /\ line.kind = "END_DO" => m + 1 = Len(nest)
      BY <2>1 DEF EndsDownTo
    <3> QED
      BY <1>0, <3>1, <3>2
  <2>3. CASE fixupLabeledEndDo(line)
    <3>1. PICK k \in 0 .. Len(doLabels) - 1 :
            /\ PopsDownTo(k, line.label)
            /\ newTokenList' = newTokenList \o TerminalTokens(line, lineNo + 1, Len(doLabels) - k)
      BY <2>3 DEF fixupLabeledEndDo
    <3>2. line.label \in LabelText
      BY <2>3, LineType DEF fixupLabeledEndDo, TerminatesDo, callsFixup
    <3> DEFINE count == Len(doLabels) - k
               more == TerminalTokens(line, lineNo + 1, count)
    <3>3. count \in Nat /\ count >= 1
      BY <1>0
    <3>4. more \in Seq(Token)
      BY <1>0, <3>2, <3>3, TerminalTokensType
    <3>5. /\ Len(more) = count
          /\ \A j \in 1 .. Len(more) : more[j].type \in EndDoToken /\ more[j].line = lineNo + 1
      <4> HIDE DEF count
      <4> QED
        BY <3>3 DEF TerminalTokens, EndDoToken
    <3>6. count <= Len(nest) - m
      BY <2>1, <3>1, <3>2, PoppedAreEnded
    <3>7. known' => count = Len(nest) - m
      <4> SUFFICES ASSUME known, Known(line) PROVE count = Len(nest) - m
        BY <2>2
      <4>1. line.kind # "END_DO" => Len(nest) - m <= count
        BY <2>1, <3>1, <3>2, EndedArePopped
      <4>2. line.kind = "END_DO" => Len(nest) - m = 1
        BY <2>2
      <4> HIDE DEF count
      <4> QED
        BY <1>0, <3>3, <3>6, <4>1, <4>2
    <3>8. newTokenList' = newTokenList \o more
      BY <3>1
    <3> HIDE DEF more, count
    <3> QED
      BY <2>2, <3>4, <3>5, <3>6, <3>7, <3>8, RunEnds
  <2>4. CASE LeaveLabels(line) /\ line.kind = "END_DO"
    <3> DEFINE more == <<tok>>
    <3>1. newTokenList' = Append(newTokenList, tok)
      BY <2>4 DEF LeaveLabels
    <3>2. tok.type \in EndDoToken /\ tok.line = lineNo + 1
      BY <2>4 DEF StatementToken, DoKind, EndDoToken
    <3> HIDE DEF tok
    <3>3. more \in Seq(Token) /\ Len(more) = 1 /\ more[1] = tok
      BY <1>0
    <3>4. newTokenList' = newTokenList \o more
      BY <1>0, <3>1, AppendIsConcat
    <3>5. \A j \in 1 .. Len(more) : more[j].type \in EndDoToken /\ more[j].line = lineNo + 1
      BY <3>2, <3>3
    <3>6. Len(more) <= Len(nest) - m /\ Len(more) = Len(nest) - m
      BY <2>2, <2>4, <3>3
    <3> HIDE DEF more
    <3> QED
      BY <2>2, <3>3, <3>4, <3>5, <3>6, RunEnds
  <2>5. CASE LeaveLabels(line) /\ line.kind # "END_DO"
    <3>1. newTokenList' = Append(newTokenList, tok) /\ tok.type = "STMT"
      BY <2>2, <2>5 DEF LeaveLabels, StatementToken
    <3>2. known' => m = Len(nest)
      <4> SUFFICES ASSUME known, Known(line), m < Len(nest) PROVE FALSE
        BY <1>0, <2>2
      <4>1. nest[Len(nest)].text # NoLabel
        <5>1. Len(nest) \in m + 1 .. Len(nest)
          BY <1>0
        <5> QED
          BY <2>1, <2>5, <5>1 DEF EndsDownTo
      <4> QED
        BY <2>1, <2>5, <4>1, KnownTerminates DEF LeaveLabels
    <3> HIDE DEF tok
    <3> QED
      BY <1>0, <2>2, <3>1, <3>2, RunStatement
  <2>6. ~ PushLabel(line)
    BY <2>2 DEF PushLabel, matchDoStmtPushes, DoKind
  <2> QED
    BY <2>3, <2>4, <2>5, <2>6 DEF SourceLine, PrepassLine
<1> QED
  BY <1>1, <1>2 DEF SourceLine


-----------------------------------------------------------------------------
(* A round of the parser: it consumes the next token as the run S does.      *)
LEMMA ParserRound ==
    ASSUME PrepassInv, doStack \in Seq(Token), NEW S, RunOf(S, newTokenList), ParserAt(S),
           do_stmt \/ end_do \/ other_stmt
    PROVE  ParserAt(S)'
<1> DEFINE tl == newTokenList
           t == newTokenList[pos + 1]
           s == S[pos]
           r == S[pos + 1]
<1>0. /\ tl \in Seq(Token) /\ Len(tl) \in Nat /\ pos \in 0 .. Len(tl) /\ pos < Len(tl)
      /\ tl' = tl /\ pos' = pos + 1 /\ pos + 1 \in 1 .. Len(tl) /\ pos + 1 - 1 = pos /\ pos \in Nat
  <2>1. pos < Len(tl) /\ tl' = tl /\ pos' = pos + 1
    BY DEF do_stmt, end_do, other_stmt, ParserReady, vars
  <2>2. tl \in Seq(Token) /\ Len(tl) \in Nat /\ pos \in 0 .. Len(tl)
    BY LenProperties DEF PrepassInv, TypeOK, ParserAt
  <2> QED
    BY <2>1, <2>2
<1>1. t \in Token /\ Consumes(s, t, r) /\ s \in Seq(Nat) /\ r \in Seq(Nat)
  <2>1. /\ S \in [0 .. Len(tl) -> Seq(Nat)]
        /\ Consumes(S[pos + 1 - 1], tl[pos + 1], S[pos + 1])
    BY <1>0 DEF RunOf, GoesThrough
  <2>2. pos \in 0 .. Len(tl) /\ pos + 1 \in 0 .. Len(tl)
    BY <1>0
  <2> QED
    BY <1>0, <2>1, <2>2, ElementOfSeq
<1>2. /\ Len(doStack) = Len(s) /\ \A i \in 1 .. Len(s) : doStack[i].line = s[i]
      /\ parsedEnds = EndsOf(S, tl, pos) /\ Len(s) \in Nat
  BY <1>1, LenProperties DEF ParserAt
<1>3. /\ t.type \in EndDoToken => EndsIn(tl, pos + 1) = EndsIn(tl, pos) \cup {pos + 1}
      /\ t.type \notin EndDoToken => EndsIn(tl, pos + 1) = EndsIn(tl, pos)
  <2>1. 1 .. pos + 1 = (1 .. pos) \cup {pos + 1}
    BY <1>0
  <2> QED
    BY <2>1 DEF EndsIn
<1>4. t.type \notin EndDoToken => EndsOf(S, tl, pos + 1) = EndsOf(S, tl, pos)
  BY <1>3 DEF EndsOf
<1>5. t.type \in EndDoToken
         => EndsOf(S, tl, pos + 1) = EndsOf(S, tl, pos) \cup {PairOf(S, tl, pos + 1)}
  <2> SUFFICES ASSUME EndsIn(tl, pos + 1) = EndsIn(tl, pos) \cup {pos + 1}
               PROVE  EndsOf(S, tl, pos + 1) = EndsOf(S, tl, pos) \cup {PairOf(S, tl, pos + 1)}
    BY <1>3
  <2> DEFINE old == EndsIn(tl, pos)
             last == pos + 1
  <2> HIDE DEF old, last
  <2>1. {PairOf(S, tl, i) : i \in old \cup {last}}
           = {PairOf(S, tl, i) : i \in old} \cup {PairOf(S, tl, last)}
    OBVIOUS
  <2> QED
    BY <2>1 DEF EndsOf, old, last
<1>6. PairOf(S, tl, pos + 1) = <<s[Len(s)], t.line>>
  BY <1>0 DEF PairOf
<1>7. CASE do_stmt
  <2>1. t.type = "T_DO" /\ doStack' = Append(doStack, t) /\ parsedEnds' = parsedEnds
    BY <1>7 DEF do_stmt, NextToken
  <2>2. r = Append(s, t.line) /\ t.type \notin EndDoToken
    BY <1>1, <2>1 DEF Consumes, EndDoToken
  <2>3. t.line \in Nat
    BY <1>1 DEF Token
  <2> HIDE DEF t, s, r
  <2>4. /\ Len(doStack') = Len(s) + 1 /\ doStack'[Len(s) + 1] = t
        /\ \A i \in 1 .. Len(s) : doStack'[i] = doStack[i]
    BY <1>1, <1>2, <2>1, AppendProperties
  <2>5. /\ Len(r) = Len(s) + 1 /\ r[Len(s) + 1] = t.line
        /\ \A i \in 1 .. Len(s) : r[i] = s[i]
    BY <1>1, <2>2, <2>3, AppendProperties
  <2>6. \A i \in 1 .. Len(s) + 1 : i \in 1 .. Len(s) \/ i = Len(s) + 1
    BY <1>2
  <2>7. \A i \in 1 .. Len(doStack') : doStack'[i].line = r[i]
    BY <1>2, <2>4, <2>5, <2>6
  <2> QED
    BY <1>0, <1>2, <1>4, <2>1, <2>2, <2>4, <2>5, <2>7 DEF ParserAt, r
<1>8. CASE end_do
  <2>1. /\ t.type \in EndDoToken /\ doStack # <<>> /\ doStack' = Outer(doStack)
        /\ parsedEnds' = parsedEnds \cup {<<doStack[Len(doStack)].line, t.line>>}
    BY <1>8 DEF end_do, NextToken
  <2>2. r = Outer(s)
    BY <1>1, <2>1 DEF Consumes, EndDoToken
  <2>3. Len(s) \in Nat \ {0}
    BY <1>2, <2>1, EmptySeq
  <2> HIDE DEF t, s, r
  <2> DEFINE d == Len(s) - 1
  <2>4. d \in Nat /\ d + 1 = Len(s) /\ Len(s) \in 1 .. Len(s)
    BY <2>3
  <2>5. d \in Int /\ \A i \in 1 .. d : doStack[i] \in Token /\ s[i] \in Nat
    BY <1>1, <1>2, <2>4, ElementOfSeq
  <2>6. doStack' = SubSeq(doStack, 1, d) /\ r = SubSeq(s, 1, d)
    BY <1>2, <2>1, <2>2 DEF Outer
  <2> HIDE DEF d
  <2>7. /\ Len(doStack') = IF 1 <= d THEN d - 1 + 1 ELSE 0
        /\ \A i \in 1 .. d - 1 + 1 : doStack'[i] = doStack[1 + i - 1]
    BY <2>5, <2>6, SubSeqProperties
  <2>8. /\ Len(r) = IF 1 <= d THEN d - 1 + 1 ELSE 0
        /\ \A i \in 1 .. d - 1 + 1 : r[i] = s[1 + i - 1]
    BY <2>5, <2>6, SubSeqProperties
  <2>9. /\ Len(doStack') = d /\ Len(r) = d
        /\ \A i \in 1 .. d : doStack'[i] = doStack[i] /\ r[i] = s[i] /\ i \in 1 .. Len(s)
    BY <2>4, <2>7, <2>8
  <2>10. \A i \in 1 .. Len(doStack') : doStack'[i].line = r[i]
    BY <1>2, <2>9
  <2>11. parsedEnds' = EndsOf(S, tl, pos + 1)
    <3>1. doStack[Len(doStack)].line = s[Len(s)]
      BY <1>2, <2>4
    <3> QED
      BY <1>2, <1>5, <1>6, <2>1, <3>1 DEF s, t
  <2> QED
    BY <1>0, <2>9, <2>10, <2>11 DEF ParserAt, r
<1>9. CASE other_stmt
  <2>1. t.type = "STMT" /\ doStack' = doStack /\ parsedEnds' = parsedEnds
    BY <1>9 DEF other_stmt, NextToken
  <2>2. r = s /\ t.type \notin EndDoToken
    BY <1>1, <2>1 DEF Consumes, EndDoToken
  <2> QED
    BY <1>0, <1>2, <1>4, <2>1, <2>2 DEF ParserAt
<1> QED
  BY <1>7, <1>8, <1>9

(* In a run of a program that is known so far the parser is never stuck.     *)
LEMMA NeverStuck ==
    ASSUME PrepassInv, NestFacts, NEW S, RunOf(S, newTokenList), AsInSource(S), ParserAt(S),
           known, nest = <<>>, doStack \in Seq(Token)
    PROVE  ~ NoViableAlternative
<1>0. /\ Len(newTokenList) \in Nat /\ pos \in 0 .. Len(newTokenList)
      /\ S[pos] \in Seq(Nat) /\ Len(doStack) = Len(S[pos])
  BY LenProperties DEF PrepassInv, TypeOK, ParserAt, RunOf, GoesThrough
<1>1. ASSUME pos < Len(newTokenList), NextToken.type \in EndDoToken, doStack = <<>>
      PROVE  FALSE
  <2>1. Consumes(S[pos], newTokenList[pos + 1], S[pos + 1])
    <3>1. \A i \in 1 .. Len(newTokenList) : Consumes(S[i - 1], newTokenList[i], S[i])
      BY DEF RunOf, GoesThrough
    <3> DEFINE i == pos + 1
    <3>2. i \in 1 .. Len(newTokenList) /\ i - 1 = pos
      BY <1>0, <1>1
    <3> HIDE DEF i
    <3>3. Consumes(S[pos], newTokenList[i], S[i])
      BY <3>1, <3>2
    <3> QED
      BY <3>3 DEF i
  <2>2. S[pos] # <<>>
    BY <1>1, <2>1 DEF Consumes, NextToken, EndDoToken
  <2> QED
    BY <1>0, <1>1, <2>2, EmptySeq
<1>2. ASSUME ~ (pos < Len(newTokenList)) PROVE doStack = <<>>
  <2>1. pos = Len(newTokenList)
    BY <1>0, <1>2
  <2>2. Len(S[pos]) = 0
    BY <2>1, EmptySeq DEF AsInSource
  <2> QED
    BY <1>0, <2>2, EmptySeq
<1> QED
  BY <1>1, <1>2 DEF NoViableAlternative

(* Every step keeps the parser on a run of what the prepass has written.     *)
LEMMA ParserStep ==
    PrepassInv /\ PrepassInv' /\ SourceInv /\ ParserInv /\ [ParseNext]_allVars => ParserInv'
<1> SUFFICES ASSUME PrepassInv, SourceInv, ParserInv, [ParseNext]_allVars PROVE ParserInv'
  OBVIOUS
<1>0. newTokenList \in Seq(Token) /\ doStack \in Seq(Token)
  BY DEF PrepassInv, TypeOK, ParserInv
<1>1. ASSUME NEW line \in Lines, SourceLine(line) \/ AnyLine(line) PROVE ParserInv'
  <2>1. ~ eof /\ UNCHANGED <<eof, legal, parserVars>>
    BY <1>1 DEF SourceLine, AnyLine, PrepassLine, sourceVars
  <2>2. /\ pos = 0 /\ pos' = 0 /\ doStack = <<>> /\ doStack' = <<>> /\ parsedEnds' = {}
        /\ ~ syntaxError' /\ ~ eof'
    BY <2>1 DEF ParserInv, parserVars
  <2>3. ASSUME legal PROVE \E S : RunOf(S, newTokenList') /\ AsInSource(S)' /\ ParserAt(S)'
    <3>1. SourceLine(line) /\ NestFacts /\ OpenOrUsed /\ StackComplete
      BY <1>1, <2>3 DEF AnyLine, SourceInv
    <3>2. PICK S : RunOf(S, newTokenList) /\ AsInSource(S)
      BY <2>3 DEF ParserInv
    <3>3. PICK T : RunOf(T, newTokenList') /\ AsInSource(T)'
      BY <3>1, <3>2, RunLine
    <3>4. newTokenList' \in Seq(Token)
      BY <1>1, LineEffect DEF SourceLine, AnyLine, PrepassInv
    <3>5. T[0] = <<>> /\ 0 \in 0 .. Len(newTokenList')
      BY <3>3, <3>4, LenProperties DEF RunOf, GoesThrough
    <3>6. EndsOf(T, newTokenList', 0) = {}
      <4>1. EndsIn(newTokenList', 0) = {}
        BY DEF EndsIn
      <4> QED
        BY <4>1 DEF EndsOf
    <3>7. \A i \in 1 .. Len(doStack') : FALSE
      BY <2>2
    <3>8. ParserAt(T)'
      BY <2>2, <3>5, <3>6, <3>7 DEF ParserAt
    <3> QED
      BY <3>3, <3>8
  <2> QED
    <3>1. pos' \in 0 .. Len(newTokenList')
      <4>1. newTokenList' \in Seq(Token)
        BY <1>1, LineEffect DEF SourceLine, AnyLine, PrepassInv
      <4> QED
        BY <2>2, <4>1, LenProperties
    <3> QED
      BY <2>1, <2>2, <2>3, <3>1, EmptySeq DEF ParserInv
<1>2. CASE SourceEnd
  <2>1. UNCHANGED <<newTokenList, sourceVars, parserVars>> /\ nest = <<>> /\ ~ eof
    BY <1>2 DEF SourceEnd, PrepassEnd
  <2> QED
    BY <2>1 DEF ParserInv, sourceVars, parserVars, AsInSource, ParserAt
<1>3. CASE do_stmt \/ end_do \/ other_stmt
  <2>1. eof /\ ~ syntaxError /\ UNCHANGED <<vars, sourceVars, syntaxError>>
    BY <1>3 DEF do_stmt, end_do, other_stmt, ParserReady
  <2>2. doStack' \in Seq(Token)
    <3>1. CASE do_stmt
      <4>1. NextToken \in Token
        <5>1. pos < Len(newTokenList) /\ pos \in 0 .. Len(newTokenList)
              /\ Len(newTokenList) \in Nat
          BY <1>0, <3>1, LenProperties DEF do_stmt, ParserReady, ParserInv
        <5>2. pos + 1 \in 1 .. Len(newTokenList)
          BY <5>1
        <5> QED
          BY <1>0, <5>2, ElementOfSeq DEF NextToken
      <4> QED
        BY <1>0, <3>1, <4>1, AppendProperties DEF do_stmt
    <3>2. CASE end_do
      <4> DEFINE d == Len(doStack) - 1
      <4>1. Len(doStack) \in Nat \ {0}
        BY <1>0, <3>2, EmptySeq DEF end_do
      <4>2. d \in Int /\ \A i \in 1 .. d : doStack[i] \in Token
        BY <1>0, <4>1, ElementOfSeq
      <4>3. doStack' = SubSeq(doStack, 1, d)
        BY <3>2 DEF end_do, Outer
      <4> HIDE DEF d
      <4> QED
        BY <4>2, <4>3, SubSeqProperties
    <3>3. CASE other_stmt
      BY <1>0, <3>3 DEF other_stmt
    <3> QED
      BY <1>3, <3>1, <3>2, <3>3
  <2>3. ASSUME legal PROVE \E S : RunOf(S, newTokenList') /\ AsInSource(S)' /\ ParserAt(S)'
    <3>1. PICK S : RunOf(S, newTokenList) /\ AsInSource(S) /\ ParserAt(S)
      BY <2>3 DEF ParserInv
    <3>2. ParserAt(S)'
      BY <1>0, <1>3, <3>1, ParserRound
    <3>3. AsInSource(S)' /\ newTokenList' = newTokenList
      BY <2>1, <3>1 DEF AsInSource, vars, sourceVars
    <3> QED
      BY <3>1, <3>2, <3>3
  <2> QED
    <3>1. pos' \in 0 .. Len(newTokenList')
      <4>1. /\ pos \in 0 .. Len(newTokenList) /\ pos < Len(newTokenList) /\ pos' = pos + 1
            /\ newTokenList' = newTokenList
        BY <1>3, <2>1 DEF ParserInv, do_stmt, end_do, other_stmt, ParserReady, vars
      <4> QED
        BY <1>0, <4>1, LenProperties
    <3> QED
      BY <2>1, <2>2, <2>3, <3>1 DEF ParserInv, vars, sourceVars
<1>4. CASE syntax_error
  <2>1. eof /\ NoViableAlternative /\ UNCHANGED <<pos, doStack, parsedEnds, vars, sourceVars>>
    BY <1>4 DEF syntax_error
  <2>2. legal => ~ known
    <3> SUFFICES ASSUME legal, known PROVE FALSE
      OBVIOUS
    <3>1. PICK S : RunOf(S, newTokenList) /\ AsInSource(S) /\ ParserAt(S)
      BY DEF ParserInv
    <3>2. nest = <<>> /\ NestFacts
      BY <2>1 DEF ParserInv, SourceInv
    <3> QED
      BY <1>0, <2>1, <3>1, <3>2, NeverStuck
  <2> QED
    BY <2>1, <2>2 DEF ParserInv, vars, sourceVars, AsInSource, ParserAt
<1>5. CASE UNCHANGED allVars
  BY <1>5 DEF ParserInv, allVars, vars, sourceVars, parserVars, AsInSource, ParserAt
<1> QED
  BY <1>1, <1>2, <1>3, <1>4, <1>5 DEF ParseNext, Parse

LEMMA ParserInitial == ParseInit => ParserInv
<1> SUFFICES ASSUME ParseInit PROVE ParserInv
  OBVIOUS
<1> DEFINE S == [i \in 0 .. 0 |-> <<>>]
<1>1. /\ newTokenList = <<>> /\ nest = <<>> /\ sourceEnds = {} /\ pos = 0 /\ doStack = <<>>
      /\ parsedEnds = {} /\ syntaxError = FALSE /\ eof = FALSE
  BY DEF ParseInit, Init
<1>2. Len(newTokenList) = 0 /\ Len(nest) = 0 /\ Len(doStack) = 0 /\ doStack \in Seq(Token)
  BY <1>1
<1>3. S \in [0 .. 0 -> Seq(Nat)] /\ S[0] = <<>> /\ Len(S[0]) = 0
  BY EmptySeq
<1> HIDE DEF S
<1>4. RunOf(S, newTokenList)
  BY <1>2, <1>3 DEF RunOf, GoesThrough
<1>5. EndsOf(S, newTokenList, 0) = {}
  <2>1. EndsIn(newTokenList, 0) = {}
    BY DEF EndsIn
  <2> QED
    BY <2>1 DEF EndsOf
<1>6. AsInSource(S) /\ ParserAt(S)
  BY <1>1, <1>2, <1>3, <1>5 DEF AsInSource, ParserAt
<1> QED
  BY <1>1, <1>2, <1>4, <1>6 DEF ParserInv

(* The parser follows a run of the tokens the prepass has written, which     *)
(* pairs every DO with the statement that ends it in the source, unless the  *)
(* prepass missed an end.                                                   *)
THEOREM ParserInvariant == ParseSpec => [](PrepassInv /\ SourceInv /\ ParserInv)
<1>1. PrepassInv /\ SourceInv /\ ParserInv /\ [ParseNext]_allVars
         => PrepassInv' /\ SourceInv' /\ ParserInv'
  BY ParseStepIsPrepassStep, PrepassTypeStep, StackSortedStep, SourceStep, ParserStep
     DEF PrepassInv
<1> QED
  BY <1>1, SourceInitial, ParserInitial, PTL DEF ParseSpec

(* The parser accepts every legal program whose lines are of forms the       *)
(* prepass knows: KnownProgramAccepted of PrepassParse.                     *)
THEOREM ParserAcceptsKnown == ParseSpec => []KnownProgramAccepted
<1>1. ParserInv => KnownProgramAccepted
  BY DEF ParserInv, KnownProgramAccepted
<1> QED
  BY <1>1, ParserInvariant, PTL

(* A legal program the parser gets through, whatever its lines, has the      *)
(* loops of the source: LoopsAsInSource of PrepassParse.                    *)
THEOREM ParserFindsTheLoops == ParseSpec => []LoopsAsInSource
<1>1. PrepassInv /\ SourceInv /\ ParserInv => LoopsAsInSource
  <2> SUFFICES ASSUME ParserInv, legal, eof, pos = Len(newTokenList), doStack = <<>>
               PROVE  parsedEnds = sourceEnds
    BY DEF LoopsAsInSource
  <2>1. nest = <<>>
    BY DEF ParserInv
  <2>2. PICK S : AsInSource(S) /\ ParserAt(S)
    BY DEF ParserInv
  <2>3. Len(S[Len(newTokenList)]) = Len(nest)
    BY <2>1, <2>2 DEF ParserAt
  <2> QED
    BY <2>2, <2>3 DEF AsInSource, ParserAt
<1> QED
  BY <1>1, ParserInvariant, PTL

=============================================================================
