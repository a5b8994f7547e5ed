--------------------------- MODULE KeywordPrepass ---------------------------
(***************************************************************************)
(* Sale's algorithm in FortranLexicalPrepass: Fortran has no reserved       *)
(* words, the lexer makes a keyword of every name spelled like one, and     *)
(* performPrepass decides line by line which of them are names after all.  *)
(* A comma or an '=' outside of parentheses says whether the line begins   *)
(* with a keyword; some forty routines then find out which statement it is,*)
(* turn the other keywords into T_IDENT and insert tokens that spare the   *)
(* parser the same work.                                                   *)
(*                                                                         *)
(* A line is packedList, a sequence of token types without their T_.       *)
(* Positions count from 1, as those of currLineLA do; an offset of the      *)
(* code counts from 0, so that its range (start, end) is start + 1 .. end   *)
(* here, and -1, not found, is 0.                                          *)
(*                                                                         *)
(* Left out: the FORMAT statement, real constants and relational operators *)
(* that come in pieces, the include tokens (see LexicalPrepass), the        *)
(* keywords of CUDA Fortran, and the messages for lines that lack a         *)
(* parenthesis.  Definitions without a comment whose name no code has, such *)
(* as scanInParens, are faults: the definition that follows is replaced by *)
(* one to see a property fail.                                             *)
(***************************************************************************)
EXTENDS StatementForms

CONSTANTS
    Statements,    \* the forms of statements a line may have
    Spellings(_),  \* the spellings of so many names
    MaxLoops       \* bound: the DO loops one statement ends

ASSUME KeywordAssumption ==
    /\ MaxLoops \in Nat
    /\ \A f \in Statements :
          Spellings(NameCount(f)) \subseteq [1 .. NameCount(f) -> Keywords \cup {"id"}]

VARIABLES
    form, names,  \* the statement, as its author meant it
    labelled,     \* it has a label,
    loops,        \* which is the one of so many entries on top of doLabels
    line,         \* packedList
    start,        \* the position lineStart + 1
    pushed,       \* doLabels has grown
    pc

vars == <<form, names, labelled, loops, line, start, pushed, pc>>
statement == <<form, names, labelled, loops>>

(* The statements that may end a DO, of which the prepass has to know.      *)
DoEnding == {"ACTION", "IO", "ASSIGN", "ONE_LINE", "END_DO", "GOTO",
             "ALLOC_TYPED", "UNLISTED"}

-----------------------------------------------------------------------------
(* Looking at a line.                                                      *)
LA(l, k) == IF k \in 1 .. Len(l) THEN l[k] ELSE "EOF"

isName(t) == isKeyword(t) \/ t = "id"

Least(S) == IF S = {} THEN 0 ELSE CHOOSE k \in S : \A j \in S : k <= j

findToken(l, p, t) == Least({k \in p .. Len(l) : l[k] = t})

Opened(l, p, k) == Cardinality({j \in p .. k : l[j] \in {"(", "["}})
Closed(l, p, k) == Cardinality({j \in p .. k : l[j] \in {")", "]"}})

matchClosingParen(l, p) ==
    Least({k \in p .. Len(l) : Opened(l, p, k) = Closed(l, p, k)})

scanInParens(l, p, t) == findToken(l, p, t)

(* The first t that is not in parentheses or brackets.                     *)
salesScanForToken(l, p, t) ==
    Least({k \in p .. Len(l) : l[k] = t /\ Opened(l, p, k) = Closed(l, p, k)})

(* Changing it.                                                            *)
toIdent(l, p) == IF isKeyword(LA(l, p)) THEN [l EXCEPT ![p] = "id"] ELSE l

addToken(l, p, t) == SubSeq(l, 1, p - 1) \o <<t>> \o SubSeq(l, p, Len(l))

(* What a routine returns, the line it leaves, and whether it pushed the    *)
(* label of a DO.                                                          *)
Matched(l)   == [ok |-> TRUE,  line |-> l, pushes |-> FALSE]
Unmatched(l) == [ok |-> FALSE, line |-> l, pushes |-> FALSE]

-----------------------------------------------------------------------------
(* Conversion of a range.                                                  *)
genericSpec == {"OPERATOR", "ASSIGNMENT", "READ", "WRITE"}

(* The position behind a generic-spec, p itself if it is a name.           *)
matchGenericSpec(l, p) ==
    IF LA(l, p) \notin genericSpec THEN p
    ELSE IF LA(l, p + 1) = "(" THEN matchClosingParen(l, p + 1) + 1
    ELSE 0

isIntrinsicType(t) ==
    t \in {"INTEGER", "REAL", "DOUBLE", "DOUBLEPRECISION", "COMPLEX",
           "CHARACTER", "LOGICAL"}

(* '[ ... ]' or '(/ ... /)' at p, without regard to nesting: where it ends. *)
arrayConstructorEnd(l, p) ==
    LET slash == findToken(l, p + 2, "/")
    IN  IF l[p] = "[" THEN findToken(l, p + 1, "]")
        ELSE IF /\ l[p] = "(" /\ LA(l, p + 1) = "/"
                /\ slash # 0 /\ LA(l, slash + 1) = ")"
             THEN slash + 1
        ELSE 0

arrayConstructorStart(l, p) == IF l[p] = "[" THEN p + 1 ELSE p + 2

RECURSIVE convertToIdents(_, _, _), fixupArrayConstructor(_, _, _),
          fixupDeclTypeSpec(_, _)

convertToIdents(l, p, to) ==
    IF p > to THEN l
    ELSE LET end  == arrayConstructorEnd(l, p)
             next == matchGenericSpec(l, p)
         IN  IF end # 0
             THEN convertToIdents(
                    fixupArrayConstructor(l, arrayConstructorStart(l, p), end - 1),
                    end + 1, to)
             ELSE IF next > p THEN convertToIdents(l, next, to)
             ELSE convertToIdents(toIdent(l, p), p + 1, to)

(* A type-spec in it is seen if it has parentheses.                        *)
fixupArrayConstructor(l, p, to) ==
    LET paren == matchClosingParen(l, p + 1)
    IN  IF isName(LA(l, p)) /\ LA(l, p + 1) = "(" /\ LA(l, paren + 1) = "::"
        THEN convertToIdents(fixupDeclTypeSpec(l, p).line, paren + 1, to)
        ELSE convertToIdents(l, p, to)

(* KIND and LEN become keywords again if an '=' is behind the first of     *)
(* them.                                                                   *)
restore(l, converted, p, to, t) ==
    LET k == findToken(l, p, t)
    IN  IF k # 0 /\ k <= to /\ LA(l, k + 1) = "=" THEN [converted EXCEPT ![k] = t]
        ELSE converted

restoreParameters(l, converted, p, to) ==
    restore(l, restore(l, converted, p, to, "KIND"), p, to, "LEN")

fixupDeclTypeSpec(l, p) ==
    LET paren == matchClosingParen(l, p + 1)
        converted == convertToIdents(l, p + 1, paren)
    IN  IF l[p] \in {"TYPE", "CLASS"} THEN [line |-> converted, last |-> paren]
        ELSE IF LA(l, p + 1) = "("
             THEN [line |-> restoreParameters(l, converted, p + 1, paren), last |-> paren]
        ELSE [line |-> l, last |-> IF l[p] = "DOUBLE" THEN p + 1 ELSE p]
-----------------------------------------------------------------------------
(* Declarations and the first statements of program units.                 *)
isModuleStmt(l, p) == LA(l, p) = "MODULE" /\ LA(l, p + 2) = "eos"

isTPrefixSpec(l, p) ==
    /\ ~ isModuleStmt(l, p)
    /\ LA(l, p) \in {"ELEMENTAL", "IMPURE", "MODULE", "PURE", "RECURSIVE"}

skipTPrefix(l, p) ==
    Least({k \in p .. Len(l) : /\ ~ isTPrefixSpec(l, k)
                               /\ \A j \in p .. k - 1 : isTPrefixSpec(l, j)})

skipTypeSpec(l, p) ==
    LET behind == IF l[p] = "DOUBLE" THEN p + 2
                  ELSE IF l[p] = "CHARACTER" /\ LA(l, p + 1) = "*"
                       THEN IF LA(l, p + 2) = "(" THEN p + 2 ELSE p + 3
                  ELSE p + 1
    IN  IF ~ isIntrinsicType(l[p]) /\ l[p] # "TYPE" THEN p
        ELSE IF LA(l, behind) = "(" THEN matchClosingParen(l, behind) + 1
        ELSE behind

skipPrefix(l, p) == skipTPrefix(l, skipTypeSpec(l, skipTPrefix(l, p)))

isFuncDecl(l, p) ==
    LET f == skipPrefix(l, p)
    IN  LA(l, f) = "FUNCTION" /\ (LA(l, f + 1) = "id" \/ isKeyword(LA(l, 3)))

isSubDecl(l, p) ==
    LET s == skipPrefix(l, p)
    IN  LA(l, s) = "SUBROUTINE" /\ isName(LA(l, s + 1))

isModuleProcStmt(l, p) == LA(l, p) = "MODULE" /\ LA(l, p + 1) = "PROCEDURE"

(* What is behind the type of a function, spec, or behind p if it has none.  *)
convertFunction(spec, p) ==
    LET from   == IF spec.last # p THEN spec.last + 1 ELSE p
        result == salesScanForToken(spec.line, from, "RESULT")
        bind   == salesScanForToken(spec.line, from, "BIND")
        converted == convertToIdents(spec.line,
                        findToken(spec.line, from, "FUNCTION") + 1, Len(spec.line))
    IN  [k \in DOMAIN converted |-> IF k = result THEN "RESULT"
                                    ELSE IF k = bind THEN "BIND" ELSE converted[k]]

fixupFuncDecl(l, p) == convertFunction(fixupDeclTypeSpec(l, p), p)

(* Initial values, which may be array constructors with a type-spec.       *)
RECURSIVE fixupInitialization(_, _), fixupValue(_, _)
behindTypeSpec(spec, end) ==
    fixupInitialization(convertToIdents(spec.line, spec.last, end - 1), end + 1)

fixupValue(l, p) ==
    LET first == arrayConstructorStart(l, p)
        end    == arrayConstructorEnd(l, p)
    IN  IF end # 0 /\ isIntrinsicType(LA(l, first))
        THEN behindTypeSpec(fixupDeclTypeSpec(l, first), end)
        ELSE fixupInitialization(l, p)

fixupInitialization(l, p) ==
    LET equals == findToken(l, p, "=")
    IN  IF equals = 0 THEN convertToIdents(l, p, Len(l))
        ELSE fixupValue(convertToIdents(l, p, equals - 1), equals + 1)

(* The names behind the '::', or behind the type if there is none.          *)
fixupEntities(spec) ==
    LET colons == findToken(spec.line, spec.last, "::")
    IN  fixupInitialization(spec.line, (IF colons # 0 THEN colons ELSE spec.last) + 1)

fixupDataDecl(l, p) == fixupEntities(fixupDeclTypeSpec(l, p))

matchDataDecl(l, p) ==
    IF \/ isIntrinsicType(LA(l, p)) \/ isTPrefixSpec(l, p)
       \/ LA(l, p) \in {"TYPE", "CLASS"} /\ LA(l, p + 1) = "("
    THEN IF isSubDecl(l, p) THEN Unmatched(l)
         ELSE IF isFuncDecl(l, p) THEN Matched(fixupFuncDecl(l, p))
         ELSE IF isModuleProcStmt(l, p) THEN Matched(convertToIdents(l, p + 2, Len(l)))
         ELSE Matched(fixupDataDecl(l, p))
    ELSE IF LA(l, p) = "FUNCTION" THEN Matched(fixupFuncDecl(l, p))
    ELSE Unmatched(l)

(* derived-type-stmt, or a type-guard-stmt TYPE IS.                        *)
matchDerivedTypeStmt(l, p) ==
    LET colons == findToken(l, p, "::")
        paren  == matchClosingParen(l, p + 2)
        named  == toIdent(l, p + 1)
        spec   == IF isIntrinsicType(LA(l, p + 3)) THEN fixupDeclTypeSpec(named, p + 3).line
                  ELSE convertToIdents(named, p + 3, Len(l))
    IN  IF LA(l, p) # "TYPE" \/ LA(l, p + 1) = "(" THEN Unmatched(l)
        ELSE IF colons # 0 THEN Matched(convertToIdents(l, colons + 1, Len(l)))
        ELSE IF LA(l, p + 2) # "(" THEN Matched(named)
        ELSE Matched(IF paren + 1 < Len(l) THEN toIdent(spec, paren + 1) ELSE spec)

matchSub(l, p) ==
    LET s    == skipTPrefix(l, p)
        bind == findToken(l, s, "BIND")
    IN  Matched(convertToIdents(l, s + 1, IF bind # 0 THEN bind + s - 3 ELSE Len(l)))

matchProcStmt(l, p) ==
    LET colons == findToken(l, p + 1, "::")
    IN  IF LA(l, p) = "PROCEDURE" /\ LA(l, p + 1) # "("
        THEN Matched(convertToIdents(l, (IF colons # 0 THEN colons ELSE p) + 1, Len(l)))
        ELSE IF isModuleProcStmt(l, p) /\ Len(l) >= p + 3
             THEN Matched(convertToIdents(l, p + 2, Len(l)))
        ELSE Unmatched(l)

matchProcDeclStmt(l, p) ==
    LET paren  == matchClosingParen(l, p + 1)
        colons == findToken(l, paren + 2, "::")
    IN  Matched(convertToIdents(l, IF colons # 0 THEN colons + 1 ELSE paren + 2, Len(l)))

-----------------------------------------------------------------------------
(* The end of a labelled DO.                                               *)
fixupLabeledEndDo(l) ==
    IF LA(l, 1) # "1" \/ loops = 0 THEN l
    ELSE addToken(l, 2, "LABEL_DO_TERMINAL")
            \o [k \in 1 .. loops - 1 |-> "LABEL_DO_TERMINAL_INSERTED"]

fixupWheneverLabelled(l, p) == fixupLabeledEndDo(l)

(* A routine looks for the label in front of the statement it has matched:  *)
(* there is none in front of the second part of a line, nor in front of a  *)
(* keyword that has got a token before it.                                 *)
fixupIfLabelled(l, p) == IF LA(l, p - 1) = "1" THEN fixupLabeledEndDo(l) ELSE l

-----------------------------------------------------------------------------
(* The other statements of specification parts and program units.          *)
matchEnd(l, p) ==
    LET name == CASE l[p] = "END" /\ Len(l) <= 2 -> 0
                  [] l[p] = "END" /\ LA(l, p + 1) = "BLOCK"
                                 /\ LA(l, p + 2) = "DATA" -> p + 3
                  [] l[p] = "END" /\ LA(l, p + 1) = "INTERFACE" ->
                        matchGenericSpec(l, p + 2)
                  [] l[p] = "END" /\ LA(l, p + 1) = "WITH"
                                 /\ LA(l, p + 2) = "TEAM" -> p + 4
                  [] l[p] = "END" -> p + 2
                  [] l[p] = "ENDBLOCK" /\ LA(l, p + 1) = "DATA" -> p + 2
                  [] l[p] = "ENDBLOCK" -> p + 1
                  [] l[p] = "ENDINTERFACE" -> matchGenericSpec(l, p + 1)
                  [] OTHER -> IF Len(l) > 1 THEN p + 1 ELSE 0
        converted == IF name = 0 THEN l ELSE convertToIdents(l, name, Len(l))
        isEndDo == l[p] = "ENDDO" \/ (l[p] = "END" /\ LA(l, p + 1) = "DO")
        ended == IF isEndDo THEN fixupLabeledEndDo(converted) ELSE converted
    IN  IF l[p] = "ENDINTERFACE" THEN Unmatched(ended) ELSE Matched(ended)

matchBlockOrBlockData(l, p) ==
    IF l[p] = "BLOCKDATA" THEN Matched(toIdent(l, p + 1))
    ELSE IF LA(l, p + 1) = "DATA" THEN Matched(toIdent(l, p + 2))
    ELSE IF LA(l, p + 1) = "eos" THEN Matched(l) ELSE Unmatched(l)

behindOnly(l, name) ==
    IF LA(l, name + 1) = "," /\ LA(l, name + 2) = "ONLY" THEN name + 4 ELSE name + 1

matchUseStmt(l, p) ==
    LET colons == findToken(l, p, "::")
        name   == (IF colons # 0 THEN colons ELSE p) + 1
    IN  Matched(convertToIdents(toIdent(l, name), behindOnly(l, name), Len(l)))

(* IMPLICIT: the names in the first of one or two pairs of parentheses of   *)
(* every implicit-spec.                                                    *)
RECURSIVE convertImplicit(_, _)
convertImplicit(l, p) ==
    LET paren  == findToken(l, p, "(")
        close  == matchClosingParen(l, paren)
        behind == IF LA(l, close + 1) = "(" THEN matchClosingParen(l, close + 1) + 1
                  ELSE close + 1
        converted == [k \in DOMAIN l |->
                        IF k \in paren .. close /\ isKeyword(l[k])
                              /\ l[k] \notin {"KIND", "LEN"} THEN "id" ELSE l[k]]
    IN  IF LA(l, p) \in {"EOF", "eos"} THEN l ELSE convertImplicit(converted, behind)

matchAttrStmt(l, p) ==
    LET paren == findToken(l, p + 1, "(")
        close == matchClosingParen(l, paren)
    IN  CASE l[p] \in {"INTENT", "BIND"} ->
                Matched(convertToIdents(l, close + 1, Len(l)))
          [] l[p] = "PARAMETER" -> Matched(convertToIdents(l, paren, close))
          [] l[p] = "IMPLICIT" ->
                Unmatched(IF LA(l, p + 1) = "NONE" THEN l ELSE convertImplicit(l, p))
          [] OTHER -> Matched(convertToIdents(l, p + 1, Len(l)))

matchGenericBinding(l, p) ==
    LET colons == salesScanForToken(l, p + 1, "::")
        next   == LA(l, colons + 1)
        isDtio == next \in {"READ", "WRITE"}
    IN  IF \/ LA(l, p) # "GENERIC" \/ colons = 0
           \/ isDtio /\ LA(l, colons + 2) # "("
        THEN Unmatched(l)
        ELSE Matched(IF next \in {"OPERATOR", "ASSIGNMENT"}
                     THEN convertToIdents(l, colons + 2, Len(l))
                     ELSE IF isDtio
                     THEN convertToIdents(l, matchClosingParen(l, colons + 2) + 2, Len(l))
                     ELSE l)

(* With dummy arguments nothing behind them is converted, and without them  *)
(* everything.                                                             *)
convertEntry(l, p) ==
    IF p + 2 >= Len(l) THEN convertToIdents(l, p + 1, Len(l))
    ELSE IF LA(l, p + 2) = "("
         THEN convertToIdents(l, p + 1, matchClosingParen(l, p + 2) - 1)
    ELSE l

singleToken == {"COMMON", "EQUIVALENCE", "NAMELIST", "WHERE", "ELSEWHERE", "FORALL",
                "SELECT", "SELECTCASE", "SELECTTYPE", "CASE", "INTERFACE", "ENTRY",
                "IMPORT", "DATA"}

matchSingleTokenStmt(l, p) ==
    LET first == LA(l, p)
        spec  == matchGenericSpec(l, p + 1)
        twoTokens == first = "SELECT" \/ (first = "CASE" /\ LA(l, p + 1) = "DEFAULT")
        converted == IF first = "INTERFACE"
                     THEN IF spec = 0 THEN l ELSE convertToIdents(l, spec, Len(l))
                     ELSE IF first = "ENTRY" THEN convertEntry(l, p)
                     ELSE convertToIdents(l, IF twoTokens THEN p + 2 ELSE p + 1, Len(l))
    IN  IF first \notin singleToken /\ ~ (first = "CLASS" /\ LA(l, p + 1) # "DEFAULT")
        THEN Unmatched(l)
        ELSE Matched(IF first \in {"WHERE", "FORALL"}
                     THEN addToken(converted, p, first \o "_CONSTRUCT_STMT")
                     ELSE converted)

-----------------------------------------------------------------------------
(* Executable statements.                                                  *)
matchIfConstStmt(l, p) ==
    LET close == matchClosingParen(l, p + 1)
        converted == convertToIdents(l, p + 1, close)
    IN  IF LA(l, p) \notin {"IF", "ELSEIF"} \/ LA(l, p + 1) # "(" THEN Unmatched(l)
        ELSE IF LA(l, close + 1) = "THEN" THEN Matched(converted)
        ELSE IF /\ salesScanForToken(l, close + 2, ",") # 0
                /\ l[p] = "IF" /\ LA(l, close + 1) = "1"
             THEN Matched(addToken(converted, p, "ARITHMETIC_IF_STMT"))
        ELSE Unmatched(l)

matchElseStmt(l, p) ==
    Matched(IF LA(l, p + 1) = "WHERE" THEN convertToIdents(l, p + 2, Len(l)) ELSE l)

matchActionStmt(l, p) ==
    LET colons == findToken(l, p + 1, "::")
        typed  == l[p] = "ALLOCATE" /\ colons # 0
        converted == convertToIdents(l, IF l[p] = "GO" THEN p + 2 ELSE p + 1, Len(l))
    IN  IF l[p] = "GO" /\ LA(l, p + 1) # "TO" THEN Unmatched(l)
        ELSE IF typed
             THEN LET marked == addToken(l, p, "ALLOCATE_STMT_1")
                  IN  Matched(fixupIfLabelled(
                        convertToIdents(marked, colons + 2, Len(marked)), p + 1))
        ELSE Matched(IF l[p] = "GOTO" THEN converted ELSE fixupIfLabelled(converted, p))

matchIOStmt(l, p) ==
    LET close == matchClosingParen(l, p + 1)
        items == convertToIdents(l, IF LA(l, p + 1) = "(" THEN p + 2 ELSE p + 1, Len(l))
        output == l[p] = "INQUIRE" /\ close < Len(l) - 1
    IN  IF \/ l[p] = "PRINT" /\ LA(l, p + 1) = "="
           \/ /\ l[p] # "PRINT" /\ LA(l, p + 1) # "("
              /\ ~ (l[p] \in {"FLUSH", "REWIND"} /\ LA(l, p + 1) # "=")
        THEN Unmatched(l)
        ELSE Matched(fixupIfLabelled(
                IF output THEN addToken(items, p, "INQUIRE_STMT_2") ELSE items, p))

(* The keyword of a loop control stays one unless it is the DO variable.    *)
keepsLoopKeyword(l, k) ==
    LA(l, k) \in {"WHILE", "CONCURRENT"} /\ LA(l, k + 1) # "="

matchDoStmt(l, p) ==
    LET labels  == LA(l, p + 1) = "1"
        control == p + 1 + (IF labels THEN 1 ELSE 0)
        from    == control + (IF LA(l, control) = "," THEN 1 ELSE 0)
    IN  IF "eos" \in {LA(l, p + 1), LA(l, p + 2)} THEN Matched(l)
        ELSE [Matched(convertToIdents(l,
                        IF keepsLoopKeyword(l, from) THEN from + 1 ELSE from, Len(l)))
              EXCEPT !.pushes = labels]

(* A data-ref: names with up to three pairs of parentheses or brackets,     *)
(* separated by '%'; the position behind it.                               *)
RECURSIVE skipPairs(_, _, _), matchDataRef(_, _)
skipPairs(l, p, n) ==
    IF n > 0 /\ LA(l, p) \in {"(", "["}
    THEN skipPairs(l, matchClosingParen(l, p) + 1, n - 1) ELSE p

matchDataRef(l, p) ==
    LET behind == skipPairs(l, p + 1, 3)
    IN  IF ~ isName(LA(l, p)) THEN p
        ELSE IF LA(l, behind) = "%" THEN matchDataRef(l, behind + 1)
        ELSE behind

matchAssignStmt(l, p) ==
    LET operator == LA(l, matchDataRef(l, p))
        marker == IF operator = "=" THEN "ASSIGNMENT_STMT" ELSE "PTR_ASSIGNMENT_STMT"
    IN  IF operator \notin {"=", "=>"} \/ Len(l) - p < 2 THEN Unmatched(l)
        ELSE Matched(fixupIfLabelled(
                addToken(convertToIdents(l, p, Len(l)), p, marker), p))

-----------------------------------------------------------------------------
(* A line that must start with a keyword.                                  *)
RECURSIVE matchLine(_, _), matchOneLineStmt(_, _)

(* IF, WHERE and FORALL statements, with the statement behind their mask.   *)
matchOneLineStmt(l, p) ==
    LET close  == matchClosingParen(l, p + 1)
        masked == convertToIdents(l, p + 2, close)
        assign == matchAssignStmt(masked, close + 1)
        action == IF assign.ok THEN assign ELSE matchLine(masked, close + 1)
    IN  IF LA(l, p) \notin {"IF", "WHERE", "FORALL"} \/ LA(l, p + 1) # "("
        THEN Unmatched(l)
        ELSE Matched(fixupIfLabelled(addToken(action.line, p, l[p] \o "_STMT"), p))

attrStmt == {"INTENT", "DIMENSION", "ASYNCHRONOUS", "ALLOCATABLE", "PUBLIC", "PRIVATE",
             "ENUMERATOR", "OPTIONAL", "POINTER", "PROTECTED", "SAVE", "TARGET", "VALUE",
             "VOLATILE", "EXTERNAL", "INTRINSIC", "BIND", "PARAMETER", "IMPLICIT"}
actionStmt == {"STOP", "NULLIFY", "RETURN", "EXIT", "WAIT", "ALLOCATE", "DEALLOCATE",
               "CALL", "ASSOCIATE", "CYCLE", "CONTINUE", "GOTO", "GO"}
ioStmt == {"CLOSE", "OPEN", "READ", "FLUSH", "REWIND", "WRITE", "INQUIRE", "PRINT"}
endStmt == {"END", "ENDASSOCIATE", "ENDBLOCK", "ENDBLOCKDATA", "ENDCRITICAL", "ENDDO",
            "ENDENUM", "ENDFILE", "ENDFORALL", "ENDFUNCTION", "ENDIF", "ENDINTERFACE",
            "ENDMODULE", "ENDPROCEDURE", "ENDPROGRAM", "ENDSELECT", "ENDSUBMODULE",
            "ENDSUBROUTINE", "ENDTYPE", "ENDWHERE"}

OrElse(result, other) == IF result.ok THEN result ELSE other

(* matchLine behind its first two attempts: the switch.                     *)
matchKeyword(l, p) ==
    LET t == LA(l, p)
    IN  CASE t \in {"PURE", "RECURSIVE", "ELEMENTAL", "SUBROUTINE"} -> matchSub(l, p)
          [] t \in endStmt -> matchEnd(l, p)
          [] t = "PROCEDURE" -> OrElse(matchProcStmt(l, p), matchProcDeclStmt(l, p))
          [] t = "MODULE" -> OrElse(matchProcStmt(l, p),
                                    Matched(convertToIdents(l, p + 1, Len(l))))
          [] t = "SUBMODULE" -> Matched(convertToIdents(l, p + 1, Len(l)))
          [] t \in {"BLOCK", "BLOCKDATA"} -> matchBlockOrBlockData(l, p)
          [] t = "USE" -> matchUseStmt(l, p)
          [] t = "PROGRAM" -> Matched(toIdent(l, p + 1))
          [] t \in actionStmt -> matchActionStmt(l, p)
          [] t \in {"IF", "ELSEIF"} -> OrElse(matchIfConstStmt(l, p), matchOneLineStmt(l, p))
          [] t = "ELSE" -> IF LA(l, p + 1) = "IF" THEN matchIfConstStmt(l, p + 1)
                           ELSE matchElseStmt(l, p)
          [] t = "DO" -> matchDoStmt(l, p)
          [] t \in ioStmt -> matchIOStmt(l, p)
          [] t \in attrStmt -> matchAttrStmt(l, p)
          [] OTHER -> matchSingleTokenStmt(l, p)

matchLine(l, p) ==
    OrElse(matchDataDecl(l, p), OrElse(matchDerivedTypeStmt(l, p), matchKeyword(l, p)))

-----------------------------------------------------------------------------
(* One line of performPrepass.                                             *)
Init ==
    /\ form \in Statements
    /\ names \in Spellings(NameCount(form))
    /\ labelled \in BOOLEAN
    /\ loops \in IF labelled /\ form.kind \in DoEnding THEN 0 .. MaxLoops ELSE {0}
    /\ line = (IF labelled THEN <<"1">> ELSE <<>>) \o Given(form, names)
    /\ start = 1
    /\ pushed = FALSE
    /\ pc = "label"

ConsumeLabel ==
    /\ pc = "label"
    /\ start' = IF LA(line, 1) = "1" THEN 2 ELSE 1
    /\ pc' = "name"
    /\ UNCHANGED <<statement, line, pushed>>

(* The name of a construct.                                                *)
MatchIdentColon ==
    /\ pc = "name"
    /\ IF LA(line, start + 1) = ":"
       THEN line' = toIdent(line, start) /\ start' = start + 2
       ELSE UNCHANGED <<line, start>>
    /\ pc' = "scan"
    /\ UNCHANGED <<statement, pushed>>

finds(t) == salesScanForToken(line, start, t) # 0

SalesScan ==
    /\ pc = "scan"
    /\ pc' = IF finds(",") THEN "comma"
             ELSE IF finds("=") \/ finds("=>") THEN "equals" ELSE "plain"
    /\ UNCHANGED <<statement, line, start, pushed>>

Finish(result) ==
    /\ line' = result.line
    /\ pushed' = result.pushes
    /\ pc' = "done"
    /\ UNCHANGED <<statement, start>>

CommaLine == pc = "comma" /\ Finish(matchLine(line, start))

(* Without a comma an '=' belongs to an assignment, save for a few          *)
(* statements.                                                             *)
EqualsLine ==
    /\ pc = "equals"
    /\ Finish(OrElse(matchOneLineStmt(line, start),
              OrElse(matchProcStmt(line, start),
              OrElse(matchAssignStmt(line, start),
              OrElse(matchDataDecl(line, start), matchGenericBinding(line, start))))))

orOneLineStmt(result, p) == OrElse(result, matchOneLineStmt(result.line, p))

PlainLine == pc = "plain" /\ Finish(orOneLineStmt(matchLine(line, start), start))

Next == ConsumeLabel \/ MatchIdentColon \/ SalesScan \/ CommaLine \/ EqualsLine \/ PlainLine

Spec == Init /\ [][Next]_vars
-----------------------------------------------------------------------------
(* The statement as LexicalPrepass sees it.                                *)
Labels == INSTANCE LexicalPrepass WITH
            LabelText <- {"1"}, Value <- [l \in {"1"} |-> 1], NoLabel <- "none",
            Lines <- {}, MaxLines <- 1, lineNo <- 0, newTokenList <- <<>>,
            closed <- {}, eof <- FALSE,
            doLabels <- [k \in 1 .. loops |-> [text |-> "1", line |-> 0]]

labelledLine == [pre |-> <<>>, label |-> IF labelled THEN "1" ELSE "none",
                 kind |-> form.kind, target |-> "none"]

Terminals ==
    IF loops = 0 \/ form.kind = "GOTO" THEN <<>> ELSE <<"LABEL_DO_TERMINAL">>

FurtherTerminals ==
    IF Terminals = <<>> THEN <<>>
    ELSE [k \in 1 .. loops - 1 |-> "LABEL_DO_TERMINAL_INSERTED"]

InGrammar ==
    (IF labelled THEN <<"1">> ELSE <<>>) \o Terminals \o Expected(form)
        \o FurtherTerminals

AssignsToProcedure(l) == form.kind = "ASSIGN" /\ l[1] = "PROCEDURE"

(* What the prepass is known to misread: the name at position k of a line.  *)
MisreadName(l, k) ==
    LET before == LA(l, k - 1)
        behind == LA(l, k + 1)
        has(t) == \E j \in DOMAIN l : l[j] = t
    IN  \/ l[k] \in genericSpec
             /\ (behind = "(" \/ before \in {"INTERFACE", "ENDINTERFACE"})
        \/ AssignsToProcedure(l)
        \/ /\ k = 1 /\ form.kind = "ASSIGN"
           /\ l[1] \in {"IF", "WHERE", "FORALL"} /\ behind = "("
        \/ l[k] \in {"RESULT", "BIND"} /\ before = "FUNCTION"
        \/ l[k] = "BIND" /\ has("SUBROUTINE")
        \/ /\ l[k] = "FUNCTION" /\ form.kind = "OTHER" /\ ~ has("::")
           /\ isIntrinsicType(l[1]) \/ (l[1] = "TYPE" /\ isKeyword(LA(l, 3)))
        \/ l[k] = "DATA" /\ before \in {"BLOCK", "ENDBLOCK"}
        \/ l[k] = "ONLY" /\ k = 4 /\ l[1] = "USE"
        \/ isIntrinsicType(l[k]) /\ k = 4 /\ l[1] = "TYPE"

(* The statements, labels and names the prepass has no answer for.          *)
Misread ==
    \/ LET l == Given(form, names)
       IN  \E k \in NamePositions(form) : MisreadName(l, k)
    \/ labelled /\ \E k \in DOMAIN form.items : form.items[k] = "FUNCTION"
    \/ loops > 0 /\ form.kind \in {"UNLISTED", "ALLOC_TYPED"}

(* Whatever names it has, a line reaches the parser as one of the grammar's *)
(* own statements: no name is left a keyword, no keyword made a name, and   *)
(* the tokens that spare the parser a look ahead are where it expects them. *)
AsInGrammar == pc = "done" /\ ~ Misread => line = InGrammar

DoTerminal == {"LABEL_DO_TERMINAL", "LABEL_DO_TERMINAL_INSERTED"}

(* LexicalPrepass is right about this module: whatever a statement's names, *)
(* the prepass marks the ends of the loops it ends, and stacks its label,   *)
(* exactly if it is of a kind for which LexicalPrepass says so.             *)
KindsAsAbstracted ==
    (pc = "done" /\ ~ AssignsToProcedure(Given(form, names))) =>
        /\ Cardinality({k \in DOMAIN line : line[k] \in DoTerminal})
                = IF Labels!TerminatesDo(labelledLine) THEN loops ELSE 0
        /\ Labels!matchDoStmtPushes(labelledLine) <=> pushed
=============================================================================
