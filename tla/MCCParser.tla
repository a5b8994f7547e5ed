----------------------------- MODULE MCCParser -----------------------------
(***************************************************************************)
(* The C parser on a cut of CFortranParser.g: main programs, subroutines,  *)
(* functions, modules and block data with the statements FORMAT, INTEGER,  *)
(* CONTINUE, CONTAINS, the rule calls and the syntactic predicates in      *)
(* between kept as they are.  A prefix has one word, INTEGER or MODULE.    *)
(* The files are a few legal ones, and what one edit of one token makes of *)
(* them.                                                                   *)
(***************************************************************************)
EXTENDS CParser, SequencesExt, TLC

(* The cut of the grammar, without follow sets.                            *)

T(t) == [kind |-> "token", sym |-> t]
R(r) == [kind |-> "rule", sym |-> r]
B(look, to) == [kind |-> "block", look |-> look, to |-> to]
G(to) == [kind |-> "again", to |-> to]
Alt(look, elems) == [look |-> look, pred |-> NoRule, elems |-> elems]
If(look, pred, elems) == [look |-> look, pred |-> pred, elems |-> elems]
Only(elems) == <<Alt({<<>>}, elems)>>

Label == "T_DIGIT_STRING"
One(S) == {<<t>> : t \in S}
Labelled(S) == One(S) \cup {<<Label, t>> : t \in S}
Pairs(t, S) == {<<t, u>> : u \in S} \cup {<<Label, t, u>> : u \in S}
OptLabel == <<B({<<Label>>}, 3), R("label")>>
OptIdent(n) == <<B({<<"T_IDENT">>}, n + 2), T("T_IDENT")>>
EndOfStmt == <<R("end_of_stmt")>>
Stmt(tokens) == OptLabel \o tokens \o EndOfStmt
EndStmt(words) == Alt(Pairs("T_END", {words[1]}),
                      OptLabel \o <<T("T_END")>> \o [i \in 1 .. Len(words) |-> T(words[i])]
                      \o OptIdent(4 + Len(words)) \o EndOfStmt)
EndAlone == Alt(Pairs("T_END", {"T_EOS", "T_EOF"}), Stmt(<<T("T_END")>>))

Executable == Labelled({"T_CONTINUE"})
\* What tells an internal or a module subprogram from END, and a function
\* from a subroutine.
Subprogram == Labelled({"T_SUBROUTINE", "T_FUNCTION", "T_MODULE"}) \cup {<<"T_INTEGER">>}
Function == Pairs("T_MODULE", {"T_FUNCTION"}) \cup {<<"T_MODULE", Label>>}
            \cup Labelled({"T_FUNCTION"}) \cup {<<"T_INTEGER">>}
Subroutine == Labelled({"T_SUBROUTINE"}) \cup Pairs("T_MODULE", {"T_SUBROUTINE"})
              \cup {<<Label, "T_MODULE">>}
OptPrefix == <<B(One({"T_INTEGER", "T_MODULE"}), 3), R("prefix")>>
Declaration == Labelled({"T_FORMAT", "T_INTEGER"})
Body(head, n) == head \o
    <<R("specification_part"),
      B(Executable, n + 4), R("execution_part"),
      B(Labelled({"T_CONTAINS"}), n + 6), R("internal_subprogram_part")>>

Rules ==
    "main_program" :> Only(Body(<<B(Labelled({"T_PROGRAM"}), 3), R("program_stmt")>>, 2)
                           \o <<R("end_program_stmt")>>)
 @@ "program_stmt" :> Only(Stmt(<<T("T_PROGRAM"), T("T_IDENT")>>))
 @@ "end_program_stmt" :> <<EndStmt(<<"T_PROGRAM">>), EndAlone>>
 @@ "subroutine_subprogram" :> Only(Body(<<R("subroutine_stmt")>>, 1)
                                    \o <<R("end_subroutine_stmt")>>)
 @@ "subroutine_stmt" :>
      Only(OptLabel \o <<B({<<"T_MODULE">>}, 5), R("t_prefix"),
             T("T_SUBROUTINE"), T("T_IDENT"),
             B({<<"T_LPAREN">>}, 12), T("T_LPAREN"),
               B({<<"T_IDENT">>, <<"T_ASTERISK">>}, 11), R("dummy_arg_list"),
             T("T_RPAREN")>> \o EndOfStmt)
 @@ "dummy_arg_list" :> Only(<<R("dummy_arg"), B({<<"T_COMMA">>}, 6), T("T_COMMA"),
                               R("dummy_arg"), G(2)>>)
 @@ "dummy_arg" :> <<Alt({<<"T_IDENT">>}, <<T("T_IDENT")>>),
                     Alt({<<"T_ASTERISK">>}, <<T("T_ASTERISK")>>)>>
 @@ "end_subroutine_stmt" :> <<EndStmt(<<"T_SUBROUTINE">>), EndAlone>>
 @@ "ext_function_subprogram" :> Only(OptPrefix \o <<R("function_subprogram")>>)
 @@ "prefix" :> Only(<<R("prefix_spec")>>)
 @@ "prefix_spec" :> <<Alt({<<"T_INTEGER">>}, <<T("T_INTEGER")>>),
                       Alt({<<"T_MODULE">>}, <<R("t_prefix_spec")>>)>>
 @@ "t_prefix" :> Only(<<R("t_prefix_spec")>>)
 @@ "t_prefix_spec" :> Only(<<T("T_MODULE")>>)
 @@ "function_subprogram" :> Only(Body(<<R("function_stmt")>>, 1)
                                  \o <<R("end_function_stmt")>>)
 @@ "function_stmt" :> Only(Stmt(<<T("T_FUNCTION"), T("T_IDENT"),
                                   T("T_LPAREN"), T("T_RPAREN")>>))
 @@ "end_function_stmt" :> <<EndStmt(<<"T_FUNCTION">>), EndAlone>>
 @@ "module" :> Only(<<R("module_stmt"), R("specification_part"),
                       B(Labelled({"T_CONTAINS"}), 5), R("module_subprogram_part"),
                       R("end_module_stmt")>>)
 @@ "module_stmt" :> Only(Stmt(<<T("T_MODULE"), T("T_IDENT")>>))
 @@ "end_module_stmt" :> <<EndStmt(<<"T_MODULE">>), EndAlone>>
 @@ "module_subprogram_part" :>
      Only(<<R("contains_stmt"), B(Subprogram, 5), R("module_subprogram"), G(2)>>)
 @@ "module_subprogram" :>
      <<Alt(Function, OptPrefix \o <<R("function_subprogram")>>),
        Alt(Subroutine, <<R("subroutine_subprogram")>>)>>
 @@ "block_data" :> Only(<<R("block_data_stmt"), R("specification_part"),
                           R("end_block_data_stmt")>>)
 @@ "block_data_stmt" :>
      <<Alt(Labelled({"T_BLOCK"}), OptLabel \o <<T("T_BLOCK"), T("T_DATA")>>
                                   \o OptIdent(5) \o EndOfStmt),
        Alt(Labelled({"T_BLOCKDATA"}), OptLabel \o <<T("T_BLOCKDATA")>>
                                       \o OptIdent(4) \o EndOfStmt)>>
 @@ "end_block_data_stmt" :> <<EndStmt(<<"T_BLOCK", "T_DATA">>),
                               EndStmt(<<"T_BLOCKDATA">>), EndAlone>>
 @@ "specification_part" :>
      Only(<<R("implicit_part_recursion"), B(Declaration, 5),
             R("declaration_construct"), G(2)>>)
 @@ "implicit_part_recursion" :>
      <<If(Labelled({"T_FORMAT"}), "synpred_format",
           <<R("format_stmt"), R("implicit_part_recursion")>>),
        Alt(Labelled({"T_FORMAT", "T_INTEGER", "T_CONTINUE", "T_CONTAINS", "T_END"}),
            <<>>)>>
 @@ "synpred_format" :> Only(OptLabel \o <<T("T_FORMAT")>>)
 @@ "declaration_construct" :>
      <<Alt(Labelled({"T_FORMAT"}), <<R("format_stmt")>>),
        Alt(Labelled({"T_INTEGER"}), <<R("type_declaration_stmt")>>)>>
 @@ "format_stmt" :> Only(Stmt(<<T("T_FORMAT")>>))
 @@ "type_declaration_stmt" :>
      Only(OptLabel \o <<T("T_INTEGER"), T("T_IDENT"), B({<<"T_EQUALS">>}, 8),
                         T("T_EQUALS"), R("array_constructor")>> \o EndOfStmt)
 @@ "array_constructor" :> Only(<<T("T_LBRACKET"), R("ac_value_list"), T("T_RBRACKET")>>)
 @@ "ac_value_list" :>
      Only(<<R("ac_value"),
             B({<<"T_COMMA", "T_LPAREN">>}
               \cup {<<"T_COMMA", "T_IDENT", t>> : t \in {"T_COMMA", "T_RBRACKET"}}, 6),
             T("T_COMMA"), R("ac_value"), G(2)>>)
 @@ "ac_value" :>
      <<Alt({<<"T_IDENT">>}, <<R("expr")>>),
        If({<<"T_LPAREN">>}, "synpred_expr", <<R("expr")>>),
        Alt({<<"T_LPAREN">>}, <<R("ac_implied_do")>>)>>
 @@ "synpred_expr" :> Only(<<R("expr")>>)
 @@ "ac_implied_do" :> Only(<<T("T_LPAREN"), R("ac_value_list"), T("T_COMMA"),
                              T("T_IDENT"), T("T_EQUALS"), R("expr"), T("T_RPAREN")>>)
 @@ "expr" :>
      <<Alt({<<"T_IDENT">>}, <<T("T_IDENT")>>),
        Alt({<<"T_LPAREN">>}, <<T("T_LPAREN"), R("expr"), T("T_RPAREN")>>)>>
 @@ "execution_part" :> Only(<<R("executable_construct"), B(Executable, 5),
                               R("execution_part_construct"), G(2)>>)
 @@ "execution_part_construct" :> Only(<<R("executable_construct")>>)
 @@ "executable_construct" :> Only(<<R("continue_stmt")>>)
 @@ "continue_stmt" :> Only(Stmt(<<T("T_CONTINUE")>>))
 @@ "internal_subprogram_part" :>
      Only(<<R("contains_stmt"), B(Subprogram, 5), R("internal_subprogram"), G(2)>>)
 @@ "internal_subprogram" :>
      <<Alt(Function, OptPrefix \o <<R("function_subprogram")>>),
        Alt(Subroutine, <<R("subroutine_subprogram")>>)>>
 @@ "contains_stmt" :> Only(Stmt(<<T("T_CONTAINS")>>))
 @@ "label" :> Only(<<T(Label)>>)
 @@ "end_of_stmt" :> <<Alt({<<"T_EOS">>}, <<T("T_EOS")>>),
                       Alt({<<"T_EOF">>}, <<T("T_EOF")>>)>>

MCRule == DOMAIN Rules
MCToken == {"T_PROGRAM", "T_SUBROUTINE", "T_FUNCTION", "T_MODULE", "T_BLOCK", "T_DATA", "T_BLOCKDATA", Label,
            "T_IDENT", "T_INTEGER", "T_FORMAT", "T_CONTINUE", "T_CONTAINS", "T_LPAREN",
            "T_RPAREN", "T_COMMA", "T_ASTERISK", "T_LBRACKET", "T_RBRACKET", "T_EQUALS",
            "T_END", "T_EOS", "T_EOF"}
MCUnitRule == [T_PROGRAM |-> "main_program", T_SUBROUTINE |-> "subroutine_subprogram",
               T_FUNCTION |-> "ext_function_subprogram", T_MODULE |-> "module",
               T_BLOCKDATA |-> "block_data"]

\* What ANTLR computes for each reference: the tokens that can follow it in
\* its rule, and EOR when the rule can end behind it.
RECURSIVE FirstOf(_, _)
First(r) == UNION {FirstOf(Rules[r][a].elems, 1) : a \in DOMAIN Rules[r]}
FirstOf(es, p) ==
    IF p > Len(es) THEN {EOR}
    ELSE CASE es[p].kind = "token" -> {es[p].sym}
           [] es[p].kind = "rule" ->
                LET f == First(es[p].sym)
                IN IF EOR \in f THEN (f \ {EOR}) \cup FirstOf(es, p + 1) ELSE f
           [] es[p].kind = "block" -> FirstOf(es, p + 1) \cup FirstOf(es, es[p].to)
           [] es[p].kind = "again" -> FirstOf(es, es[p].to)

WithFollow(es) ==
    [p \in DOMAIN es |->
       IF es[p].kind \in {"token", "rule"}
       THEN [kind |-> es[p].kind, sym |-> es[p].sym, follow |-> FirstOf(es, p + 1)]
       ELSE es[p]]
MCGrammar ==
    [r \in MCRule |-> [a \in DOMAIN Rules[r] |->
        [Rules[r][a] EXCEPT !.elems = WithFollow(@)]]]
------------------------------------------------------------------------------
(* The files.                                                              *)

Mains == {
  <<"T_PROGRAM", "T_IDENT", "T_EOS", Label, "T_CONTINUE", "T_EOS",
    "T_END", "T_PROGRAM", "T_IDENT", "T_EOS">>,
  <<"T_INTEGER", "T_IDENT", "T_EOS", "T_CONTINUE", "T_EOS", "T_CONTAINS", "T_EOS",
    "T_SUBROUTINE", "T_IDENT", "T_EOS", "T_END", "T_EOS", "T_END", "T_EOS">>,
  <<"T_INTEGER", "T_IDENT", "T_EQUALS", "T_LBRACKET", "T_LPAREN", "T_LPAREN", "T_IDENT",
    "T_RPAREN", "T_COMMA", "T_IDENT", "T_EQUALS", "T_IDENT", "T_RPAREN", "T_RBRACKET",
    "T_EOS", "T_END", "T_EOS">>}
Subroutines == {
  <<"T_SUBROUTINE", "T_IDENT", "T_LPAREN", "T_IDENT", "T_COMMA", "T_ASTERISK",
    "T_RPAREN", "T_EOS", Label, "T_FORMAT", "T_EOS", "T_INTEGER", "T_IDENT", "T_EOS",
    "T_END", "T_SUBROUTINE", "T_EOS">>,
  <<Label, "T_SUBROUTINE", "T_IDENT", "T_EOS", "T_END", "T_EOS">>}
BlockData == {
  <<"T_BLOCKDATA", "T_IDENT", "T_EOS", "T_END", "T_EOS", "T_END", "T_EOS">>,
  <<"T_BLOCK", "T_DATA", "T_EOS", "T_END", "T_BLOCK", "T_DATA", "T_EOS">>}
Functions == {
  <<"T_INTEGER", "T_FUNCTION", "T_IDENT", "T_LPAREN", "T_RPAREN", "T_EOS", "T_END", "T_EOS">>,
  <<Label, "T_FUNCTION", "T_IDENT", "T_LPAREN", "T_RPAREN", "T_EOS",
    "T_END", "T_FUNCTION", "T_EOS">>}
\* MODULE begins a module or is the prefix of a subroutine or a function.
Modules == {
  <<"T_MODULE", "T_IDENT", "T_EOS", "T_CONTAINS", "T_EOS",
    "T_MODULE", "T_FUNCTION", "T_IDENT", "T_LPAREN", "T_RPAREN", "T_EOS", "T_END", "T_EOS",
    "T_END", "T_MODULE", "T_EOS">>,
  <<"T_MODULE", "T_SUBROUTINE", "T_IDENT", "T_EOS", "T_END", "T_EOS",
    "T_MODULE", "T_IDENT", "T_EOS", "T_END", "T_EOS">>}
Bases(d) == CASE d = "fparser" -> Mains
              [] d = "checkers" -> Subroutines
              [] d = "unparse" -> Mains \cup Subroutines \cup Functions \cup Modules
                                \cup BlockData \cup {<<>>}

Edits(s) ==
    {s} \cup {RemoveAt(s, i) : i \in DOMAIN s}
        \cup {InsertAt(s, i, t) : i \in 1 .. Len(s) + 1, t \in MCToken}
        \cup {ReplaceAt(s, i, t) : i \in DOMAIN s, t \in MCToken}
MCDrivers == {"unparse", "fparser", "checkers"}
MCFile == [d \in MCDrivers |-> UNION {Edits(s) : s \in Bases(d)}]
------------------------------------------------------------------------------
(* What the grammar says: the places a rule can end at when it starts      *)
(* behind the first i tokens, without look-ahead and without recovery.     *)

RECURSIVE EndsOf(_, _, _)
Ends(r, i) == UNION {EndsOf(Grammar[r][a].elems, 1, i) : a \in DOMAIN Grammar[r]}
EndsOf(es, p, i) ==
    IF p > Len(es) THEN {i}
    ELSE CASE es[p].kind = "token" ->
                IF i < Len(input) /\ input[i + 1] = es[p].sym
                THEN EndsOf(es, p + 1, i + 1) ELSE {}
           [] es[p].kind = "rule" ->
                UNION {EndsOf(es, p + 1, j) : j \in Ends(es[p].sym, i)}
           [] es[p].kind = "block" -> EndsOf(es, p + 1, i) \cup EndsOf(es, es[p].to, i)
           [] es[p].kind = "again" -> EndsOf(es, es[p].to, i)

UnitEnds(i) == UNION {Ends(MCUnitRule[u], i) : u \in DOMAIN MCUnitRule}
RECURSIVE LegalFrom(_)
LegalFrom(i) == i = Len(input) \/ \E j \in UnitEnds(i) : LegalFrom(j)
Legal == IF driver = "unparse" THEN input # <<>> /\ LegalFrom(0)
                               ELSE Ends(MCUnitRule[EntryRule(driver)], 0) # {}


\* The unit and the units behind it are legal when that rule parses it.
Fits(type) == \E j \in Ends(MCUnitRule[type], index) : LegalFrom(j)

BeginsWithOne(la, S) == \E s \in S : Len(s) <= Len(la) /\ SubSeq(la, 1, Len(s)) = s

\* The labelled beginnings of a unit, and BLOCK DATA in two words, that
\* ofpGetProgramUnitType takes for a main program, and those that
\* parseProgramUnit does.
LabelledUnit(S) == {<<Label, t>> : t \in S}
ModuleOrBlockData == {<<Label, "T_MODULE", "T_IDENT">>} \cup LabelledUnit({"T_BLOCK", "T_BLOCKDATA"})
MisjudgedByC(la) ==
    BeginsWithOne(la, LabelledUnit({"T_SUBROUTINE", "T_FUNCTION"}) \cup ModuleOrBlockData
                      \cup {<<"T_BLOCK", "T_DATA">>})
MisjudgedByJava(la) == BeginsWithOne(la, ModuleOrBlockData)

\* The first statement ends with T_EOS: lookForToken goes on behind a T_EOF,
\* the end of an included file, and may find the word of another statement.
LineEnds(la) ==
    \E k \in DOMAIN la : la[k] = "T_EOS" /\ \A j \in 1 .. k - 1 : la[j] # "T_EOF"

RECURSIVE JudgedFrom(_)
JudgedFrom(i) ==
    \/ i = Len(input)
    \/ /\ ~MisjudgedByC(SubSeq(input, i + 1, Len(input)))
       /\ \E j \in UnitEnds(i) : JudgedFrom(j)
JudgedRight == driver = "unparse" => JudgedFrom(0)

\* A tree is walked only when the file is a legal one, whatever was deleted,
\* inserted or skipped to go on: recovery never hides an error
\* (recoverFromMismatchedToken, recover, ofpFrontEnd_program).
OnlyLegalWalked == phase = "done" /\ walked => Legal

\* Every legal file is accepted without a report, the files with a unit
\* whose rule is chosen wrongly aside: look-ahead, predicates and the follow
\* stack find the one way through the grammar (match, synpred).
LegalWalked == phase = "done" /\ Legal /\ JudgedRight => walked

\* In front of a legal unit whose first line ends with T_EOS, the C front end
\* chooses a rule that parses it if and only if the unit begins in none of
\* the ways of MisjudgedByC, and the Java front end if and only if it begins
\* in none of those of MisjudgedByJava: they differ for a labelled SUBROUTINE
\* or FUNCTION and for BLOCK DATA in two words, and nowhere else
\* (ofpGetProgramUnitType, parseProgramUnit).
UnitChosen ==
    phase = "choose" /\ driver = "unparse" /\ LegalFrom(index) /\ LineEnds(ToCome) =>
        /\ Fits(ofpGetProgramUnitType(ToCome)) <=> ~MisjudgedByC(ToCome)
        /\ Fits(parseProgramUnit(ToCome)) <=> ~MisjudgedByJava(ToCome)

\* The label of a statement is "not used to disambiguate": the unit that
\* begins with a labelled SUBROUTINE statement, in a legal file, is parsed
\* by the rule of subroutines (ofpGetProgramUnitType, program_rule_start).
LabelNotUsed ==
    phase = "unit" /\ driver = "unparse" /\ Len(frames) = 1 /\ Top.alt = 0 /\ Legal
    /\ BeginsWithOne(ToCome, {<<Label, "T_SUBROUTINE">>})
        => Top.rule = MCUnitRule["T_SUBROUTINE"]

\* The parser comes to an end on every file: recovery and the loop over the
\* program units make progress (recover, consumeUntilSet,
\* program_rule_start).
Terminates == <>(phase = "done")
=============================================================================
