--------------------------- MODULE StatementForms ---------------------------
(***************************************************************************)
(* What the grammar expects of a line: the alternatives of the statement    *)
(* rules of FortranParserBase.g, written as the token types the parser wants *)
(* to see.  "n" is a T_IDENT the author of the program chooses, and which   *)
(* may be spelled like a keyword; "id" is one that is never spelled so; "1"  *)
(* is a T_DIGIT_STRING.  The tokens of Inserted are not in the source: the  *)
(* prepass puts them there so that the parser need not look further ahead. *)
(* "1" or "id" also stands for a constant or an expression without names.  *)
(***************************************************************************)
EXTENDS Integers, Sequences, FiniteSets

(* The keywords of the lexer, without those that CUDA and LOPe add.         *)
Keywords ==
    {"INTEGER", "REAL", "COMPLEX", "CHARACTER", "LOGICAL", "ABSTRACT",
     "ACQUIRED_LOCK", "ALL", "ALLOCATABLE", "ALLOCATE", "ASSIGNMENT", "ASSIGN",
     "ASSOCIATE", "ASYNCHRONOUS", "BACKSPACE", "BLOCK", "BLOCKDATA", "CALL",
     "CASE", "CLASS", "CLOSE", "CODIMENSION", "COMMON", "CONCURRENT", "CONTAINS",
     "CONTIGUOUS", "CONTINUE", "CRITICAL", "CYCLE", "DATA", "DEFAULT",
     "DEALLOCATE", "DEFERRED", "DO", "DOUBLE", "DOUBLEPRECISION",
     "DOUBLECOMPLEX", "ELEMENTAL", "ELSE", "ELSEIF", "ELSEWHERE", "ENTRY",
     "ENUM", "ENUMERATOR", "ERROR", "EQUIVALENCE", "EXIT", "EXTENDS",
     "EXTERNAL", "FILE", "FINAL", "FLUSH", "FORALL", "FORMAT", "FORMATTED",
     "FUNCTION", "GENERIC", "GO", "GOTO", "IF", "IMAGES", "IMPLICIT", "IMPORT",
     "IMPURE", "IN", "INOUT", "INTENT", "INTERFACE", "INTRINSIC", "INQUIRE",
     "LOCK", "MEMORY", "MODULE", "NAMELIST", "NONE", "NON_INTRINSIC",
     "NON_OVERRIDABLE", "NOPASS", "NULLIFY", "ONLY", "OPEN", "OPERATOR",
     "OPTIONAL", "OUT", "PARAMETER", "PASS", "PAUSE", "POINTER", "PRINT",
     "PRECISION", "PRIVATE", "PROCEDURE", "PROGRAM", "PROTECTED", "PUBLIC",
     "PURE", "READ", "RECURSIVE", "RESULT", "RETURN", "REWIND", "SAVE",
     "SELECT", "SELECTCASE", "SELECTTYPE", "SEQUENCE", "STOP", "SUBMODULE",
     "SUBROUTINE", "SYNC", "TARGET", "THEN", "TO", "TYPE", "UNFORMATTED",
     "UNLOCK", "USE", "VALUE", "VOLATILE", "WAIT", "WHERE", "WHILE", "WRITE",
     "WITHTEAM", "WITH", "TEAM", "ENDASSOCIATE", "ENDBLOCK", "ENDBLOCKDATA",
     "ENDCRITICAL", "ENDDO", "ENDENUM", "ENDFILE", "ENDFORALL", "ENDFUNCTION",
     "ENDIF", "ENDMODULE", "ENDINTERFACE", "ENDPROCEDURE", "ENDPROGRAM",
     "ENDSELECT", "ENDSUBMODULE", "ENDSUBROUTINE", "ENDTYPE", "ENDWHERE", "END",
     "DIMENSION", "KIND", "LEN", "BIND"}

isKeyword(t) == t \in Keywords

Inserted == {"ASSIGNMENT_STMT", "PTR_ASSIGNMENT_STMT", "IF_STMT", "WHERE_STMT",
             "FORALL_STMT", "ARITHMETIC_IF_STMT", "WHERE_CONSTRUCT_STMT",
             "FORALL_CONSTRUCT_STMT", "ALLOCATE_STMT_1", "INQUIRE_STMT_2"}

(* Sets of sequences one behind the other.                                 *)
Then(S, T) == {s \o t : s \in S, t \in T}

(* The statements of a set, of a kind of LexicalPrepass.                    *)
Of(kind, S) == {[kind |-> kind, items |-> Append(s, "eos")] : s \in S}

-----------------------------------------------------------------------------
(* Expressions and variables.                                              *)
expr == {<<"n">>, <<"n", "(", "n", ",", "n", ")">>, <<"n", "%", "n", "+", "1">>,
         <<"[", "INTEGER", "(", "n", ")", "::", "n", "]">>,
         <<"(", "/", "n", ",", "n", "/", ")">>}

variable == {<<"n">>, <<"n", "(", "n", ")">>, <<"n", "%", "n">>,
             <<"n", "(", "n", ":", "1", ")", "[", "n", "]", "%", "n">>}

assignment_stmt ==
    Then(Then({<<"ASSIGNMENT_STMT">>}, variable), Then({<<"=">>}, expr))

pointer_assignment_stmt ==
    Then(Then({<<"PTR_ASSIGNMENT_STMT">>}, {<<"n">>, <<"n", "%", "n">>}),
         {<<"=>", "n">>, <<"=>", "n", "(", "n", ")">>})

mask_expr == {<<"(", "n", ")">>, <<"(", "n", "(", "n", ",", "n", ")", ")">>}

(* Statements that may end a DO loop.                                      *)
action_stmt ==
    {<<"CALL", "n">>, <<"CALL", "n", "(", "n", ",", "n", "=", "n", ")">>,
     <<"CONTINUE">>, <<"NULLIFY", "(", "n", ",", "n", ")">>,
     <<"WAIT", "(", "n", "=", "n", ")">>,
     <<"DEALLOCATE", "(", "n", ",", "n", "=", "n", ")">>,
     <<"ALLOCATE", "(", "n", "(", "n", ")", ",", "n", "=", "n", ")">>}

allocate_typed == {<<"ALLOCATE_STMT_1", "ALLOCATE", "(", "INTEGER", "::", "n",
                     "(", "n", ")", ",", "n", "=", "n", ")">>}

(* Statements that must not, which is for later stages to say.             *)
jump_stmt ==
    {<<"STOP">>, <<"RETURN">>, <<"RETURN", "n">>, <<"EXIT", "n">>,
     <<"CYCLE">>, <<"CYCLE", "n">>, <<"GO", "TO", "1">>,
     <<"GO", "TO", "(", "1", ",", "1", ")", ",", "n">>}

goto_stmt == {<<"GOTO", "1">>, <<"GOTO", "(", "1", ")", "n">>}

io_stmt ==
    {<<"PRINT", "*">>, <<"PRINT", "1", ",", "n">>, <<"PRINT", "n">>,
     <<"PRINT", "n", ",", "n", "(", "n", ")">>,
     <<"WRITE", "(", "n", ",", "n", "=", "n", ")", "n", ",", "n">>,
     <<"READ", "(", "n", ",", "1", ")", "n">>,
     <<"OPEN", "(", "n", "=", "n", ",", "n", "=", "n", ")">>,
     <<"CLOSE", "(", "n", ")">>, <<"INQUIRE", "(", "n", "=", "n", ")">>,
     <<"INQUIRE_STMT_2", "INQUIRE", "(", "n", "=", "n", ")", "n", ",", "n">>,
     <<"REWIND", "n">>, <<"REWIND", "(", "n", ")">>,
     <<"FLUSH", "n">>, <<"FLUSH", "(", "n", "=", "n", ")">>}

(* Statements no routine of the prepass looks for.                         *)
unlisted_stmt == {<<"BACKSPACE", "1">>, <<"BACKSPACE", "(", "1", ")">>,
                  <<"READ", "1", ",", "id">>, <<"ENDFILE", "1">>}

one_line_stmt ==
    Then(Then({<<"IF_STMT", "IF">>}, mask_expr),
         {<<"ASSIGNMENT_STMT", "n", "=", "n">>,
          <<"ASSIGNMENT_STMT", "n", "(", "n", ",", "1", ")", "=", "n">>,
          <<"PTR_ASSIGNMENT_STMT", "n", "%", "n", "=>", "n">>,
          <<"CALL", "n", "(", "n", ",", "n", ")">>, <<"PRINT", "*", ",", "n">>,
          <<"WRITE", "(", "*", ",", "n", ")", "n">>, <<"CYCLE", "n">>,
          <<"ALLOCATE", "(", "n", ")">>, <<"GOTO", "1">>, <<"RETURN">>})
    \cup Then(Then({<<"WHERE_STMT", "WHERE">>}, mask_expr),
              {<<"ASSIGNMENT_STMT", "n", "=", "n">>,
               <<"ASSIGNMENT_STMT", "n", "(", ":", ",", "n", ")", "=", "n">>})
    \cup {<<"FORALL_STMT", "FORALL", "(", "n", "=", "n", ":", "1", ")",
            "ASSIGNMENT_STMT", "n", "(", "n", ")", "=", "n">>}

-----------------------------------------------------------------------------
(* Constructs.                                                             *)
construct_name == {<<>>, <<"n", ":">>}

loop_control == {<<"n", "=", "1", ",", "n">>, <<"WHILE", "(", "n", ")">>,
                 <<",", "WHILE", "(", "n", "(", "n", ",", "n", ")", ")">>,
                 <<",", "n", "=", "n", "(", "n", ")", ",", "1">>,
                 <<"CONCURRENT", "(", "n", "=", "n", ":", "n", ")">>}

do_stmt       == Then(Then(construct_name, {<<"DO">>}), {<<>>} \cup loop_control)
label_do_stmt == Then({<<"DO", "1">>}, loop_control)

end_do_stmt == {<<"END", "DO">>, <<"END", "DO", "n">>, <<"ENDDO">>, <<"ENDDO", "n">>}

(* The statements that begin a construct, between its blocks, and at its    *)
(* end.                                                                    *)
construct_stmt ==
    Then(construct_name,
         {<<"SELECT", "CASE", "(", "n", ")">>, <<"SELECTCASE", "(", "n", ")">>,
          <<"SELECT", "TYPE", "(", "n", "=>", "n", ")">>,
          <<"SELECTTYPE", "(", "n", ")">>,
          <<"ASSOCIATE", "(", "n", "=>", "n", ",", "n", "=>", "n", ")">>,
          <<"BLOCK">>,
          <<"WHERE_CONSTRUCT_STMT", "WHERE", "(", "n", ")">>,
          <<"FORALL_CONSTRUCT_STMT", "FORALL", "(", "n", "=", "1", ":", "n", ")">>,
          <<"IF", "(", "n", ")", "THEN">>,
          <<"IF", "(", "n", "(", "n", ",", "n", ")", ")", "THEN">>})
    \cup {<<"ARITHMETIC_IF_STMT", "IF", "(", "n", "(", "n", ")", ")",
            "1", ",", "1", ",", "1">>,
          <<"ELSE", "IF", "(", "n", ")", "THEN">>, <<"ELSEIF", "(", "n", ")", "THEN">>,
          <<"ELSE">>, <<"ELSE", "WHERE", "(", "n", ")">>, <<"ELSEWHERE">>,
          <<"ELSEWHERE", "(", "n", ")", "n">>, <<"ELSE", "WHERE", "n">>,
          <<"CASE", "(", "n", ":", "n", ")">>, <<"CASE", "(", "n", ")", "n">>,
          <<"CASE", "DEFAULT">>, <<"CASE", "DEFAULT", "n">>,
          <<"TYPE", "id", "(", "n", ")">>, <<"TYPE", "id", "(", "n", ")", "n">>,
          <<"TYPE", "id", "(", "REAL", "(", "KIND", "=", "n", ")", ")", "n">>,
          <<"CLASS", "id", "(", "n", ")", "n">>, <<"CLASS", "DEFAULT">>}
    \cup Then({<<"END", "IF">>, <<"ENDIF">>, <<"END", "SELECT">>, <<"ENDSELECT">>,
               <<"END", "WHERE">>, <<"ENDWHERE">>, <<"END", "FORALL">>,
               <<"ENDFORALL">>, <<"END", "ASSOCIATE">>, <<"ENDASSOCIATE">>,
               <<"END", "BLOCK">>, <<"ENDBLOCK">>},
              {<<>>, <<"n">>})
-----------------------------------------------------------------------------
(* Program units, procedures and interfaces.                               *)
dummy_args == {<<>>, <<"(", ")">>, <<"(", "n", ",", "n", ")">>}

prefix == {<<>>, <<"INTEGER">>, <<"PURE">>, <<"DOUBLE", "PRECISION">>,
           <<"REAL", "(", "KIND", "=", "n", ")">>,
           <<"RECURSIVE", "INTEGER">>, <<"INTEGER", "RECURSIVE">>}

program_unit_stmt ==
    {<<"PROGRAM", "n">>, <<"MODULE", "n">>, <<"SUBMODULE", "(", "n", ")", "n">>,
     <<"SUBMODULE", "(", "n", ":", "n", ")", "n">>, <<"BLOCK", "DATA">>,
     <<"BLOCK", "DATA", "n">>, <<"BLOCKDATA", "n">>, <<"CONTAINS">>,
     <<"MODULE", "PROCEDURE", "n">>, <<"MODULE", "PROCEDURE", "n", ",", "n">>,
     <<"INTERFACE">>, <<"INTERFACE", "n">>, <<"ABSTRACT", "INTERFACE">>,
     <<"INTERFACE", "OPERATOR", "(", "+", ")">>,
     <<"INTERFACE", "ASSIGNMENT", "(", "=", ")">>,
     <<"INTERFACE", "READ", "(", "FORMATTED", ")">>,
     <<"END", "INTERFACE">>, <<"ENDINTERFACE", "n">>,
     <<"END", "INTERFACE", "n">>, <<"END", "INTERFACE", "OPERATOR", "(", "+", ")">>,
     <<"PROCEDURE", "n", ",", "n">>, <<"PROCEDURE", "::", "n">>,
     <<"ENTRY", "n">>, <<"ENTRY", "n", "(", "n", ",", "n", ")">>}
    \cup Then({<<"FUNCTION", "n">>, <<"INTEGER", "FUNCTION", "n">>},
              {<<"(", "n", ")", "RESULT", "(", "n", ")">>,
               <<"(", "n", ")", "BIND", "(", "id", ")">>})
    \cup Then(prefix, Then({<<"FUNCTION", "n">>}, {<<"(", ")">>, <<"(", "n", ",", "n", ")">>}))
    \cup Then({<<>>, <<"PURE">>, <<"RECURSIVE">>},
              Then({<<"SUBROUTINE", "n">>}, dummy_args))
    \cup {<<"SUBROUTINE", "n", "(", "n", ")", "BIND", "(", "id", ")">>}
    \cup Then({<<"END">>},
              {<<>>} \cup Then({<<"PROGRAM">>, <<"MODULE">>, <<"SUBROUTINE">>,
                                <<"FUNCTION">>, <<"TYPE">>, <<"BLOCK", "DATA">>},
                               {<<>>, <<"n">>}))
    \cup Then({<<"ENDSUBROUTINE">>, <<"ENDTYPE">>, <<"ENDBLOCKDATA">>}, {<<>>, <<"n">>})

(* Declarations.                                                           *)
declaration_type_spec ==
    {<<"INTEGER">>, <<"DOUBLE", "PRECISION">>, <<"REAL", "(", "n", ")">>,
     <<"REAL", "(", "KIND", "=", "n", ")">>, <<"CHARACTER", "(", "LEN", "=", "n", ")">>,
     <<"CHARACTER", "*", "1">>, <<"TYPE", "(", "n", ")">>, <<"CLASS", "(", "n", ")">>}

type_declaration_stmt ==
    Then(declaration_type_spec,
         {<<"n">>, <<"n", ",", "n">>, <<"n", "(", "n", ")">>, <<"::", "n">>,
          <<"::", "n", "=", "n">>, <<",", "SAVE", "::", "n", ",", "n">>,
          <<",", "INTENT", "(", "IN", ")", "::", "n", "(", "n", ")">>,
          <<"::", "n", "=", "[", "INTEGER", "(", "n", ")", "::", "n", "]", ",", "n">>,
          <<"::", "n", "=", "[", "1", ",", "n", "]", ",", "n", "=>", "n", "(", ")">>})

specification_stmt ==
    {<<"USE", "n">>, <<"USE", "::", "n">>, <<"USE", "n", ",", "n", "=>", "n">>,
     <<"USE", "n", ",", "ONLY", ":", "n", ",", "n", "=>", "n">>,
     <<"USE", "n", ",", "ONLY", ":", "OPERATOR", "(", "+", ")">>,
     <<"USE", ",", "INTRINSIC", "::", "n", ",", "ONLY", ":", "n">>,
     <<"IMPLICIT", "NONE">>, <<"IMPLICIT", "INTEGER", "(", "id", ")">>,
     <<"IMPLICIT", "REAL", "(", "KIND", "=", "1", ")", "(", "id", ",", "id", ")",
       ",", "LOGICAL", "(", "id", ")">>,
     <<"PARAMETER", "(", "n", "=", "n", ")">>,
     <<"PARAMETER", "(", "n", "=", "n", "(", "n", ")", ",", "n", "=", "1", ")">>,
     <<"INTENT", "(", "OUT", ")", "n", ",", "n">>, <<"INTENT", "(", "IN", ")", "::", "n">>,
     <<"BIND", "(", "id", ")", "::", "n", ",", "/", "n", "/">>,
     <<"PUBLIC">>, <<"PRIVATE", "n", ",", "n">>,
     <<"PUBLIC", "::", "n", ",", "OPERATOR", "(", "+", ")", ",", "n">>,
     <<"PUBLIC", "ASSIGNMENT", "(", "=", ")">>,
     <<"DIMENSION", "n", "(", "n", ")">>, <<"SAVE">>, <<"SAVE", "/", "n", "/", ",", "n">>,
     <<"EXTERNAL", "n", ",", "n">>, <<"INTRINSIC", "n">>, <<"OPTIONAL", "::", "n">>,
     <<"POINTER", "n", ",", "n">>, <<"TARGET", "n">>, <<"ALLOCATABLE", "::", "n">>,
     <<"PROTECTED", "n">>, <<"VALUE", "n">>, <<"VOLATILE", "n">>,
     <<"ASYNCHRONOUS", "n">>, <<"IMPORT">>, <<"IMPORT", "::", "n", ",", "n">>,
     <<"ENUM", ",", "BIND", "(", "id", ")">>, <<"ENUMERATOR", "::", "n", ",", "n">>,
     <<"COMMON", "n", ",", "n">>, <<"COMMON", "/", "n", "/", "n", ",", "n">>,
     <<"EQUIVALENCE", "(", "n", ",", "n", ")">>,
     <<"NAMELIST", "/", "n", "/", "n", ",", "n">>,
     <<"DATA", "n", "/", "n", "/">>, <<"DATA", "n", ",", "n", "/", "1", ",", "n", "/">>,
     <<"TYPE", "n">>, <<"TYPE", "::", "n">>, <<"TYPE", ",", "PUBLIC", "::", "n">>,
     <<"SEQUENCE">>, <<"GENERIC", "::", "OPERATOR", "(", "+", ")", "=>", "n">>,
     <<"GENERIC", "::", "READ", "(", "FORMATTED", ")", "=>", "n">>,
     <<"PROCEDURE", "(", "INTEGER", ")", "::", "n">>}

-----------------------------------------------------------------------------
AllForms ==
    Of("ASSIGN", assignment_stmt \cup pointer_assignment_stmt)
    \cup Of("ACTION", action_stmt) \cup Of("ALLOC_TYPED", allocate_typed)
    \cup Of("IO", io_stmt) \cup Of("UNLISTED", unlisted_stmt)
    \cup Of("ONE_LINE", one_line_stmt) \cup Of("END_DO", end_do_stmt)
    \cup Of("ACTION", jump_stmt) \cup Of("GOTO", goto_stmt)
    \cup Of("DO_BLOCK", do_stmt) \cup Of("DO_CONTROL", label_do_stmt)
    \cup Of("DO_BARE", {<<"DO", "1">>})
    \cup Of("OTHER", construct_stmt \cup program_unit_stmt
                     \cup type_declaration_stmt \cup specification_stmt)

(* A line as it is written, where its names are, and the line as the parser *)
(* wants it.                                                               *)
Source(f) == SelectSeq(f.items, LAMBDA t : t \notin Inserted)

NamePositions(f) ==
    LET source == Source(f) IN {k \in DOMAIN source : source[k] = "n"}

NameCount(f) == Cardinality({k \in DOMAIN f.items : f.items[k] = "n"})

Given(f, names) ==
    LET source == Source(f)
        number(k) == Cardinality({j \in 1 .. k : source[j] = "n"})
    IN  [k \in DOMAIN source |-> IF source[k] = "n" THEN names[number(k)] ELSE source[k]]

Expected(f) == [k \in DOMAIN f.items |-> IF f.items[k] = "n" THEN "id" ELSE f.items[k]]
=============================================================================
