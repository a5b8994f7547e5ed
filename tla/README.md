# A TLA+ model of the Open Fortran Parser

This directory specifies the control logic of the Open Fortran Parser (OFP) in TLA+, checks it
with TLC and proves part of it with TLAPS. It is meant to be read beside the code; unless a path
begins with `tests/` or `src/`, file names in this text are relative to
`src/fortran/ofp/` of the repository.

Contents: 1 the system, 2 what is hard about it, 3 the modules, 4 the runs, 5 the proofs,
6 disagreements between code and comments, 7 what is not modelled, 8 the plan.

## 1. The system

OFP turns a list of Fortran source files into calls of a parser action class. One thread takes
each file through a pipeline, every stage of which reads the whole file before the next begins:

```
 FrontEnd.main ── for each file ──▶ FrontEnd(file) ── call() ──▶ exit status
                                       │
   FortranStream ─ characters ─▶ FortranLexer ─ tokens ─▶ FortranTokenStream (fillBuffer)
   joins continued lines          follows INCLUDE            │ line by line
                                                             ▼
                                              FortranLexicalPrepass.performPrepass
                                              keywords → identifiers, inserted tokens
                                                             │ newTokenList
                                                             ▼
                                              FortranParser ─ calls ─▶ IFortranParserAction
                                              one program unit after the other     │ JNI
                                                                                   ▼
                                                             C action, parser/c/token.c
```

| Part | State it keeps | Operations | What makes it correct |
|---|---|---|---|
| `FrontEnd.java` | static `includeDirs`, the error of a source and of the run | `main`'s loop, the constructor, `call`, `parseProgramUnit` | a source is parsed as if it were alone, but for the headers an earlier source is in the way of; every failure reaches the exit status; `cleanUp` reaches the action that was made; the rule chosen for a program unit is that of its first statement |
| `FortranStream.java` | the buffer, while it is rewritten: two positions, the waiting comments, "continued" | free and fixed form conversion | statements and comments survive, in order; the new buffer, of the size of the old, is never overrun; the loops end |
| `FortranLexer.g` | the current stream, the stack `oldStreams`, `prevToken`, `includeLine` | `nextToken`, `includeFile`, `findFile`, the T_EOS rule | the token stream tells which file a token is from; T_EOS only behind a statement |
| `FortranTokenStream.java` | `tokensList`, `packedList`, `newTokenList`, `currLineLength` | `setCurrLine`, `createPackedList`, `finalizeLine`, `finalizeTokenStream` | every line ends with T_EOS, no token is lost |
| `FortranLexicalPrepass.java` | `doLabels` | `performPrepass`, some 50 match routines, `fixupLabeledEndDo` | the inserted tokens are those the grammar needs; every statement is looked at |
| `FortranParser.java`, `FortranParserBase.g` | the position, `has_error_occurred`, the static `action` | the rules, `checkForInclude`, `reportError`, `eofAction` | DO constructs are those of the source; the action class sees every statement in its file |
| `c/token.c` with the functions `tools/ToC.java` generates | `token_list`, its size and length, `token_current` | `create_token`, `register_token`, `free_token_list`, `get_latest_token` | every token is kept until it is freed, once |
| action classes, printers, JNI | none that matters here | callbacks | |
| `cparser/`: driver and programs | the error count of a file | `ofpFrontEnd_program`, `program_rule_start`, `ofpGetProgramUnitType`, the mains of `unparse`, `fparser` and `checkers` | the rule chosen for a program unit is that of its first statement, as in the Java version; only the tree of a correct file is walked |
| `cparser/ofpbaserecognizer.c` | the position, `following`, `errorRecovery`, `lastErrorIndex`, `failed`, `backtracking`, `errorCount` | `match`, `recover`, `recoverFromMismatchedToken`, `synpred`, `reportError` | the follow stack is the stack of calls; predicates leave no trace; one report per place; recovery ends |
| `open-parser/` | copies of `cparser/` with tree grammars that build an AST | | |
| `CFF/` | none: an SDF grammar | | |

The parts interact in three ways. They call each other (the parser calls the action class, the
lexer asks for a stream). They share buffers in which *extra tokens carry control information*:
the lexer tells the parser about files with `T_INCLUDE T_INCLUDE_NAME` and `T_EOF`, the prepass
tells it about loop ends with `T_LABEL_DO_TERMINAL` and about statements with tokens such as
`T_ASSIGNMENT_STMT`. And static fields (`includeDirs`, `action`, the C token list) outlive a
source file.

## 2. What is hard about it

Nothing runs concurrently and nothing is persisted, so the hazards are of another kind; each is
listed at its line in `PROJECT.json`, with the properties that would notice it.

* *Long legal sequences.* The stack `doLabels` and the number of inserted tokens have to agree
  with the nest of loops after any sequence of lines, with loops that share an end, labels spelled
  in two ways, statements the prepass does not recognise, and ends that come in a wrong order.
* *A protocol read much later.* Tokens of nested files are produced while lexing, passed over by
  the prepass and interpreted by the parser; the three must agree on combinations of included
  files that begin or end with INCLUDE lines, are empty, are cut off, or cannot be read.
* *State that outlives what it was for*: `includeLine` at the end of a file, the null action after
  a syntax error, directories of earlier sources, `token_current` behind `free_token_list`.
* *Partial failure*: include files not found, a failing `malloc`, a source that does not exist, an
  error in one of several program units.
* *Limits and boundaries*: doubling an `int` size, writing comments into a buffer of fixed size
  before, inside and behind statements, CR LF that shrinks the text while its length stays.

* *Recovery.* The recognizer of the C parser deletes, inserts and skips tokens, gives up rules and
  resumes others, and tries rules ahead of time; a stack, a flag, an index and two counters kept by
  hand must agree with it on every exit of every rule.

## 3. The modules

Names follow the code: a variable is the field it models, an action the method or the branch
of it. `PROJECT.json` maps every definition to its lines. Definitions without a comment in front
of a commented one (`fixupWithoutPop` in front of `fixupLabeledEndDo`) are *faults*: replacing the
definition by one must make a property fail.

### The prepass and DO constructs: `LoopNest`, `LexicalPrepass`, `PrepassParse`

`LoopNest` is the abstract promise: lines begin loops, and a line may end loops provided they are
the innermost ones open. It has neither labels nor a stack.

`LexicalPrepass` models one round of `performPrepass` as one action. A line is a record of what
the bookkeeping looks at: the include tokens the lexer put in front of the statement, its label,
the branch of `performPrepass` it takes (`kind`), and the label a DO names. `Recognised` says when
`lineStart` ends up where the match routines look; `matchDoStmtPushes` and `callsFixup` say which
routines reach `doLabels`; `fixupLabeledEndDo` pops every matching label and inserts one token for
each. `newTokenList` is the stream the parser gets, the statement's own tokens being one token.
It implements `LoopNest` (`ImplementsNest`) under the mapping of the stack to the set of its lines.

`PrepassParse` composes the prepass with a source that produces any lines and notes, in `legal`,
whether they are still the beginning of a program (labels unique, a DO's label still to come,
loops nested), and with the parser's `block_do_construct`, `do_stmt`,
`end_do` and `do_term_action_stmt` reading `newTokenList` when the prepass is at the end of the
file, as in `FrontEnd.call`. The nest of the source is a variable of the environment, computed
from the language's rule and not from the prepass; the properties compare the two.

### Keywords: `StatementForms`, `KeywordPrepass`

`KeywordPrepass` is the other half of the same prepass, Sale's algorithm: one behaviour takes one
line through `performPrepass`, from its label and the name of its construct to the scan for a comma
or an `=` outside of parentheses and on to the match routine of its statement. The control of
`performPrepass` is in the actions; the match routines are operators from a line to a line, with
the order of their attempts, since none keeps any state but the line and `doLabels`. A line is a
sequence of token types.

`StatementForms` is the reference: the alternatives of the grammar's statement rules, as the token
types the *parser* wants, inserted tokens included, with `n` at each place for a name. `Source`
takes away the inserted tokens and `Given` spells the names, like keywords or not; `AsInGrammar`
says that the prepass finds its way back. The forms are written from `FortranParserBase.g` and know
nothing of the match routines.

`KindsAsAbstracted` ties this module to `LexicalPrepass`, which takes the kind of a statement as
given: an instance of it is asked whether a line of this kind ends a DO or stacks its label, and
`KeywordPrepass` must have inserted that many tokens, or pushed, whatever the names are.

### INCLUDE: `IncludeLexer`, `TokenStream`, `IncludeParse`

`IncludeLexer` models `nextToken` with `includeFile` and the T_EOS and T_CHAR_CONSTANT rules: one
action per token the lexer returns, per change of the stream, and per failure. A statement is one
token. Hidden tokens are not kept, since everything behind the lexer passes over them.
`TokenStream` adds the loop of `performPrepass` as far as lines go (`getLineLength`,
`createPackedList` with the T_EOS it adds to the wrong list, `lineStart`, `finalizeLine`): a
statement the prepass reaches gets a mark. `IncludeParse` adds `checkForInclude`, the
recognition of a marked statement, `reportError` and `eofAction`, and the calls of the action
class as the history `events`. `Expansion` is the reference: the files of a source spliced
recursively where their INCLUDE lines are.

Crashes (a null pointer, an index out of bounds) are actions that lead to `phase = "crash"`.

### Command line: `FrontEnd`

`main`'s loop with the constructor of `FrontEnd`, `findFile`, `parser.initialize`, `call` and
`parseProgramUnit` by their effect on `includeDirs`, the static action, the errors and the calls
of the action class. What is in an included file depends on where it was found, so a source is two
functions of the places of the included files found so far (`resolved`): its next INCLUDE line, and how
the parser fares with its units (correct, blank, with a syntax error, dropped to its end). In this
way a directory an earlier source left in `includeDirs` changes what a later source is.
`MaxIncludes` bounds the INCLUDE lines of a source.

### C tokens: `TokenRegistry`, `TokenList`

`TokenRegistry` is the promise of `token.c`: a sequence of tokens, appended to and emptied.
`TokenList` is the growing array with `INIT_TOKEN_LIST_SIZE`, doubling in `int` arithmetic
(`Doubled` wraps), a failing `malloc` or `realloc`, and the calls a generated JNI function makes:
create a token for every argument, call the C action, register the tokens.

### Characters: `FortranStream`, `FreeFormStream`, `FixedFormStream`, `SourceForms`

`FortranStream` has what the two forms share: the buffers and positions, the helpers that copy
line ends, comments and preprocessor lines, and the characters, abstracted to the classes the code
tells apart; of a number in front of an `H`, the value (`Number`), for `Integer.parseInt` throws an exception
when it exceeds `IntMax` (`LargeNumber`, `FixedLargeNumber`), whether the digits are a Hollerith
count or the end of a name. `FreeFormStream` and `FixedFormStream` model `convertFreeFormInputBuffer` and
`convertFixedFormInputBuffer` with all helpers: one action per branch of the loop body and one per
round of an inner loop that may go on for ever. The look-ahead of the fixed form for a continuation
(`checkForContinuation` past comment lines, column 6, TAB and digit) is a function of the buffer.
`SourceForms` is `convertInputBuffer`: it chooses the form and composes the two.

`FreeFormRules` and `FixedFormRules` are independent readers that take a text as the standard (and,
for TAB, DEC's convention) has it: what are its statements and its comments, whether it is legal,
and whether it has one of the forms (`odd`, section 6) the stream is known to get wrong. The
properties compare what the reader finds in the file with what it finds in the new buffer.

### C parser: `ProgramUnits`, `Recognizer`, `CParser`

`ProgramUnits` has `ofpGetProgramUnitType` with `lookForToken` of the C driver, and
`parseProgramUnit` with `lookForToken` of `FrontEnd.java`, as functions of the tokens to come.

`Recognizer` is `ofpbaserecognizer.c`, one action per operation: `match` with the deletion and the
insertion of a token, `recover` with `consumeUntilSet` over the combined follow sets, the follow
stack, `synpred` with `mark` and `rewind`, reporting and counting. The grammar is a constant: for
each rule its alternatives, as sequences of tokens and rules, its FIRST and FOLLOW sets, and
whether a predicate guards an alternative. The functions ANTLR would generate for the rules are not
in the repository; their shape (push, call, pop, test `failed`, recover, one exit) is taken from
`program_rule_start`, which is such a function written by hand, and is marked external in the map.

`CParser` adds the driver around it: the loop over program units, the handling of an error of the
top rule, and the mains of the three programs up to the tree walker they call. `MCCParser` gives it
a cut of `CFortranParser.g` (main programs, subroutines, functions, modules, block data, prefixes of one
word, internal and module subprograms, a few statements, two predicates) with FIRST and FOLLOW computed
from the rules.

`cparser/Makefile` builds less than its sources promise: it links `checkers` without
`ofpbaserecognizer.o`, so that this program runs the recognizer of the ANTLR library, and has no rule to
link `fparser`. Only `unparse` runs the recognizer modelled here as the build stands; the other two are
modelled as their sources have them, with the recognizer their `program_rule_start` is written for.

## 4. The runs

| Run | Instance | Shows |
|---|---|---|
| `prepass_parse` | up to 6 lines, three labels of two values, 21 forms of lines, among them five the prepass does not know; programs that stop being legal go on for 4 lines at most | whatever the lines, the marked loops are nested, marked ends have their tokens, `LoopNest` is implemented and the parser ends; `StackIsNest` and `KnownProgramAccepted` for legal programs of known forms; `LoopsAsInSource` for all legal ones: a form the prepass does not know may lead to a syntax error, never to wrong pairs |
| `gap_bare_do` | four forms | finding: a labelled DO without loop control |
| `keywords` | each of the statement forms, any one of its names spelled like any keyword, any two like the 8 of `Few`; labelled or not; up to two loops ended | every line reaches the parser with the tokens its rule wants, save those `Misread` names; ends of DO loops and pushed labels as `LexicalPrepass` has them |
| `include` | a main file of 3 lines, two levels of included files; files empty, missing, unreadable, cut off in the last line | tokens follow streams, no bare T_EOS, the events are a prefix of `Expansion`, the pipeline ends; legal sources are accepted with every statement marked |
| `include_nested` | a file that begins or ends with an INCLUDE line | finding |
| `front_end` | every command line of up to two sources of a repertoire; two directories have a header of the same name, with which the source has other units and other INCLUDE lines | a source is processed as if alone but for headers whose search ends at an earlier source (`SourcesIndependent`); headers come from the first place in the order of the command line (`HeadersAsSearched`); the exit status; the end is reached |
| `front_end_cleanup` | single command lines | finding |
| `token_list` | 6 tokens, first size 1, `INT_MAX` 7, at most 2 arguments, symmetric in the tokens | the list survives growing to its limit, failures and reuse, and implements `TokenRegistry` |
| `source_forms` | free form: any 4 characters of 7, alone and behind 3 beginnings of texts, 3 lines of 23 forms, 4 lines of 11 forms; fixed form: lines of a repertoire of columns 1 to 8 | no overrun and no exception (`IntMax` is 10, so that `11h` exceeds it), the loops end, statements and comments are kept |
| `fixed_form_tab` | a single text | finding |
| `c_parser` | for each of the three programs some legal files and all files one token away from one (a token deleted, inserted, replaced) | the programs end; the tree is walked for exactly the legal files (misjudged units aside); one report per place, in order; stacks balanced; predicates silent; each front end chooses the wrong rule for exactly the beginnings of units listed for it (`UnitChosen`) |
| `c_parser_label` | a legal file of one subroutine with a label on its SUBROUTINE statement | finding: it is parsed as a main program |

*Why the bounds are enough.* Six lines hold a nest of three loops with three separate ends, or of
five with one; one wrong pop, one label too few or an end in the wrong order needs three to
five. The models of INCLUDE have the three levels at which `T_EOF T_EOF`, `T_EOF T_INCLUDE` and
`T_INCLUDE T_INCLUDE` arise, and all look-aheads of the code are of at most three tokens. The
state that links two sources is a list and two flags, and a third source meets what the second
met. The token list reaches its second doubling with three tokens and the overflow with five.

`source_forms` has some 39 000 free and 6 481 fixed texts. 4 196 of the free ones are legal, end with
a line end and have none of the odd forms; 2 081 of them have joined lines, 806 are joined more than
once and 1 683 have comments besides. Of the fixed ones 1 529 are legal and terminated, 743 of them
without odd forms; 351 are joined, 108 more than once, 279 with comments between. 1 566 free and 50
fixed texts that end with a line end have a number above `IntMax` in front of an `H`. Every loop of
the code carries at most a position, two flags and the waiting comments from one line to
the next, and three or four lines take each through every value.

In `keywords` a form has at most seven names. Every test of the match routines looks at one token, or
at a keyword and its neighbour or a keyword found further on, so that one name spelled like any
keyword meets each test alone and two meet those that look at a pair; `Few` has a keyword of each
kind such tests are about. Names spelled unlike a keyword are all the same to the code.

In `c_parser` one edit is enough to enter each way of recovery; a second error far from the first meets
the same state but for `lastErrorIndex`, and edits that make two reports are among them.
`MaxLines` and `MaxAnyLines` are the only bounds in guards; they stop the source, as the
end of a file does.

`CHECK_DEADLOCK FALSE` is in every configuration but those of `MCCParser`: these programs stop.
`CParser` has a step `Terminating` instead, so that TLC would report a recognizer that is stuck
half-way as a deadlock.

*Fairness.* One thread runs the pipeline, and it does not stop between two steps: weak
fairness of the whole next-state relation (`FrontEnd`, `IncludeParse`, `SourceForms`; `CParser`
writes it out as "infinitely often a step, or infinitely often at the end"). In
`PrepassParse` it is on the parser only, for the source may end anywhere. `token.c` is driven
from outside; nothing is assumed and no liveness is stated.

## 5. The proofs

All are checked by `tlapm` for every value of the constants that satisfies the module's
assumptions. Recursive functions are reasoned about by induction over the naturals: the library's
induction theorems take an operator, which the provers cannot instantiate, but well-foundedness can
be stated of a set, and `NaturalsLemmas` has what follows from it (`SetInduction`; `RecursionExists`,
that a function defined by recursion along 0, 1, ..., n has the values its equation gives; least
elements, `Min` and `Max`).

* `LoopNestProofs!NestIsWellNested`. `NestInv` is inductive as it stands: that no open loop lies
  inside an ended one (`InnermostFirst`) is the strengthening nesting needs.
* `PrepassProofs`, the prepass: `PrepassTypeCorrect`, and then `PrepassInvariant`: the entries of
  `doLabels` are in the order of their lines and not behind `lineNo`. Types alone do not give the
  refinement: popping the end of the stack ends the innermost loops only because later lines are
  above earlier ones. `PrepassImplementsNest` maps every action to a step of `LoopNest`
  (`PushLabel` to `BeginLoop`, `fixupLabeledEndDo` to `EndLoops` of the lines popped,
  `LeaveLabels` to `OtherLine`, `PrepassEnd` to a stutter); `PrepassLoopsWellNested` follows with
  `NestIsWellNested`. `PrepassMarksEveryEnd` counts the terminals of every line in `newTokenList`
  (`TerminalsInv`: they lie behind the tokens of the lines before). The assumption is
  `PrepassAssumption` (labels have numbers, lines are lines); the program need not be legal.
* `PrepassProofs`, the parser: for legal programs of any length, `StackIsTheNest`,
  `ParserAcceptsKnown` and `ParserFindsTheLoops`. The source's invariant `SourceInv` says of the
  nest, `doLabels` and the labels used so far: the label of an open loop has not been used, and a
  label on `doLabels` that has not been used is that of an open loop. What an end that was not
  recognised leaves behind can therefore never be matched again, and pops no loop it should not.
  The parser reads the list only when it is complete, so its invariant must speak of the whole list
  while the prepass still writes it:
  `ParserInv` claims a *run*, a sequence of stacks of line numbers with one step per token, whose
  last stack holds at least as many loops as the nest. It holds the same number while the lines are of known
  forms; and whenever it does, each open loop and each pair of the run is the source's (`AsInSource`).
  The parser's own stack and pairs are somewhere in that run (`ParserAt`). At the end the nest is
  empty, and an accepted program has an empty stack too: so its pairs are the source's, whatever
  the prepass did not see.
* `IncludeProofs`, for any set of files that include one another in any way (`IncludeAssumption`).
  The fold of `OpenFiles` over the buffer is that of the library, over sets of indices; `FoldExists`,
  `FoldSteps` and `OpenFilesOfAppend` make it what one token does to the files open before it. The
  invariant `BufferInv` follows the two lists: each T_EOS is behind a statement, with nothing between
  but the ends of files (`EosEndStatements`, of the buffer and of `newTokenList`); while the lexer
  runs, `prevToken` tells whether there is such a statement; and the prepass stands at the
  beginning of a line, so that the T_EOS it adds to the end of the buffer ends one.
  From it: `LexerTypes`, `EosBehindStatements` (`NoBareEos`), and, with the
  stack of streams as the stack of the reader, `TokensTellTheFile` (`TokensFollowStreams`).
  `EventsTellTheSource` (`EventsAsIncluded`) needs all three phases. `Heard` is what the parser
  calls for a sequence of tokens (`HeardConcat`: that of the parts, one behind the other), and
  `ToldInv` says, while the lexer runs, that what will be heard of the buffer is what is to be told
  of the lexemes read so far: of each open file the lexemes up to its INCLUDE line, from the outermost
  to the innermost (`Story`, with the pieces in `before`); in the prepass, that the lines rewritten so
  far are heard as the lines taken (a mark is not heard, and no INCLUDE line is cut in two); in the
  parser, that what has been called is what is heard of the tokens in front of `p`. The rest is about
  `Expansion`, which cuts off at a depth of as many files as there are: `LayersFill` says
  that the files whose inclusions are at most d deep are all of those whose inclusions end when d is
  that number, so that what is told of such a file is what is told line by line (`TellingFacts`).
  A file that includes itself is never left (`Story`, `FileEnds`), and what follows it never told.
* `FrontEndProofs`, for command lines of any length and any repertoire of sources. `SourcesInv`
  relates the calls seen of the source in hand to the units parsed so far (`Parsing`: the action
  class has been told of the correct units in front of the first faulty one) and the error of the
  run to the sources behind us (`ErrorKept`); each source begins with the static action
  renewed, which makes the errors of the sources before it irrelevant. From it: `FrontEndTypes`,
  `ExitReportsEveryFailure`. `HeadersFound` has the invariant `HeadersInv` of its own: whatever name is
  searched for next, the search ends where the command line says (`Searched`: at its `HeaderPlace`
  among `-I` and the sources opened so far), and each header taken was taken there.
  `SourcesAreIndependent` needs both: a search that did not end at an earlier source
  (`InTheWay`) ended where that of the source alone ends; and the action class is told what the units
  are with the headers found.
* `StreamProofs`, for files of any length in either form. That `newData` has room is a count:
  a round keeps, in `newData` or among the waiting comments, at most one character for each that it
  consumes. This alone is the bound up to position n, and is not enough for the writes at n
  itself, behind which a loop only then stops: there some character must have been dropped before.
  `StreamInv` says at which points of the two loops one was (`FreeShape`, `FixedShape`: a continued
  line has lost its `&`), and what the padded buffer holds behind the text (`DataInv`, about the lines
  of `convertInputBuffer`; `DataFromText`: a digit or an `H` in it is one of the file, so a number too large
  for `Integer.parseInt` is one too, `LargeNumberOfText`). `MarkerIsThere` is the look-ahead of the
  fixed form: from a line end of a terminated file it meets another of the last line ends, or six
  blanks of the padding. From it:
  `StreamTypes`, and `NoOverrun` (`NoCrash`) for `Convertible` files: terminated, with a padding that is
  not the short one of CR LF, and with no number above `IntMax` in front of an `H`.
* `TokenListProofs`, for any set of addresses, any `IntMax` and any first size. The inductive
  invariant has, beside the types, that the elements in use are distinct and live, that live
  tokens are either in the list or pending, and that pending ones are not in the list. From it:
  `TypeCorrect`; `NoTokenLost` (`EveryTokenOwned`: what `cleanUp` frees is everything that was
  created); `LatestIsLast` (`LatestHasLine`); and `ListIsRegistry`, that growing, which
  copies the array, keeps the sequence. A negative doubled size is excluded in `RegisterToken` by
  its failing allocation, which is why the types hold up to the overflow.
* `CParserProofs`, for *every* grammar, every file and every choice of a unit's rule (assumptions
  `GrammarAssumption`, `MarkersAssumption`, `UnitRuleAssumption`, `FileAssumption`: shapes only;
  `EndOfFileAssumption`: the recognizer and the choice of the unit mean the same token type).
  The inductive invariant `IInv` adds to the types the shape of the stack of calls (`WellFormed`:
  one start rule at the bottom, above each frame the rule its element calls), that a predicate's
  frame has the mark of its beginning (`MarksOK`: without it `EndSynpred` could rewind behind
  a report, and the order of the reports would be lost), and what `failed` and `error` mean in each
  phase. From it: `TypeCorrect`; `StacksMatch` (the follow stack is the follow sets
  of the calls in progress on *every* exit of a rule); `InOrder` (reports come in the order of
  the tokens); `Silent` (no report and no count while a predicate runs).
  A second invariant, `DerivedInv` over `IInv`, gives `OnlyDerivedFiles`: a tree is walked only
  when the grammar derives the file, whatever look-ahead sets and follow sets it has. What the
  grammar derives is stated without the recognizer: the items of Earley's algorithm, in `Parsed` as
  the least set that is closed under matching a token, ending a rule, entering or skipping a block
  and repeating it. A parser in recovery has counted an error; one that counted none has, for each
  frame outside predicates, a place where it began such that the part of its alternative in front
  of where it stands, or waits for a call, is derived. The frames of a predicate are left out, and
  `EndSynpred` rewinds to the mark where the frame below stands. For `unparse` the units follow one
  another from the first token to the last (`UnitEndsOf`); the others parse one unit, and what
  stands behind it does not count.

What is model-checked only, and why:

* `StatementsKept`: it compares two readers, `FreeFormRules` or `FixedFormRules` and `Lexed`, that fold
  over a text and over the new buffer. A proof would need a simulation between the two through a
  buffer that is rewritten in place.
* `OneReportPerPlace`: false for some grammars (`match` clears `errorRecovery` also while it runs
  for a predicate), so a theorem would have to be about this one.
* `LegalTokens`, `LegalAccepted`, `LegalWalked`, `UnitChosen`: about the instances of their MC
  modules, of which "legal" is a definition by cases or a language. `LegalWalked` is false of grammars
  in general: that the look-ahead sets choose the right alternative is what ANTLR has to see to.
* `OnlyLegalWalked`: "legal" is there the recursive operator `Ends`, which TLC can evaluate and the
  prover cannot take. Its general form is the theorem `OnlyDerivedFiles`.
* `AsInGrammar`, `KindsAsAbstracted`: the match routines of `KeywordPrepass` are `RECURSIVE`
  operators, which the prover does not take.
* `FrontEndEnds`, `ParseEnds`, `ConversionEnds`, `Terminates`: liveness, for which the prover would
  need `ENABLED`.

## 6. Where code and comments disagree

With a run: the five `findings` of `PROJECT.json`. Met while modelling, and part of the models but
without a run of their own:

* Prepass: `ALLOCATE(type :: ...)` hides its label from `fixupLabeledEndDo`; BACKSPACE, ENDFILE,
  and others have no case in `matchLine`; the label of the first statement of an included
  file is not seen. Each is a form of `GapLines`.
* Prepass, names that look like keywords and that it misreads. Those of `Misread`, which `AsInGrammar`
  excludes: variables and procedures named READ, WRITE, OPERATOR or ASSIGNMENT in front of a
  parenthesis, and generic interfaces of these names; assignments to elements of arrays named IF,
  WHERE or FORALL; an assignment to a variable or structure named PROCEDURE (which also loses the
  DO it ends); functions named RESULT or BIND, subroutines and dummies named BIND; a variable
  named FUNCTION declared without `::` behind a type with a parameter; `BLOCK` constructs and
  block data units named DATA; `USE m, ONLY => x`; labelled function statements; a type guard or
  component that an intrinsic type's keyword follows in parentheses. Those no form has:
  `INTEGER(4) FUNCTION DATA()`, `TYPE(t) FUNCTION` with a keyword as its name; array constructors
  with a type-spec without parentheses; `CHARACTER(LEN=kind, KIND=k)`; names in
  `IMPLICIT REAL(KIND=...)`; `RESULT` of an ENTRY; `PROCEDURE(f) name` without `::`;
  `GENERIC :: a => b`; names in `EXTENDS(...)`, and in `DIMENSION(...)` in front of `::`; names in
  `ALLOCATE(type :: ...)`'s type; `MODULE SUBROUTINE`, `IMPURE`, `CLASS(t) FUNCTION`; two prefixes
  in front of `BIND(C)`; the names of ELSE and ELSE IF statements; READ with a format only, FINAL,
  CONTIGUOUS, CODIMENSION, SYNC, LOCK, ERROR STOP, PAUSE and ASSIGN, which no routine looks
  for. An IMPLICIT statement without a parenthesis that is not IMPLICIT NONE is read for ever
  (`FortranLexicalPrepass.java:803-831`).
* INCLUDE: a last line without line end gets no T_EOS (`createPackedList` appends it to the line
  before, `FortranTokenStream.java:254`), a file of one such line is a null pointer, an INCLUDE
  line without line end is never replaced, a missing include as last line is a null pointer, an
  unreadable one an index out of bounds in `checkForInclude`. The actions `PrepassCrash`,
  `LexIncludeCrash` and `EnterUnreadable`, and the precondition `IncludeLinesEnd`, are these.
* Command line: `includeDirs` gets a null entry for a source without a directory, which the header
  search of a later source in a directory dereferences; and a header of a later source is taken from the
  directory of an earlier one. `SourcesIndependent` names these headers (`InTheWay`).
* Both forms: `Integer.parseInt` (`FortranStream.java:888`) throws an exception for a run of digits in front
  of an `H` that no `int` holds, even if it is the end of a name. `NoCrash` and
  `ConversionEnds` are stated for files without such numbers.
* Free form, the forms `odd` names. The first character behind a leading `&` is copied untested
  (`FortranStream.java:274`, `:940`): a constant that begins there is not scanned as one, so an
  `&` or `!` in it is taken for a continuation or a comment; in a continued constant, a quote
  there is not seen to end it or to be the first of two. A `#` line behind a comment line is taken
  for a statement. Comment and blank lines inside a continued constant become part of it
  (`:924` has a TODO). Of `&&` in a constant the second `&` ends the copying of the line (`:1009`),
  though `:1004` says "'&' not a continuation, just part of the string, so copy it". A name that ends in digits and H, as
  `V11H`, is taken for a Hollerith constant from its second digit on, one at the beginning of a
  line is missed, or seen from the line end before it.
* Free form, files without a last line end: one that ends in a comment overruns the buffer
  (`BufferFull`; but `:166` has "as file can terminate on '!', for example"), one that ends in `&`
  inside a constant is read for ever (`StringHangs`). `NoCrash`, `ConversionEnds` and
  `StatementsKept` are stated for files that end with a line end.
* Fixed form, the forms `odd` of `FixedFormRules` names. The look-ahead for column 6
  (`FortranStream.java:767`) has the comment "WARNING, don't go beyond length" and does: the
  buffer is padded (`:166-172`), but a CR LF file with two to five line ends shrinks by more than
  the padding (`LookBeyond`). The column is counted by hand: a TAB behind column 1 does not move
  it, so a `0` in real column 6 is dropped from `10<TAB>x=0`; a continuation does not reset it; and
  there is no column 72. A constant that is continued, or begins in column 7 of a continuation, is
  not scanned, so a `!` in it is taken for a comment; a `!` in column 6 is taken for a comment
  line; a `!` as first character of a continuation is not seen to be a comment; a `#` line behind a
  comment line is a statement; a line of exactly five characters makes the line end its
  continuation mark; an inline comment and the comment line behind it merge into one. Lines
  822-827 of `consumeFixedFormContinuation` are never reached.
* C tokens: `get_latest_token` behind `free_token_list` returns freed memory until the next token
  with a line is registered; `create_token` does not test `malloc`.
* Choice of the unit: the C driver takes a unit that begins with a labelled SUBROUTINE, FUNCTION, MODULE
  or BLOCK DATA, or with BLOCK DATA in two words, for a main program; the Java version so takes a
  labelled MODULE or BLOCK DATA. `UnitChosen` is about exactly these. `lookForToken` of both does
  not stop at a T_EOF, and finds the word in the line behind the end of an included file: so
  `UnitChosen` is stated for first lines that end with T_EOS.
* C driver: "we allow empty files as a
  main-program" (`OFPFrontEnd.c:594`) is not reached; an error of a unit's top rule skips to the end
  of the file; `fparser` and `checkers` parse one unit and ignore the rest; `unparse` returns 0
  whatever happened.
* C recognizer: an exception is made only if there never was one (`ofpbaserecognizer.c:1462`), so
  that a later error is reported as an earlier one (`:1297` says otherwise); a missing token is
  accepted wherever the end of the start rule is in reach, because EOR stays in the combined set
  (`:1407-1409`).

## 7. What is not modelled

Of the prepass: FORMAT statements (a scanner of their text of its own), the joining of real
constants and of relational operators the lexer leaves in pieces, which is done before the scan and
changes no name, and the keywords of CUDA Fortran and of LOPe.

The components of `PROJECT.json` with status `not_modelled`, with their reasons there. In short:
generated LL(*) recognition of the grammar rules (TLC would compare the grammar with itself);
printing callbacks; the type table `OFP_Type.c`, which nothing calls; the SDF grammar;
build files. Files that include themselves are left out of the models: the lexer opens them for
ever.

By lines, three quarters of the C code are of this kind: `FortranParserActionPrint.c` (545
functions of one shape, that print their arguments, 10 366 lines), `FortranParserActionNull.c`
(545 empty bodies) and `FortranParserAction.h` (their prototypes), each of them twice, in
`cparser/` and in `open-parser/`. The recognizer and the driver of `open-parser/` are those of `cparser/`
to the byte. The share of C lines that definitions of the models translate stays small for this reason.

Of the recognizer: memoization (no grammar asks for it), `matchAny`, `recoverFromMismatchedSet`
and `-Element`, `consumeUntil` and `ofp_mismatch` (no generated rule calls them), the debugger's
hooks and the conversions to strings. Of the C programs: `jni/c_main_ex.c`, an example that
starts a virtual machine, makes a `FrontEnd` for its last argument without `includeDirs`, calls
`main`, which ends the process, and so never returns its own error codes.

## 8. The plan

Done, in this order: loops of the prepass; INCLUDE; command line; C tokens; free form; choice of
the program unit; the C parser; fixed form; keywords.

Left, the model: FORMAT statements; the JNI launcher.

Done, the proofs: every safety property the runs check of the DO loops, the include tokens and the
events of the parser, the command line, the C tokens and the recognizer's stacks; that only files
the grammar derives are walked; types and room of the character stream.

Left, the proofs: of `StatementsKept`, the part for files
without continuations and character constants; a condition on the grammar under which
`OneReportPerPlace` holds, if there is a natural one.
