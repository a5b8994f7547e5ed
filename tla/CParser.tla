------------------------------ MODULE CParser ------------------------------
(***************************************************************************)
(* The programs around the C parser: unparse, whose front end parses every *)
(* program unit of a file with the hand-written program_rule_start, and    *)
(* fparser and checkers, which call the rule of one program unit.  Each    *)
(* hands the tree on to a tree walker only when no error was counted.      *)
(***************************************************************************)
EXTENDS Recognizer, ProgramUnits

CONSTANTS
    UnitRule,   \* the rule for each type of program unit
    Drivers,    \* the programs: unparse, fparser, checkers
    File        \* the token files each program is run on

ASSUME UnitRuleAssumption == \A u \in DOMAIN UnitRule : UnitRule[u] \in Rule
\* The token type that ProgramUnits names is that of the recognizer.
ASSUME EndOfFileAssumption == EOF = "EOF"
ASSUME FileAssumption     == \A d \in Drivers : File[d] \subseteq Seq(Token)

VARIABLES
    driver,     \* which program runs
    phase,      \* where it is: choose, unit, ex (ruleprogramEx), end, done
    count,      \* program units parsed
    walked      \* the tree walker was called

vars == <<rvars, driver, phase, count, walked>>

EntryRule(d) == IF d = "fparser" THEN "T_PROGRAM" ELSE "T_SUBROUTINE"

Init ==
    /\ driver \in Drivers /\ input \in File[driver]
    /\ InitRecognizer
    /\ phase = "choose" /\ count = 0 /\ walked = FALSE

ToCome == SubSeq(input, index + 1, Len(input))

\* program_rule_start: one round of the loop, and fparser's and checkers'
\* only call.
ParseUnit ==
    /\ phase = "choose"
    /\ LET type == IF driver = "unparse" THEN ofpGetProgramUnitType(ToCome)
                                         ELSE EntryRule(driver)
       IN /\ type \in DOMAIN UnitRule
          /\ Start(UnitRule[type])
    /\ phase' = "unit"
    /\ UNCHANGED <<input, index, following, errorRecovery, lastErrorIndex, failed,
                   error, exception, errorCount, backtracking, resync, reports,
                   driver, count, walked>>

UnitParsed ==
    /\ phase = "unit" /\ frames = <<>> /\ ~error /\ ~failed
    /\ phase' = IF driver = "unparse" THEN "choose" ELSE "end"
    /\ count' = count + 1
    /\ UNCHANGED <<rvars, driver, walked>>

AtEOF == phase = "choose" /\ driver = "unparse"
         /\ ofpGetProgramUnitType(ToCome) = "EOF"

Finished ==
    /\ AtEOF /\ count > 0
    /\ phase' = "end"
    /\ UNCHANGED <<rvars, driver, count, walked>>

\* No program unit at all: the start rule's own exception.
EarlyExit ==
    /\ AtEOF /\ count = 0
    /\ phase' = "ex"
    /\ exception' = NewException("early_exit")
    /\ error' = TRUE
    /\ UNCHANGED <<input, index, frames, following, errorRecovery, lastErrorIndex,
                   failed, errorCount, backtracking, resync, reports,
                   driver, count, walked>>

ProgramEx ==
    /\ phase = "ex" /\ error /\ ~resync
    /\ reportError(exception, index)
    /\ recover
    /\ UNCHANGED <<input, frames, following, failed, error, exception, backtracking,
                   driver, phase, count, walked>>

EndProgramEx ==
    /\ phase = "ex" /\ resync /\ Synced
    /\ Recovered
    /\ phase' = "end"
    /\ UNCHANGED <<input, index, frames, following, errorRecovery, lastErrorIndex,
                   exception, errorCount, backtracking, reports,
                   driver, count, walked>>

\* ofpFrontEnd_program returns no tree when errors were counted, and unparse
\* walks a tree it got; fparser and checkers ask for the count themselves.
WalkTree ==
    /\ phase = "end"
    /\ walked' = (errorCount = 0)
    /\ phase' = "done"
    /\ UNCHANGED <<rvars, driver, count>>

ParserStep == NextRecognizer /\ UNCHANGED <<driver, phase, count, walked>>

Terminating == phase = "done" /\ UNCHANGED vars

Next ==
    \/ ParseUnit \/ UnitParsed \/ Finished \/ EarlyExit
    \/ ProgramEx \/ EndProgramEx \/ WalkTree
    \/ ParserStep
    \/ Terminating

Spec == Init /\ [][Next]_vars

\* One thread runs to the end, no step is put off for ever: weak fairness of
\* Next, a step of which is possible until phase is done (no state of the
\* runs is a deadlock).
Fairness == []<>(phase = "done") \/ []<><<TRUE>>_vars
LiveSpec == Spec /\ Fairness
------------------------------------------------------------------------------
(* Properties.                                                             *)

\* Every variable has its type.
TypeOK ==
    /\ RecognizerTypeOK
    /\ driver \in Drivers /\ count \in Nat /\ walked \in BOOLEAN
    /\ phase \in {"choose", "unit", "ex", "end", "done"}
=============================================================================
