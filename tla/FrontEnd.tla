------------------------------ MODULE FrontEnd ------------------------------
(***************************************************************************)
(* FrontEnd.main(): the loop over the source files of a command line.  It   *)
(* works on state that outlives a file: the static list includeDirs, in     *)
(* which the lexer looks for included files, the static action of           *)
(* FortranParser, which a syntax error replaces by the null action, and the *)
(* error that becomes the exit status.                                      *)
(*                                                                         *)
(* A source file is abstracted to its directory and to what the lexer and   *)
(* the parser make of it, which depends on the files that are included: the *)
(* next INCLUDE line, and how the parser fares with each program unit, are  *)
(* functions of where the included files were found.  Modelled is the path  *)
(* that parses: neither --tokens nor --tokenfile.                           *)
(***************************************************************************)
EXTENDS Naturals, Sequences, FiniteSets, SequencesExt

CONSTANTS
    Dir,          \* directories
    NoDir,        \* File.getParent() = null: a source named without directory
    Cwd,          \* the working directory
    Header,       \* names of INCLUDE lines
    NoHeader,     \* no INCLUDE line is left
    HeaderIn,     \* HeaderIn[d]: the headers directory d has
    MaxIncludes,  \* the most INCLUDE lines a source and what it includes have
    Commands      \* command lines

(* Where the files of the INCLUDE lines were found, in the order of the      *)
(* lines: NotFound, or the directory, which says what is in the file.       *)
NotFound == "not found"
Place == Dir \cup {NotFound}
Found == UNION {[1..k -> Place] : k \in 0..MaxIncludes}

(* What parseProgramUnit meets: a correct unit, a syntax error behind which  *)
(* the unit goes on, or one behind which the recovery of the parser drops   *)
(* the rest of the file.  It meets nothing but include tokens ("blank") only *)
(* in a file without units, for the END statement of a unit takes those     *)
(* behind it.                                                               *)
Unit == {"correct", "recovered", "dropped"}
Faulty == {"recovered", "dropped"}

Source == [exists : BOOLEAN, dir : Dir \cup {NoDir},
           includes : [Found -> Header \cup {NoHeader}],
           units : [Found -> Seq(Unit) \cup {<<"blank">>}]]

Command == [verbose : BOOLEAN, dashI : Seq(Dir), sources : Seq(Source)]

ASSUME FrontEndAssumption ==
    /\ Cwd \in Dir /\ NoDir \notin Dir \cup {NotFound} /\ NotFound \notin Dir
    /\ NoHeader \notin Header
    /\ HeaderIn \in [Dir -> SUBSET Header]
    /\ MaxIncludes \in Nat
    /\ Commands \subseteq Command
    /\ \A c \in Commands : \A i \in 1..Len(c.sources) : \A f \in [1..MaxIncludes -> Place] :
          c.sources[i].includes[f] = NoHeader

VARIABLES
    command,
    arg,          \* index of the source being processed
    phase,        \* "arg", "lex", "parse", "exit", "crash"
    includeDirs,
    resolved,     \* where the lexer found the included files, per source
    unit,         \* the program units of the source parsed so far
    action,       \* FortranParser.action: "own", the class asked for, or "null"
    hasError,     \* has_error_occurred of the parser of this source
    callError,    \* error in call()
    error,        \* error in main()
    calls         \* history: what the action class was called for, per source

vars == <<command, arg, phase, includeDirs, resolved, unit, action,
          hasError, callError, error, calls>>

Init ==
    /\ command \in Commands
    /\ arg = 1
    /\ phase = "arg"
    /\ includeDirs = command.dashI
    /\ resolved = [i \in 1..Len(command.sources) |-> <<>>]
    /\ unit = 0
    /\ action = "null"
    /\ hasError = FALSE
    /\ callError = FALSE
    /\ error = FALSE
    /\ calls = [i \in 1..Len(command.sources) |-> <<>>]

source == command.sources[arg]

(* Calls of the null action do nothing.                                     *)
CallsOf(names) ==
    IF action = "own" THEN [calls EXCEPT ![arg] = @ \o names] ELSE calls

-----------------------------------------------------------------------------
missingSourceAgain ==
    /\ phase = "arg" /\ arg <= Len(command.sources)
    /\ ~source.exists
    /\ error' = TRUE
    /\ UNCHANGED <<command, arg, phase, includeDirs, resolved, unit, action,
                   hasError, callError, calls>>

MissingSource ==
    /\ phase = "arg" /\ arg <= Len(command.sources)
    /\ ~source.exists
    /\ error' = TRUE
    /\ arg' = arg + 1
    /\ UNCHANGED <<command, phase, includeDirs, resolved, unit, action,
                   hasError, callError, calls>>

dirBeforeDashI == <<source.dir>> \o includeDirs

parentForgotten == includeDirs

AddedDirs == Append(includeDirs, source.dir)

(* The constructor of FrontEnd makes a stream, a lexer and a token stream,  *)
(* which reads the source and all it includes.                              *)
OpenSource ==
    /\ phase = "arg" /\ arg <= Len(command.sources)
    /\ source.exists
    /\ includeDirs' = AddedDirs
    /\ phase' = "lex"
    /\ UNCHANGED <<command, arg, resolved, unit, action, hasError, callError, error, calls>>

(* findFile: the name as it stands, which is relative to the working        *)
(* directory, and then each of the directories in turn.                     *)
Has(d, name) == d # NoDir /\ name \in HeaderIn[d]

FirstDir(dirs, name) ==
    LET found == {i \in 1..Len(dirs) : dirs[i] = NoDir \/ Has(dirs[i], name)}
    IN  IF Has(Cwd, name) THEN Cwd
        ELSE IF found = {} THEN NotFound
        ELSE dirs[Min(found)]

NextHeader == source.includes[resolved[arg]]

FollowInclude ==
    /\ phase = "lex" /\ NextHeader # NoHeader
    /\ FirstDir(includeDirs, NextHeader) # NoDir
    /\ resolved' = [resolved EXCEPT ![arg] = Append(@, FirstDir(includeDirs, NextHeader))]
    /\ UNCHANGED <<command, arg, phase, includeDirs, unit, action, hasError,
                   callError, error, calls>>

(* findFile takes the length of a directory that is null.                   *)
IncludeCrash ==
    /\ phase = "lex" /\ NextHeader # NoHeader
    /\ FirstDir(includeDirs, NextHeader) = NoDir
    /\ phase' = "crash"
    /\ UNCHANGED <<command, arg, includeDirs, resolved, unit, action,
                   hasError, callError, error, calls>>

keepsNullAction == IF arg > 1 /\ action = "null" THEN "null" ELSE "own"

InitialAction == "own"

(* parser.initialize makes a new action and calls start_of_file.            *)
InitializeParser ==
    /\ phase = "lex" /\ NextHeader = NoHeader
    /\ phase' = "parse"
    /\ action' = InitialAction
    /\ calls' = IF action' = "own" THEN [calls EXCEPT ![arg] = <<"start_of_file">>] ELSE calls
    /\ unit' = 0
    /\ hasError' = FALSE
    /\ callError' = FALSE
    /\ UNCHANGED <<command, arg, includeDirs, resolved, error>>

(* The program units of a source whose included files were found there.      *)
units == source.units[resolved[arg]]

(* tokens.LA(1) = EOF.                                                      *)
AtEof ==
    \/ unit = Len(units)
    \/ unit > 0 /\ units[unit] = "dropped"

NextUnit == units[unit + 1]

UnitError == hasError \/ NextUnit \in Faulty

verboseReturn == command.verbose /\ callError

(* parseProgramUnit: reportError records the error in the parser and sets   *)
(* the null action; the result is what the parser has recorded, and false   *)
(* if there was nothing to parse.                                           *)
ParseProgramUnit ==
    /\ phase = "parse" /\ ~AtEof /\ ~verboseReturn
    /\ calls' = CallsOf(IF NextUnit = "correct" THEN <<"unit">> ELSE <<>>)
    /\ hasError' = UnitError
    /\ callError' = IF NextUnit = "blank" THEN FALSE ELSE hasError'
    /\ action' = IF NextUnit \in Faulty THEN "null" ELSE action
    /\ unit' = unit + 1
    /\ UNCHANGED <<command, arg, phase, includeDirs, resolved, error>>

lastErrorOnly == callError

MainError == error \/ callError

NextSource ==
    /\ error' = MainError
    /\ arg' = arg + 1
    /\ phase' = "arg"
    /\ UNCHANGED <<command, includeDirs, resolved, unit, action, hasError, callError>>

VerboseReturn ==
    /\ phase = "parse" /\ verboseReturn
    /\ UNCHANGED calls
    /\ NextSource

(* eofAction and cleanUp, on the action the parser has now.                 *)
EndOfFile ==
    /\ phase = "parse" /\ AtEof /\ ~verboseReturn
    /\ calls' = CallsOf(<<"end_of_file", "cleanUp">>)
    /\ NextSource

Exit ==
    /\ phase = "arg" /\ arg > Len(command.sources)
    /\ phase' = "exit"
    /\ UNCHANGED <<command, arg, includeDirs, resolved, unit, action,
                   hasError, callError, error, calls>>

Next ==
    \/ MissingSource \/ OpenSource \/ FollowInclude \/ IncludeCrash
    \/ InitializeParser \/ ParseProgramUnit \/ VerboseReturn \/ EndOfFile \/ Exit

Spec == Init /\ [][Next]_vars

(* main runs in one thread.                                                 *)
FairSpec == Spec /\ WF_vars(Next)

-----------------------------------------------------------------------------
(* Every variable has its type, and the directories are searched in the     *)
(* order of the command line: those of -I, and then those of the sources.   *)
TypeOK ==
    /\ command \in Commands
    /\ arg \in 1..(Len(command.sources) + 1)
    /\ phase \in {"arg", "lex", "parse", "exit", "crash"}
    /\ includeDirs \in Seq(Dir \cup {NoDir})
    /\ resolved \in [1..Len(command.sources) -> Found]
    /\ unit \in Nat
    /\ action \in {"own", "null"}
    /\ {hasError, callError, error} \subseteq BOOLEAN
    /\ calls \in [1..Len(command.sources) -> Seq({"start_of_file", "unit", "end_of_file", "cleanUp"})]
    /\ IsPrefix(command.dashI, includeDirs)

(* What the action class is to be told of a source with these units: those   *)
(* in front of the first syntax error, and the end of the file if there is  *)
(* none.                                                                    *)
Seen(us) ==
    LET bad == {i \in 1..Len(us) : us[i] \in Faulty}
        good == IF bad = {} THEN us ELSE SubSeq(us, 1, Min(bad) - 1)
        told == [i \in 1..Cardinality({i \in 1..Len(good) : good[i] = "correct"}) |-> "unit"]
    IN  <<"start_of_file">> \o told
        \o (IF bad = {} THEN <<"end_of_file", "cleanUp">> ELSE <<>>)

(* The name of the INCLUDE line k of a source, and where it is found if no    *)
(* directory but those of -I and of the source is searched.                 *)
Name(i, k) == command.sources[i].includes[SubSeq(resolved[i], 1, k - 1)]
Alone(i, name) == FirstDir(Append(command.dashI, command.sources[i].dir), name)

(* The search comes to the directory of an earlier source, and ends there.   *)
Elsewhere(name) == \A d \in {Cwd} \cup Range(command.dashI) : ~Has(d, name)
InTheWay(i, name) ==
    /\ Elsewhere(name)
    /\ \E j \in 1..(i - 1) :
          /\ command.sources[j].exists
          /\ command.sources[j].dir = NoDir \/ Has(command.sources[j].dir, name)

(* A source is processed as if it were the only one, but for those headers   *)
(* that an earlier source is in the way of: all the others are found, or    *)
(* make the front end crash, as if it were, and the action class is told    *)
(* what the units are with the headers found, whatever sources failed.      *)
SourcesIndependent ==
    \A i \in 1..Len(command.sources) :
        /\ i < arg =>
             IF command.sources[i].exists
             THEN /\ command.sources[i].includes[resolved[i]] = NoHeader
                  /\ calls[i] = Seen(command.sources[i].units[resolved[i]])
             ELSE calls[i] = <<>>
        /\ \A k \in 1..Len(resolved[i]) :
             resolved[i][k] = Alone(i, Name(i, k)) \/ InTheWay(i, Name(i, k))
        /\ i = arg /\ phase = "crash" =>
             Alone(i, NextHeader) = NoDir \/ InTheWay(i, NextHeader)

(* "ROSE sometimes doesn't get notification of a failure": the exit status  *)
(* is 1 just if a source does not exist or has a syntax error with the      *)
(* headers it found.                                                        *)
Failed(i) ==
    LET s == command.sources[i]
        us == s.units[resolved[i]]
    IN  ~s.exists \/ \E k \in 1..Len(us) : us[k] \in Faulty

ExitReportsFailure ==
    phase = "exit" => (error <=> \E i \in 1..Len(command.sources) : Failed(i))

(* Source j is the first of the command line, up to i, whose directory ends  *)
(* the search for a header that is not in the working directory and not     *)
(* where -I says.                                                           *)
Ends(j, name) == command.sources[j].exists
                 /\ (command.sources[j].dir = NoDir \/ Has(command.sources[j].dir, name))
FirstSource(j, name) ==
    Elsewhere(name) /\ Ends(j, name) /\ \A m \in 1..(j - 1) : ~Ends(m, name)

(* A header is never taken from a later source's directory, nor from an      *)
(* earlier one's while a directory in front has it: in the order of the     *)
(* command line the first source that has it lends it, and the first        *)
(* without a directory in front of it makes the front end crash.            *)
HeaderPlace(i, name, d) ==
    \/ d = Cwd /\ Has(Cwd, name)
    \/ /\ ~Has(Cwd, name)
       /\ \E p \in 1..Len(command.dashI) :
             /\ d = command.dashI[p] /\ Has(d, name)
             /\ \A q \in 1..(p - 1) : ~Has(command.dashI[q], name)
    \/ \E j \in 1..i : FirstSource(j, name) /\ d = command.sources[j].dir
    \/ d = NotFound /\ Elsewhere(name) /\ \A j \in 1..i : ~Ends(j, name)

HeadersAsSearched ==
    \A i \in 1..Len(command.sources) :
        /\ \A k \in 1..Len(resolved[i]) :
             resolved[i][k] # NoDir /\ HeaderPlace(i, Name(i, k), resolved[i][k])
        /\ i = arg /\ phase = "crash" => HeaderPlace(i, NextHeader, NoDir)

(* "Call the cleanUp method for the give action class": the action made for  *)
(* a source is cleaned up when the source has been processed.               *)
ActionCleanedUp ==
    \A i \in 1..Len(command.sources) :
        i < arg /\ command.sources[i].exists => Last(calls[i]) = "cleanUp"

(* The front end comes to the end of its command line, or crashes.          *)
FrontEndEnds == <>(phase \in {"exit", "crash"})
=============================================================================
