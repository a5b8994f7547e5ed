----------------------------- MODULE Recognizer -----------------------------
(***************************************************************************)
(* The C runtime of a generated parser, cparser/ofpbaserecognizer.c: token *)
(* matching, syntactic predicates, error reports and error recovery, for   *)
(* any grammar.  A grammar is data: a rule has alternatives, and an        *)
(* alternative is a list of elements,                                      *)
(*   token  match one token,                                               *)
(*   rule   call a rule,                                                   *)
(*   block  an optional or repeated group, entered when one of the token   *)
(*          sequences of look lies ahead, else control goes to element to, *)
(*   again  the end of a repeated group: control goes back to element to.  *)
(* The text of the rules' functions is generated by ANTLR and not part of  *)
(* the repository; its shape (HASEXCEPTION, HASFAILED, FOLLOWPUSH,         *)
(* CONSTRUCTEX, PREPORTERROR, PRECOVER) is the one of the hand-written     *)
(* start rule, CFortranParser.g.                                           *)
(***************************************************************************)
EXTENDS Integers, Sequences, FiniteSets

CONSTANTS
    Token,      \* token types
    EOF,        \* ANTLR3_TOKEN_EOF, what LA returns behind the last token
    EOR,        \* ANTLR3_EOR_TOKEN_TYPE: "the rule may end here"
    Rule,       \* rules, the fragments of syntactic predicates among them
    NoRule,     \* an alternative without a predicate
    Grammar     \* the alternatives of each rule

Follow == SUBSET (Token \cup {EOF, EOR})
Looks  == SUBSET Seq(Token \cup {EOF})
Element ==
    [kind : {"token"}, sym : Token, follow : Follow]
      \cup [kind : {"rule"}, sym : Rule, follow : Follow]
      \cup [kind : {"block"}, look : Looks, to : Nat \ {0}]
      \cup [kind : {"again"}, to : Nat \ {0}]
Alternative == [look : Looks, pred : Rule \cup {NoRule}, elems : Seq(Element)]

ASSUME GrammarAssumption == Grammar \in [Rule -> Seq(Alternative)]
ASSUME MarkersAssumption == EOF # EOR /\ EOF \notin Token /\ EOR \notin Token
                            /\ NoRule \notin Rule

\* How a frame was entered: by the start rule, by a reference in a rule, or
\* by synpred.
How == {"start", "call", "pred"}
Frame == [rule : Rule, how : How,
          try : Nat \ {0},     \* the next alternative the prediction looks at
          alt : Nat,           \* the predicted alternative, 0 before
          pos : Nat \ {0},     \* the next element
          mark : Nat]          \* is->mark() of the synpred that entered it

ErrorKind == {"mismatched", "no_viable_alt", "unwanted", "missing", "early_exit"}
Exception == [type : ErrorKind, index : Nat]
NoException == [type |-> "mismatched", index |-> -1]      \* NULL
Report == [type : ErrorKind, shown : Nat, at : Nat]

VARIABLES
    input,              \* the token types of the stream
    index,              \* is->index(): tokens consumed
    frames,             \* the calls in progress
    following,          \* state->following
    errorRecovery, lastErrorIndex, failed, error, exception,
    errorCount, backtracking,
    resync,             \* consumeUntilSet is running
    reports             \* what displayRecognitionError printed, and where

rvars == <<input, index, frames, following, errorRecovery, lastErrorIndex,
           failed, error, exception, errorCount, backtracking, resync, reports>>
------------------------------------------------------------------------------
(* The token stream.                                                       *)

LA(k) == IF index + k <= Len(input) THEN input[index + k] ELSE EOF
pastTheEnd(n, k) == n + k

Past(n, k) == IF n + k <= Len(input) THEN n + k ELSE Len(input)
Lies(s) == \A i \in 1 .. Len(s) : LA(i) = s[i]
Ahead(look) == \E s \in look : Lies(s)

(* The call stack.                                                         *)

Top          == frames[Len(frames)]
Below        == SubSeq(frames, 1, Len(frames) - 1)
Alternatives == Grammar[Top.rule]
Elements     == Alternatives[Top.alt].elems
unmarkedFrame(r, how, m) ==
    [rule |-> r, how |-> how, try |-> 1, alt |-> 0, pos |-> 1, mark |-> 0]
NewFrame(r, how, m) ==
    [rule |-> r, how |-> how, try |-> 1, alt |-> 0, pos |-> 1, mark |-> m]
GoTo(n)      == frames' = [frames EXCEPT ![Len(frames)].pos = n]
AtElement(kind) ==
    /\ frames # <<>> /\ ~error /\ ~failed
    /\ Top.alt # 0 /\ Top.pos <= Len(Elements)
    /\ Elements[Top.pos].kind = kind
Here == Elements[Top.pos]

InitRecognizer ==
    /\ index = 0 /\ frames = <<>> /\ following = <<>>
    /\ errorRecovery = FALSE /\ lastErrorIndex = -1
    /\ failed = FALSE /\ error = FALSE /\ exception = NoException
    /\ errorCount = 0 /\ backtracking = 0
    /\ resync = FALSE /\ reports = <<>>

\* A rule's function is called from outside every rule.
Start(r) == frames' = <<NewFrame(r, "start", 0)>>
------------------------------------------------------------------------------
(* Prediction.                                                             *)

Viable == {i \in Top.try .. Len(Alternatives) : Ahead(Alternatives[i].look)}
Predicting == frames # <<>> /\ ~error /\ ~failed /\ Top.alt = 0
FirstViable(i) == i \in Viable /\ \A j \in Viable : i <= j

Predict ==
    /\ Predicting
    /\ \E i \in Viable :
         /\ FirstViable(i) /\ Alternatives[i].pred = NoRule
         /\ frames' = [frames EXCEPT ![Len(frames)].alt = i]
    /\ UNCHANGED <<input, index, following, errorRecovery, lastErrorIndex, failed,
                   error, exception, errorCount, backtracking, resync, reports>>

\* synpred marks the stream and calls the predicate, no follow set pushed.
BeginSynpred ==
    /\ Predicting
    /\ \E i \in Viable :
         /\ FirstViable(i) /\ Alternatives[i].pred # NoRule
         /\ frames' = Append([frames EXCEPT ![Len(frames)].try = i],
                             NewFrame(Alternatives[i].pred, "pred", index))
    /\ backtracking' = backtracking + 1
    /\ UNCHANGED <<input, index, following, errorRecovery, lastErrorIndex, failed,
                   error, exception, errorCount, resync, reports>>

AtEnd == /\ frames # <<>> /\ ~error
         /\ \/ failed
            \/ Top.alt # 0 /\ Top.pos > Len(Elements)

triedAgain ==
    LET n == Len(Below)
    IN IF failed THEN Below ELSE [Below EXCEPT ![n].alt = Below[n].try]

\* The alternative of the predicate, or a look at those behind it.
Decided ==
    LET n == Len(Below)
    IN IF failed THEN [Below EXCEPT ![n].try = @ + 1]
                 ELSE [Below EXCEPT ![n].alt = Below[n].try]

EndSynpred ==
    /\ AtEnd /\ Top.how = "pred"
    /\ index' = Top.mark
    /\ backtracking' = backtracking - 1
    /\ failed' = FALSE
    /\ frames' = Decided
    /\ UNCHANGED <<input, following, errorRecovery, lastErrorIndex, error,
                   exception, errorCount, resync, reports>>

\* antlr3RecognitionExceptionNew: the new exception is about LT(1).
NewException(type) == [type |-> type, index |-> index]

NoViableAlt ==
    /\ Predicting /\ Viable = {}
    /\ IF backtracking > 0
       THEN failed' = TRUE /\ UNCHANGED <<error, exception>>
       ELSE /\ exception' = NewException("no_viable_alt")
            /\ error' = TRUE
            /\ UNCHANGED failed
    /\ UNCHANGED <<input, index, frames, following, errorRecovery, lastErrorIndex,
                   errorCount, backtracking, resync, reports>>
------------------------------------------------------------------------------
(* match and recoverFromMismatchedToken.                                   *)

combineFollows == UNION {following[i] : i \in DOMAIN following}

mismatchIsUnwantedToken(ttype) == LA(2) = ttype
mismatchIsMissingToken(follow) ==
    LET viable == IF EOR \in follow THEN (follow \ {EOR}) \cup combineFollows
                                    ELSE follow
    IN LA(1) \in viable \/ EOR \in viable

reportUncounted(exc, at) ==
    IF errorRecovery
    THEN UNCHANGED <<errorRecovery, errorCount, reports>>
    ELSE /\ errorRecovery' = TRUE
         /\ errorCount' = errorCount
         /\ reports' = Append(reports, [type |-> exc.type, shown |-> exc.index,
                                        at |-> at])

reportAlways(exc, at) ==
    /\ errorRecovery' = TRUE
    /\ errorCount' = errorCount + 1
    /\ reports' = Append(reports, [type |-> exc.type, shown |-> exc.index, at |-> at])

\* ofp_reportError with ofp_displayRecognitionError: at is where the parser is.
reportError(exc, at) ==
    IF errorRecovery
    THEN UNCHANGED <<errorRecovery, errorCount, reports>>
    ELSE /\ errorRecovery' = TRUE
         /\ errorCount' = errorCount + 1
         /\ reports' = Append(reports, [type |-> exc.type, shown |-> exc.index,
                                        at |-> at])

MatchToken ==
    /\ AtElement("token") /\ LA(1) = Here.sym
    /\ index' = Past(index, 1)
    /\ errorRecovery' = FALSE
    /\ failed' = FALSE
    /\ GoTo(Top.pos + 1)
    /\ UNCHANGED <<input, following, lastErrorIndex, error, exception, errorCount,
                   backtracking, resync, reports>>

MatchFails ==
    /\ AtElement("token") /\ LA(1) # Here.sym /\ backtracking > 0
    /\ failed' = TRUE
    /\ UNCHANGED <<input, index, frames, following, errorRecovery, lastErrorIndex,
                   error, exception, errorCount, backtracking, resync, reports>>

\* An exception is created only when there never was one: a later mismatch
\* is described by the exception of the earlier error.
MismatchException ==
    IF exception = NoException THEN NewException("mismatched") ELSE exception

mismatchAnywhere == AtElement("token") /\ LA(1) # Here.sym

Mismatch == AtElement("token") /\ LA(1) # Here.sym /\ backtracking = 0

DeleteToken ==
    /\ Mismatch /\ mismatchIsUnwantedToken(Here.sym)
    /\ index' = Past(index, 2)
    /\ exception' = [MismatchException EXCEPT !.type = "unwanted"]
    /\ reportError(exception', index)
    /\ error' = FALSE
    /\ GoTo(Top.pos + 1)
    /\ UNCHANGED <<input, following, lastErrorIndex, failed, backtracking, resync>>

InsertToken ==
    /\ Mismatch /\ ~mismatchIsUnwantedToken(Here.sym)
    /\ mismatchIsMissingToken(Here.follow)
    /\ exception' = [MismatchException EXCEPT !.type = "missing"]
    /\ reportError(exception', index)
    /\ error' = FALSE
    /\ GoTo(Top.pos + 1)
    /\ UNCHANGED <<input, index, following, lastErrorIndex, failed, backtracking,
                   resync>>

MismatchedToken ==
    /\ Mismatch /\ ~mismatchIsUnwantedToken(Here.sym)
    /\ ~mismatchIsMissingToken(Here.follow)
    /\ exception' = MismatchException
    /\ error' = TRUE
    /\ UNCHANGED <<input, index, frames, following, errorRecovery, lastErrorIndex,
                   failed, errorCount, backtracking, resync, reports>>
------------------------------------------------------------------------------
(* Blocks, calls and returns.                                              *)

Block ==
    /\ AtElement("block")
    /\ GoTo(IF Ahead(Here.look) THEN Top.pos + 1 ELSE Here.to)
    /\ UNCHANGED <<input, index, following, errorRecovery, lastErrorIndex, failed,
                   error, exception, errorCount, backtracking, resync, reports>>

Again ==
    /\ AtElement("again")
    /\ GoTo(Here.to)
    /\ UNCHANGED <<input, index, following, errorRecovery, lastErrorIndex, failed,
                   error, exception, errorCount, backtracking, resync, reports>>

\* FOLLOWPUSH and the call.
Call ==
    /\ AtElement("rule")
    /\ frames' = Append([frames EXCEPT ![Len(frames)].pos = @ + 1],
                        NewFrame(Here.sym, "call", 0))
    /\ following' = Append(following, Here.follow)
    /\ UNCHANGED <<input, index, errorRecovery, lastErrorIndex, failed, error,
                   exception, errorCount, backtracking, resync, reports>>

leaveWithoutPop ==
    /\ frames' = Below
    /\ following' = IF Top.how = "call" /\ ~error
                    THEN SubSeq(following, 1, Len(following) - 1)
                    ELSE following

\* The function returns and its caller does FOLLOWPOP; a failed rule fails
\* its caller, as HASFAILED does.
Leave ==
    /\ frames' = Below
    /\ following' = IF Top.how = "call"
                    THEN SubSeq(following, 1, Len(following) - 1)
                    ELSE following

Return ==
    /\ AtEnd /\ Top.how # "pred"
    /\ Leave
    /\ UNCHANGED <<input, index, errorRecovery, lastErrorIndex, failed, error,
                   exception, errorCount, backtracking, resync, reports>>
------------------------------------------------------------------------------
(* A rule's exception handler: PREPORTERROR and PRECOVER.                  *)

\* recover: the same place as the last time costs one token, a failsafe.
recover ==
    /\ index' = IF lastErrorIndex = index THEN Past(index, 1) ELSE index
    /\ lastErrorIndex' = index'
    /\ resync' = TRUE

RuleEx ==
    /\ frames # <<>> /\ error /\ ~resync
    /\ reportError(exception, index)
    /\ recover
    /\ UNCHANGED <<input, frames, following, failed, error, exception, backtracking>>

\* consumeUntilSet, one token at a time.
Synced == LA(1) = EOF \/ LA(1) \in combineFollows

ConsumeUntilSet ==
    /\ resync /\ ~Synced
    /\ index' = Past(index, 1)
    /\ UNCHANGED <<input, frames, following, errorRecovery, lastErrorIndex, failed,
                   error, exception, errorCount, backtracking, resync, reports>>

Recovered ==
    /\ resync' = FALSE /\ error' = FALSE /\ failed' = FALSE

EndRuleEx ==
    /\ frames # <<>> /\ resync /\ Synced
    /\ Recovered
    /\ Leave
    /\ UNCHANGED <<input, index, errorRecovery, lastErrorIndex, exception,
                   errorCount, backtracking, reports>>

NextRecognizer ==
    \/ Predict \/ BeginSynpred \/ EndSynpred \/ NoViableAlt
    \/ MatchToken \/ MatchFails \/ DeleteToken \/ InsertToken \/ MismatchedToken
    \/ Block \/ Again \/ Call \/ Return
    \/ RuleEx \/ ConsumeUntilSet \/ EndRuleEx
------------------------------------------------------------------------------
(* Properties.                                                             *)

\* Every variable of the recognizer has its type (state of
\* antlr3BaseRecognizerNew), and the stream is never left at its end.
RecognizerTypeOK ==
    /\ input \in Seq(Token) /\ index \in 0 .. Len(input)
    /\ frames \in Seq(Frame) /\ following \in Seq(Follow)
    /\ errorRecovery \in BOOLEAN /\ failed \in BOOLEAN /\ error \in BOOLEAN
    /\ lastErrorIndex \in Nat \cup {-1}
    /\ exception \in Exception \cup {NoException}
    /\ errorCount \in Nat /\ backtracking \in Nat
    /\ resync \in BOOLEAN /\ reports \in Seq(Report)

FramesOf(how) == {i \in DOMAIN frames : frames[i].how = how}

\* One follow set on the stack for each rule call in progress and one level
\* of backtracking for each predicate, whichever way a rule was left: by
\* its end, by a failed predicate or by its exception handler (FOLLOWPUSH,
\* FOLLOWPOP, synpred).
StacksMatchCalls ==
    /\ Len(following) = Cardinality(FramesOf("call"))
    /\ backtracking = Cardinality(FramesOf("pred"))

\* Errors are counted once each (ofp_reportError), and reported in the order
\* of the file: no predicate takes the parser back in front of a place it
\* complained about (synpred rewinds, reportError does not run in it).
ReportsInOrder ==
    /\ errorCount = Len(reports)
    /\ \A i, j \in DOMAIN reports : i <= j => reports[i].at <= reports[j].at
    /\ \A i \in DOMAIN reports : reports[i].at <= index

\* A file place is reported once: behind a report the parser is in recovery
\* until it matched a token, so the token it stopped at is behind it
\* (ofp_reportError, match).
OneReportPerPlace ==
    \A i, j \in DOMAIN reports : reports[i].at = reports[j].at => i = j

\* A predicate that is tried leaves no trace: nothing is reported, deleted,
\* inserted or thrown, and no place is recorded for the failsafe of recover
\* (match returns with failed set while backtracking).
PredicatesSilent ==
    [][backtracking > 0 =>
          UNCHANGED <<reports, errorCount, exception, error, lastErrorIndex>>]_rvars
=============================================================================
