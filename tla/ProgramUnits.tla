---------------------------- MODULE ProgramUnits ----------------------------
(***************************************************************************)
(* Which rule parses the next program unit: the look-ahead in the token    *)
(* stream of the C front end (ofpGetProgramUnitType, OFPFrontEnd.c) and of *)
(* the Java one (FrontEnd.parseProgramUnit).  la is the tokens to come:    *)
(* la[k] is LA(k), and behind its end LA is EOF.  Both loops skip the line *)
(* ends in front of the unit; comments are on a hidden channel.            *)
(***************************************************************************)
EXTENDS Integers, Sequences

LOCAL At(la, k) == IF k \in DOMAIN la THEN la[k] ELSE "EOF"

\* lookForToken: a token of that type before the end of the line.
lookForToken(la, token, from) ==
    \E k \in from .. Len(la) :
        /\ la[k] = token
        /\ \A j \in from .. k - 1 : la[j] # "T_EOS"

\* The first token of the unit.
LOCAL IsFirst(la, k) ==
    /\ k \in 1 .. Len(la) + 1 /\ At(la, k) # "T_EOS"
    /\ \A j \in 1 .. k - 1 : la[j] = "T_EOS"
FirstToken(la) == CHOOSE k \in 1 .. Len(la) + 1 : IsFirst(la, k)

(* The C front end.  Behind the loop look_ahead is one past the token it   *)
(* read; the skip of a label adds another one, and next_token is read with *)
(* a third.                                                                *)
LookAhead(la) ==
    LET k == FirstToken(la) + 1
    IN IF At(la, k - 1) = "T_DIGIT_STRING" THEN k + 1 ELSE k
tokenBehind(la) == At(la, LookAhead(la))

DecidingToken(la) ==
    LET k == FirstToken(la)
    IN IF At(la, k) = "T_DIGIT_STRING" THEN At(la, LookAhead(la)) ELSE At(la, k)
NextToken(la) == At(la, LookAhead(la) + 1)

ofpGetProgramUnitType(la) ==
    LET first == DecidingToken(la)
        from  == LookAhead(la)
    IN  CASE At(la, 1) = "EOF" -> "EOF"
          [] first \in {"T_PROGRAM", "T_SUBROUTINE", "T_FUNCTION", "T_SUBMODULE",
                        "T_BLOCKDATA"} -> first
          [] first = "T_BLOCK" /\ NextToken(la) = "T_DATA" -> "T_BLOCKDATA"
          [] OTHER ->
               IF lookForToken(la, "T_SUBROUTINE", from) THEN "T_SUBROUTINE"
               ELSE IF lookForToken(la, "T_FUNCTION", from) THEN "T_FUNCTION"
               ELSE IF first = "T_MODULE" /\ NextToken(la) # "T_PROCEDURE"
                    THEN "T_MODULE"
               ELSE "T_PROGRAM"

(* The Java front end looks for a subroutine or a function from the first  *)
(* token of the stream, line ends included, and does not skip a label.     *)
parseProgramUnit(la) ==
    LET k     == FirstToken(la)
        first == At(la, k)
        next  == At(la, k + 1)
    IN  IF first = "EOF" THEN "EOF"
        ELSE IF lookForToken(la, "T_SUBROUTINE", 1) THEN "T_SUBROUTINE"
        ELSE IF lookForToken(la, "T_FUNCTION", 1) THEN "T_FUNCTION"
        ELSE IF first = "T_MODULE" /\ next # "T_PROCEDURE" THEN "T_MODULE"
        ELSE IF first = "T_SUBMODULE" THEN first
        ELSE IF first = "T_BLOCKDATA" \/ (first = "T_BLOCK" /\ next = "T_DATA")
             THEN "T_BLOCKDATA"
        ELSE "T_PROGRAM"
=============================================================================
