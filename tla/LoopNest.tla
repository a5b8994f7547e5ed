------------------------------ MODULE LoopNest ------------------------------
(***************************************************************************)
(* What the prepass promises about labelled DO loops, without labels and    *)
(* without a stack: lines are numbered, a line may begin a loop, and a line *)
(* may end some of the loops that have begun, provided it ends the          *)
(* innermost ones.                                                          *)
(***************************************************************************)
EXTENDS Naturals

VARIABLES
    now,     \* the lines seen so far
    open,    \* the lines of the DO statements that have no end yet
    closed   \* the loops that ended: pairs <DO line, line of the end>

nestVars == <<now, open, closed>>

NestInit == now = 0 /\ open = {} /\ closed = {}

BeginLoop ==
    /\ now' = now + 1
    /\ open' = open \cup {now + 1}
    /\ UNCHANGED closed

(* The loops of S end with this line; all of them began after every loop    *)
(* that stays open.                                                         *)
EndLoops(S) ==
    /\ S # {}
    /\ \A inner \in S, outer \in open \ S : outer < inner
    /\ now' = now + 1
    /\ open' = open \ S
    /\ closed' = closed \cup {<<d, now + 1>> : d \in S}

OtherLine ==
    /\ now' = now + 1
    /\ UNCHANGED <<open, closed>>

NestNext == BeginLoop \/ (\E S \in SUBSET open : EndLoops(S)) \/ OtherLine

NestSpec == NestInit /\ [][NestNext]_nestVars
-----------------------------------------------------------------------------
(* Of two loops marked for the parser either one contains the other or they *)
(* are disjoint (a shared end counts as containment), whatever labels and   *)
(* statements the source mixes.                                             *)
WellNested ==
    \A p, q \in closed : ~ (p[1] < q[1] /\ q[1] < p[2] /\ p[2] < q[2])

(* No loop that is still open began inside a loop that has ended.           *)
InnermostFirst ==
    \A p \in closed, d \in open : ~ (p[1] < d /\ d < p[2])

(* A DO line begins one loop: it is not open once it is closed, and it is   *)
(* closed once.                                                             *)
ClosedOnce ==
    /\ \A p, q \in closed : p[1] = q[1] => p = q
    /\ \A p \in closed : p[1] \notin open

(* Loops lie in the lines seen so far and end after they began.             *)
NestTypeOK ==
    /\ now \in Nat
    /\ open \subseteq 1 .. now
    /\ closed \subseteq {p \in (1 .. now) \X (1 .. now) : p[1] < p[2]}

NestInv == NestTypeOK /\ InnermostFirst /\ ClosedOnce /\ WellNested
=============================================================================
