--------------------------- MODULE LoopNestProofs ---------------------------
(***************************************************************************)
(* Loops that end innermost first never overlap.                            *)
(***************************************************************************)
EXTENDS LoopNest, TLAPS

(* A step of the nest keeps NestInv: a new loop begins behind every loop     *)
(* that has ended, and the loops that end leave only outer ones open.        *)
LEMMA NestStep == NestInv /\ [NestNext]_nestVars => NestInv'
<1> SUFFICES ASSUME NestInv, [NestNext]_nestVars
             PROVE  NestInv'
  OBVIOUS
<1> USE DEF NestInv, NestTypeOK, InnermostFirst, ClosedOnce, WellNested
<1>1. CASE BeginLoop
  BY <1>1 DEF BeginLoop
<1>2. ASSUME NEW S \in SUBSET open, EndLoops(S)
      PROVE  NestInv'
  <2>1. NestTypeOK'
    BY <1>2 DEF EndLoops
  <2>2. \A p \in closed' : p \in closed \/ (p[1] \in S /\ p[2] = now + 1)
    BY <1>2 DEF EndLoops
  <2>3. \A p \in closed : p[1] \in 1 .. now /\ p[2] \in 1 .. now
    OBVIOUS
  <2>4. InnermostFirst'
    BY <1>2, <2>2, <2>3 DEF EndLoops
  <2>5. ClosedOnce'
    <3>1. ASSUME NEW p \in closed', NEW q \in closed', p[1] = q[1]
          PROVE  p = q
      BY <1>2, <2>2, <2>3, <3>1 DEF EndLoops
    <3>2. \A p \in closed' : p[1] \notin open'
      BY <1>2, <2>2 DEF EndLoops
    <3> QED
      BY <3>1, <3>2
  <2>6. WellNested'
    <3> SUFFICES ASSUME NEW p \in closed', NEW q \in closed',
                        p[1] < q[1], q[1] < p[2], p[2] < q[2]
                 PROVE  FALSE
      OBVIOUS
    <3>1. p \in closed
      BY <1>2, <2>2, <2>3
    <3> QED
      BY <1>2, <2>2, <3>1
  <2> QED
    BY <2>1, <2>4, <2>5, <2>6
<1>3. CASE OtherLine
  BY <1>3 DEF OtherLine
<1>4. CASE UNCHANGED nestVars
  BY <1>4 DEF nestVars
<1> QED
  BY <1>1, <1>2, <1>3, <1>4 DEF NestNext

(* In every run of the nest the loops that have ended are well nested.      *)
THEOREM NestIsWellNested == NestSpec => []NestInv
<1>1. NestInit => NestInv
  BY DEF NestInit, NestInv, NestTypeOK, InnermostFirst, ClosedOnce, WellNested
<1> QED
  BY <1>1, NestStep, PTL DEF NestSpec
=============================================================================
